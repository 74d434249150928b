---------------------------- MODULE MCEdgeImport ----------------------------
(* EdgeImport for TLC: what the driver asks for when no secret is picked, what it *)
(* asks for when the cookies are, so that the secret step goes on to the storage, *)
(* and both secrets by themselves, so that one answer tells of two carriers.      *)
EXTENDS EdgeImport

SomeRequests ==
    {MakeEdgeImportItemsPlan({}), MakeEdgeImportItemsPlan({"cookies"}),
     {"passwords", "cookies"}}
=============================================================================
