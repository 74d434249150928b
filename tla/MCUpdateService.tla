--------------------------- MODULE MCUpdateService ---------------------------
(* UpdateService with two profiles, two versions and an error that names both   *)
(* a failed signature and the installation.                                    *)
EXTENDS UpdateService

Texts == {{"sign", "install"}}
Lengths == {2}
Pieces == {1, 2}
=============================================================================
