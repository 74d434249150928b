---------------------------- MODULE MCTabStripPin ----------------------------
(* TabStripPin with a stored placement that is out of range, a horizontal and  *)
(* a vertical one, and two other lock holders.                                 *)
EXTENDS TabStripPin

StoredValues == {-1, kTop, kRight}
=============================================================================
