----------------------------- MODULE MCTabGroups -----------------------------
(* TabGroups on three groups.  The folders: one whose only sub-folder has two tabs,  *)
(* one with as many tabs as the prompt asks for, one with more than that, and one     *)
(* that does not qualify.                                                            *)
EXTENDS TabGroups

ThreeGroups == 1..3

SomeFolders == {[subs |-> <<0, 2>>, regular |-> TRUE],
                [subs |-> <<1, 1, 1>>, regular |-> TRUE],
                [subs |-> <<2, 2>>, regular |-> TRUE],
                [subs |-> <<1>>, regular |-> FALSE]}
=============================================================================
