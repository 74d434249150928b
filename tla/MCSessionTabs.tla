--------------------------- MODULE MCSessionTabs ----------------------------
(* SessionTabs on two tabs with a page, a file and the pages nobody opens a    *)
(* tab for; the navigations include one of every kind that is not captured.    *)
EXTENDS SessionTabs, TLC

CONSTANT p

WebPages == {p}
AllUrls == {p, File}

Plain(u, head) ==
    [url |-> u, head |-> head, primary |-> TRUE, committed |-> TRUE, sameDocument |-> FALSE,
     activation |-> FALSE, clientRedirect |-> FALSE, rendererInitiated |-> FALSE,
     onlyEntry |-> FALSE]

SomeNavigations ==
    {Plain(p, p), Plain(Ntp, p), Plain(File, File), Plain(Blank, Blank), Plain(p, Ntp),
     [Plain(p, p) EXCEPT !.primary = FALSE], [Plain(p, p) EXCEPT !.committed = FALSE],
     [Plain(p, p) EXCEPT !.sameDocument = TRUE], [Plain(p, p) EXCEPT !.activation = TRUE],
     [Plain(p, p) EXCEPT !.clientRedirect = TRUE],
     [Plain(p, p) EXCEPT !.rendererInitiated = TRUE],
     [Plain(p, p) EXCEPT !.rendererInitiated = TRUE, !.onlyEntry = TRUE]}

Symmetry == Permutations(Tab) \cup Permutations(Contents) \cup Permutations(Uid)
=============================================================================
