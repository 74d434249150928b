---------------------------- MODULE MCRefreshRun ----------------------------
(* The refresh-all run of a window with two tabs, and the shortcuts of two    *)
(* profiles: one owns the window of the run and a popup, the other one owns   *)
(* a third window.  Earlier processes left nothing, an unreadable binding, or *)
(* a reload shortcut on the chord of refresh-all.                             *)
EXTENDS RefreshByShortcut, TLC

CONSTANTS mine, other

MyWindows == [w \in {"run", "popup", "other"} |-> IF w = "other" THEN other ELSE mine]
ShippedChords == <<"reload", "back", "forward", "toggle", "refresh">>
Nothing == [row \in Row |-> NoBinding]
LeftBehind ==
    {Nothing,
     [Nothing EXCEPT ![kIdcRefreshAllInitialUrls] = Unreadable],
     [Nothing EXCEPT ![kIdcReloadInitialUrl] = "refresh"]}
OneFlagOff ==
    LET all == {FeatureOf[row] : row \in Row}
    IN  {all} \cup {all \ {FeatureOf[row]} :
                      row \in {kIdcReloadInitialUrl, kIdcRefreshAllInitialUrls}}
Asked ==
    ({mine} \X {kIdcReloadInitialUrl} \X {"refresh", "spare"})
      \cup ({mine} \X {kIdcRefreshAllInitialUrls} \X {"refresh", "spare", "reload", "menu", "bare"})

Symmetry == Permutations(Tab)
=============================================================================
