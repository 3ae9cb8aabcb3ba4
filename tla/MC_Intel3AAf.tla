---------------------------- MODULE MC_Intel3AAf ----------------------------
(* Model-checking instance of Intel3AAf: a valid and an empty AF window,  *)
(* focus distances below zero, at zero, inside and above the minimum      *)
(* focus distance, and a lens whose minimum focus distance is 0 or 5.     *)
EXTENDS Intel3AAf

MCFocusDistances == {-1, 0, 1, 2, 10}
MCMinFocusDistances == {0, 5}
MCWindows == {[left |-> 1, top |-> 1, right |-> 3, bottom |-> 2],
              [left |-> 2, top |-> 0, right |-> 2, bottom |-> 3]}
MCResolutions == {[width |-> 4, height |-> 4], [width |-> 8, height |-> 4]}
MCConvergeSpeeds == {"NORMAL", "MID", "LOW"}
MCSpeedTime == [s \in MCConvergeSpeeds |-> CASE s = "NORMAL" -> 3 [] s = "MID" -> 6 [] s = "LOW" -> 9]
=============================================================================
