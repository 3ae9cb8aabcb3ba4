---------------------------- MODULE MC_Intel3AAwb ----------------------------
(* Small instances of the AWB/colour component for TLC. *)
EXTENDS Intel3AAwb

MCSpeedTime == [s \in SpeedModes |-> CASE s = "NORMAL" -> 3 [] s = "MID" -> 6 [] OTHER -> 9]
MCResolutions == {[width |-> 4, height |-> 4]}
MCWindows == {[left |-> 1, top |-> 1, right |-> 3, bottom |-> 2]}
\* One preset stands for all of them: each maps to its own scene mode.
MCAwbPresets == {"DAYLIGHT"}
\* An unsorted CCT range (the code sorts it).
MCCctRanges == {[min |-> 6500, max |-> 3000]}
MCWhitePoints == {[x |-> 2, y |-> 1]}
\* Gains: neutral, and a warm set; the shift also takes the zero set.
MCAwbGainSets == {[r |-> 0, g |-> 0, b |-> 0], [r |-> 128, g |-> 64, b |-> 32]}
\* Colour gains: valid, and invalid (a zero channel).
MCColorGainSets == {<<2, 1, 1, 3>>, <<2, 0, 1, 3>>}
MCEngineGains == <<5, 5, 5, 5>>
MCEngineRatios == {[r |-> Ratio(3, 2), b |-> Ratio(1, 2)]}
====
