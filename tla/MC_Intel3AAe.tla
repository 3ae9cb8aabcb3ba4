---------------------------- MODULE MC_Intel3AAe ----------------------------
(* Model-checking instances of Intel3AAe.  One scene mode has platform    *)
(* ranges (exposure 100..500 us, gain 0..20 dB) and one has none; a       *)
(* request is single or multi exposure (1 or 2 sub-exposures).  INT_MAX   *)
(* is scaled down to 5000 so that a 40 dB gain range (ISO 10000 at base   *)
(* ISO 100) overflows it as a large gain range overflows the real bound.  *)
(* Two request domains: one varies the manual values, one the limits.     *)
EXTENDS Intel3AAe

MCSceneModes == {"scene_hw", "scene_none"}
MCPlatformExpRange == [s \in MCSceneModes |->
  IF s = "scene_hw" THEN Range(100, 500) ELSE Unsupported]
MCPlatformGainRange == [s \in MCSceneModes |->
  IF s = "scene_hw" THEN Range(0, 20) ELSE Unsupported]
MCExposureNum == [m \in BOOLEAN |-> IF m THEN 2 ELSE 1]
MCConvergeSpeeds == {"NORMAL", "MID", "LOW"}
MCSpeedTime == [s \in MCConvergeSpeeds |->
  CASE s = "NORMAL" -> 3 [] s = "MID" -> 6 [] s = "LOW" -> 9]
MCWindows == {[left |-> 1, top |-> 1, right |-> 3, bottom |-> 2]}
MCResolutions == {[width |-> 4, height |-> 4]}

\* Manual values: every guard of setManualGain/Iso/Exposure, both
\* exposure counts, fixed limits inputs.
ManualExpTimes == {0, 800}
ManualGains == {-20, 40}
ManualIsos == {-1, 0, 200}
ManualPriorities == {"AUTO", "SHUTTER", "ISO"}
FixedFpsRanges == {Range(25, 30)}
FixedFpsValues == {0}
FixedExpTimeRanges == {Range(0, 0)}
FixedGainRanges == {Range(-20, -20)}

\* Limits: valid and invalid requested ranges, FPS range, single FPS or
\* none, with and without platform ranges; fixed manual inputs.
LimitExpTimes == {0}
LimitGains == {-20}
LimitIsos == {0}
LimitPriorities == {"AUTO"}
LimitFpsRanges == {Range(0, 0), Range(25, 30)}
LimitFpsValues == {0, 30}
LimitExpTimeRanges == {Range(0, 0), Range(50, 300), Range(200, 900)}
LimitGainRanges == {Range(-20, -20), Range(0, 40)}
=============================================================================
