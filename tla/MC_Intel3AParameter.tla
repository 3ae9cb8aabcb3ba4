------------------------- MODULE MC_Intel3AParameter -------------------------
(* A small instance of the whole translator: requests vary the AE mode,  *)
(* the AE and AWB speed modes and speeds, the AWB override mode and the  *)
(* AF mode and trigger; every other field is fixed.                      *)
EXTENDS Intel3AParameter

MCSpeedTime == [s \in SpeedModes |-> CASE s = "NORMAL" -> 3 [] s = "MID" -> 6 [] OTHER -> 9]
MCResolutions == {[width |-> 4, height |-> 4]}
MCSceneModes == {"scene_hw"}
MCPlatformExpRange == [s \in MCSceneModes |-> Range(100, 500)]
MCPlatformGainRange == [s \in MCSceneModes |-> Range(0, 20)]
MCExposureNum == [m \in BOOLEAN |-> IF m THEN 2 ELSE 1]
MCAwbGainSets == {[r |-> 128, g |-> 64, b |-> 32]}
MCColorGainSets == {<<2, 1, 1, 3>>}
MCEngineGains == <<5, 5, 5, 5>>
MCEngineRatios == {[r |-> Ratio(3, 2), b |-> Ratio(1, 2)]}

MCFpsRanges == {Range(25, 30)}
MCExpTimeRanges == {Range(0, 0)}
MCGainRanges == {Range(-20, -20)}
MCCctRanges == {[min |-> 6500, max |-> 3000]}
MCWhitePoints == {[x |-> 2, y |-> 1]}

Res == [width |-> 4, height |-> 4]

MkAe(mode, speedMode, speed) ==
  [aeMode |-> mode, aeDistributionPriority |-> "AUTO", manualExpTimeUs |-> 800,
   manualGain |-> 20, manualIso |-> 200, aeFpsRange |-> Range(25, 30), fps |-> 0,
   exposureTimeRange |-> Range(0, 0), sensitivityGainRange |-> Range(-20, -20),
   sceneMode |-> "scene_hw", multiExposure |-> FALSE, evShift |-> 0,
   aeConvergeSpeedMode |-> speedMode, aeConvergeSpeed |-> speed,
   blcAreaMode |-> "OFF", aeRegion |-> NoRegion, resolution |-> Res]

MkAwb(mode, speedMode, aeSpeed) ==
  [awbMode |-> mode, cctRange |-> [min |-> 6500, max |-> 3000],
   whitePoint |-> [x |-> 2, y |-> 1], resolution |-> Res,
   awbManualGain |-> [r |-> 128, g |-> 64, b |-> 32],
   awbGainShift |-> [r |-> 128, g |-> 64, b |-> 32],
   manualColorMatrix |-> "M1", manualColorGains |-> <<2, 1, 1, 3>>,
   awbConvergeSpeedMode |-> speedMode, awbConvergeSpeed |-> "MID",
   aeConvergeSpeed |-> aeSpeed]

MkAf(mode, trigger) ==
  [afMode |-> mode, afTrigger |-> trigger, afRegion |-> NoRegion,
   resolution |-> Res, focusDistance |-> 1, minFocusDistance |-> 5]

MCParamRequests ==
  {[ae |-> MkAe(am, asm, sp), awb |-> MkAwb(wm, wsm, sp), af |-> MkAf(af[1], af[2])] :
     am \in {"AUTO", "MANUAL"}, asm \in {"AIQ", "HAL"}, sp \in {"NORMAL", "MID"},
     wm \in {"AUTO", "MANUAL_GAIN", "MANUAL_COLOR_TRANSFORM"}, wsm \in {"AIQ", "HAL"},
     af \in {<<"AUTO", "IDLE">>, <<"CONTINUOUS_VIDEO", "START">>}}
=============================================================================
