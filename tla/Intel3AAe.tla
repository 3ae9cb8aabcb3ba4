------------------------------ MODULE Intel3AAe ------------------------------
(***************************************************************************)
(* The auto-exposure part of Intel3AParameter (Intel3AParameter.cpp):     *)
(* updateAeParameter() and the helpers it calls, setAeManualLimits(),     *)
(* setManualGain(), setManualIso() and setManualExposure().  The platform *)
(* ranges (PlatformData) are constants per scene mode; the 3A engine's    *)
(* calibration lookup in setAeManualLimits() is a nondeterministic        *)
(* outcome.  The frame use and flicker mode are one-to-one enum copies    *)
(* and are left out.                                                       *)
(***************************************************************************)
EXTENDS Intel3AUtils

CONSTANTS
  SceneModes,         \* camera_scene_mode_t values a request may carry
  PlatformExpRange,   \* getSupportAeExposureTimeRange: scene -> range or Unsupported
  PlatformGainRange,  \* getSupportAeGainRange: scene -> range (dB) or Unsupported
  Unsupported,        \* the platform has no range for this scene
  ExposureNum,        \* getExposureNum: multi-exposure case -> num_exposures
  MaxExposures,       \* length of the engine's per-exposure manual arrays
  BaseIso,            \* cmc.base_iso of the engine's calibration data
  IntMax,             \* INT_MAX, the bound of the ISO-limit conversion
  ExpTimes,           \* manualExpTimeUs values a request may carry
  Gains,              \* manualGain values (dB) a request may carry
  Isos,               \* manualIso values a request may carry
  FpsRanges,          \* aeFpsRange values a request may carry
  FpsValues,          \* fps values a request may carry
  ExpTimeRanges,      \* exposureTimeRange values a request may carry
  GainRanges,         \* sensitivityGainRange values (dB) a request may carry
  EvShifts,           \* evShift values a request may carry
  AeSpeedModes,       \* aeConvergeSpeedMode values a request may carry
  AePriorities,       \* aeDistributionPriority values a request may carry
  BlcAreaModes        \* blcAreaMode values a request may carry

Range(lo, hi) == [min |-> lo, max |-> hi]
Ranges(S) == [min : S, max : S]
Slots == 0 .. MaxExposures - 1

ASSUME AeAssumption ==
  /\ PlatformExpRange \in [SceneModes -> Ranges(Nat) \cup {Unsupported}]
  /\ PlatformGainRange \in [SceneModes -> Ranges(Nat) \cup {Unsupported}]
  /\ Unsupported \notin Ranges(Int)
  \* the platform's ranges are well formed
  /\ \A s \in SceneModes :
       /\ PlatformExpRange[s] # Unsupported =>
            PlatformExpRange[s].min <= PlatformExpRange[s].max
       /\ PlatformGainRange[s] # Unsupported =>
            PlatformGainRange[s].min <= PlatformGainRange[s].max
  /\ MaxExposures \in Nat \ {0}
  /\ ExposureNum \in [BOOLEAN -> 1 .. MaxExposures]
  /\ BaseIso \in Nat /\ IntMax \in Nat
  /\ ExpTimes \subseteq Int /\ Isos \subseteq Int /\ EvShifts \subseteq Int
  /\ FpsRanges \subseteq Ranges(Nat) /\ FpsValues \subseteq Nat
  /\ ExpTimeRanges \subseteq Ranges(Int) /\ GainRanges \subseteq Ranges(Int)
  \* gains are whole multiples of 20 dB, so 10^(dB/20) is an integer
  /\ Gains \subseteq Int
  /\ \A g \in Gains \cup {r.min : r \in GainRanges} \cup {r.max : r \in GainRanges} :
       g % 20 = 0
  /\ \A s \in SceneModes : PlatformGainRange[s] # Unsupported =>
       PlatformGainRange[s].min % 20 = 0 /\ PlatformGainRange[s].max % 20 = 0
  /\ AeSpeedModes \subseteq {"AIQ", "HAL"}
  /\ AePriorities \subseteq {"AUTO", "SHUTTER", "ISO", "APERTURE"}
  /\ BlcAreaModes \subseteq {"ON", "OFF"}

\* pow(10, n) for a whole exponent n >= 0.
Pow10[n \in Nat] == IF n = 0 THEN 1 ELSE 10 * Pow10[n - 1]
\* pow(10, gain / 20) for a gain (>= 0) that is a whole multiple of 20 dB.
DbToLinear(db) == Pow10[db \div 20]
\* convertdBGainToISO(sensitivityGain, baseIso).
ConvertDbGainToIso(db, baseIso) == DbToLinear(db) * baseIso

\* Outcomes of the calibration lookup in setAeManualLimits: no IntelCca
\* instance or a failing getCMC() ("unavailable"), or the base ISO ("ok").
CcaOutcomes == {"unavailable", "ok"}

AeRequests ==
  [aeMode : {"AUTO", "MANUAL"}, aeDistributionPriority : AePriorities,
   manualExpTimeUs : ExpTimes, manualGain : Gains, manualIso : Isos,
   aeFpsRange : FpsRanges, fps : FpsValues, exposureTimeRange : ExpTimeRanges,
   sensitivityGainRange : GainRanges, sceneMode : SceneModes,
   multiExposure : BOOLEAN, evShift : EvShifts,
   aeConvergeSpeedMode : AeSpeedModes, aeConvergeSpeed : ConvergeSpeeds,
   blcAreaMode : BlcAreaModes, aeRegion : Windows \cup {NoRegion},
   resolution : Resolutions]

\* The value of the history variable before the first request.
NoRequest == [none |-> TRUE]

VARIABLES
  aeParams,    \* mAeParams: the engine's AE input block
  aePerTicks,  \* mAePerTicks: run AE once every so many frames
  aeRequest    \* history: the request of the latest update (not code state)

aeVars == <<aeParams, aePerTicks, aeRequest>>

ZeroArray == [i \in Slots |-> 0]
\* CLEAR(mAeParams) zeroes the manual limits; initAeParameter leaves them.
ZeroLimits ==
  [frameTimeMin |-> 0, frameTimeMax |-> 0, expTimeMin |-> 0, expTimeMax |-> 0,
   isoMin |-> 0, isoMax |-> 0]

-----------------------------------------------------------------------------
\* The AE state after the constructor and init() (initAeParameter).
InitAe ==
  /\ aeParams = [numExposures |-> 1, limits |-> ZeroLimits,
                 distributionPriority |-> "AUTO",
                 manualExposureTime |-> ZeroArray, manualAnalogGain |-> ZeroArray,
                 manualIso |-> ZeroArray, evShift |-> 0, convergenceTime |-> -1,
                 exposureCoordinate |-> [x |-> 0, y |-> 0]]
  /\ aePerTicks = 1
  /\ aeRequest = NoRequest

\* init() (initAeParameter): the manual limits are not reset.
ReinitAe ==
  /\ aeParams' = [aeParams EXCEPT !.numExposures = 1, !.distributionPriority = "AUTO",
                    !.manualExposureTime = ZeroArray, !.manualAnalogGain = ZeroArray,
                    !.manualIso = ZeroArray, !.evShift = 0, !.convergenceTime = -1,
                    !.exposureCoordinate = [x |-> 0, y |-> 0]]
  /\ aePerTicks' = 1
  /\ aeRequest' = NoRequest

(* Fault variants, each defined before the operator it replaces in a     *)
(* mutation run.                                                           *)
ClampedRange_MaxUnclipped(req, plat, ok) ==
  IF ok /\ req.max >= req.min
  THEN IF plat # Unsupported
       THEN Range(Clip(req.min, plat.max, plat.min), req.max)
       ELSE req
  ELSE IF plat # Unsupported THEN plat ELSE Range(-1, -1)

ManualIsoArray_NoGuard(p, n) ==
  IF p.aeDistributionPriority = "SHUTTER" THEN ZeroArray
  ELSE [i \in Slots |-> IF i < n THEN p.manualIso ELSE 0]
ManualExposureArray_NoPriorityGuard(p, n) ==
  IF p.manualExpTimeUs <= 0 THEN ZeroArray
  ELSE LET plat == PlatformExpRange[p.sceneMode]
           t == IF plat # Unsupported THEN Clip(p.manualExpTimeUs, plat.max, plat.min)
                ELSE p.manualExpTimeUs
       IN  [i \in Slots |-> IF i < n - 1 THEN -1 ELSE IF i = n - 1 THEN t ELSE 0]

(***************************************************************************)
(* setAeManualLimits(param).                                               *)
(***************************************************************************)
\* The frame-time bounds: from the FPS range, else from the single FPS,
\* else left as they were.
FrameTimeLimits(p, lim) ==
  IF p.aeFpsRange.min > 0 /\ p.aeFpsRange.max >= p.aeFpsRange.min
  THEN [lim EXCEPT !.frameTimeMax = 1000000 \div p.aeFpsRange.min,
                   !.frameTimeMin = 1000000 \div p.aeFpsRange.max]
  ELSE IF p.fps > 0
  THEN [lim EXCEPT !.frameTimeMax = 1000000 \div p.fps,
                   !.frameTimeMin = 1000000 \div p.fps]
  ELSE lim

\* A requested range (valid when its min passes `ok`) clipped against the
\* platform's, the platform's alone, or {-1, -1}.  The max is clipped
\* against the already clipped min, as the code does.
ClampedRange(req, plat, ok) ==
  IF ok /\ req.max >= req.min
  THEN IF plat # Unsupported
       THEN LET lo == Clip(req.min, plat.max, plat.min)
            IN  Range(lo, Clip(req.max, plat.max, lo))
       ELSE req
  ELSE IF plat # Unsupported THEN plat ELSE Range(-1, -1)

ExpTimeLimitRange(p) ==
  ClampedRange(p.exposureTimeRange, PlatformExpRange[p.sceneMode],
               p.exposureTimeRange.min > 0)
GainLimitRange(p) ==
  ClampedRange(p.sensitivityGainRange, PlatformGainRange[p.sceneMode],
               p.sensitivityGainRange.min >= 0)

IsoLimitRange_MaxUnchecked(p, cca) ==
  LET g == GainLimitRange(p)
      isoMin == ConvertDbGainToIso(g.min, BaseIso)
      isoMax == ConvertDbGainToIso(g.max, BaseIso)
  IN  IF g.min >= 0 /\ g.max >= g.min /\ cca = "ok" /\ isoMin <= IntMax
      THEN Range(isoMin, isoMax) ELSE Range(-1, -1)

\* The ISO bounds: converted from the gain range when it is valid, the
\* calibration data is available and neither bound exceeds INT_MAX.
IsoLimitRange(p, cca) ==
  LET g == GainLimitRange(p)
      isoMin == ConvertDbGainToIso(g.min, BaseIso)
      isoMax == ConvertDbGainToIso(g.max, BaseIso)
  IN  IF g.min >= 0 /\ g.max >= g.min /\ cca = "ok"
         /\ isoMin <= IntMax /\ isoMax <= IntMax
      THEN Range(isoMin, isoMax) ELSE Range(-1, -1)

SetAeManualLimits(p, cca, lim) ==
  LET e == ExpTimeLimitRange(p)
      i == IsoLimitRange(p, cca)
  IN [FrameTimeLimits(p, lim) EXCEPT !.expTimeMin = e.min, !.expTimeMax = e.max,
                                     !.isoMin = i.min, !.isoMax = i.max]

(***************************************************************************)
(* The manual settings, applied in AE_MODE_MANUAL to the arrays cleared   *)
(* by the memsets: setManualGain, then setManualIso, then                 *)
(* setManualExposure; each returns early on an unset value or on the      *)
(* distribution priority that excludes it.                                *)
(***************************************************************************)
ManualGainArray(p, n) ==
  IF p.manualGain < 0 \/ p.aeDistributionPriority = "SHUTTER" THEN ZeroArray
  ELSE LET plat == PlatformGainRange[p.sceneMode]
           g == IF plat # Unsupported THEN Clip(p.manualGain, plat.max, plat.min)
                ELSE p.manualGain
       IN  [i \in Slots |-> IF i < n THEN DbToLinear(g) ELSE 0]

ManualIsoArray(p, n) ==
  IF p.manualIso <= 0 \/ p.aeDistributionPriority = "SHUTTER" THEN ZeroArray
  ELSE [i \in Slots |-> IF i < n THEN p.manualIso ELSE 0]

\* The exposure is clipped only when the platform has a range; it goes
\* to the last sub-exposure and the ones before it are marked unset (-1).
ManualExposureArray(p, n) ==
  IF p.manualExpTimeUs <= 0 \/ p.aeDistributionPriority = "ISO" THEN ZeroArray
  ELSE LET plat == PlatformExpRange[p.sceneMode]
           t == IF plat # Unsupported THEN Clip(p.manualExpTimeUs, plat.max, plat.min)
                ELSE p.manualExpTimeUs
       IN  [i \in Slots |-> IF i < n - 1 THEN -1 ELSE IF i = n - 1 THEN t ELSE 0]

\* The convergence mapping: the engine converges over a time in AIQ mode,
\* otherwise AE runs every 1, 30 or 60 frames.
PerTicks(speed) == CASE speed = "MID" -> 30 [] speed = "LOW" -> 60 [] OTHER -> 1

AePerTicks_AiqKept(p) ==
  IF p.aeConvergeSpeedMode = "AIQ" THEN aePerTicks ELSE PerTicks(p.aeConvergeSpeed)
\* AIQ mode runs AE every frame; HAL mode throttles by the AE speed.
AePerTicks(p) ==
  IF p.aeConvergeSpeedMode = "AIQ" THEN 1 ELSE PerTicks(p.aeConvergeSpeed)

\* The metering point: with BLC area mode on, the centre of the latest AE
\* region of positive area, in engine coordinates; otherwise cleared.
ExposureCoordinate(p) ==
  LET w == p.aeRegion
  IN  IF p.blcAreaMode = "ON" /\ w # NoRegion /\ w.right > w.left /\ w.bottom > w.top
      THEN ConvertToIaCoordinate(p.resolution,
             [x |-> w.left + (w.right - w.left) \div 2,
              y |-> w.top + (w.bottom - w.top) \div 2])
      ELSE [x |-> 0, y |-> 0]

(***************************************************************************)
(* updateAeParameter(param).                                               *)
(***************************************************************************)
UpdateAeParameter(p, cca) ==
  LET n == ExposureNum[p.multiExposure]
      manual == p.aeMode = "MANUAL"
  IN
  /\ aeParams' =
       [numExposures |-> n,
        limits |-> SetAeManualLimits(p, cca, aeParams.limits),
        distributionPriority |-> p.aeDistributionPriority,
        manualExposureTime |-> IF manual THEN ManualExposureArray(p, n) ELSE ZeroArray,
        manualAnalogGain |-> IF manual THEN ManualGainArray(p, n) ELSE ZeroArray,
        manualIso |-> IF manual THEN ManualIsoArray(p, n) ELSE ZeroArray,
        evShift |-> IF manual THEN aeParams.evShift ELSE p.evShift,
        convergenceTime |-> IF p.aeConvergeSpeedMode = "AIQ"
                            THEN ConvertSpeedModeToTime(p.aeConvergeSpeed) ELSE -1,
        exposureCoordinate |-> ExposureCoordinate(p)]
  /\ aePerTicks' = AePerTicks(p)
  /\ aeRequest' = p

NextAe ==
  \/ ReinitAe
  \/ \E p \in AeRequests, cca \in CcaOutcomes : UpdateAeParameter(p, cca)

SpecAe == InitAe /\ [][NextAe]_aeVars

-----------------------------------------------------------------------------
\* The manual limits block, and the whole AE input block.
AeLimitsType ==
  [{"frameTimeMin", "frameTimeMax", "expTimeMin", "expTimeMax", "isoMin", "isoMax"}
     -> Int]
AeParamsType ==
  [numExposures : 1 .. MaxExposures, limits : AeLimitsType,
   distributionPriority : AePriorities \cup {"AUTO"},
   manualExposureTime : [Slots -> Nat \cup {-1}],
   manualAnalogGain : [Slots -> Nat], manualIso : [Slots -> Nat],
   evShift : Int, convergenceTime : Int, exposureCoordinate : [x : Nat, y : Nat]]

\* Type invariant.
AeTypeOK ==
  /\ aeParams \in AeParamsType
  /\ aePerTicks \in {1, 30, 60}
  /\ aeRequest \in AeRequests \cup {NoRequest}

\* No manual value reaches the engine unless the latest request asked for
\* it in manual AE mode, its distribution priority allows it, and its
\* slot is one of the current request's exposures: the memsets and the
\* priority guards of setManualGain/Iso/Exposure keep values of earlier
\* frames, or of a larger exposure count, from leaking into this one.
ManualArraysFromLatestRequest ==
  aeRequest # NoRequest =>
    \A i \in Slots :
      /\ aeParams.manualExposureTime[i] # 0 =>
           /\ aeRequest.aeMode = "MANUAL" /\ aeRequest.manualExpTimeUs > 0
           /\ aeRequest.aeDistributionPriority # "ISO"
           /\ i < aeParams.numExposures
      /\ aeParams.manualAnalogGain[i] # 0 =>
           /\ aeRequest.aeMode = "MANUAL" /\ aeRequest.manualGain >= 0
           /\ aeRequest.aeDistributionPriority # "SHUTTER"
           /\ i < aeParams.numExposures
      /\ aeParams.manualIso[i] # 0 =>
           /\ aeRequest.aeMode = "MANUAL" /\ aeRequest.manualIso > 0
           /\ aeRequest.aeDistributionPriority # "SHUTTER"
           /\ i < aeParams.numExposures

\* Where the platform reports a range for the request's scene mode, the
\* exposure-time limits and the ISO limits lie inside it, ordered min <=
\* max, whatever range the request asked for (setAeManualLimits' clipping,
\* whose second CLIP bounds the max by the already clipped min).
ManualLimitsWithinPlatform ==
  aeRequest # NoRequest =>
    LET lim == aeParams.limits
        pe == PlatformExpRange[aeRequest.sceneMode]
        pg == PlatformGainRange[aeRequest.sceneMode]
    IN  /\ pe # Unsupported =>
             pe.min <= lim.expTimeMin /\ lim.expTimeMin <= lim.expTimeMax
             /\ lim.expTimeMax <= pe.max
        /\ pg # Unsupported /\ lim.isoMin # -1 =>
             ConvertDbGainToIso(pg.min, BaseIso) <= lim.isoMin
             /\ lim.isoMin <= lim.isoMax
             /\ lim.isoMax <= ConvertDbGainToIso(pg.max, BaseIso)

\* The ISO limits are set together or not at all, and never past INT_MAX:
\* the overflow check of setAeManualLimits covers both bounds.
IsoLimitsPaired ==
  aeRequest # NoRequest =>
    /\ (aeParams.limits.isoMin = -1) <=> (aeParams.limits.isoMax = -1)
    /\ aeParams.limits.isoMin # -1 =>
         0 <= aeParams.limits.isoMin /\ aeParams.limits.isoMin <= aeParams.limits.isoMax
         /\ aeParams.limits.isoMax <= IntMax

\* Spec section 4.2: a bound for which the request gives no value is left
\* at -1, "unbounded"; in particular a request with neither an FPS range
\* nor an FPS leaves the frame-time limits unbounded.
FrameTimeUnboundedWithoutFps ==
  (/\ aeRequest # NoRequest
   /\ ~(aeRequest.aeFpsRange.min > 0 /\ aeRequest.aeFpsRange.max >= aeRequest.aeFpsRange.min)
   /\ aeRequest.fps <= 0) =>
    aeParams.limits.frameTimeMin = -1 /\ aeParams.limits.frameTimeMax = -1

\* Spec section 4.2: a manual ISO that is applied "overwrites the
\* analog-gain array for every sub-exposure slot (ISO wins over gain when
\* both are requested and permitted)": no slot sends the engine a manual
\* ISO and a manual analog gain together.
IsoOverridesGain ==
  \A i \in Slots :
    aeParams.manualIso[i] # 0 => aeParams.manualAnalogGain[i] = 0

=============================================================================
