--------------------------- MODULE Intel3AAeProofs ---------------------------
(***************************************************************************)
(* Proofs about the AE part of Intel3AParameter, for every choice of the  *)
(* constants: one step per operation, init() and updateAeParameter().     *)
(***************************************************************************)
EXTENDS Intel3AAe, WellFoundedInduction, TLAPS

\* The steps of the AE component, named for the proofs.
LEMMA AeStepCases ==
  ASSUME [NextAe]_aeVars
  PROVE  \/ ReinitAe
         \/ \E p \in AeRequests, cca \in CcaOutcomes : UpdateAeParameter(p, cca)
         \/ UNCHANGED aeVars
  BY DEF NextAe

\* The exposure count chosen by updateAeParameter is a positive number.
LEMMA ExposureNumRange ==
  ASSUME NEW p \in AeRequests
  PROVE  ExposureNum[p.multiExposure] \in 1 .. MaxExposures
  <1>1. p.multiExposure \in BOOLEAN
    BY DEF AeRequests
  <1>2. QED
    BY <1>1, AeAssumption

\* Each manual array updateAeParameter writes is non-zero only at a slot
\* below the exposure count, and only when its setter's guards passed.
LEMMA ManualArraysGuarded ==
  ASSUME NEW p \in AeRequests, NEW n \in 1 .. MaxExposures, NEW i \in Slots
  PROVE  /\ ManualExposureArray(p, n)[i] # 0 =>
              p.manualExpTimeUs > 0 /\ p.aeDistributionPriority # "ISO" /\ i < n
         /\ ManualGainArray(p, n)[i] # 0 =>
              p.manualGain >= 0 /\ p.aeDistributionPriority # "SHUTTER" /\ i < n
         /\ ManualIsoArray(p, n)[i] # 0 =>
              p.manualIso > 0 /\ p.aeDistributionPriority # "SHUTTER" /\ i < n
  <1>1. p.manualExpTimeUs \in Int /\ p.manualGain \in Int /\ p.manualIso \in Int
    BY AeAssumption DEF AeRequests
  <1>2. ManualExposureArray(p, n)[i] # 0 =>
          p.manualExpTimeUs > 0 /\ p.aeDistributionPriority # "ISO" /\ i < n
    BY <1>1 DEF ManualExposureArray, ZeroArray, Slots
  <1>3. ManualGainArray(p, n)[i] # 0 =>
          p.manualGain >= 0 /\ p.aeDistributionPriority # "SHUTTER" /\ i < n
    BY <1>1 DEF ManualGainArray, ZeroArray, Slots
  <1>4. ManualIsoArray(p, n)[i] # 0 =>
          p.manualIso > 0 /\ p.aeDistributionPriority # "SHUTTER" /\ i < n
    BY <1>1 DEF ManualIsoArray, ZeroArray, Slots
  <1>5. QED
    BY <1>2, <1>3, <1>4

\* No manual exposure, gain or ISO reaches the engine unless the latest
\* request asked for it in manual mode, its distribution priority allows
\* it, and its slot is within the request's exposure count: the memsets
\* and setter guards of updateAeParameter hold for every instance.
THEOREM AeManualArraysFromLatestRequest == SpecAe => []ManualArraysFromLatestRequest
<1> DEFINE Inv == ManualArraysFromLatestRequest
<1>1. InitAe => Inv
  BY DEF InitAe, Inv, ManualArraysFromLatestRequest
<1>2. Inv /\ [NextAe]_aeVars => Inv'
  <2> SUFFICES ASSUME Inv, [NextAe]_aeVars PROVE Inv'
    OBVIOUS
  <2>1. CASE ReinitAe
    BY <2>1 DEF ReinitAe, Inv, ManualArraysFromLatestRequest
  <2>2. ASSUME NEW p \in AeRequests, NEW cca \in CcaOutcomes, UpdateAeParameter(p, cca)
        PROVE  Inv'
    <3> DEFINE n == ExposureNum[p.multiExposure]
    <3>1. n \in 1 .. MaxExposures
      BY ExposureNumRange
    <3>2. p # NoRequest
      BY DEF AeRequests, NoRequest
    <3>3. ASSUME NEW i \in Slots
          PROVE  /\ aeParams'.manualExposureTime[i] # 0 =>
                      /\ aeRequest'.aeMode = "MANUAL" /\ aeRequest'.manualExpTimeUs > 0
                      /\ aeRequest'.aeDistributionPriority # "ISO"
                      /\ i < aeParams'.numExposures
                 /\ aeParams'.manualAnalogGain[i] # 0 =>
                      /\ aeRequest'.aeMode = "MANUAL" /\ aeRequest'.manualGain >= 0
                      /\ aeRequest'.aeDistributionPriority # "SHUTTER"
                      /\ i < aeParams'.numExposures
                 /\ aeParams'.manualIso[i] # 0 =>
                      /\ aeRequest'.aeMode = "MANUAL" /\ aeRequest'.manualIso > 0
                      /\ aeRequest'.aeDistributionPriority # "SHUTTER"
                      /\ i < aeParams'.numExposures
      <4>1. ZeroArray[i] = 0
        BY DEF ZeroArray
      <4>2. QED
        BY <2>2, <3>1, <3>3, <4>1, ManualArraysGuarded DEF UpdateAeParameter
    <3>4. QED
      BY <3>2, <3>3, <2>2 DEF UpdateAeParameter, Inv, ManualArraysFromLatestRequest
  <2>3. CASE UNCHANGED aeVars
    BY <2>3 DEF aeVars, Inv, ManualArraysFromLatestRequest
  <2>4. QED
    BY <2>1, <2>2, <2>3, AeStepCases
<1>3. QED
  BY <1>1, <1>2, PTL DEF SpecAe


-----------------------------------------------------------------------------
(***************************************************************************)
(* pow(10, n).  The defining equation of the recursive function comes     *)
(* from NatInductiveDef; its range and its monotonicity are proved by     *)
(* the least-number principle: a least counterexample m would be          *)
(* positive, and the claim for m - 1 gives it for m.                      *)
(***************************************************************************)
LEMMA Pow10DefConclusion == NatInductiveDefConclusion(Pow10, 1, LAMBDA v, n : 10 * v)
<1>1. NatInductiveDefHypothesis(Pow10, 1, LAMBDA v, n : 10 * v)
  BY DEF NatInductiveDefHypothesis, Pow10
<1>2. QED
  BY <1>1, NatInductiveDef

\* The defining equation of Pow10.
LEMMA Pow10Def ==
  \A n \in Nat : Pow10[n] = IF n = 0 THEN 1 ELSE 10 * Pow10[n - 1]
  BY Pow10DefConclusion DEF NatInductiveDefConclusion

\* Every power of ten is a positive natural number.
LEMMA Pow10Positive == \A n \in Nat : Pow10[n] \in Nat /\ Pow10[n] >= 1
<1> DEFINE T == {n \in Nat : ~(Pow10[n] \in Nat /\ Pow10[n] >= 1)}
<1> SUFFICES ASSUME T # {} PROVE FALSE
  OBVIOUS
<1>1. PICK m \in T : \A k \in T : ~(<<k, m>> \in OpToRel(<, Nat))
  BY NatLessThanWellFounded, WFMin
<1>2. m \in Nat /\ ~(Pow10[m] \in Nat /\ Pow10[m] >= 1)
  BY <1>1 DEF T
<1>3. m # 0
  BY <1>2, Pow10Def
<1>4. m - 1 \in Nat /\ <<m - 1, m>> \in OpToRel(<, Nat)
  BY <1>2, <1>3 DEF OpToRel
<1>5. Pow10[m - 1] \in Nat /\ Pow10[m - 1] >= 1
  BY <1>1, <1>4 DEF T
<1>6. Pow10[m] = 10 * Pow10[m - 1]
  BY <1>2, <1>3, Pow10Def
<1>7. QED
  BY <1>2, <1>5, <1>6

\* A larger exponent gives a power of ten at least as large.
LEMMA Pow10Monotone ==
  \A b \in Nat : \A a \in 0 .. b : Pow10[a] <= Pow10[b]
<1> DEFINE T == {b \in Nat : ~\A a \in 0 .. b : Pow10[a] <= Pow10[b]}
<1> SUFFICES ASSUME T # {} PROVE FALSE
  OBVIOUS
<1>1. PICK m \in T : \A k \in T : ~(<<k, m>> \in OpToRel(<, Nat))
  BY NatLessThanWellFounded, WFMin
<1>2. m \in Nat /\ ~\A a \in 0 .. m : Pow10[a] <= Pow10[m]
  BY <1>1 DEF T
<1>3. m # 0
  BY <1>2, Pow10Positive
<1>4. m - 1 \in Nat /\ <<m - 1, m>> \in OpToRel(<, Nat)
  BY <1>2, <1>3 DEF OpToRel
<1>5. \A a \in 0 .. m - 1 : Pow10[a] <= Pow10[m - 1]
  BY <1>1, <1>4 DEF T
<1>6. Pow10[m] = 10 * Pow10[m - 1] /\ Pow10[m - 1] \in Nat
  BY <1>2, <1>3, <1>4, Pow10Def, Pow10Positive
<1>7. \A a \in 0 .. m : Pow10[a] \in Nat
  BY Pow10Positive
<1>8. QED
  BY <1>2, <1>5, <1>6, <1>7

\* pow(10, gain / 20) of a gain >= 0 is a natural number >= 1, and it
\* grows with the gain.
LEMMA DbToLinearFacts ==
  ASSUME NEW a \in Nat, NEW b \in Nat
  PROVE  /\ DbToLinear(a) \in Nat /\ DbToLinear(a) >= 1
         /\ a <= b => DbToLinear(a) <= DbToLinear(b)
<1>1. a \div 20 \in Nat /\ b \div 20 \in Nat /\ (a <= b => a \div 20 <= b \div 20)
  OBVIOUS
<1>2. QED
  BY <1>1, Pow10Positive, Pow10Monotone DEF DbToLinear

-----------------------------------------------------------------------------
\* CLIP(a, max, min) of integers with min <= max lies in [min, max].
LEMMA ClipWithin ==
  ASSUME NEW a \in Int, NEW hi \in Int, NEW lo \in Int, lo <= hi
  PROVE  Clip(a, hi, lo) \in lo .. hi
  BY DEF Clip

\* setAeManualLimits' range clipping gives an integer range, and, where
\* the platform has a range, one inside it with min <= max.
LEMMA ClampedRangeFacts ==
  ASSUME NEW req \in Ranges(Int), NEW plat \in Ranges(Nat) \cup {Unsupported},
         NEW ok \in BOOLEAN,
         plat # Unsupported => plat.min <= plat.max
  PROVE  /\ ClampedRange(req, plat, ok) \in Ranges(Int)
         /\ plat # Unsupported =>
              /\ plat.min <= ClampedRange(req, plat, ok).min
              /\ ClampedRange(req, plat, ok).min <= ClampedRange(req, plat, ok).max
              /\ ClampedRange(req, plat, ok).max <= plat.max
<1>1. CASE plat = Unsupported
  BY <1>1 DEF ClampedRange, Range, Ranges
<1>2. CASE plat # Unsupported
  <2>1. plat.min \in Int /\ plat.max \in Int /\ plat.min <= plat.max
    BY <1>2 DEF Ranges
  <2>2. req.min \in Int /\ req.max \in Int
    BY DEF Ranges
  <2>3. Clip(req.min, plat.max, plat.min) \in plat.min .. plat.max
    BY <2>1, <2>2, ClipWithin
  <2>4. ASSUME NEW lo \in plat.min .. plat.max
        PROVE  Clip(req.max, plat.max, lo) \in lo .. plat.max
    <3>1. lo \in Int /\ lo <= plat.max
      BY <2>1
    <3>2. QED
      BY <2>1, <2>2, <3>1, ClipWithin
  <2>5. QED
    BY <1>2, <2>1, <2>3, <2>4 DEF ClampedRange, Range, Ranges
<1>3. QED
  BY <1>1, <1>2


-----------------------------------------------------------------------------
\* The platform's range for a scene mode is a well-formed range or none.
LEMMA PlatformRanges ==
  ASSUME NEW s \in SceneModes
  PROVE  /\ PlatformExpRange[s] \in Ranges(Nat) \cup {Unsupported}
         /\ PlatformGainRange[s] \in Ranges(Nat) \cup {Unsupported}
         /\ PlatformExpRange[s] # Unsupported =>
              PlatformExpRange[s].min <= PlatformExpRange[s].max
         /\ PlatformGainRange[s] # Unsupported =>
              PlatformGainRange[s].min <= PlatformGainRange[s].max
  BY AeAssumption

\* The fields of a request that updateAeParameter reads.
LEMMA AeRequestFields ==
  ASSUME NEW p \in AeRequests
  PROVE  /\ p.manualExpTimeUs \in Int /\ p.manualGain \in Int /\ p.manualIso \in Int
         /\ p.aeFpsRange \in Ranges(Nat) /\ p.fps \in Nat
         /\ p.exposureTimeRange \in Ranges(Int)
         /\ p.sensitivityGainRange \in Ranges(Int)
         /\ p.sceneMode \in SceneModes /\ p.evShift \in Int
         /\ p.aeDistributionPriority \in AePriorities
         /\ p.aeConvergeSpeed \in ConvergeSpeeds
         /\ p.aeRegion \in Windows \cup {NoRegion} /\ p.resolution \in Resolutions
  BY AeAssumption DEF AeRequests

\* Setting two integer bounds keeps the limits block an integer record.
LEMMA LimitsExcept ==
  ASSUME NEW lim \in AeLimitsType, NEW x \in Int, NEW y \in Int
  PROVE  /\ [lim EXCEPT !.frameTimeMax = x, !.frameTimeMin = y] \in AeLimitsType
         /\ [lim EXCEPT !.expTimeMin = x, !.expTimeMax = y] \in AeLimitsType
         /\ [lim EXCEPT !.isoMin = x, !.isoMax = y] \in AeLimitsType
  BY DEF AeLimitsType

\* The frame-time bounds stay integers.
LEMMA FrameTimeLimitsType ==
  ASSUME NEW p \in AeRequests, NEW lim \in AeLimitsType
  PROVE  FrameTimeLimits(p, lim) \in AeLimitsType
<1>1. p.aeFpsRange \in Ranges(Nat) /\ p.fps \in Nat
  BY AeRequestFields
<1>2. CASE p.aeFpsRange.min > 0 /\ p.aeFpsRange.max >= p.aeFpsRange.min
  <2> DEFINE tMax == 1000000 \div p.aeFpsRange.min
             tMin == 1000000 \div p.aeFpsRange.max
  <2>1. tMax \in Int /\ tMin \in Int
    BY <1>1, <1>2 DEF Ranges
  <2>2. FrameTimeLimits(p, lim) = [lim EXCEPT !.frameTimeMax = tMax, !.frameTimeMin = tMin]
    BY <1>2 DEF FrameTimeLimits
  <2> HIDE DEF tMax, tMin
  <2>3. [lim EXCEPT !.frameTimeMax = tMax, !.frameTimeMin = tMin] \in AeLimitsType
    BY <2>1, LimitsExcept
  <2>4. QED
    BY <2>2, <2>3
<1>3. CASE ~(p.aeFpsRange.min > 0 /\ p.aeFpsRange.max >= p.aeFpsRange.min) /\ p.fps > 0
  <2> DEFINE t == 1000000 \div p.fps
  <2>1. t \in Int
    BY <1>1, <1>3
  <2>2. FrameTimeLimits(p, lim) = [lim EXCEPT !.frameTimeMax = t, !.frameTimeMin = t]
    BY <1>3 DEF FrameTimeLimits
  <2> HIDE DEF t
  <2>3. [lim EXCEPT !.frameTimeMax = t, !.frameTimeMin = t] \in AeLimitsType
    BY <2>1, LimitsExcept
  <2>4. QED
    BY <2>2, <2>3
<1>4. CASE ~(p.aeFpsRange.min > 0 /\ p.aeFpsRange.max >= p.aeFpsRange.min) /\ ~(p.fps > 0)
  BY <1>4 DEF FrameTimeLimits
<1>5. QED
  BY <1>2, <1>3, <1>4

\* The gain range setAeManualLimits converts to ISO: the requested range
\* clipped against the platform's, the platform's, or {-1, -1}.
LEMMA GainLimitRangeFacts ==
  ASSUME NEW p \in AeRequests
  PROVE  /\ GainLimitRange(p) \in Ranges(Int)
         /\ PlatformGainRange[p.sceneMode] # Unsupported =>
              /\ PlatformGainRange[p.sceneMode].min <= GainLimitRange(p).min
              /\ GainLimitRange(p).min <= GainLimitRange(p).max
              /\ GainLimitRange(p).max <= PlatformGainRange[p.sceneMode].max
<1>1. p.sensitivityGainRange \in Ranges(Int) /\ p.sceneMode \in SceneModes
  BY AeRequestFields
<1>2. (p.sensitivityGainRange.min >= 0) \in BOOLEAN
  OBVIOUS
<1>3. QED
  BY <1>1, <1>2, PlatformRanges, ClampedRangeFacts DEF GainLimitRange

\* The same for the exposure-time range.
LEMMA ExpTimeLimitRangeFacts ==
  ASSUME NEW p \in AeRequests
  PROVE  /\ ExpTimeLimitRange(p) \in Ranges(Int)
         /\ PlatformExpRange[p.sceneMode] # Unsupported =>
              /\ PlatformExpRange[p.sceneMode].min <= ExpTimeLimitRange(p).min
              /\ ExpTimeLimitRange(p).min <= ExpTimeLimitRange(p).max
              /\ ExpTimeLimitRange(p).max <= PlatformExpRange[p.sceneMode].max
<1>1. p.exposureTimeRange \in Ranges(Int) /\ p.sceneMode \in SceneModes
  BY AeRequestFields
<1>2. (p.exposureTimeRange.min > 0) \in BOOLEAN
  OBVIOUS
<1>3. QED
  BY <1>1, <1>2, PlatformRanges, ClampedRangeFacts DEF ExpTimeLimitRange

\* The ISO limits are {-1, -1}, or the ISO values of a gain range
\* 0 <= min <= max, ordered and within INT_MAX.
LEMMA IsoLimitRangeFacts ==
  ASSUME NEW p \in AeRequests, NEW cca
  PROVE  \/ IsoLimitRange(p, cca) = Range(-1, -1)
         \/ /\ 0 <= GainLimitRange(p).min
            /\ GainLimitRange(p).min <= GainLimitRange(p).max
            /\ IsoLimitRange(p, cca) =
                 Range(ConvertDbGainToIso(GainLimitRange(p).min, BaseIso),
                       ConvertDbGainToIso(GainLimitRange(p).max, BaseIso))
            /\ IsoLimitRange(p, cca).min \in Nat
            /\ IsoLimitRange(p, cca).max \in Nat
            /\ IsoLimitRange(p, cca).min <= IsoLimitRange(p, cca).max
            /\ IsoLimitRange(p, cca).max <= IntMax
<1> DEFINE g == GainLimitRange(p)
<1>1. g \in Ranges(Int)
  BY GainLimitRangeFacts
<1>2. CASE g.min >= 0 /\ g.max >= g.min /\ cca = "ok"
           /\ ConvertDbGainToIso(g.min, BaseIso) <= IntMax
           /\ ConvertDbGainToIso(g.max, BaseIso) <= IntMax
  <2>1. g.min \in Nat /\ g.max \in Nat /\ BaseIso \in Nat
    BY <1>1, <1>2, AeAssumption DEF Ranges
  <2>2. /\ DbToLinear(g.min) \in Nat /\ DbToLinear(g.max) \in Nat
        /\ DbToLinear(g.min) <= DbToLinear(g.max)
    BY <1>2, <2>1, DbToLinearFacts
  <2>3. DbToLinear(g.min) * BaseIso \in Nat /\ DbToLinear(g.max) * BaseIso \in Nat
        /\ DbToLinear(g.min) * BaseIso <= DbToLinear(g.max) * BaseIso
    BY <2>1, <2>2
  <2>4. QED
    BY <1>2, <2>3 DEF IsoLimitRange, ConvertDbGainToIso, Range
<1>3. CASE ~(g.min >= 0 /\ g.max >= g.min /\ cca = "ok"
             /\ ConvertDbGainToIso(g.min, BaseIso) <= IntMax
             /\ ConvertDbGainToIso(g.max, BaseIso) <= IntMax)
  BY <1>3 DEF IsoLimitRange
<1>4. QED
  BY <1>2, <1>3

\* setAeManualLimits keeps the limits block an integer record.
LEMMA SetAeManualLimitsType ==
  ASSUME NEW p \in AeRequests, NEW cca, NEW lim \in AeLimitsType
  PROVE  SetAeManualLimits(p, cca, lim) \in AeLimitsType
<1>1. ExpTimeLimitRange(p) \in Ranges(Int)
  BY ExpTimeLimitRangeFacts
<1>2. IsoLimitRange(p, cca) \in Ranges(Int)
  BY IsoLimitRangeFacts DEF Range, Ranges
<1>3. QED
  <2> DEFINE e == ExpTimeLimitRange(p)
             i == IsoLimitRange(p, cca)
             f == FrameTimeLimits(p, lim)
  <2>1. f \in AeLimitsType /\ e.min \in Int /\ e.max \in Int
        /\ i.min \in Int /\ i.max \in Int
    BY <1>1, <1>2, FrameTimeLimitsType DEF Ranges
  <2>2. [f EXCEPT !.expTimeMin = e.min, !.expTimeMax = e.max] \in AeLimitsType
    BY <2>1, LimitsExcept
  <2>3. [[f EXCEPT !.expTimeMin = e.min, !.expTimeMax = e.max]
           EXCEPT !.isoMin = i.min, !.isoMax = i.max] \in AeLimitsType
    BY <2>1, <2>2, LimitsExcept
  <2>4. SetAeManualLimits(p, cca, lim)
          = [[f EXCEPT !.expTimeMin = e.min, !.expTimeMax = e.max]
               EXCEPT !.isoMin = i.min, !.isoMax = i.max]
    BY DEF SetAeManualLimits
  <2>5. QED
    BY <2>3, <2>4


\* A value clipped against a platform range, or left alone when there is
\* none, stays a natural number when it starts as one.
LEMMA ClipToPlatform ==
  ASSUME NEW v \in Nat, NEW plat \in Ranges(Nat) \cup {Unsupported},
         plat # Unsupported => plat.min <= plat.max
  PROVE  (IF plat # Unsupported THEN Clip(v, plat.max, plat.min) ELSE v) \in Nat
<1>1. CASE plat # Unsupported
  <2>1. plat.min \in Nat /\ plat.max \in Nat /\ plat.min <= plat.max
    BY <1>1 DEF Ranges
  <2>2. Clip(v, plat.max, plat.min) \in plat.min .. plat.max
    BY <2>1 DEF Clip
  <2>3. QED
    BY <1>1, <2>1, <2>2
<1>2. QED
  BY <1>1

\* The three manual arrays of setManualGain, setManualIso and
\* setManualExposure are well typed: gains and ISOs are natural numbers,
\* exposure slots are natural numbers or -1 (unset).
LEMMA ManualArraysType ==
  ASSUME NEW p \in AeRequests, NEW n \in 1 .. MaxExposures
  PROVE  /\ ManualGainArray(p, n) \in [Slots -> Nat]
         /\ ManualIsoArray(p, n) \in [Slots -> Nat]
         /\ ManualExposureArray(p, n) \in [Slots -> Nat \cup {-1}]
<1>1. p.manualExpTimeUs \in Int /\ p.manualGain \in Int /\ p.manualIso \in Int
      /\ p.sceneMode \in SceneModes
  BY AeRequestFields
<1>2. ZeroArray \in [Slots -> Nat]
  BY DEF ZeroArray
<1>3. ManualGainArray(p, n) \in [Slots -> Nat]
  <2>1. CASE p.manualGain < 0 \/ p.aeDistributionPriority = "SHUTTER"
    BY <1>2, <2>1 DEF ManualGainArray
  <2>2. CASE ~(p.manualGain < 0 \/ p.aeDistributionPriority = "SHUTTER")
    <3> DEFINE plat == PlatformGainRange[p.sceneMode]
               g == IF plat # Unsupported THEN Clip(p.manualGain, plat.max, plat.min)
                    ELSE p.manualGain
    <3>1. g \in Nat
      BY <1>1, <2>2, PlatformRanges, ClipToPlatform
    <3>2. DbToLinear(g) \in Nat
      BY <3>1, DbToLinearFacts
    <3>3. ManualGainArray(p, n) = [i \in Slots |-> IF i < n THEN DbToLinear(g) ELSE 0]
      BY <2>2 DEF ManualGainArray
    <3>4. QED
      BY <3>2, <3>3
  <2>3. QED
    BY <2>1, <2>2
<1>4. ManualIsoArray(p, n) \in [Slots -> Nat]
  BY <1>1, <1>2 DEF ManualIsoArray
<1>5. ManualExposureArray(p, n) \in [Slots -> Nat \cup {-1}]
  <2>1. CASE p.manualExpTimeUs <= 0 \/ p.aeDistributionPriority = "ISO"
    BY <1>2, <2>1 DEF ManualExposureArray
  <2>2. CASE ~(p.manualExpTimeUs <= 0 \/ p.aeDistributionPriority = "ISO")
    <3> DEFINE plat == PlatformExpRange[p.sceneMode]
               t == IF plat # Unsupported THEN Clip(p.manualExpTimeUs, plat.max, plat.min)
                    ELSE p.manualExpTimeUs
    <3>1. t \in Nat
      BY <1>1, <2>2, PlatformRanges, ClipToPlatform
    <3>2. ManualExposureArray(p, n)
            = [i \in Slots |-> IF i < n - 1 THEN -1 ELSE IF i = n - 1 THEN t ELSE 0]
      BY <2>2 DEF ManualExposureArray
    <3>3. QED
      BY <3>1, <3>2
  <2>3. QED
    BY <2>1, <2>2
<1>6. QED
  BY <1>3, <1>4, <1>5

\* A frame point maps to engine coordinates >= 0.
LEMMA IaCoordinateType ==
  ASSUME NEW res \in Resolutions, NEW c \in [x : Nat, y : Nat]
  PROVE  ConvertToIaCoordinate(res, c) \in [x : Nat, y : Nat]
<1>1. res.width \in Nat \ {0} /\ res.height \in Nat \ {0} /\ IaCoordMax \in Nat
  BY UtilsAssumption
<1>2. QED
  BY <1>1 DEF ConvertToIaCoordinate, ToIa

\* The metering point is the engine-coordinate centre of a region, or 0.
LEMMA ExposureCoordinateType ==
  ASSUME NEW p \in AeRequests
  PROVE  ExposureCoordinate(p) \in [x : Nat, y : Nat]
<1> DEFINE w == p.aeRegion
<1>1. p.aeRegion \in Windows \cup {NoRegion} /\ p.resolution \in Resolutions
  BY AeRequestFields
<1>2. CASE p.blcAreaMode = "ON" /\ w # NoRegion /\ w.right > w.left /\ w.bottom > w.top
  <2>1. w \in [left : Nat, top : Nat, right : Nat, bottom : Nat]
    BY <1>1, <1>2, UtilsAssumption
  <2>2. [x |-> w.left + (w.right - w.left) \div 2,
         y |-> w.top + (w.bottom - w.top) \div 2] \in [x : Nat, y : Nat]
    BY <1>2, <2>1
  <2>3. QED
    BY <1>1, <1>2, <2>2, IaCoordinateType DEF ExposureCoordinate
<1>3. QED
  BY <1>2 DEF ExposureCoordinate


\* One AE step keeps the AE state well typed.  A request rewrites every
\* field of the block from the request and from the limits it had;
\* init() rewrites all but the limits, which it keeps.
LEMMA AeTypeStep ==
  ASSUME AeTypeOK, [NextAe]_aeVars
  PROVE  AeTypeOK'
<1>1. CASE ReinitAe
  <2>1. aeParams \in AeParamsType
    BY DEF AeTypeOK
  <2>2. ZeroArray \in [Slots -> Nat] /\ 1 \in 1 .. MaxExposures
    BY AeAssumption DEF ZeroArray
  <2>3. aeParams' = [numExposures |-> 1, limits |-> aeParams.limits,
                     distributionPriority |-> "AUTO",
                     manualExposureTime |-> ZeroArray, manualAnalogGain |-> ZeroArray,
                     manualIso |-> ZeroArray, evShift |-> 0, convergenceTime |-> -1,
                     exposureCoordinate |-> [x |-> 0, y |-> 0]]
    BY <1>1, <2>1 DEF ReinitAe, AeParamsType
  <2>4. aeParams.limits \in AeLimitsType
    BY <2>1 DEF AeParamsType
  <2>5. aeParams' \in AeParamsType
    BY <2>2, <2>3, <2>4 DEF AeParamsType
  <2>6. QED
    BY <1>1, <2>5 DEF ReinitAe, AeTypeOK
<1>2. ASSUME NEW p \in AeRequests, NEW cca \in CcaOutcomes, UpdateAeParameter(p, cca)
      PROVE  AeTypeOK'
  <2> DEFINE n == ExposureNum[p.multiExposure]
  <2>1. n \in 1 .. MaxExposures
    BY ExposureNumRange
  <2>2. aeParams.limits \in AeLimitsType /\ aeParams.evShift \in Int
    BY DEF AeTypeOK, AeParamsType
  <2>3. /\ SetAeManualLimits(p, cca, aeParams.limits) \in AeLimitsType
        /\ ManualGainArray(p, n) \in [Slots -> Nat]
        /\ ManualIsoArray(p, n) \in [Slots -> Nat]
        /\ ManualExposureArray(p, n) \in [Slots -> Nat \cup {-1}]
        /\ ZeroArray \in [Slots -> Nat]
        /\ ExposureCoordinate(p) \in [x : Nat, y : Nat]
    BY <2>1, <2>2, SetAeManualLimitsType, ManualArraysType, ExposureCoordinateType
    DEF ZeroArray
  <2>4. /\ p.aeDistributionPriority \in AePriorities /\ p.evShift \in Int
        /\ ConvertSpeedModeToTime(p.aeConvergeSpeed) \in Int
    BY AeRequestFields, UtilsAssumption DEF ConvertSpeedModeToTime
  <2>5. aeParams' \in AeParamsType
    BY <1>2, <2>1, <2>2, <2>3, <2>4 DEF UpdateAeParameter, AeParamsType
  <2>6. aePerTicks' \in {1, 30, 60}
    BY <1>2 DEF UpdateAeParameter, AePerTicks, PerTicks
  <2>7. QED
    BY <1>2, <2>5, <2>6 DEF UpdateAeParameter, AeTypeOK
<1>3. CASE UNCHANGED aeVars
  BY <1>3 DEF aeVars, AeTypeOK
<1>4. QED
  BY <1>1, <1>2, <1>3, AeStepCases

\* The AE state after the constructor is well typed.
LEMMA AeTypeInit ==
  ASSUME InitAe
  PROVE  AeTypeOK
<1>1. ZeroLimits \in AeLimitsType /\ ZeroArray \in [Slots -> Nat]
  BY DEF ZeroLimits, AeLimitsType, ZeroArray
<1>2. 1 \in 1 .. MaxExposures
  BY AeAssumption
<1>3. aeParams \in AeParamsType
  BY <1>1, <1>2 DEF InitAe, AeParamsType
<1>4. QED
  BY <1>3 DEF InitAe, AeTypeOK

\* Every reachable AE state is well typed, for every platform table,
\* exposure count and request domain: in particular a manual gain is
\* always a whole number >= 0 (pow(10, gain / 20) of a clipped gain),
\* and the manual limits are integers.
THEOREM AeTypeCorrect == SpecAe => []AeTypeOK
<1>1. InitAe => AeTypeOK
  BY AeTypeInit
<1>2. AeTypeOK /\ [NextAe]_aeVars => AeTypeOK'
  BY AeTypeStep
<1>3. QED
  BY <1>1, <1>2, PTL DEF SpecAe


-----------------------------------------------------------------------------
\* convertdBGainToISO grows with the gain.
LEMMA IsoMonotone ==
  ASSUME NEW a \in Nat, NEW b \in Nat, a <= b
  PROVE  /\ ConvertDbGainToIso(a, BaseIso) \in Nat
         /\ ConvertDbGainToIso(b, BaseIso) \in Nat
         /\ ConvertDbGainToIso(a, BaseIso) <= ConvertDbGainToIso(b, BaseIso)
<1>1. DbToLinear(a) \in Nat /\ DbToLinear(b) \in Nat /\ DbToLinear(a) <= DbToLinear(b)
      /\ BaseIso \in Nat
  BY DbToLinearFacts, AeAssumption
<1>2. QED
  BY <1>1 DEF ConvertDbGainToIso

\* The exposure-time and ISO bounds setAeManualLimits writes.
LEMMA LimitsWritten ==
  ASSUME NEW p \in AeRequests, NEW cca, NEW lim \in AeLimitsType
  PROVE  /\ SetAeManualLimits(p, cca, lim).expTimeMin = ExpTimeLimitRange(p).min
         /\ SetAeManualLimits(p, cca, lim).expTimeMax = ExpTimeLimitRange(p).max
         /\ SetAeManualLimits(p, cca, lim).isoMin = IsoLimitRange(p, cca).min
         /\ SetAeManualLimits(p, cca, lim).isoMax = IsoLimitRange(p, cca).max
<1>1. FrameTimeLimits(p, lim) \in AeLimitsType
  BY FrameTimeLimitsType
<1>2. QED
  BY <1>1 DEF SetAeManualLimits, AeLimitsType

\* The limits a request leaves behind lie inside the platform's ranges and
\* the ISO limits are paired and within INT_MAX.
LEMMA LimitsOfRequest ==
  ASSUME NEW p \in AeRequests, NEW cca, NEW lim \in AeLimitsType
  PROVE  LET L == SetAeManualLimits(p, cca, lim)
             pe == PlatformExpRange[p.sceneMode]
             pg == PlatformGainRange[p.sceneMode]
         IN  /\ pe # Unsupported =>
                  pe.min <= L.expTimeMin /\ L.expTimeMin <= L.expTimeMax
                  /\ L.expTimeMax <= pe.max
             /\ pg # Unsupported /\ L.isoMin # -1 =>
                  ConvertDbGainToIso(pg.min, BaseIso) <= L.isoMin
                  /\ L.isoMin <= L.isoMax
                  /\ L.isoMax <= ConvertDbGainToIso(pg.max, BaseIso)
             /\ (L.isoMin = -1) <=> (L.isoMax = -1)
             /\ L.isoMin # -1 => 0 <= L.isoMin /\ L.isoMin <= L.isoMax /\ L.isoMax <= IntMax
<1> DEFINE L == SetAeManualLimits(p, cca, lim)
           pe == PlatformExpRange[p.sceneMode]
           pg == PlatformGainRange[p.sceneMode]
           g == GainLimitRange(p)
           i == IsoLimitRange(p, cca)
<1>1. L.expTimeMin = ExpTimeLimitRange(p).min /\ L.expTimeMax = ExpTimeLimitRange(p).max
      /\ L.isoMin = i.min /\ L.isoMax = i.max
  BY LimitsWritten
<1>2. pe # Unsupported =>
        pe.min <= L.expTimeMin /\ L.expTimeMin <= L.expTimeMax /\ L.expTimeMax <= pe.max
  BY <1>1, ExpTimeLimitRangeFacts
<1>3. CASE i = Range(-1, -1)
  <2>1. L.isoMin = -1 /\ L.isoMax = -1
    BY <1>1, <1>3 DEF Range
  <2>2. QED
    BY <1>2, <2>1
<1>4. CASE /\ 0 <= g.min /\ g.min <= g.max
           /\ i = Range(ConvertDbGainToIso(g.min, BaseIso), ConvertDbGainToIso(g.max, BaseIso))
           /\ i.min \in Nat /\ i.max \in Nat /\ i.min <= i.max /\ i.max <= IntMax
  <2>1. L.isoMin # -1 /\ L.isoMax # -1 /\ 0 <= L.isoMin /\ L.isoMin <= L.isoMax
        /\ L.isoMax <= IntMax
    BY <1>1, <1>4
  <2>2. ASSUME pg # Unsupported
        PROVE  ConvertDbGainToIso(pg.min, BaseIso) <= L.isoMin
               /\ L.isoMax <= ConvertDbGainToIso(pg.max, BaseIso)
    <3>1. pg.min \in Nat /\ pg.max \in Nat
          /\ pg.min <= g.min /\ g.min <= g.max /\ g.max <= pg.max
      BY <2>2, GainLimitRangeFacts, PlatformRanges, AeRequestFields DEF Ranges
    <3>2. g.min \in Nat /\ g.max \in Nat
      BY <1>4, <3>1, GainLimitRangeFacts DEF Ranges
    <3>3. ConvertDbGainToIso(pg.min, BaseIso) <= ConvertDbGainToIso(g.min, BaseIso)
      BY <3>1, <3>2, IsoMonotone
    <3>4. ConvertDbGainToIso(g.max, BaseIso) <= ConvertDbGainToIso(pg.max, BaseIso)
      BY <3>1, <3>2, IsoMonotone
    <3>5. QED
      BY <1>1, <1>4, <3>3, <3>4 DEF Range
  <2>3. QED
    BY <1>2, <2>1, <2>2
<1>5. QED
  BY <1>3, <1>4, IsoLimitRangeFacts


\* Where the platform has a range for the latest request's scene mode, the
\* exposure-time and ISO limits setAeManualLimits sent the engine lie in
\* it, ordered min <= max, for every platform table and every requested
\* range (valid, inverted or out of the platform's range).
THEOREM AeManualLimitsWithinPlatform == SpecAe => []ManualLimitsWithinPlatform
<1>1. InitAe => ManualLimitsWithinPlatform
  BY DEF InitAe, ManualLimitsWithinPlatform
<1>2. AeTypeOK /\ ManualLimitsWithinPlatform /\ [NextAe]_aeVars
        => ManualLimitsWithinPlatform'
  <2> SUFFICES ASSUME AeTypeOK, ManualLimitsWithinPlatform, [NextAe]_aeVars
               PROVE  ManualLimitsWithinPlatform'
    OBVIOUS
  <2>1. CASE ReinitAe
    BY <2>1 DEF ReinitAe, ManualLimitsWithinPlatform
  <2>2. ASSUME NEW p \in AeRequests, NEW cca \in CcaOutcomes, UpdateAeParameter(p, cca)
        PROVE  ManualLimitsWithinPlatform'
    <3>1. aeParams.limits \in AeLimitsType
      BY DEF AeTypeOK, AeParamsType
    <3>2. aeRequest' = p /\ aeParams'.limits = SetAeManualLimits(p, cca, aeParams.limits)
      BY <2>2 DEF UpdateAeParameter
    <3>3. QED
      BY <3>1, <3>2, LimitsOfRequest DEF ManualLimitsWithinPlatform
  <2>3. CASE UNCHANGED aeVars
    BY <2>3 DEF aeVars, ManualLimitsWithinPlatform
  <2>4. QED
    BY <2>1, <2>2, <2>3, AeStepCases
<1>3. QED
  BY <1>1, <1>2, AeTypeCorrect, PTL DEF SpecAe

\* After a request the ISO limits are set together or not at all, and
\* never past INT_MAX, for every base ISO and every requested gain range:
\* the overflow check of setAeManualLimits covers both bounds.
THEOREM AeIsoLimitsPaired == SpecAe => []IsoLimitsPaired
<1>1. InitAe => IsoLimitsPaired
  BY DEF InitAe, IsoLimitsPaired
<1>2. AeTypeOK /\ IsoLimitsPaired /\ [NextAe]_aeVars => IsoLimitsPaired'
  <2> SUFFICES ASSUME AeTypeOK, IsoLimitsPaired, [NextAe]_aeVars
               PROVE  IsoLimitsPaired'
    OBVIOUS
  <2>1. CASE ReinitAe
    BY <2>1 DEF ReinitAe, IsoLimitsPaired
  <2>2. ASSUME NEW p \in AeRequests, NEW cca \in CcaOutcomes, UpdateAeParameter(p, cca)
        PROVE  IsoLimitsPaired'
    <3>1. aeParams.limits \in AeLimitsType
      BY DEF AeTypeOK, AeParamsType
    <3>2. aeRequest' = p /\ aeParams'.limits = SetAeManualLimits(p, cca, aeParams.limits)
      BY <2>2 DEF UpdateAeParameter
    <3>3. QED
      BY <3>1, <3>2, LimitsOfRequest DEF IsoLimitsPaired
  <2>3. CASE UNCHANGED aeVars
    BY <2>3 DEF aeVars, IsoLimitsPaired
  <2>4. QED
    BY <2>1, <2>2, <2>3, AeStepCases
<1>3. QED
  BY <1>1, <1>2, AeTypeCorrect, PTL DEF SpecAe

=============================================================================
