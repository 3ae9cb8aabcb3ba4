-------------------------- MODULE Intel3AAwbProofs --------------------------
(***************************************************************************)
(* Proofs about the white-balance and colour overrides of                 *)
(* Intel3AParameter, for every choice of the constants.  The result       *)
(* overrides read state that updateAwbParameter() left behind in an       *)
(* earlier step (the two flags, mManualGains, mAwbGainShift, mColorMatrix *)
(* and mColorGains); the invariant OverridesFromRequest says that state   *)
(* is always the latest request's, and the action property follows.       *)
(***************************************************************************)
EXTENDS Intel3AAwb, TLAPS

\* The steps of the AWB component, named for the proofs.
LEMMA AwbStepCases ==
  ASSUME [NextAwb]_awbVars
  PROVE  \/ ReinitAwb
         \/ \E p \in AwbRequests : UpdateAwbParameter(p)
         \/ UpdatePaResult(EngineGains, EngineMatrix)
         \/ \E e \in EngineRatios : UpdateAwbResult(e)
         \/ UNCHANGED awbVars
  BY DEF NextAwb

\* The override state kept across frames is the one the latest request set:
\* each flag says whether that request's mode is its override, and the
\* data an active flag reads, and the gain shift, are that request's.
OverridesFromRequest ==
  awbRequest # NoAwbRequest =>
    /\ useManualColorMatrix = (awbRequest.awbMode = "MANUAL_COLOR_TRANSFORM")
    /\ useManualAwbGain = (awbRequest.awbMode = "MANUAL_GAIN")
    /\ awbGainShift = awbRequest.awbGainShift
    /\ useManualColorMatrix =>
         /\ colorMatrix = awbRequest.manualColorMatrix
         /\ colorGains = awbRequest.manualColorGains
    /\ useManualAwbGain => manualGains = awbRequest.awbManualGain

\* The override state follows the latest request in every reachable state.
LEMMA OverridesFromRequestInvariant == SpecAwb => []OverridesFromRequest
<1>1. InitAwb => OverridesFromRequest
  BY DEF InitAwb, OverridesFromRequest
<1>2. OverridesFromRequest /\ [NextAwb]_awbVars => OverridesFromRequest'
  <2> SUFFICES ASSUME OverridesFromRequest, [NextAwb]_awbVars
               PROVE  OverridesFromRequest'
    OBVIOUS
  <2>1. CASE ReinitAwb
    BY <2>1 DEF ReinitAwb, OverridesFromRequest
  <2>2. ASSUME NEW p \in AwbRequests, UpdateAwbParameter(p)
        PROVE  OverridesFromRequest'
    BY <2>2 DEF UpdateAwbParameter, ManualAwbGainFlag, ManualColorMatrixFlag,
                OverridesFromRequest
  <2>3. CASE UpdatePaResult(EngineGains, EngineMatrix)
    BY <2>3 DEF UpdatePaResult, OverridesFromRequest
  <2>4. ASSUME NEW e \in EngineRatios, UpdateAwbResult(e)
        PROVE  OverridesFromRequest'
    BY <2>4 DEF UpdateAwbResult, OverridesFromRequest
  <2>5. CASE UNCHANGED awbVars
    BY <2>5 DEF awbVars, OverridesFromRequest
  <2>6. QED
    BY <2>1, <2>2, <2>3, <2>4, <2>5, AwbStepCases
<1>3. QED
  BY <1>1, <1>2, PTL DEF SpecAwb

\* Every PA and AWB result override is the one the latest request asks
\* for, whatever requests, results and re-inits came before.
THEOREM AwbResultOverridesFollowLatestRequest ==
  SpecAwb => ResultOverridesFollowLatestRequest
<1> DEFINE R == awbRequest
<1>1. OverridesFromRequest /\ [NextAwb]_awbVars =>
        [R # NoAwbRequest =>
           /\ paResult' # paResult => paResult' = RequestPaResult(R)
           /\ awbResult' # awbResult =>
                \E e \in EngineRatios : awbResult' = RequestAwbResult(R, e)]_awbVars
  <2> SUFFICES ASSUME OverridesFromRequest, [NextAwb]_awbVars, R # NoAwbRequest
               PROVE  /\ paResult' # paResult => paResult' = RequestPaResult(R)
                      /\ awbResult' # awbResult =>
                           \E e \in EngineRatios :
                              awbResult' = RequestAwbResult(R, e)
    OBVIOUS
  <2>1. CASE ReinitAwb
    BY <2>1 DEF ReinitAwb
  <2>2. ASSUME NEW p \in AwbRequests, UpdateAwbParameter(p)
        PROVE  paResult' = paResult /\ awbResult' = awbResult
    BY <2>2 DEF UpdateAwbParameter
  <2>3. CASE UpdatePaResult(EngineGains, EngineMatrix)
    \* The flag and the colour data are the request's, by the invariant.
    <3>1. paResult' = RequestPaResult(R)
      BY <2>3 DEF UpdatePaResult, RequestPaResult, OverridesFromRequest
    <3>2. awbResult' = awbResult
      BY <2>3 DEF UpdatePaResult
    <3>3. QED
      BY <3>1, <3>2
  <2>4. ASSUME NEW e \in EngineRatios, UpdateAwbResult(e)
        PROVE  /\ paResult' # paResult => paResult' = RequestPaResult(R)
               /\ awbResult' # awbResult =>
                    \E f \in EngineRatios : awbResult' = RequestAwbResult(R, f)
    <3>1. awbResult' = RequestAwbResult(R, e)
      <4>1. CASE R.awbMode = "MANUAL_COLOR_TRANSFORM"
                 /\ ValidColorGains(R.manualColorGains)
        BY <2>4, <4>1 DEF UpdateAwbResult, RequestAwbResult, OverridesFromRequest
      <4>2. CASE ~(R.awbMode = "MANUAL_COLOR_TRANSFORM"
                   /\ ValidColorGains(R.manualColorGains))
                 /\ R.awbMode = "MANUAL_GAIN"
        BY <2>4, <4>2 DEF UpdateAwbResult, RequestAwbResult, OverridesFromRequest
      <4>3. CASE ~(R.awbMode = "MANUAL_COLOR_TRANSFORM"
                   /\ ValidColorGains(R.manualColorGains))
                 /\ R.awbMode # "MANUAL_GAIN"
        BY <2>4, <4>3 DEF UpdateAwbResult, RequestAwbResult, OverridesFromRequest
      <4>4. QED
        BY <4>1, <4>2, <4>3
    <3>2. paResult' = paResult
      BY <2>4 DEF UpdateAwbResult
    <3>3. QED
      BY <3>1, <3>2
  <2>5. CASE UNCHANGED awbVars
    BY <2>5 DEF awbVars
  <2>6. QED
    BY <2>1, <2>2, <2>3, <2>4, <2>5, AwbStepCases
<1>2. QED
  BY <1>1, OverridesFromRequestInvariant, PTL
  DEF SpecAwb, ResultOverridesFollowLatestRequest

-----------------------------------------------------------------------------
\* A white point in frame coordinates maps to engine coordinates >= 0.
LEMMA WhiteCoordinateType ==
  ASSUME NEW res \in Resolutions, NEW wp \in WhitePoints
  PROVE  ConvertToIaCoordinate(res, wp) \in [x : Nat, y : Nat]
  <1>1. res.width \in Nat \ {0} /\ res.height \in Nat \ {0}
        /\ wp.x \in Nat /\ wp.y \in Nat /\ IaCoordMax \in Nat
    BY UtilsAssumption, AwbAssumption
  <1>2. QED
    BY <1>1 DEF ConvertToIaCoordinate, ToIa

\* A requested CCT range, sorted as updateAwbParameter sorts it.
LEMMA SortedCctType ==
  ASSUME NEW c \in CctRanges
  PROVE  [min |-> IF c.min < c.max THEN c.min ELSE c.max,
          max |-> IF c.min < c.max THEN c.max ELSE c.min] \in [min : Nat, max : Nat]
  BY AwbAssumption

\* The AWB state after the constructor is well typed.
LEMMA AwbTypeInit ==
  ASSUME InitAwb
  PROVE  AwbTypeOK
<1>1. awbParams \in AwbParamsType
  BY DEF InitAwb, AwbParamsType
<1>2. paResult.enable \in BOOLEAN
  BY DEF InitAwb, InitPaResult
<1>3. QED
  BY <1>1, <1>2 DEF InitAwb, AwbTypeOK, AwbParamsType

\* Every AWB step keeps the AWB state well typed.
LEMMA AwbTypeStep ==
  ASSUME AwbTypeOK, [NextAwb]_awbVars
  PROVE  AwbTypeOK'
<1>1. CASE ReinitAwb
  \* init() keeps the CCT range and the white point.
  <2>1. awbParams' \in AwbParamsType
    BY <1>1 DEF ReinitAwb, AwbTypeOK, AwbParamsType
  <2>2. QED
    BY <1>1, <2>1 DEF ReinitAwb, ColorOverrideReset, AwbTypeOK, AwbParamsType
<1>2. ASSUME NEW p \in AwbRequests, UpdateAwbParameter(p) PROVE AwbTypeOK'
  <2>1. /\ p.awbConvergeSpeed \in ConvergeSpeeds
        /\ p.cctRange \in CctRanges /\ p.whitePoint \in WhitePoints
        /\ p.resolution \in Resolutions
        /\ p.awbManualGain \in AwbGainSets /\ p.awbGainShift \in AwbGainSets
        /\ p.manualColorMatrix \in ColorMatrices
        /\ p.manualColorGains \in ColorGainSets
    BY DEF AwbRequests
  <2>2. awbParams' \in AwbParamsType
    BY <1>2, <2>1, WhiteCoordinateType, SortedCctType
    DEF UpdateAwbParameter, AwbSceneMode, ConvertSpeedModeToTime, AwbTypeOK,
        AwbParamsType
  <2>3. awbPerTicks' \in {1, 30, 60}
    BY <1>2 DEF UpdateAwbParameter
  <2>4. QED
    BY <1>2, <2>1, <2>2, <2>3
    DEF UpdateAwbParameter, ManualAwbGainFlag, ManualColorMatrixFlag, AwbTypeOK,
        AwbParamsType
<1>3. CASE UpdatePaResult(EngineGains, EngineMatrix)
  BY <1>3 DEF UpdatePaResult, AwbTypeOK
<1>4. ASSUME NEW e \in EngineRatios, UpdateAwbResult(e) PROVE AwbTypeOK'
  BY <1>4 DEF UpdateAwbResult, AwbTypeOK
<1>5. CASE UNCHANGED awbVars
  BY <1>5 DEF awbVars, AwbTypeOK
<1>6. QED
  BY <1>1, <1>2, <1>3, <1>4, <1>5, AwbStepCases

\* Every reachable AWB state is well typed: init(), every request, both
\* result overrides and their interleavings keep the scene mode, the
\* convergence time, the tick rate and the stored override data in range.
THEOREM AwbTypeCorrect == SpecAwb => []AwbTypeOK
<1>1. InitAwb => AwbTypeOK
  BY AwbTypeInit
<1>2. AwbTypeOK /\ [NextAwb]_awbVars => AwbTypeOK'
  BY AwbTypeStep
<1>3. QED
  BY <1>1, <1>2, PTL DEF SpecAwb

=============================================================================
