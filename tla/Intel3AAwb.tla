------------------------------ MODULE Intel3AAwb ------------------------------
(***************************************************************************)
(* The white-balance and colour part of Intel3AParameter                  *)
(* (Intel3AParameter.cpp): updateAwbParameter() (called by                *)
(* updateParameter() once per frame), the AWB part of init(), and the two *)
(* result overrides updatePaResult() and updateAwbResult(), which the     *)
(* pipeline calls with the engine's results.  A colour matrix is a model  *)
(* value; gains are integers; per-G chroma ratios are exact fractions.    *)
(***************************************************************************)
EXTENDS Intel3AUtils

CONSTANTS
  AwbPresets,         \* the named illuminant modes (INCANDESCENT, DAYLIGHT, ...)
  CctRanges,          \* cctRange values a request may carry
  WhitePoints,        \* whitePoint coordinates a request may carry
  AwbGainSets,        \* awbManualGain / awbGainShift values ([r, g, b] gains)
  ColorMatrices,      \* manualColorMatrix values a request may carry
  ColorGainSets,      \* manualColorGains values (R, Gr, Gb, B)
  ZeroMatrix,         \* the all-zero colour matrix of CLEAR(mColorMatrix)
  EngineMatrix,       \* the colour matrix the engine's PA result carries
  EngineGains,        \* the colour gains the engine's PA result carries
  EngineRatios,       \* the engine's AWB results [r, b] (per-G ratios)
  AwbSpeedModes       \* awbConvergeSpeedMode values a request may carry

AwbModes ==
  AwbPresets \cup {"AUTO", "MANUAL_CCT_RANGE", "MANUAL_WHITE_POINT",
                   "MANUAL_GAIN", "MANUAL_COLOR_TRANSFORM"}

ZeroGains == [r |-> 0, g |-> 0, b |-> 0]
ZeroColorGains == <<0, 0, 0, 0>>

ASSUME AwbAssumption ==
  /\ AwbPresets \cap {"AUTO", "MANUAL_CCT_RANGE", "MANUAL_WHITE_POINT",
                      "MANUAL_GAIN", "MANUAL_COLOR_TRANSFORM"} = {}
  /\ CctRanges \subseteq [min : Nat, max : Nat]
  /\ WhitePoints \subseteq [x : Nat, y : Nat]
  /\ AwbGainSets \subseteq [r : Nat, g : Nat, b : Nat]
  /\ ColorGainSets \subseteq [1 .. 4 -> Nat]
  /\ ZeroMatrix \notin ColorMatrices
  /\ EngineGains \in [1 .. 4 -> Nat]
  /\ EngineRatios \subseteq [r : [num : Nat, den : Nat \ {0}], b : [num : Nat, den : Nat \ {0}]]
  /\ AwbSpeedModes \subseteq {"AIQ", "HAL"}

AwbRequests ==
  [awbMode : AwbModes, cctRange : CctRanges, whitePoint : WhitePoints,
   resolution : Resolutions, awbManualGain : AwbGainSets,
   awbGainShift : AwbGainSets, manualColorMatrix : ColorMatrices,
   manualColorGains : ColorGainSets, awbConvergeSpeedMode : AwbSpeedModes,
   awbConvergeSpeed : ConvergeSpeeds, aeConvergeSpeed : ConvergeSpeeds]

NoAwbRequest == [none |-> TRUE]

VARIABLES
  awbParams,            \* mAwbParams: the engine's AWB input block
  useManualAwbGain,     \* mUseManualAwbGain
  useManualColorMatrix, \* mUseManualColorMatrix
  manualGains,          \* mManualGains
  awbGainShift,         \* mAwbGainShift
  colorMatrix,          \* mColorMatrix
  colorGains,           \* mColorGains (R, Gr, Gb, B)
  awbPerTicks,          \* mAwbPerTicks
  paResult,             \* the PA result as updatePaResult() leaves it
  awbResult,            \* the AWB result as updateAwbResult() leaves it
  awbRequest            \* history: the request of the latest update (not code state)

awbVars == <<awbParams, useManualAwbGain, useManualColorMatrix, manualGains,
             awbGainShift, colorMatrix, colorGains, awbPerTicks, paResult,
             awbResult, awbRequest>>

\* VALID_COLOR_GAINS: all four channel gains strictly positive.
ValidColorGains(cg) == \A i \in 1 .. 4 : cg[i] > 0

\* The per-G ratio bounds of updateAwbResult: MAX_PER_G = START / END and
\* MIN_PER_G = 1 / MAX_PER_G.
MaxPerG == Ratio(NormStart, NormEnd)
MinPerG == Ratio(NormEnd, NormStart)

\* PA and AWB results before the pipeline first hands one over.
InitPaResult == [enable |-> FALSE, gains |-> ZeroColorGains, matrix |-> ZeroMatrix]
InitAwbResult == [r |-> Ratio(0, 1), b |-> Ratio(0, 1)]

-----------------------------------------------------------------------------
\* The AWB state after the constructor (CLEAR of every block) and init().
InitAwb ==
  /\ awbParams = [sceneMode |-> "AUTO", cct |-> [min |-> 0, max |-> 0],
                  whiteCoordinate |-> [x |-> 0, y |-> 0], convergenceTime |-> -1]
  /\ useManualAwbGain = FALSE
  /\ useManualColorMatrix = FALSE
  /\ manualGains = ZeroGains
  /\ awbGainShift = ZeroGains
  /\ colorMatrix = ZeroMatrix
  /\ colorGains = ZeroColorGains
  /\ awbPerTicks = 1
  /\ paResult = InitPaResult
  /\ awbResult = InitAwbResult
  /\ awbRequest = NoAwbRequest

ColorOverrideReset_NoFlag ==
  /\ colorMatrix' = ZeroMatrix /\ colorGains' = ZeroColorGains
  /\ UNCHANGED useManualColorMatrix
\* The colour-transform reset init() does itself, after initAwbParameter.
ColorOverrideReset ==
  /\ useManualColorMatrix' = FALSE
  /\ colorMatrix' = ZeroMatrix
  /\ colorGains' = ZeroColorGains

\* init() (initAwbParameter and the colour resets): the CCT range and the
\* white point of mAwbParams are left as they were.
ReinitAwb ==
  /\ awbParams' = [awbParams EXCEPT !.sceneMode = "AUTO", !.convergenceTime = -1]
  /\ useManualAwbGain' = FALSE
  /\ manualGains' = ZeroGains
  /\ awbGainShift' = ZeroGains
  /\ awbPerTicks' = 1
  /\ ColorOverrideReset
  /\ awbRequest' = NoAwbRequest
  /\ UNCHANGED <<paResult, awbResult>>

(***************************************************************************)
(* updateAwbParameter(param): both override flags are reset, the mode     *)
(* switch picks the engine scene mode and at most one override, the gain  *)
(* shift is always taken, then the convergence mapping.                   *)
(***************************************************************************)
\* Fault variants, each defined before the operator it replaces in a
\* mutation run.
ManualAwbGainFlag_NoReset(p) == useManualAwbGain \/ p.awbMode = "MANUAL_GAIN"
AwbSceneMode_Unmapped(p) == p.awbMode

ManualAwbGainFlag(p) == p.awbMode = "MANUAL_GAIN"
ManualColorMatrixFlag(p) == p.awbMode = "MANUAL_COLOR_TRANSFORM"

\* The engine scene mode: a preset's own, CCT range, white point, or auto.
AwbSceneMode(p) ==
  IF p.awbMode \in AwbPresets \cup {"MANUAL_CCT_RANGE", "MANUAL_WHITE_POINT"}
  THEN p.awbMode ELSE "AUTO"

\* The speed the HAL-mode tick switch reads: param.aeConvergeSpeed.
AwbTickSpeed(p) == p.aeConvergeSpeed

UpdateAwbParameter(p) ==
  /\ awbParams' =
       [sceneMode |-> AwbSceneMode(p),
        cct |-> IF p.awbMode = "MANUAL_CCT_RANGE"
                THEN [min |-> IF p.cctRange.min < p.cctRange.max THEN p.cctRange.min
                              ELSE p.cctRange.max,
                      max |-> IF p.cctRange.min < p.cctRange.max THEN p.cctRange.max
                              ELSE p.cctRange.min]
                ELSE awbParams.cct,
        whiteCoordinate |-> IF p.awbMode = "MANUAL_WHITE_POINT"
                            THEN ConvertToIaCoordinate(p.resolution, p.whitePoint)
                            ELSE awbParams.whiteCoordinate,
        convergenceTime |-> IF p.awbConvergeSpeedMode = "AIQ"
                            THEN ConvertSpeedModeToTime(p.awbConvergeSpeed) ELSE -1]
  /\ useManualAwbGain' = ManualAwbGainFlag(p)
  /\ useManualColorMatrix' = ManualColorMatrixFlag(p)
  /\ manualGains' = IF p.awbMode = "MANUAL_GAIN" THEN p.awbManualGain ELSE manualGains
  /\ colorMatrix' = IF p.awbMode = "MANUAL_COLOR_TRANSFORM" THEN p.manualColorMatrix
                    ELSE colorMatrix
  /\ colorGains' = IF p.awbMode = "MANUAL_COLOR_TRANSFORM" THEN p.manualColorGains
                   ELSE colorGains
  /\ awbGainShift' = p.awbGainShift
  /\ awbPerTicks' = IF p.awbConvergeSpeedMode = "AIQ" THEN 1
                    ELSE CASE AwbTickSpeed(p) = "MID" -> 30
                           [] AwbTickSpeed(p) = "LOW" -> 60
                           [] OTHER -> 1
  /\ awbRequest' = p
  /\ UNCHANGED <<paResult, awbResult>>

(***************************************************************************)
(* updatePaResult(paResult): the manual colour transform replaces the     *)
(* engine's matrix, and its gains when all four are positive.             *)
(***************************************************************************)
UpdatePaResult(engGains, engMatrix) ==
  /\ paResult' =
       [enable |-> useManualColorMatrix,
        gains |-> IF useManualColorMatrix /\ ValidColorGains(colorGains)
                  THEN colorGains ELSE engGains,
        matrix |-> IF useManualColorMatrix THEN colorMatrix ELSE engMatrix]
  /\ UNCHANGED <<awbParams, useManualAwbGain, useManualColorMatrix, manualGains,
                 awbGainShift, colorMatrix, colorGains, awbPerTicks, awbResult,
                 awbRequest>>

(***************************************************************************)
(* updateAwbResult(awbResult): with a valid manual colour transform the   *)
(* ratios come from its gains; otherwise from the manual gains or the     *)
(* gain shift, normalised and clipped to [MIN_PER_G, MAX_PER_G] by        *)
(* CLIP(ratio, MAX_PER_G, MIN_PER_G): replacing the engine's ratios for   *)
(* manual gains, scaling them for the shift.                              *)
(***************************************************************************)
ChromaRatios(cg) ==
  LET maxChroma == IF cg[2] > 1 THEN cg[2] ELSE 1
  IN  [r |-> Ratio(maxChroma, cg[1]), b |-> Ratio(maxChroma, cg[4])]

ClippedPerG(gains, channel) ==
  RatioClip(Ratio(NormalizeAwbGain(channel), NormalizeAwbGain(gains.g)), MaxPerG, MinPerG)

GainRatios(engine, gains, replace) ==
  LET cr == ClippedPerG(gains, gains.r)
      cb == ClippedPerG(gains, gains.b)
  IN  IF replace THEN [r |-> cr, b |-> cb]
      ELSE [r |-> RatioMul(engine.r, cr), b |-> RatioMul(engine.b, cb)]

UpdateAwbResult(engine) ==
  /\ awbResult' =
       IF useManualColorMatrix /\ ValidColorGains(colorGains)
       THEN ChromaRatios(colorGains)
       ELSE GainRatios(engine, IF useManualAwbGain THEN manualGains ELSE awbGainShift,
                       useManualAwbGain)
  /\ UNCHANGED <<awbParams, useManualAwbGain, useManualColorMatrix, manualGains,
                 awbGainShift, colorMatrix, colorGains, awbPerTicks, paResult,
                 awbRequest>>

NextAwb ==
  \/ ReinitAwb
  \/ \E p \in AwbRequests : UpdateAwbParameter(p)
  \/ \E g \in {EngineGains} : UpdatePaResult(g, EngineMatrix)
  \/ \E e \in EngineRatios : UpdateAwbResult(e)

SpecAwb == InitAwb /\ [][NextAwb]_awbVars

-----------------------------------------------------------------------------
\* The AWB parameter blocks the code can produce.
AwbParamsType ==
  [sceneMode : AwbPresets \cup {"AUTO", "MANUAL_CCT_RANGE", "MANUAL_WHITE_POINT"},
   cct : [min : Nat, max : Nat], whiteCoordinate : [x : Nat, y : Nat],
   convergenceTime : {-1} \cup {SpeedTime[s] : s \in ConvergeSpeeds}]

\* Type invariant.
AwbTypeOK ==
  /\ awbParams \in AwbParamsType
  /\ useManualAwbGain \in BOOLEAN /\ useManualColorMatrix \in BOOLEAN
  /\ manualGains \in AwbGainSets \cup {ZeroGains}
  /\ awbGainShift \in AwbGainSets \cup {ZeroGains}
  /\ colorMatrix \in ColorMatrices \cup {ZeroMatrix}
  /\ colorGains \in ColorGainSets \cup {ZeroColorGains}
  /\ awbPerTicks \in {1, 30, 60}
  /\ paResult.enable \in BOOLEAN
  /\ awbRequest \in AwbRequests \cup {NoAwbRequest}

\* What the PA and AWB overrides should produce for request r alone, as
\* section 4.5 of the spec describes them: the colour transform, the
\* manual gains, or the gain shift of that request.
RequestPaResult(r) ==
  LET ct == r.awbMode = "MANUAL_COLOR_TRANSFORM"
  IN  [enable |-> ct,
       gains |-> IF ct /\ ValidColorGains(r.manualColorGains)
                 THEN r.manualColorGains ELSE EngineGains,
       matrix |-> IF ct THEN r.manualColorMatrix ELSE EngineMatrix]
RequestAwbResult(r, e) ==
  IF r.awbMode = "MANUAL_COLOR_TRANSFORM" /\ ValidColorGains(r.manualColorGains)
  THEN ChromaRatios(r.manualColorGains)
  ELSE IF r.awbMode = "MANUAL_GAIN" THEN GainRatios(e, r.awbManualGain, TRUE)
  ELSE GainRatios(e, r.awbGainShift, FALSE)

\* Every PA or AWB result override is the one the latest request asks
\* for: the override state kept across frames (mManualGains, mColorMatrix,
\* mColorGains and the two flags) never lets a matrix, gains or a mode of
\* an earlier request reach a result after the request has changed.
ResultOverridesFollowLatestRequest ==
  [][awbRequest # NoAwbRequest =>
       /\ paResult' # paResult => paResult' = RequestPaResult(awbRequest)
       /\ awbResult' # awbResult =>
            \E e \in EngineRatios : awbResult' = RequestAwbResult(awbRequest, e)]_awbVars

\* Spec section 4.1: AE and AWB each apply the convergence mapping with
\* their own speed preference; in HAL mode AWB runs every 1, 30 or 60
\* frames for the request's AWB speed NORMAL, MID or LOW.
AwbTicksFollowAwbSpeed ==
  (awbRequest # NoAwbRequest /\ awbRequest.awbConvergeSpeedMode = "HAL") =>
    awbPerTicks = CASE awbRequest.awbConvergeSpeed = "MID" -> 30
                    [] awbRequest.awbConvergeSpeed = "LOW" -> 60
                    [] OTHER -> 1

\* Spec section 4.5: with neither a manual colour transform, manual gains
\* nor a gain shift, updateAwbResult passes the engine's ratios through
\* unmodified.
RatioEq(a, b) == a.num * b.den = b.num * a.den
EngineResultUnmodifiedWithoutOverride ==
  [][(/\ awbRequest # NoAwbRequest /\ awbResult' # awbResult
      /\ awbRequest.awbMode \notin {"MANUAL_GAIN", "MANUAL_COLOR_TRANSFORM"}
      /\ awbRequest.awbGainShift = ZeroGains) =>
       \E e \in EngineRatios : RatioEq(awbResult'.r, e.r) /\ RatioEq(awbResult'.b, e.b)]_awbVars

=============================================================================
