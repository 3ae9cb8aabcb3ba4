----------------------------- MODULE Intel3AUtils -----------------------------
(***************************************************************************)
(* The helpers Intel3AParameter.cpp calls from iutils and AiqUtils, which *)
(* are not among the repository's sources given here: CLIP, the frame-to- *)
(* engine coordinate conversions, the converge-speed-to-time table and    *)
(* the AWB gain normalisation.  They are modelled from the spec's         *)
(* description of them and are marked so in the project's map.           *)
(***************************************************************************)
EXTENDS Integers

CONSTANTS
  IaCoordMax,       \* extent of the engine's coordinate system (8192)
  ConvergeSpeeds,   \* camera_converge_speed_t values
  SpeedTime,        \* convertSpeedModeToTime: speed -> convergence time
  AwbGainMax,       \* AWB_GAIN_MAX: user gains range over 0..AwbGainMax
  NormStart,        \* AWB_GAIN_NORMALIZED_START, scaled to an integer
  NormEnd,          \* AWB_GAIN_NORMALIZED_END, with the same scale
  Windows,          \* region windows (AE and AF) a request may carry
  Resolutions,      \* frame resolutions [width, height] a request may carry
  NoRegion          \* a request whose region list is empty

\* camera_converge_speed_t.
SpeedModes == {"NORMAL", "MID", "LOW"}

ASSUME UtilsAssumption ==
  /\ IaCoordMax \in Nat
  /\ ConvergeSpeeds \subseteq SpeedModes
  /\ SpeedTime \in [SpeedModes -> Nat \ {0}]
  /\ AwbGainMax \in Nat \ {0}
  /\ NormStart \in Nat \ {0}
  /\ NormEnd \in Nat \ {0}
  /\ Windows \subseteq [left : Nat, top : Nat, right : Nat, bottom : Nat]
  /\ Resolutions \subseteq [width : Nat \ {0}, height : Nat \ {0}]
  /\ NoRegion \notin Windows

\* CLIP(a, max, min) of iutils/Utils.h: MAX(MIN(a, max), min).
Clip(a, hi, lo) ==
  LET m == IF a > hi THEN hi ELSE a IN IF m < lo THEN lo ELSE m

\* One frame coordinate mapped to the engine's [0, IaCoordMax] system.
ToIa(v, extent) == (v * IaCoordMax) \div extent

\* AiqUtils::convertToIaWindow: both corners of a window.
ConvertToIaWindow(res, w) ==
  [left |-> ToIa(w.left, res.width), top |-> ToIa(w.top, res.height),
   right |-> ToIa(w.right, res.width), bottom |-> ToIa(w.bottom, res.height)]

\* AiqUtils::convertToIaCoordinate: one point.
ConvertToIaCoordinate(res, c) ==
  [x |-> ToIa(c.x, res.width), y |-> ToIa(c.y, res.height)]

\* AiqUtils::convertSpeedModeToTime.
ConvertSpeedModeToTime(speed) == SpeedTime[speed]

(***************************************************************************)
(* AiqUtils::normalizeAwbGain maps a user gain g in 0..AwbGainMax onto    *)
(* [NormStart, NormEnd] linearly.  Only ratios of normalised gains are    *)
(* used, so a normalised gain is kept as the integer                      *)
(* NormStart * AwbGainMax + g * (NormEnd - NormStart), i.e. scaled by     *)
(* AwbGainMax, and a ratio as a record [num, den].                         *)
(***************************************************************************)
NormalizeAwbGain(g) ==
  LET c == Clip(g, AwbGainMax, 0)
  IN NormStart * AwbGainMax + c * (NormEnd - NormStart)

Ratio(n, d) == [num |-> n, den |-> d]
RatioLt(a, b) == a.num * b.den < b.num * a.den
RatioMul(a, b) == Ratio(a.num * b.num, a.den * b.den)
\* CLIP on ratios, with the same MAX(MIN(a, max), min) shape.
RatioClip(a, hi, lo) ==
  LET m == IF RatioLt(hi, a) THEN hi ELSE a IN IF RatioLt(m, lo) THEN lo ELSE m

=============================================================================
