------------------------------ MODULE Intel3AAf ------------------------------
(***************************************************************************)
(* The auto-focus part of Intel3AParameter (Intel3AParameter.cpp): the    *)
(* focus mode and trigger tracked across frames, the force-lock policy,   *)
(* and the AF parameter block handed to the 3A engine.                    *)
(*                                                                         *)
(* Operations: init() (its AF part), updateAfParameter() (called by       *)
(* updateParameter() once per frame) and fillAfTriggerResult() (called    *)
(* with the engine's AF result).  The lens position, its timestamp and    *)
(* the frame use are copied verbatim from the request and are left out.  *)
(***************************************************************************)
EXTENDS Intel3AUtils

CONSTANTS
  FocusDistances,     \* focusDistance values a request may carry (diopters)
  MinFocusDistances,  \* minFocusDistance values a request may carry
  MaxFocusDistance,   \* MAX_FOCUS_DISTANCE, the default manual distance
  ZeroFocusAction     \* the manual focus action whose enum value is 0

AfModes == {"OFF", "AUTO", "MACRO", "CONTINUOUS_VIDEO", "CONTINUOUS_PICTURE"}
AfTriggers == {"IDLE", "START", "CANCEL"}
\* ia_aiq_af_operation_mode values the code uses
FocusModes == {"auto", "infinity", "manual"}
FocusActions == {"none", "set_distance"}
\* ia_aiq_af_status values reported by the engine
AfStatuses == {"idle", "local_search", "extended_search", "success", "fail"}

ASSUME ConstantsAssumption ==
  /\ FocusDistances \subseteq Int
  /\ MinFocusDistances \subseteq Nat
  /\ MaxFocusDistance \in Nat
  /\ ZeroFocusAction \in FocusActions

ZeroRect == [left |-> 0, top |-> 0, right |-> 0, bottom |-> 0]

Rects == {ZeroRect} \cup {ConvertToIaWindow(res, w) : res \in Resolutions, w \in Windows}

VARIABLES
  afMode,              \* mAfMode: the focus mode of the previous request
  afTrigger,           \* mAfTrigger: the trigger of the previous request
  afForceLock,         \* mAfForceLock
  duringAfTriggerScan, \* mDuringAfTriggerScan
  afParams             \* mAfParams: the engine's AF input block

vars == <<afMode, afTrigger, afForceLock, duringAfTriggerScan, afParams>>

AfRequests ==
  [afMode : AfModes, afTrigger : AfTriggers, afRegion : Windows \cup {NoRegion},
   resolution : Resolutions,
   focusDistance : FocusDistances, minFocusDistance : MinFocusDistances]

\* The modes in which a user trigger drives the engine's scan itself.
ScanModes == {"AUTO", "MACRO"}
ContinuousModes == {"CONTINUOUS_VIDEO", "CONTINUOUS_PICTURE"}

\* initAfParameter(): the default AF block.
DefaultAfParams ==
  [focusMode |-> "infinity", triggerNewSearch |-> FALSE, focusRect |-> ZeroRect,
   manualAction |-> "none", manualDistance |-> MaxFocusDistance]

-----------------------------------------------------------------------------
(* The AF state right after init().                                        *)
InitAf ==
  /\ afMode = "AUTO"
  /\ afTrigger = "IDLE"
  /\ afForceLock = FALSE
  /\ duringAfTriggerScan = FALSE
  /\ afParams = DefaultAfParams

\* init(): reset the AF state to its defaults.
ReinitAf ==
  /\ afMode' = "AUTO"
  /\ afTrigger' = "IDLE"
  /\ afForceLock' = FALSE
  /\ duringAfTriggerScan' = FALSE
  /\ afParams' = DefaultAfParams

(* Fault variants, each defined before the operator it replaces in a     *)
(* mutation run.                                                           *)
ClampFocusDistance_NoFloor(d, minD) == IF d > minD THEN minD ELSE d
LockAfterMode_Kept(p) == afForceLock
TriggerStart_Level(p) == p.afTrigger = "START"

\* The focus distance clamped to [0, minFocusDistance].
ClampFocusDistance(d, minD) ==
  IF d > minD THEN minD ELSE IF d < 0 THEN 0 ELSE d

\* focusInMm = 1000 * (1.0f / focusDistance), truncated to unsigned.
FocusInMm(d) == 1000 \div d

\* The focus rectangle: the latest region if it has a positive area.
RegionRect(res, r) ==
  IF r # NoRegion /\ r.right > r.left /\ r.bottom > r.top
  THEN ConvertToIaWindow(res, r) ELSE ZeroRect

(***************************************************************************)
(* updateAfParameter(param), section by section.                          *)
(*                                                                         *)
(* Mode: a focus mode other than the previous one resets the AF block     *)
(* (initAfParameter), scans in the continuous modes, and resets the       *)
(* trigger, the force lock and the trigger-scan flag.                     *)
(***************************************************************************)
AfModeChanged(p) == afMode # p.afMode
TriggerAfterMode(p) == IF AfModeChanged(p) THEN "IDLE" ELSE afTrigger
LockAfterMode(p) == ~AfModeChanged(p) /\ afForceLock
ScanAfterMode(p) == ~AfModeChanged(p) /\ duringAfTriggerScan
FocusAfterMode(p) ==
  IF ~AfModeChanged(p) THEN afParams.focusMode
  ELSE IF p.afMode \in ContinuousModes THEN "auto" ELSE "infinity"

(* Trigger: a START or CANCEL edge against the previous trigger.          *)
TriggerStart(p) == TriggerAfterMode(p) # "START" /\ p.afTrigger = "START"
TriggerCancel(p) ==
  ~TriggerStart(p) /\ TriggerAfterMode(p) # "CANCEL" /\ p.afTrigger = "CANCEL"

(* updateAfParameterForAfTriggerStart / ...Cancel: both drop the lock and *)
(* set or clear the scan flag; a start locks CONTINUOUS_VIDEO at once and  *)
(* starts a scan in AUTO/MACRO, a cancel stops the AUTO/MACRO scan.        *)
ForceLockAfterTrigger(p) ==
  IF TriggerStart(p) THEN p.afMode = "CONTINUOUS_VIDEO"
  ELSE ~TriggerCancel(p) /\ LockAfterMode(p)
ScanAfterTrigger_NoCancel(p) == TriggerStart(p) \/ ScanAfterMode(p)
ScanAfterTrigger(p) == TriggerStart(p) \/ (~TriggerCancel(p) /\ ScanAfterMode(p))
FocusAfterTrigger_NoCancel(p) ==
  IF p.afMode \in ScanModes /\ TriggerStart(p) THEN "auto" ELSE FocusAfterMode(p)
FocusAfterTrigger(p) ==
  IF p.afMode \in ScanModes /\ TriggerStart(p) THEN "auto"
  ELSE IF p.afMode \in ScanModes /\ TriggerCancel(p) THEN "infinity"
  ELSE FocusAfterMode(p)

(* Manual lens position: in OFF mode a non-zero clamped distance is set   *)
(* in millimetres, a zero one focuses at infinity; other modes clear the  *)
(* manual focus parameters.                                                *)
ManualDistance(p) == ClampFocusDistance(p.focusDistance, p.minFocusDistance)
FocusModeAfterManual(p) ==
  IF p.afMode # "OFF" THEN FocusAfterTrigger(p)
  ELSE IF ManualDistance(p) # 0 THEN "manual" ELSE "infinity"
ManualFocusAction(p) ==
  IF p.afMode # "OFF" THEN ZeroFocusAction
  ELSE IF ManualDistance(p) # 0 THEN "set_distance" ELSE "none"
ManualFocusDistanceMm(p) ==
  IF p.afMode = "OFF" /\ ManualDistance(p) # 0 THEN FocusInMm(ManualDistance(p)) ELSE 0

\* updateAfParameter(param): the sections above, in the code's order.
UpdateAfParameter(p) ==
  /\ afMode' = p.afMode
  /\ afTrigger' = p.afTrigger
  /\ afForceLock' = ForceLockAfterTrigger(p)
  /\ duringAfTriggerScan' = ScanAfterTrigger(p)
  /\ afParams' = [focusMode |-> FocusModeAfterManual(p),
                  triggerNewSearch |-> p.afMode \in ScanModes /\ TriggerStart(p),
                  focusRect |-> RegionRect(p.resolution, p.afRegion),
                  manualAction |-> ManualFocusAction(p),
                  manualDistance |-> ManualFocusDistanceMm(p)]

(***************************************************************************)
(* fillAfTriggerResult(afResults): returns at once unless AF is           *)
(* force-locked; then, in CONTINUOUS_PICTURE, AUTO and MACRO, the lock    *)
(* follows whether the engine's scan has settled.                          *)
(***************************************************************************)
FillAfTriggerResult(status) ==
  /\ afForceLock' =
       IF afForceLock /\ afMode \in {"CONTINUOUS_PICTURE", "AUTO", "MACRO"}
       THEN status \notin {"local_search", "extended_search"}
       ELSE afForceLock
  /\ UNCHANGED <<afMode, afTrigger, duringAfTriggerScan, afParams>>

NextAf ==
  \/ ReinitAf
  \/ \E p \in AfRequests : UpdateAfParameter(p)
  \/ \E s \in AfStatuses : FillAfTriggerResult(s)

SpecAf == InitAf /\ [][NextAf]_vars

-----------------------------------------------------------------------------
\* The AF parameter blocks the code can produce.
AfParamsType ==
  [focusMode : FocusModes, triggerNewSearch : BOOLEAN, focusRect : Rects,
   manualAction : FocusActions, manualDistance : Nat]

\* Type invariant.
TypeOK ==
  /\ afMode \in AfModes
  /\ afTrigger \in AfTriggers
  /\ afForceLock \in BOOLEAN
  /\ duringAfTriggerScan \in BOOLEAN
  /\ afParams \in AfParamsType

\* The force lock is only ever held in CONTINUOUS_VIDEO during a user
\* trigger scan: updateAfParameterForAfTriggerStart sets it only there, a
\* mode change or a cancel drops it, and fillAfTriggerResult cannot raise it.
ForceLockOnlyInVideoScan ==
  afForceLock => afMode = "CONTINUOUS_VIDEO" /\ duringAfTriggerScan

\* The operation mode sent to the engine matches the trigger state across
\* frames: in AUTO/MACRO the engine scans exactly while a user trigger scan
\* is in progress, the continuous modes always scan, and in OFF the mode is
\* manual exactly when a manual focus distance is being set.
OperationModeMatchesTrigger ==
  /\ afMode \in ScanModes =>
       afParams.focusMode = (IF duringAfTriggerScan THEN "auto" ELSE "infinity")
  /\ afMode \in ContinuousModes => afParams.focusMode = "auto"
  /\ afMode = "OFF" =>
       (afParams.focusMode = "manual" <=> afParams.manualAction = "set_distance")

\* A new AF search is requested only on the frame where the trigger rises
\* to START: a START held across frames in the same mode never restarts
\* the scan (updateAfParameter's edge detection against mAfTrigger).
NewSearchOnlyOnRisingEdge ==
  [][afParams'.triggerNewSearch =>
       /\ afTrigger' = "START"
       /\ (afTrigger # "START" \/ afMode' # afMode)]_vars

\* After a user trigger in CONTINUOUS_PICTURE the ongoing scan is left to
\* finish and "the af result is checked later": once the engine reports a
\* settled scan, fillAfTriggerResult locks AF (the comments at
\* updateAfParameterForAfTriggerStart and fillAfTriggerResult).
SettledScanLocksContinuousPicture ==
  (afMode = "CONTINUOUS_PICTURE" /\ duringAfTriggerScan) =>
     \A s \in AfStatuses \ {"local_search", "extended_search"} :
        ENABLED (FillAfTriggerResult(s) /\ afForceLock')

\* Spec section 3: a focus region is applied only if it has positive width
\* and height; otherwise the previous region persists.  Within one focus
\* mode (a mode change resets the AF block), a focus rectangle once set
\* is never dropped back to the zero rectangle.
FocusRegionPersists ==
  [][afMode' = afMode /\ afParams.focusRect # ZeroRect =>
       afParams'.focusRect # ZeroRect]_vars


\* The trigger-session view of the AF state: the mode and trigger of the
\* latest request, mDuringAfTriggerScan and mAfForceLock.
Session == INSTANCE AfTriggerSession
             WITH mode <- afMode, trigger <- afTrigger,
                  scanning <- duringAfTriggerScan, locked <- afForceLock

\* The AF component implements the trigger-session protocol: every init(),
\* updateAfParameter() and fillAfTriggerResult() step starts a scan only on
\* a rising START, ends it only on a rising CANCEL, a mode change or init(),
\* takes the lock only with a scan in CONTINUOUS_VIDEO, and an engine result
\* never changes the scan or the lock.
ImplementsSession == Session!Spec

=============================================================================
