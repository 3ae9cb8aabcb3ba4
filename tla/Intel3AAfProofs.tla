--------------------------- MODULE Intel3AAfProofs ---------------------------
(***************************************************************************)
(* Proofs about the AF trigger state machine of Intel3AParameter, for     *)
(* every choice of the constants.  Each invariant is inductive on its own *)
(* (with the type invariant where a field's type matters): one step per   *)
(* operation of the AF component, init(), updateAfParameter() and         *)
(* fillAfTriggerResult().                                                  *)
(***************************************************************************)
EXTENDS Intel3AAf, TLAPS

\* The steps of the AF component, named for the proofs.
LEMMA StepCases ==
  ASSUME [NextAf]_vars
  PROVE  \/ ReinitAf
         \/ \E p \in AfRequests : UpdateAfParameter(p)
         \/ \E s \in AfStatuses : FillAfTriggerResult(s)
         \/ UNCHANGED vars
  BY DEF NextAf

-----------------------------------------------------------------------------
\* The default AF block of initAfParameter() is well typed.
LEMMA DefaultAfParamsType == DefaultAfParams \in AfParamsType
<1>1. ZeroRect \in Rects
  BY DEF Rects
<1>2. MaxFocusDistance \in Nat
  BY ConstantsAssumption
<1>3. QED
  BY <1>1, <1>2 DEF DefaultAfParams, AfParamsType, FocusModes, FocusActions

\* The clamped manual focus distance is never negative.
LEMMA ClampFocusDistanceNat ==
  ASSUME NEW d \in Int, NEW m \in Nat
  PROVE  ClampFocusDistance(d, m) \in Nat
  BY DEF ClampFocusDistance

\* The focus rectangle is the zero rectangle or a converted request window.
LEMMA RegionRectType ==
  ASSUME NEW res \in Resolutions, NEW r \in Windows \cup {NoRegion}
  PROVE  RegionRect(res, r) \in Rects
  BY DEF RegionRect, Rects

\* The AF state after the constructor is well typed.
LEMMA AfTypeInit == InitAf => TypeOK
  BY DefaultAfParamsType DEF InitAf, TypeOK, AfModes, AfTriggers

\* updateAfParameter(), fillAfTriggerResult() and init() keep the AF state
\* well typed.
LEMMA AfTypeStep ==
  ASSUME TypeOK, [NextAf]_vars
  PROVE  TypeOK'
<1>1. CASE ReinitAf
  BY <1>1, DefaultAfParamsType DEF ReinitAf, TypeOK, AfModes, AfTriggers
<1>2. ASSUME NEW p \in AfRequests, UpdateAfParameter(p) PROVE TypeOK'
  <2>1. /\ p.afMode \in AfModes /\ p.afTrigger \in AfTriggers
        /\ p.resolution \in Resolutions /\ p.afRegion \in Windows \cup {NoRegion}
        /\ p.focusDistance \in Int /\ p.minFocusDistance \in Nat
    BY ConstantsAssumption DEF AfRequests
  <2>2. RegionRect(p.resolution, p.afRegion) \in Rects
    BY <2>1, RegionRectType
  <2>3. ManualFocusDistanceMm(p) \in Nat
    <3>1. ManualDistance(p) \in Nat
      BY <2>1, ClampFocusDistanceNat DEF ManualDistance
    <3>2. QED
      BY <3>1 DEF ManualFocusDistanceMm, FocusInMm
  <2>4. FocusModeAfterManual(p) \in FocusModes
    BY DEF FocusModeAfterManual, FocusAfterTrigger, FocusAfterMode,
           FocusModes, TypeOK, AfParamsType
  <2>5. ManualFocusAction(p) \in FocusActions
    BY ConstantsAssumption DEF ManualFocusAction, FocusActions
  <2>6. QED
    BY <1>2, <2>1, <2>2, <2>3, <2>4, <2>5
    DEF UpdateAfParameter, TypeOK, AfParamsType, ForceLockAfterTrigger,
        ScanAfterTrigger
<1>3. ASSUME NEW s \in AfStatuses, FillAfTriggerResult(s) PROVE TypeOK'
  BY <1>3 DEF FillAfTriggerResult, TypeOK
<1>4. CASE UNCHANGED vars
  BY <1>4 DEF vars, TypeOK
<1>5. QED
  BY <1>1, <1>2, <1>3, <1>4, StepCases

\* updateAfParameter() and init() always leave the AF state well typed.
THEOREM AfTypeCorrect == SpecAf => []TypeOK
<1>1. InitAf => TypeOK
  BY AfTypeInit
<1>2. TypeOK /\ [NextAf]_vars => TypeOK'
  BY AfTypeStep
<1>3. QED
  BY <1>1, <1>2, PTL DEF SpecAf

\* Every AF step keeps the force lock inside a CONTINUOUS_VIDEO scan.
LEMMA ForceLockStep ==
  ASSUME ForceLockOnlyInVideoScan, [NextAf]_vars
  PROVE  ForceLockOnlyInVideoScan'
<1>1. CASE ReinitAf
  BY <1>1 DEF ReinitAf, ForceLockOnlyInVideoScan
<1>2. ASSUME NEW p \in AfRequests, UpdateAfParameter(p)
      PROVE  ForceLockOnlyInVideoScan'
  <2>1. CASE TriggerStart(p)
    BY <1>2, <2>1 DEF UpdateAfParameter, ForceLockOnlyInVideoScan,
                      ForceLockAfterTrigger, ScanAfterTrigger
  <2>2. CASE ~TriggerStart(p)
    \* Without a start the lock survives only an unchanged mode.
    <3>1. afForceLock' => ~AfModeChanged(p) /\ afForceLock /\ ~TriggerCancel(p)
      BY <1>2, <2>2 DEF UpdateAfParameter, ForceLockAfterTrigger, LockAfterMode
    <3>2. QED
      BY <1>2, <3>1 DEF UpdateAfParameter, ForceLockOnlyInVideoScan,
                        AfModeChanged, ScanAfterTrigger, ScanAfterMode
  <2>3. QED
    BY <2>1, <2>2
<1>3. ASSUME NEW s \in AfStatuses, FillAfTriggerResult(s)
      PROVE  ForceLockOnlyInVideoScan'
  BY <1>3 DEF FillAfTriggerResult, ForceLockOnlyInVideoScan
<1>4. CASE UNCHANGED vars
  BY <1>4 DEF vars, ForceLockOnlyInVideoScan
<1>5. QED
  BY <1>1, <1>2, <1>3, <1>4, StepCases

-----------------------------------------------------------------------------
\* The force lock is held only in CONTINUOUS_VIDEO during a trigger scan:
\* hence the lock-release branch of fillAfTriggerResult() is never taken.
THEOREM AfForceLockOnlyInVideoScan == SpecAf => []ForceLockOnlyInVideoScan
<1>1. InitAf => ForceLockOnlyInVideoScan
  BY DEF InitAf, ForceLockOnlyInVideoScan
<1>2. ForceLockOnlyInVideoScan /\ [NextAf]_vars => ForceLockOnlyInVideoScan'
  BY ForceLockStep
<1>3. QED
  BY <1>1, <1>2, PTL DEF SpecAf

-----------------------------------------------------------------------------
\* The operation mode sent to the engine agrees with the trigger state in
\* every mode, across any sequence of requests, results and re-inits.
THEOREM AfOperationModeMatchesTrigger == SpecAf => []OperationModeMatchesTrigger
<1> DEFINE Inv == OperationModeMatchesTrigger
<1>1. InitAf => Inv
  BY DEF InitAf, Inv, OperationModeMatchesTrigger, DefaultAfParams, ScanModes,
         ContinuousModes
<1>2. Inv /\ [NextAf]_vars => Inv'
  <2> SUFFICES ASSUME Inv, [NextAf]_vars PROVE Inv'
    OBVIOUS
  <2>1. CASE ReinitAf
    BY <2>1 DEF ReinitAf, Inv, OperationModeMatchesTrigger, DefaultAfParams,
                ScanModes, ContinuousModes
  <2>2. ASSUME NEW p \in AfRequests, UpdateAfParameter(p) PROVE Inv'
    <3> USE <2>2 DEF UpdateAfParameter, Inv, OperationModeMatchesTrigger
    <3>1. CASE p.afMode \in ScanModes
      \* A start scans, a cancel stops, otherwise the mode section decides.
      <4>1. CASE TriggerStart(p)
        BY <3>1, <4>1 DEF FocusModeAfterManual, FocusAfterTrigger,
                          ScanAfterTrigger, ScanModes, ContinuousModes
      <4>2. CASE ~TriggerStart(p) /\ TriggerCancel(p)
        BY <3>1, <4>2 DEF FocusModeAfterManual, FocusAfterTrigger,
                          ScanAfterTrigger, ScanModes, ContinuousModes
      <4>3. CASE ~TriggerStart(p) /\ ~TriggerCancel(p)
        BY <3>1, <4>3 DEF FocusModeAfterManual, FocusAfterTrigger,
                          ScanAfterTrigger, FocusAfterMode, ScanAfterMode,
                          AfModeChanged, ScanModes, ContinuousModes
      <4>4. QED
        BY <4>1, <4>2, <4>3
    <3>2. CASE p.afMode \in ContinuousModes
      BY <3>2 DEF FocusModeAfterManual, FocusAfterTrigger, FocusAfterMode,
                  AfModeChanged, ScanModes, ContinuousModes
    <3>3. CASE p.afMode = "OFF"
      BY <3>3 DEF FocusModeAfterManual, ManualFocusAction, ScanModes,
                  ContinuousModes
    <3>4. QED
      BY <3>1, <3>2, <3>3 DEF AfRequests, AfModes, ScanModes, ContinuousModes
  <2>3. ASSUME NEW s \in AfStatuses, FillAfTriggerResult(s) PROVE Inv'
    BY <2>3 DEF FillAfTriggerResult, Inv, OperationModeMatchesTrigger
  <2>4. CASE UNCHANGED vars
    BY <2>4 DEF vars, Inv, OperationModeMatchesTrigger
  <2>5. QED
    BY <2>1, <2>2, <2>3, <2>4, StepCases
<1>3. QED
  BY <1>1, <1>2, PTL DEF SpecAf

\* Every AF step, from a well-typed state whose lock is inside a
\* CONTINUOUS_VIDEO scan, is a step or a stutter of the session protocol.
LEMMA SessionStep ==
  ASSUME TypeOK, ForceLockOnlyInVideoScan, [NextAf]_vars
  PROVE  [Session!Next]_(Session!sessionVars)
<1>1. CASE ReinitAf
  BY <1>1 DEF ReinitAf, Session!Next, Session!Reset
<1>2. ASSUME NEW p \in AfRequests, UpdateAfParameter(p)
      PROVE  [Session!Next]_(Session!sessionVars)
  <2> USE <1>2 DEF UpdateAfParameter
  <2>1. p.afMode \in Session!Modes /\ p.afTrigger \in Session!Triggers
    BY DEF AfRequests, AfModes, AfTriggers, Session!Modes, Session!Triggers
  <2>2. CASE TriggerStart(p)
    <3>1. Session!StartScan(p.afMode)
      BY <2>2 DEF Session!StartScan, TriggerStart, TriggerAfterMode,
                  AfModeChanged, ForceLockAfterTrigger, ScanAfterTrigger
    <3>2. QED
      BY <2>1, <3>1 DEF Session!Next
  <2>3. CASE ~TriggerStart(p) /\ TriggerCancel(p)
    <3>1. Session!EndScan(p.afMode, p.afTrigger)
      BY <2>3 DEF Session!EndScan, TriggerStart, TriggerCancel,
                  TriggerAfterMode, AfModeChanged, ForceLockAfterTrigger,
                  ScanAfterTrigger
    <3>2. QED
      BY <2>1, <3>1 DEF Session!Next
  <2>4. CASE ~TriggerStart(p) /\ ~TriggerCancel(p) /\ AfModeChanged(p)
    <3>1. Session!EndScan(p.afMode, p.afTrigger)
      BY <2>4 DEF Session!EndScan, TriggerStart, TriggerAfterMode,
                  AfModeChanged, ForceLockAfterTrigger, ScanAfterTrigger,
                  LockAfterMode, ScanAfterMode
    <3>2. QED
      BY <2>1, <3>1 DEF Session!Next
  <2>5. CASE ~TriggerStart(p) /\ ~TriggerCancel(p) /\ ~AfModeChanged(p)
    <3>1. Session!Hold(p.afTrigger)
      \* The flags are Boolean, so "held and not dropped" is "unchanged".
      BY <2>5 DEF TypeOK, Session!Hold, TriggerStart, TriggerCancel,
                  TriggerAfterMode, AfModeChanged, ForceLockAfterTrigger,
                  ScanAfterTrigger, LockAfterMode, ScanAfterMode
    <3>2. QED
      BY <2>1, <3>1 DEF Session!Next
  <2>6. QED
    BY <2>2, <2>3, <2>4, <2>5
<1>3. ASSUME NEW s \in AfStatuses, FillAfTriggerResult(s)
      PROVE  [Session!Next]_(Session!sessionVars)
  \* The release branch needs the lock in a mode where it is never held.
  BY <1>3 DEF FillAfTriggerResult, ForceLockOnlyInVideoScan,
              Session!sessionVars
<1>4. CASE UNCHANGED vars
  BY <1>4 DEF vars, Session!sessionVars
<1>5. QED
  BY <1>1, <1>2, <1>3, <1>4, StepCases

-----------------------------------------------------------------------------
\* The AF component implements the trigger-session protocol of module
\* AfTriggerSession under the mapping of Intel3AAf's Session instance:
\* each updateAfParameter() step is a start, an end or a hold of the
\* session, init() is its reset, and fillAfTriggerResult() never changes
\* the lock, because the lock is only held in CONTINUOUS_VIDEO.
THEOREM AfImplementsSession == SpecAf => ImplementsSession
<1>1. InitAf => Session!Init
  BY DEF InitAf, Session!Init
<1>2. TypeOK /\ ForceLockOnlyInVideoScan /\ [NextAf]_vars
        => [Session!Next]_(Session!sessionVars)
  BY SessionStep
<1>3. QED
  BY <1>1, <1>2, AfTypeCorrect, AfForceLockOnlyInVideoScan, PTL
  DEF SpecAf, ImplementsSession, Session!Spec


-----------------------------------------------------------------------------
\* A new AF search is requested only on the frame where the trigger rises
\* to START.  updateAfParameter() computes the flag from the edge, init()
\* clears it; fillAfTriggerResult() leaves the AF block (and its flag)
\* alone, and since the lock is only held in CONTINUOUS_VIDEO
\* (ForceLockOnlyInVideoScan) it changes nothing at all: it never shows a
\* stale flag on a step without an edge.
THEOREM AfNewSearchOnlyOnRisingEdge == SpecAf => NewSearchOnlyOnRisingEdge
<1> DEFINE A == afParams'.triggerNewSearch =>
                  /\ afTrigger' = "START"
                  /\ (afTrigger # "START" \/ afMode' # afMode)
<1>1. ForceLockOnlyInVideoScan /\ [NextAf]_vars => [A]_vars
  <2> SUFFICES ASSUME ForceLockOnlyInVideoScan, [NextAf]_vars PROVE [A]_vars
    OBVIOUS
  <2>1. CASE ReinitAf
    BY <2>1 DEF ReinitAf, DefaultAfParams
  <2>2. ASSUME NEW p \in AfRequests, UpdateAfParameter(p) PROVE [A]_vars
    BY <2>2 DEF UpdateAfParameter, TriggerStart, TriggerAfterMode, AfModeChanged
  <2>3. ASSUME NEW s \in AfStatuses, FillAfTriggerResult(s) PROVE [A]_vars
    \* The lock, if held, is held in CONTINUOUS_VIDEO: the step stutters.
    <3>1. afForceLock' = afForceLock
      BY <2>3 DEF FillAfTriggerResult, ForceLockOnlyInVideoScan
    <3>2. QED
      BY <2>3, <3>1 DEF FillAfTriggerResult, vars
  <2>4. CASE UNCHANGED vars
    BY <2>4
  <2>5. QED
    BY <2>1, <2>2, <2>3, <2>4, StepCases
<1>2. QED
  BY <1>1, AfForceLockOnlyInVideoScan, PTL DEF SpecAf, NewSearchOnlyOnRisingEdge

=============================================================================
