----------------------- MODULE Intel3AParameterProofs -----------------------
(***************************************************************************)
(* Proofs about the whole Intel3AParameter object, for every choice of    *)
(* the constants: the convergence settings of AE and AWB stay consistent, *)
(* and init() clears every override until the next request.  Both         *)
(* invariants are inductive as they stand: one step per operation of the  *)
(* object.                                                                 *)
(***************************************************************************)
EXTENDS Intel3AParameter, TLAPS

\* The operations of the object, named for the proofs.
LEMMA ParamStepCases ==
  ASSUME [Next]_allVars
  PROVE  \/ Reinit
         \/ \E d \in SensorDescriptors : SetSensorInfo(d)
         \/ \E r \in ParamRequests, cca \in CcaOutcomes : UpdateParameter(r, cca)
         \/ PaResultStep
         \/ \E e \in EngineRatios : AwbResultStep(e)
         \/ \E s \in AfStatuses : AfResultStep(s)
         \/ UNCHANGED allVars
  BY DEF Next

\* A request's views lie in the request sets of the three components.
LEMMA RequestViews ==
  ASSUME NEW r \in ParamRequests
  PROVE  r.ae \in AeRequests /\ r.awb \in AwbRequests /\ r.af \in AfRequests
  BY ParamAssumption

\* Every converge speed maps to a positive convergence time.
LEMMA SpeedTimePositive ==
  ASSUME NEW s \in ConvergeSpeeds
  PROVE  SpeedTime[s] \in Nat /\ SpeedTime[s] > 0
  BY UtilsAssumption

-----------------------------------------------------------------------------
\* Whatever sequence of AIQ and HAL requests and re-inits came before, a
\* convergence time other than -1 is positive and runs its component every
\* frame, and the tick rates are never below one.
THEOREM ParamConvergenceModeConsistent == Spec => []ConvergenceModeConsistent
<1> DEFINE Inv == ConvergenceModeConsistent
<1>1. Init => Inv
  BY DEF Init, InitAe, InitAwb, Inv, ConvergenceModeConsistent
<1>2. Inv /\ [Next]_allVars => Inv'
  <2> SUFFICES ASSUME Inv, [Next]_allVars PROVE Inv'
    OBVIOUS
  <2>1. CASE Reinit
    BY <2>1 DEF Reinit, ReinitAe, ReinitAwb, Inv, ConvergenceModeConsistent
  <2>2. ASSUME NEW r \in ParamRequests, NEW cca \in CcaOutcomes,
               UpdateParameter(r, cca)
        PROVE  Inv'
    <3>1. r.ae \in AeRequests /\ r.awb \in AwbRequests
      BY RequestViews
    <3>2. r.ae.aeConvergeSpeed \in ConvergeSpeeds
          /\ r.awb.awbConvergeSpeed \in ConvergeSpeeds
      BY <3>1 DEF AeRequests, AwbRequests
    <3>3. aePerTicks' >= 1
          /\ (aeParams'.convergenceTime # -1 =>
                aeParams'.convergenceTime > 0 /\ aePerTicks' = 1)
      \* AIQ: the speed's time and one tick; HAL: -1 and the speed's ticks.
      BY <2>2, <3>2, SpeedTimePositive
      DEF UpdateParameter, UpdateAeParameter, AePerTicks, PerTicks,
          ConvertSpeedModeToTime
    <3>4. awbPerTicks' >= 1
          /\ (awbParams'.convergenceTime # -1 =>
                awbParams'.convergenceTime > 0 /\ awbPerTicks' = 1)
      BY <2>2, <3>2, SpeedTimePositive
      DEF UpdateParameter, UpdateAwbParameter, ConvertSpeedModeToTime
    <3>5. QED
      BY <3>3, <3>4 DEF Inv, ConvergenceModeConsistent
  <2>3. ASSUME NEW d \in SensorDescriptors, SetSensorInfo(d) PROVE Inv'
    BY <2>3 DEF SetSensorInfo, aeVars, awbVars, Inv, ConvergenceModeConsistent
  <2>4. CASE PaResultStep
    BY <2>4 DEF PaResultStep, UpdatePaResult, aeVars, Inv,
                ConvergenceModeConsistent
  <2>5. ASSUME NEW e \in EngineRatios, AwbResultStep(e) PROVE Inv'
    BY <2>5 DEF AwbResultStep, UpdateAwbResult, aeVars, Inv,
                ConvergenceModeConsistent
  <2>6. ASSUME NEW s \in AfStatuses, AfResultStep(s) PROVE Inv'
    BY <2>6 DEF AfResultStep, aeVars, awbVars, Inv, ConvergenceModeConsistent
  <2>7. CASE UNCHANGED allVars
    BY <2>7 DEF allVars, aeVars, awbVars, Inv, ConvergenceModeConsistent
  <2>8. QED
    BY <2>1, <2>2, <2>3, <2>4, <2>5, <2>6, <2>7, ParamStepCases
<1>3. QED
  BY <1>1, <1>2, PTL DEF Spec

-----------------------------------------------------------------------------
\* A request is never the "no request yet" value of the AE history.
LEMMA RequestIsNotNoRequest ==
  ASSUME NEW p \in AeRequests
  PROVE  p # NoRequest
  <1>1. "aeMode" \in DOMAIN p /\ "aeMode" \notin DOMAIN NoRequest
    BY DEF AeRequests, NoRequest
  <1>2. QED
    BY <1>1

\* Between init() and the next request no override is active: the engine
\* results and sensor updates that may come in that interval never raise
\* an override flag, a manual AE value, the AF lock or a trigger scan.
THEOREM ParamInitClearsOverrides == Spec => []InitClearsOverrides
<1> DEFINE Inv == InitClearsOverrides
<1>1. Init => Inv
  BY DEF Init, InitAe, InitAwb, InitAf, Inv, InitClearsOverrides
<1>2. Inv /\ [Next]_allVars => Inv'
  <2> SUFFICES ASSUME Inv, [Next]_allVars PROVE Inv'
    OBVIOUS
  <2>1. CASE Reinit
    BY <2>1 DEF Reinit, ReinitAe, ReinitAwb, ColorOverrideReset, ReinitAf,
                Inv, InitClearsOverrides
  <2>2. ASSUME NEW r \in ParamRequests, NEW cca \in CcaOutcomes,
               UpdateParameter(r, cca)
        PROVE  Inv'
    \* The request becomes the AE history, so the invariant holds vacuously.
    <3>1. aeRequest' # NoRequest
      BY <2>2, RequestViews, RequestIsNotNoRequest
      DEF UpdateParameter, UpdateAeParameter
    <3>2. QED
      BY <3>1 DEF Inv, InitClearsOverrides
  <2>3. ASSUME NEW d \in SensorDescriptors, SetSensorInfo(d) PROVE Inv'
    BY <2>3 DEF SetSensorInfo, aeVars, awbVars, vars, Inv, InitClearsOverrides
  <2>4. CASE PaResultStep
    BY <2>4 DEF PaResultStep, UpdatePaResult, aeVars, vars, Inv,
                InitClearsOverrides
  <2>5. ASSUME NEW e \in EngineRatios, AwbResultStep(e) PROVE Inv'
    BY <2>5 DEF AwbResultStep, UpdateAwbResult, aeVars, vars, Inv,
                InitClearsOverrides
  <2>6. ASSUME NEW s \in AfStatuses, AfResultStep(s) PROVE Inv'
    \* fillAfTriggerResult() only ever releases a lock that is held.
    BY <2>6 DEF AfResultStep, FillAfTriggerResult, aeVars, awbVars, Inv,
                InitClearsOverrides
  <2>7. CASE UNCHANGED allVars
    BY <2>7 DEF allVars, aeVars, awbVars, vars, Inv, InitClearsOverrides
  <2>8. QED
    BY <2>1, <2>2, <2>3, <2>4, <2>5, <2>6, <2>7, ParamStepCases
<1>3. QED
  BY <1>1, <1>2, PTL DEF Spec

=============================================================================
