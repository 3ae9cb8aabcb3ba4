--------------------------- MODULE Intel3AParameter ---------------------------
(***************************************************************************)
(* The parameter translator: one Intel3AParameter object owning the AE,   *)
(* AWB and AF state.  updateParameter() applies one request to AE, then   *)
(* AWB, then AF, as a single step (the object is used by one pipeline     *)
(* thread, so no other call interleaves with it); init() resets all three *)
(* components; setSensorInfo() stores the sensor descriptor; the result   *)
(* overrides come in any order between requests.  updateAeResult() checks *)
(* its argument and changes nothing, so it is a stuttering step.          *)
(***************************************************************************)
EXTENDS Intel3AAe, Intel3AAwb, Intel3AAf

CONSTANTS
  ParamRequests,      \* aiq_parameter_t values: [ae, awb, af] views of one request
  SensorDescriptors,  \* ia_aiq_exposure_sensor_descriptor values
  ZeroDescriptor      \* the descriptor as CLEAR(mAeParams) leaves it

\* The three views are of the same request: the fields the components
\* share (the frame resolution and the AE converge speed) agree.
ASSUME ParamAssumption ==
  /\ ParamRequests \subseteq [ae : AeRequests, awb : AwbRequests, af : AfRequests]
  /\ \A r \in ParamRequests :
       /\ r.ae.resolution = r.awb.resolution
       /\ r.ae.resolution = r.af.resolution
       /\ r.ae.aeConvergeSpeed = r.awb.aeConvergeSpeed
  /\ ZeroDescriptor \notin SensorDescriptors

VARIABLE sensorDescriptor  \* mAeParams.sensor_descriptor[0]

allVars == <<aeVars, awbVars, vars, sensorDescriptor>>

\* The state after the constructor and init().
Init == InitAe /\ InitAwb /\ InitAf /\ sensorDescriptor = ZeroDescriptor

\* init(): every component back to its defaults; the sensor descriptor stays.
Reinit == ReinitAe /\ ReinitAwb /\ ReinitAf /\ UNCHANGED sensorDescriptor

\* setSensorInfo(descriptor).
SetSensorInfo(d) ==
  /\ sensorDescriptor' = d
  /\ UNCHANGED <<aeVars, awbVars, vars>>

\* updateParameter(param): AE, then AWB, then AF; each reads only its own
\* state and the request, so the order leaves no trace in the state.
UpdateParameter(r, cca) ==
  /\ UpdateAeParameter(r.ae, cca)
  /\ UpdateAwbParameter(r.awb)
  /\ UpdateAfParameter(r.af)
  /\ UNCHANGED sensorDescriptor

\* The result overrides the pipeline calls with the engine's results.
PaResultStep ==
  /\ UpdatePaResult(EngineGains, EngineMatrix)
  /\ UNCHANGED <<aeVars, vars, sensorDescriptor>>
AwbResultStep(e) ==
  /\ UpdateAwbResult(e)
  /\ UNCHANGED <<aeVars, vars, sensorDescriptor>>
AfResultStep(s) ==
  /\ FillAfTriggerResult(s)
  /\ UNCHANGED <<aeVars, awbVars, sensorDescriptor>>

Next ==
  \/ Reinit
  \/ \E d \in SensorDescriptors : SetSensorInfo(d)
  \/ \E r \in ParamRequests, cca \in CcaOutcomes : UpdateParameter(r, cca)
  \/ PaResultStep
  \/ \E e \in EngineRatios : AwbResultStep(e)
  \/ \E s \in AfStatuses : AfResultStep(s)

Spec == Init /\ [][Next]_allVars

-----------------------------------------------------------------------------
\* Spec sections 3 and 4.1: for AE and for AWB, a convergence time other
\* than "engine decides" (-1) is positive and comes with a tick rate of 1,
\* and the tick rate is never below 1 -- across every sequence of
\* requests switching between AIQ and HAL speed modes and re-inits.
ConvergenceModeConsistent ==
  /\ aePerTicks >= 1 /\ awbPerTicks >= 1
  /\ aeParams.convergenceTime # -1 =>
       aeParams.convergenceTime > 0 /\ aePerTicks = 1
  /\ awbParams.convergenceTime # -1 =>
       awbParams.convergenceTime > 0 /\ awbPerTicks = 1

\* Until the first request after init(), no override of any component is
\* active, whatever requests and results came before the init: no manual
\* AE value, neither AWB override flag nor stored override data, and no AF
\* lock or trigger scan (init() and initAwbParameter() between them reset
\* every piece of override state).
InitClearsOverrides ==
  aeRequest = NoRequest =>
    /\ aeParams.manualExposureTime = ZeroArray
    /\ aeParams.manualAnalogGain = ZeroArray
    /\ aeParams.manualIso = ZeroArray
    /\ ~useManualAwbGain /\ manualGains = ZeroGains
    /\ ~useManualColorMatrix /\ colorMatrix = ZeroMatrix
    /\ ~afForceLock /\ ~duringAfTriggerScan

=============================================================================
