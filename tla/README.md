# TLA+ models of Intel3AParameter

This directory holds TLA+ models of the 3A parameter translator in
`src/src/3a/intel3a/Intel3AParameter.cpp`, plus TLC configurations and TLAPS
proofs. The translator turns each frame's capture request into the parameter
blocks of the proprietary 3A engine, and it overrides the engine's results
when the application asked for manual white balance or colour.

## The system

All state belongs to one `Intel3AParameter` object per camera. The object is
used by one pipeline thread (spec section 5), so no two calls overlap. Its
operations are:

| Operation | What it does |
|---|---|
| constructor, `init()` | CLEAR every block, then set the defaults (`initAeParameter`, `initAfParameter`, `initAwbParameter`, plus the colour and AF resets in `init()` itself) |
| `updateParameter(param)` | once per frame: `updateAeParameter`, then `updateAwbParameter`, then `updateAfParameter` |
| `setSensorInfo(d)` | copies the sensor descriptor into the AE block |
| `updateAeResult` | checks its argument and changes nothing |
| `updatePaResult` | replaces the engine's colour matrix/gains by the manual colour transform |
| `updateAwbResult` | replaces or scales the engine's per-G ratios from the manual colour gains, manual AWB gains or gain shift |
| `fillAfTriggerResult` | releases or keeps the AF force lock from the engine's AF status |

The components only interact through the shared request: its resolution and
its AE converge speed, which the AWB code reads too. The result overrides read
the state the last request left behind. The pipeline calls them between
requests, in an order that is not among the sources, so every order is
allowed.

## Modules

| Module | Models | State (code variable) | Actions |
|---|---|---|---|
| `Intel3AUtils` | CLIP, coordinate conversions, speed-to-time, normalizeAwbGain (iutils/AiqUtils are not among the sources: modelled from the spec) | none | operators |
| `Intel3AAf` | AF trigger state machine | `afMode` (mAfMode), `afTrigger` (mAfTrigger), `afForceLock`, `duringAfTriggerScan`, `afParams` (mAfParams) | `ReinitAf` (init), `UpdateAfParameter(p)`, `FillAfTriggerResult(status)` |
| `Intel3AAe` | manual AE policy and AE convergence | `aeParams` (mAeParams: exposure count, manual limits, priority, manual arrays, ev shift, convergence time, metering point), `aePerTicks`; history `aeRequest` | `ReinitAe` (init), `UpdateAeParameter(p, cca)` |
| `Intel3AAwb` | AWB/colour policy and both result overrides | `awbParams`, `useManualAwbGain`, `useManualColorMatrix`, `manualGains`, `awbGainShift`, `colorMatrix`, `colorGains`, `awbPerTicks`, `paResult`, `awbResult`; history `awbRequest` | `ReinitAwb`, `UpdateAwbParameter(p)`, `UpdatePaResult`, `UpdateAwbResult(engine)` |
| `Intel3AParameter` | the whole object | all of the above plus `sensorDescriptor` | `Reinit`, `SetSensorInfo`, `UpdateParameter` (AE∧AWB∧AF in one step), `PaResultStep`, `AwbResultStep`, `AfResultStep` |
| `AfTriggerSession` | the trigger-session protocol the AF part promises (abstract) | `mode`, `trigger`, `scanning`, `locked` | `Reset`, `StartScan(m)`, `EndScan(m, t)`, `Hold(t)` |
| `Intel3AAfProofs` | TLAPS proofs about `Intel3AAf`, including the refinement | | |
| `Intel3AAeProofs` | TLAPS proofs about `Intel3AAe` | | |
| `Intel3AAwbProofs` | TLAPS proofs about `Intel3AAwb` | | |
| `Intel3AParameterProofs` | TLAPS proofs about the composed object | | |
| `MC_*` | TLC instances | | |

Each update action models a whole handler and every helper it calls. For
example, `UpdateAfParameter` is the mode section, the trigger edge with the
start and cancel handlers, the region section and the manual lens section, in
the code's order. Each section is a named operator (`TriggerStart`,
`ForceLockAfterTrigger`, `FocusModeAfterManual`, ...) that computes the value
the section leaves. The map in `PROJECT.json` names the source lines of every
definition.

Data abstractions:
- Windows, coordinates and resolutions are small integer records.
- A colour matrix is a model value.
- Gains in dB are multiples of 20, so `pow(10, dB/20)` is an integer. It is the recursive function `Pow10` of the whole exponent, so the proofs can reason about it.
- The AWB per-G ratios are exact fractions `[num, den]`.
- Normalised AWB gains are scaled by `AWB_GAIN_MAX`, so they are integers.
- The focus distance is an integer number of diopters, and `1000 / d` is truncated as the code's unsigned conversion truncates.
- INT_MAX is scaled down to 5000, so that a 40 dB range overflows it as a large gain range overflows the real bound.
- The platform's ranges, its exposure count and the calibration lookup (`CcaOutcomes`: unavailable or ok) are constants or nondeterministic inputs.

Left out: the frame use, flicker mode, weight grid, lens position and its
timestamp. They are verbatim enum or value copies that no property tells apart.

## Runs

| Run | Expect | What it shows |
|---|---|---|
| `af_trigger` | pass | Over any sequence of AF requests, engine statuses and re-inits, four properties hold. `ForceLockOnlyInVideoScan`: the lock is held only in CONTINUOUS_VIDEO during a trigger scan. `OperationModeMatchesTrigger`: the engine's operation mode agrees with the scan flag in every mode, and in OFF "manual" goes with "set distance". `NewSearchOnlyOnRisingEdge`: a new search is requested only on a rising START edge. `ImplementsSession`: the AF component implements `AfTriggerSession`. `TypeOK`. |
| `af_cp_lock` | violation | A CONTINUOUS_PICTURE trigger never locks AF after its scan settles (finding). |
| `af_region` | violation | A request without a region drops the previous focus region (finding). |
| `ae_manual` | pass | `ManualArraysFromLatestRequest`: no manual exposure, gain or ISO reaches the engine unless the latest request asked for it in manual mode, its priority allows it, and its slot is within the current exposure count. |
| `ae_limits` | pass | `ManualLimitsWithinPlatform`: the exposure-time and ISO limits lie in the platform range and are ordered. `IsoLimitsPaired`: the ISO pair is set together, below INT_MAX. |
| `ae_iso_gain` | violation | A manual ISO does not overwrite the manual analog gain (finding). |
| `ae_frametime` | violation | The frame-time limits are left stale, not at -1 (finding). |
| `awb_overrides` | pass | `ResultOverridesFollowLatestRequest`: every PA/AWB result override equals what the latest request alone asks for, although the gains, matrix and flags persist across frames. |
| `awb_ticks` | violation | AWB's HAL tick rate follows the AE speed (finding). |
| `awb_neutral` | violation | With no override the engine's AWB ratios are still rescaled (finding). |
| `translator` | pass | `ConvergenceModeConsistent`: AE and AWB pair a convergence time with a tick rate of 1. `InitClearsOverrides`: after `init()` no AE, AWB or AF override is active until the next request. Both are checked over whole requests, results, sensor updates and re-inits. |

Every passing property has a mutant in `PROJECT.json`: a plausible bug in the
mapped code that TLC catches. Examples are a dropped guard in
`setManualExposure`, an unclipped max in `setAeManualLimits`, an ISO overflow
check on the min only, a flag not reset at the top of `updateAwbParameter`,
and `init()` forgetting `mUseManualColorMatrix`.

### Bounds

Inputs are small sets, chosen so that every guard and early return is taken
both ways:
- exposure counts 1 and 2;
- a scene with platform ranges and one without;
- requested ranges below, inside and across the platform range, and invalid ones;
- FPS range, single FPS, or neither;
- gains and ISO values that are negative, zero or positive;
- all three priorities;
- valid and invalid colour gains;
- unsorted CCT ranges;
- both speed modes;
- every AF mode and trigger;
- a valid region, an empty region, and a window with no area.

The AE state depends only on the latest request, apart from the frame-time
limits, so depth 3 covers it. AF and AWB keep state across frames.
- The AF graph is 4 steps deep: every previous mode and trigger is reached and combined with every next request.
- The AWB graph is 11 steps deep. The composed run fixes every field except the speed
modes, speeds, AE/AWB override modes and two AF mode/trigger pairs, which is
enough to switch the speed mode from HAL to AIQ and to re-init after every
kind of override.

### Fairness

None is assumed and no liveness property is stated. Every operation is
called by the pipeline, which is not among the sources. So nothing in this
code justifies assuming that a request, a result or a settled AF status ever
comes. The one eventuality the code intends (a CONTINUOUS_PICTURE trigger
locks once the scan settles) is violated as a safety property already: the
lock is not even enabled.

## Findings

1. **CONTINUOUS_PICTURE never locks after a trigger** (line 698).
   - `fillAfTriggerResult` returns unless `mAfForceLock` is set.
   - Only a CONTINUOUS_VIDEO trigger sets the lock, and any mode change or cancel clears it.
   - So the CONTINUOUS_PICTURE/AUTO/MACRO branch is dead. The theorem `AfForceLockOnlyInVideoScan` proves this for every instance.
   - The comments at lines 673 and 707 promise a lock after the scan.
2. **AWB tick rate reads the AE speed** (line 556): `switch (param.aeConvergeSpeed)` in `updateAwbParameter`.
3. **Inverted per-G clip bounds** (line 453).
   - `MAX_PER_G = START/END` is below `MIN_PER_G` when the normalised range starts below where it ends. The model uses 0.5..4.0, scaled.
   - CLIP then returns a bound that does not depend on the ratio, so even with a zero gain shift the engine's ratios are multiplied by `MIN_PER_G`.
   - The result depends on CLIP's exact shape, which is not among the sources. Every clamp shape maps ratio 1 to a bound other than 1, so the finding holds for any of them.
4. **Frame-time limits kept when no FPS is given** (line 196): spec section 4.2 says -1.
5. **Focus region cleared on every frame** (line 607): spec section 3 says the previous region persists.
6. **Manual ISO and manual gain both reach the engine** (line 302).
   - Spec section 4.2 says an applied ISO overwrites the analog-gain array, so ISO wins.
   - `setManualIso` fills `manual_iso` and leaves `manual_analog_gain` as `setManualGain` set it.
   - Which value wins is left to the engine; the comment "Will overwrite manual_analog_gain" describes the engine, not this code.

## Proofs

`Intel3AAfProofs` proves, with TLAPS and for all values of the constants
(under `ConstantsAssumption` and `UtilsAssumption`):

- `AfTypeCorrect`: `SpecAf => []TypeOK`.
- `AfForceLockOnlyInVideoScan`: `SpecAf => []ForceLockOnlyInVideoScan`.
  - The invariant is inductive on its own.
  - A trigger start sets the lock exactly in CONTINUOUS_VIDEO and sets the scan flag.
  - Otherwise the lock survives only an unchanged mode with no cancel, which also keeps the scan flag.
  - `fillAfTriggerResult` can only lower the lock.
- `AfOperationModeMatchesTrigger`: `SpecAf => []OperationModeMatchesTrigger`. The step proof splits on the requested mode (AUTO/MACRO, continuous, OFF) and, for AUTO/MACRO, on start, cancel or neither.
- `AfNewSearchOnlyOnRisingEdge`: `SpecAf => NewSearchOnlyOnRisingEdge`, an action property.
  - An update asks for a new search only when `TriggerStart` holds, which is the rising edge against the mode-reset trigger.
  - `fillAfTriggerResult` leaves the parameter block alone. This follows from `ForceLockOnlyInVideoScan`.

The step proofs are stated once, as the lemmas `AfTypeStep`, `ForceLockStep` and `SessionStep`, and the theorems cite them.

Each proof has one step per action (`ReinitAf`, `UpdateAfParameter`,
`FillAfTriggerResult`, stutter). The lemmas cover the default block, the clamp
and the region conversion.

`Intel3AAeProofs` proves `AeManualArraysFromLatestRequest`:
`SpecAe => []ManualArraysFromLatestRequest` for every platform range table
and exposure count (under `AeAssumption`).
- The invariant needs no strengthening: after `updateAeParameter` the arrays are a function of the request alone, and `init()` resets the history.
- The lemma `ManualArraysGuarded` shows that each setter writes a non-zero value only past its guards and below the exposure count. The clipping and the values themselves do not matter.

`Intel3AAeProofs` also proves three invariants of the AE component:
- `AeTypeCorrect`: `SpecAe => []AeTypeOK`. It is inductive as it stands. Its lemmas:
  - `Pow10Def` gives the defining equation of the recursive function `Pow10`, from `NatInductiveDef`;
  - `Pow10Positive` and `Pow10Monotone` prove by induction that `Pow10[k]` is a positive natural number and that it grows with `k`. The induction takes the least counterexample from `WFMin` and `NatLessThanWellFounded`, because the induction theorems with an operator parameter are beyond the provers;
  - `ClampedRangeFacts`, `GainLimitRangeFacts`, `ExpTimeLimitRangeFacts` and `IsoLimitRangeFacts` bound what each branch of `setAeManualLimits` writes;
  - `ManualArraysType` covers the manual arrays.
- `AeManualLimitsWithinPlatform`: `SpecAe => []ManualLimitsWithinPlatform`.
  - It needs `AeTypeOK` for the record update of the limits.
  - A re-init makes it hold vacuously, because it resets the request history.
  - The ISO half rests on `Pow10Monotone`: the converted platform minimum is at most the converted platform maximum. It also rests on the second `CLIP`, which bounds the maximum by the already clipped minimum.
- `AeIsoLimitsPaired`: `SpecAe => []IsoLimitsPaired`. It holds because the overflow check of `setAeManualLimits` covers both bounds, and `IsoMonotone` orders the converted bounds.

### The refinement

`AfTriggerSession` states what the AF part promises about user trigger
scans, without the engine's parameter block (spec section 4.4):
- a scan starts exactly on a rising START edge: a START after another trigger, or a START together with a mode change;
- a scan ends on a rising CANCEL, on a mode change without a START, and on `init()`;
- the lock is taken only when a scan starts in CONTINUOUS_VIDEO, and released when the scan ends;
- a request without an edge in the same mode, and every engine result, leave the scan and the lock alone.

`Intel3AAf` defines `Session == INSTANCE AfTriggerSession WITH` the
mapping `mode <- afMode`, `trigger <- afTrigger`,
`scanning <- duringAfTriggerScan` and `locked <- afForceLock`.
`ImplementsSession == Session!Spec` is checked by TLC in `af_trigger` and
proved by `AfImplementsSession` in `Intel3AAfProofs`:
- `InitAf` maps to the abstract `Init`;
- `init()` maps to `Reset`;
- `updateAfParameter()` maps to `StartScan`, `EndScan` or `Hold`. The step is split on a start edge, a cancel edge, a bare mode change, or none of them;
- `fillAfTriggerResult()` maps to a stutter. This needs the invariant `ForceLockOnlyInVideoScan` (the lock is never held in the modes whose branch would change it) and `TypeOK` (the flags are Boolean).

The mapping makes the mode reset of `mAfTrigger` visible. A START still held
while the mode changes is a new edge and starts a scan.

### Other proofs

- `Intel3AAwbProofs` proves `AwbResultOverridesFollowLatestRequest`: `SpecAwb => ResultOverridesFollowLatestRequest`, an action property.
  - It rests on the inductive invariant `OverridesFromRequest`: each of the two flags says whether the latest request's mode is its override, and the gain shift and the data an active flag reads are that request's.
  - The invariant is needed because the result overrides read state that an earlier step wrote. The action property alone is not inductive.
  - With the invariant, each result step computes exactly `RequestPaResult` or `RequestAwbResult` of the latest request. The step is split on colour transform, manual gain or gain shift.
- `Intel3AAwbProofs` also proves `AwbTypeCorrect`: `SpecAwb => []AwbTypeOK`. Its lemmas show that the sorted CCT range and the converted white point are natural numbers.
- `Intel3AParameterProofs` proves two invariants for the whole object, each inductive as it stands, with one step per operation:
  - `ParamConvergenceModeConsistent`: `Spec => []ConvergenceModeConsistent`, from `UtilsAssumption` (every speed has a positive time);
  - `ParamInitClearsOverrides`: `Spec => []InitClearsOverrides`. A request makes the AE history differ from `NoRequest`, which the lemma `RequestIsNotNoRequest` shows. No result step can raise an override.


Every invariant and action property checked by a passing run is proved. The
following stays with TLC:
- liveness (none is stated) and properties that use ENABLED (`SettledScanLocksContinuousPicture`, a violation run). The installed provers do not handle ENABLED, or liveness under fairness;
- the six violation runs. They show that a property fails on a concrete trace, which is TLC's job, not the prover's;

## Not modelled

- `Dvs.h`: only the class declaration is among the sources.
- Floating-point effects:
  - the rounding of `INT_MAX` to 2^31 at line 243;
  - the overflow of `focusInMm` for tiny distances;
  - a zero resolution in the coordinate conversions.
  These are listed as hazards with the reason they stay out.
- `getExposureNum` returning 0 (unsigned underflow at line 267) is excluded by `AeAssumption`.

## Plan for further work

Work is listed in order of value.

1. **Stale manual AWB gains and gain shift.** With the spec's `CLIP` shape and the swapped per-G bounds at line 453, `ClippedPerG` is constant, so the AWB result does not show a stale `mManualGains` or `mAwbGainShift`. A property about them needs the real `CLIP` of `iutils`, which is not among the sources.
2. **More request fields in the composed run.**
   - For example, regions with several resolutions.
   - The AE ev-shift kept from an earlier frame in manual mode (line 359).
