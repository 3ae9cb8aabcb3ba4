--------------------------- MODULE AfTriggerSession ---------------------------
(***************************************************************************)
(* What the AF part of Intel3AParameter promises about user trigger scans, *)
(* with the engine's parameter block left out: the per-frame request      *)
(* carries a focus mode and a trigger level, and                          *)
(*   - a scan starts exactly on a rising START edge (a START after a      *)
(*     trigger other than START, or a START together with a mode change); *)
(*   - a scan ends on a rising CANCEL edge, on a mode change without a    *)
(*     START, and on init();                                               *)
(*   - the force lock is taken only when a scan starts in                 *)
(*     CONTINUOUS_VIDEO and is released when the scan ends;               *)
(*   - a request without an edge in the same mode, and every engine       *)
(*     result, leave the scan and the lock as they are.                   *)
(***************************************************************************)
VARIABLES
  mode,      \* focus mode of the latest request
  trigger,   \* trigger level of the latest request
  scanning,  \* a user trigger scan is in progress
  locked     \* AF is force-locked

sessionVars == <<mode, trigger, scanning, locked>>

Modes == {"OFF", "AUTO", "MACRO", "CONTINUOUS_VIDEO", "CONTINUOUS_PICTURE"}
Triggers == {"IDLE", "START", "CANCEL"}

Init ==
  /\ mode = "AUTO"
  /\ trigger = "IDLE"
  /\ scanning = FALSE
  /\ locked = FALSE

\* init(): back to the default mode with no scan.
Reset ==
  /\ mode' = "AUTO"
  /\ trigger' = "IDLE"
  /\ scanning' = FALSE
  /\ locked' = FALSE

\* A request whose trigger rises to START: a scan begins, locked in video.
StartScan(m) ==
  /\ trigger # "START" \/ m # mode
  /\ mode' = m
  /\ trigger' = "START"
  /\ scanning' = TRUE
  /\ locked' = (m = "CONTINUOUS_VIDEO")

\* A request that rises to CANCEL, or changes the mode without a START.
EndScan(m, t) ==
  /\ \/ m = mode /\ t = "CANCEL" /\ trigger # "CANCEL"
     \/ m # mode /\ t # "START"
  /\ mode' = m
  /\ trigger' = t
  /\ scanning' = FALSE
  /\ locked' = FALSE

\* A request in the same mode whose trigger makes no edge.
Hold(t) ==
  /\ t = "START" => trigger = "START"
  /\ t = "CANCEL" => trigger = "CANCEL"
  /\ mode' = mode
  /\ trigger' = t
  /\ UNCHANGED <<scanning, locked>>

Next ==
  \/ Reset
  \/ \E m \in Modes : StartScan(m)
  \/ \E m \in Modes, t \in Triggers : EndScan(m, t)
  \/ \E t \in Triggers : Hold(t)

Spec == Init /\ [][Next]_sessionVars

=============================================================================
