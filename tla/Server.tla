------------------------------- MODULE Server -------------------------------
(***************************************************************************)
(* The life of the process around its requests (server.lifespan): the      *)
(* connectivity check at boot, the monitor that probes the funding source  *)
(* for as long as the process runs, logs when it is lost or back, and has  *)
(* pending melts reconciled (module Melt) on every healthy tick.           *)
(***************************************************************************)
VARIABLES
  reachable,  \* the funding source answers
  process,    \* "boot" up to lifespan's yield, then "up"
  monitor,    \* the boot check or the monitor's loop, between its awaits
  healthy,    \* the monitor's local
  notice      \* the last thing the log said about the funding source

serverVars == <<reachable, process, monitor, healthy, notice>>

ServerInit ==
  /\ reachable \in BOOLEAN
  /\ process = "boot"
  /\ monitor = "probing"
  /\ healthy = FALSE
  /\ notice = "none"

\* the one-shot check: pending melts are reconciled before requests are
\* served, but only by a source that answered
BootProbe ==
  /\ process = "boot" /\ monitor = "probing"
  /\ healthy' = reachable
  /\ notice' = IF reachable THEN "reachable" ELSE "unreachable"
  /\ monitor' = IF reachable THEN "reconciling" ELSE "sleeping"
  /\ process' = IF reachable THEN "boot" ELSE "up"
  /\ UNCHANGED reachable

BootReconciled ==
  /\ process = "boot" /\ monitor = "reconciling"
  /\ process' = "up"
  /\ monitor' = "sleeping"
  /\ UNCHANGED <<reachable, healthy, notice>>

Wakes ==
  /\ process = "up" /\ monitor = "sleeping"
  /\ monitor' = "probing"
  /\ UNCHANGED <<reachable, process, healthy, notice>>

\* Mutant: `healthy` is never set back
TickFails_StaysHealthy ==
  /\ process = "up" /\ monitor = "probing" /\ ~reachable
  /\ notice' = IF healthy THEN "unreachable" ELSE notice
  /\ monitor' = "sleeping"
  /\ UNCHANGED <<reachable, process, healthy>>

TickFails ==
  /\ process = "up" /\ monitor = "probing" /\ ~reachable
  /\ notice' = IF healthy THEN "unreachable" ELSE notice
  /\ healthy' = FALSE
  /\ monitor' = "sleeping"
  /\ UNCHANGED <<reachable, process>>

TickSucceeds ==
  /\ process = "up" /\ monitor = "probing" /\ reachable
  /\ notice' = IF healthy THEN notice ELSE "reachable"
  /\ healthy' = TRUE
  /\ monitor' = "reconciling"
  /\ UNCHANGED <<reachable, process>>

\* _reconcile_pending_melts_safely comes back whatever the round raised
TickReconciled ==
  /\ process = "up" /\ monitor = "reconciling"
  /\ monitor' = "sleeping"
  /\ UNCHANGED <<reachable, process, healthy, notice>>

SourceFlips ==
  /\ reachable' = ~reachable
  /\ UNCHANGED <<process, monitor, healthy, notice>>

ServerRestart ==
  /\ process' = "boot"
  /\ monitor' = "probing"
  /\ healthy' = FALSE
  /\ UNCHANGED <<reachable, notice>>

ServerStep ==
  \/ BootProbe \/ BootReconciled
  \/ Wakes \/ TickFails \/ TickSucceeds \/ TickReconciled

=============================================================================
