----------------------------- MODULE Reconcile ------------------------------
(***************************************************************************)
(* A funding source and the process that watches it, composed: the monitor *)
(* (Server) has the melts without a verdict asked about (Backends) while   *)
(* the source answers, besides the task of each melt.                      *)
(***************************************************************************)
EXTENDS Backends, Server

allVars == <<vars, serverVars>>

RoundsInit == Init /\ ServerInit

\* is_payment_complete, by the task that paid, or by a round of the monitor:
\* only scans of the spark SDK's own store need no network
RoundAsks(h) ==
  /\ monitor = "reconciling"
  /\ \/ reachable /\ (RestAnswers(h) \/ SparkSyncs(h) \/ SparkRescans(h))
     \/ SparkScans(h)
  /\ UNCHANGED serverVars

TaskAsks(h) ==
  /\ monitor # "reconciling" /\ process = "up"
  /\ \/ reachable /\ (RestAnswers(h) \/ SparkSyncs(h) \/ SparkRescans(h))
     \/ SparkScans(h)
  /\ UNCHANGED serverVars

ProbeRaises(h) ==
  /\ ~reachable /\ SparkProbeRaises(h)
  /\ UNCHANGED serverVars

\* requests are served, and melts paid, once the boot round is over
Elsewhere(h) ==
  /\ process = "boot" => Verify(h) \/ Source(h)
  /\ Unasked(h)
  /\ UNCHANGED serverVars

Watches == (ServerStep \/ SourceFlips) /\ UNCHANGED vars

Restarts == Restart /\ ServerRestart

RoundsNext ==
  \/ \E h \in Hashes : RoundAsks(h) \/ TaskAsks(h) \/ ProbeRaises(h) \/ Elsewhere(h)
  \/ Watches \/ Restarts

(***************************************************************************)
(* Fairness: the monitor's loop runs, pay_invoice has a timeout, a payment *)
(* resolves, the source's record catches up with it, and a round asks      *)
(* about every melt it finds.                                              *)
(***************************************************************************)
Fairness ==
  /\ WF_allVars(ServerStep /\ UNCHANGED vars)
  /\ \A h \in Hashes :
       /\ WF_allVars(Call(h) /\ UNCHANGED serverVars)
       /\ WF_allVars((Resolves(h) \/ CatchesUp(h)) /\ UNCHANGED serverVars)
       /\ SF_allVars(RoundAsks(h))

RoundsSpec == RoundsInit /\ [][RoundsNext]_allVars /\ Fairness

\* nothing was sent under this hash, and nothing that is left can prove it
Stranded(h) == /\ backend = "spark"
               /\ call[h] \in {"ended", "unsure"}
               /\ payment[h] = "none" /\ h \notin registry

\* Every melt is told its verdict in the end by the rounds of the monitor, on
\* every backend, once the source stays reachable and the process stays up -
\* but for the spark payment that was never sent and whose proof is lost: that
\* one waits "pending for an operator".
Answered ==
  (<>[]reachable /\ <>[][~Restarts]_allVars) =>
    \A h \in Hashes : []<>(call[h] # "none" => told[h] # "nothing" \/ Stranded(h))

\* A funding source that is back, or gone for good, is in the log in the end,
\* and one that stays reachable has pending melts reconciled again and again.
MonitorTells ==
  <>[][~Restarts]_allVars =>
    /\ <>[]reachable => []<>(notice = "reachable" /\ monitor = "reconciling")
    /\ <>[]~reachable => <>[](notice = "unreachable")

=============================================================================
