------------------------------ MODULE Backends ------------------------------
(***************************************************************************)
(* Outgoing payments over the three funding sources: pay_invoice, the      *)
(* confirmation that every melt needs before its note is given back        *)
(* (is_payment_complete), and the melt's LUD-21 verify.                    *)
(*                                                                         *)
(* lnd and cln are asked over REST and record a payment when they take it; *)
(* the spark SDK lives in the mint's process and stores a row only after   *)
(* its service provider (the SSP) has accepted the payment, so a missing   *)
(* row proves nothing there.  A source's record may lag the network.       *)
(***************************************************************************)
EXTENDS Naturals, FiniteSets

CONSTANTS Hashes,       \* payment hashes of the invoices that melts pay
          RegistryMax   \* _PREPARE_REJECTED_MAX

ASSUME RegistryAssumption == RegistryMax \in Nat \ {0}

VARIABLES
  backend,   \* settings.funding_source().backend, fixed for the process
  payment,   \* what became of the payment, on the network
  row,       \* what the funding source has on record of it
  call,      \* pay_invoice: not called, queued by the router, sending, over
             \* ("ended": nothing more can go out; "unsure": it still may)
  registry,  \* _prepare_rejected, gone with the process
  check,     \* where _is_payment_complete_spark is between its awaits
  told,      \* the verdict the melt acted on
  shown      \* what /verify has shown of the melt

vars == <<backend, payment, row, call, registry, check, told, shown>>

Rest == {"lnd", "cln"}

TypeOK ==
  /\ backend \in Rest \cup {"spark"}
  /\ payment \in [Hashes -> {"none", "inflight", "succeeded", "failed"}]
  /\ row \in [Hashes -> {"none", "pending", "complete", "failed"}]
  /\ call \in [Hashes -> {"none", "queued", "sending", "unsure", "ended"}]
  /\ registry \in SUBSET Hashes /\ Cardinality(registry) <= RegistryMax
  /\ check \in [Hashes -> {"idle", "absent", "synced"}]
  /\ told \in [Hashes -> {"nothing", "paid", "unpaid"}]
  /\ shown \in [Hashes -> {"nothing", "settled", "proof"}]

Init ==
  /\ backend \in Rest \cup {"spark"}
  /\ payment = [h \in Hashes |-> "none"]
  /\ row = [h \in Hashes |-> "none"]
  /\ call = [h \in Hashes |-> "none"]
  /\ registry = {}
  /\ check = [h \in Hashes |-> "idle"]
  /\ told = [h \in Hashes |-> "nothing"]
  /\ shown = [h \in Hashes |-> "nothing"]

\* the row a source that is up to date has of a payment
RowOf(outcome) ==
  CASE outcome = "none" -> "none"
    [] outcome = "inflight" -> "pending"
    [] outcome = "succeeded" -> "complete"
    [] outcome = "failed" -> "failed"

\* the router schedules _melt_pay, once per payment hash (Melt.InvoicePaidOnce)
Queue(h) ==
  /\ call[h] = "none"
  /\ call' = [call EXCEPT ![h] = "queued"]
  /\ UNCHANGED <<backend, payment, row, registry, check, told, shown>>

-----------------------------------------------------------------------------
(* lnd and cln.                                                            *)

RestSends(h) ==
  /\ backend \in Rest
  /\ call[h] = "queued"
  /\ call' = [call EXCEPT ![h] = "sending"]
  /\ UNCHANGED <<backend, payment, row, registry, check, told, shown>>

\* the node takes the payment and has it on record at once
NodeStarts(h) ==
  /\ backend \in Rest
  /\ call[h] = "sending" /\ payment[h] = "none"
  /\ payment' = [payment EXCEPT ![h] = "inflight"]
  /\ row' = [row EXCEPT ![h] = "pending"]
  /\ UNCHANGED <<backend, call, registry, check, told, shown>>

\* SendPaymentV2's stream ends in SUCCEEDED, with the preimage of the invoice
LndPays(h) == backend = "lnd" /\ payment[h] = "succeeded"

\* xpay answers 2xx, with the preimage of the invoice
ClnPays(h) == backend = "cln" /\ payment[h] = "succeeded"

\* the melt is settled, whatever the node's own record says at that moment
RestReturns(h) ==
  /\ call[h] = "sending"
  /\ LndPays(h) \/ ClnPays(h)
  /\ call' = [call EXCEPT ![h] = "ended"]
  /\ told' = [told EXCEPT ![h] = "paid"]
  /\ UNCHANGED <<backend, payment, row, registry, check, shown>>

\* PaymentFailed, or an error of any other kind: a payee that holds the HTLC
\* makes the node report a failure while the payment is in flight
RestRaises(h) ==
  /\ backend \in Rest
  /\ call[h] = "sending"
  /\ call' = [call EXCEPT ![h] = "ended"]
  /\ UNCHANGED <<backend, payment, row, registry, check, told, shown>>

\* Mutant: a payment in flight is taken for one that will not happen
LndSays_InFlightIsUnpaid(h, verdict) ==
  \/ verdict = "paid" /\ row[h] = "complete"
  \/ verdict = "unpaid" /\ row[h] # "complete"

\* TrackPaymentV2: no such payment is a 404; a status short of a terminal one
\* raises
LndSays(h, verdict) ==
  \/ verdict = "paid" /\ row[h] = "complete"
  \/ verdict = "unpaid" /\ row[h] \in {"none", "failed"}

\* listpays: no pays is an empty list; a pending one raises
ClnSays(h, verdict) ==
  LET pays == {row[h]} \ {"none"}
  IN /\ "pending" \notin pays
     /\ \/ verdict = "paid" /\ "complete" \in pays
        \/ verdict = "unpaid" /\ "complete" \notin pays

-----------------------------------------------------------------------------
(* spark.                                                                  *)

\* Mutant: the registry grows past its bound by one
MarkRejected_OffByOne(h) ==
  IF Cardinality(registry) <= RegistryMax
    THEN registry' = registry \cup {h}
    ELSE \E dropped \in registry \ {h} :
           registry' = (registry \cup {h}) \ {dropped}

\* _mark_prepare_rejected: past the bound an entry is dropped (the oldest one;
\* the model leaves open which)
MarkRejected(h) ==
  IF Cardinality(registry \cup {h}) <= RegistryMax
    THEN registry' = registry \cup {h}
    ELSE \E dropped \in registry \ {h} :
           registry' = (registry \cup {h}) \ {dropped}

\* fractional-sat amount, a prepare that raises, or a quote over budget: the
\* payment is turned down before send_payment is called
SparkRejects(h) ==
  /\ backend = "spark"
  /\ call[h] = "queued"
  /\ call' = [call EXCEPT ![h] = "ended"]
  /\ MarkRejected(h)
  /\ UNCHANGED <<backend, payment, row, check, told, shown>>

\* an SDK that cannot be built, or an unexpected payment method: nothing was
\* sent either, and nothing says so
SparkGivesUp(h) ==
  /\ backend = "spark"
  /\ call[h] = "queued"
  /\ call' = [call EXCEPT ![h] = "ended"]
  /\ UNCHANGED <<backend, payment, row, registry, check, told, shown>>

\* prepared within the budget, send_payment is called
SparkSends(h) ==
  /\ backend = "spark"
  /\ call[h] = "queued"
  /\ call' = [call EXCEPT ![h] = "sending"]
  /\ UNCHANGED <<backend, payment, row, registry, check, told, shown>>

\* the SSP accepts the payment, maybe after the SDK has given up on it
SspAccepts(h) ==
  /\ backend = "spark"
  /\ call[h] \in {"sending", "unsure"} /\ payment[h] = "none"
  /\ payment' = [payment EXCEPT ![h] = "inflight"]
  /\ UNCHANGED <<backend, row, call, registry, check, told, shown>>

\* leaf selection finds too little money, before any request leaves the wallet
SparkUnderfunded(h) ==
  /\ backend = "spark"
  /\ call[h] = "sending" /\ payment[h] = "none"
  /\ call' = [call EXCEPT ![h] = "ended"]
  /\ MarkRejected(h)
  /\ UNCHANGED <<backend, payment, row, check, told, shown>>

\* Mutant: every error of send_payment counts as never sent
SparkSendRaises_Marks(h) ==
  /\ backend = "spark"
  /\ call[h] = "sending"
  /\ call' = [call EXCEPT ![h] = "unsure"]
  /\ MarkRejected(h)
  /\ UNCHANGED <<backend, payment, row, check, told, shown>>

\* any other error of send_payment says nothing of what the SSP did
SparkSendRaises(h) ==
  /\ backend = "spark"
  /\ call[h] = "sending"
  /\ call' = [call EXCEPT ![h] = "unsure"]
  /\ UNCHANGED <<backend, payment, row, registry, check, told, shown>>

\* send_payment returns the stored payment: COMPLETED with its preimage is the
\* verdict; FAILED and still pending raise
SparkReturns(h) ==
  /\ backend = "spark"
  /\ call[h] = "sending" /\ payment[h] # "none"
  /\ row' = [row EXCEPT ![h] = RowOf(payment[h])]
  /\ call' = [call EXCEPT ![h] = "ended"]
  /\ told' = [told EXCEPT ![h] = IF payment[h] = "succeeded" THEN "paid" ELSE @]
  /\ UNCHANGED <<backend, payment, registry, check, shown>>

\* Mutant: a payment reported as FAILED is not an answer
RowSays_OnlyPaid(r, verdict) == verdict = "paid" /\ r = "complete"

\* what _is_payment_complete_spark makes of a row that is there
RowSays(r, verdict) ==
  \/ verdict = "paid" /\ r = "complete"
  \/ verdict = "unpaid" /\ r = "failed"

-----------------------------------------------------------------------------
(* is_payment_complete, asked by the melt's task when pay_invoice is over, *)
(* and by a reconcile round for a melt that no task works on.              *)

Asked(h) == call[h] \in {"ended", "unsure"} /\ told[h] = "nothing"

RestAnswers(h) ==
  /\ Asked(h)
  /\ \E verdict \in {"paid", "unpaid"} :
       /\ \/ backend = "lnd" /\ LndSays(h, verdict)
          \/ backend = "cln" /\ ClnSays(h, verdict)
       /\ told' = [told EXCEPT ![h] = verdict]
  /\ UNCHANGED <<backend, payment, row, call, registry, check, shown>>

\* Mutant: an empty history is an answer
SparkScans_AbsenceIsUnpaid(h) ==
  /\ backend = "spark"
  /\ Asked(h) /\ check[h] = "idle"
  /\ \/ /\ \E verdict \in {"paid", "unpaid"} :
             /\ RowSays(row[h], verdict) \/ (row[h] = "none" /\ verdict = "unpaid")
             /\ told' = [told EXCEPT ![h] = verdict]
        /\ UNCHANGED check
  /\ UNCHANGED <<backend, payment, row, call, registry, shown>>

\* the stored history, then the registry
SparkScans(h) ==
  /\ backend = "spark"
  /\ Asked(h) /\ check[h] = "idle"
  /\ \/ /\ \E verdict \in {"paid", "unpaid"} :
             /\ \/ RowSays(row[h], verdict)
                \/ row[h] = "none" /\ h \in registry /\ verdict = "unpaid"
             /\ told' = [told EXCEPT ![h] = verdict]
        /\ UNCHANGED check
     \/ /\ row[h] = "none" /\ h \notin registry
        /\ check' = [check EXCEPT ![h] = "absent"]
        /\ UNCHANGED told
  /\ UNCHANGED <<backend, payment, row, call, registry, shown>>

\* both legs of the probe answer around a forced sync, which reports success
\* whether or not it brought anything
SparkSyncs(h) ==
  /\ check[h] = "absent"
  /\ \E r \in {row[h], RowOf(payment[h])} : row' = [row EXCEPT ![h] = r]
  /\ check' = [check EXCEPT ![h] = "synced"]
  /\ UNCHANGED <<backend, payment, call, registry, told, shown>>

\* still no row: not an answer
SparkRescans(h) ==
  /\ check[h] = "synced"
  /\ check' = [check EXCEPT ![h] = "idle"]
  /\ \/ \E verdict \in {"paid", "unpaid"} :
          RowSays(row[h], verdict) /\ told' = [told EXCEPT ![h] = verdict]
     \/ row[h] \in {"none", "pending"} /\ UNCHANGED told
  /\ UNCHANGED <<backend, payment, row, call, registry, shown>>

\* a leg of the probe cannot be reached
SparkProbeRaises(h) ==
  /\ check[h] # "idle"
  /\ check' = [check EXCEPT ![h] = "idle"]
  /\ UNCHANGED <<backend, payment, row, call, registry, told, shown>>

-----------------------------------------------------------------------------
(* /verify of a melt, asked by anyone at any time, then its preimage.      *)

LiveSays(h, verdict) ==
  \/ backend = "lnd" /\ LndSays(h, verdict)
  \/ backend = "cln" /\ ClnSays(h, verdict)
  \/ backend = "spark" /\ RowSays(row[h], verdict)

\* Mutant: not yet known to have failed is taken for settled
MeltSettled_UnlessFailed(h) ==
  /\ call[h] # "none" /\ shown[h] = "nothing"
  /\ told[h] = "paid" \/ ~LiveSays(h, "unpaid")
  /\ shown' = [shown EXCEPT ![h] = "settled"]
  /\ UNCHANGED <<backend, payment, row, call, registry, check, told>>

\* _melt_settled: the flag that a melt told to be paid sets, or a live answer;
\* whatever raises is reported as not settled
MeltSettled(h) ==
  /\ call[h] # "none" /\ shown[h] = "nothing"
  /\ told[h] = "paid" \/ LiveSays(h, "paid")
  /\ shown' = [shown EXCEPT ![h] = "settled"]
  /\ UNCHANGED <<backend, payment, row, call, registry, check, told>>

\* TrackPaymentV2 once more: a SUCCEEDED payment comes with its preimage
LndPreimage(h) == backend = "lnd" /\ row[h] = "complete"

\* the first complete one of listpays
ClnPreimage(h) ==
  backend = "cln" /\ \E pay \in {row[h]} \ {"none"} : pay = "complete"

\* the first completed one in the stored history
SparkPreimage(h) == backend = "spark" /\ row[h] = "complete"

\* _melt_preimage: asked for a settled melt only
MeltPreimage(h) ==
  /\ shown[h] = "settled"
  /\ LndPreimage(h) \/ ClnPreimage(h) \/ SparkPreimage(h)
  /\ shown' = [shown EXCEPT ![h] = "proof"]
  /\ UNCHANGED <<backend, payment, row, call, registry, check, told>>

-----------------------------------------------------------------------------
(* The network, the source's own bookkeeping and the process.              *)

Resolves(h) ==
  /\ payment[h] = "inflight"
  /\ \E outcome \in {"succeeded", "failed"} :
       payment' = [payment EXCEPT ![h] = outcome]
  /\ UNCHANGED <<backend, row, call, registry, check, told, shown>>

CatchesUp(h) ==
  /\ row[h] # RowOf(payment[h])
  /\ row' = [row EXCEPT ![h] = RowOf(payment[h])]
  /\ UNCHANGED <<backend, payment, call, registry, check, told, shown>>

\* a queued melt is never paid, a call under way is abandoned, and the
\* registry starts empty
Restart ==
  /\ call' = [h \in Hashes |->
                CASE call[h] = "queued" -> "ended"
                  [] call[h] = "sending" -> IF backend = "spark" THEN "unsure" ELSE "ended"
                  [] OTHER -> call[h]]
  /\ registry' = {}
  /\ check' = [h \in Hashes |-> "idle"]
  /\ UNCHANGED <<backend, payment, row, told, shown>>

Call(h) ==
  \/ RestSends(h) \/ RestReturns(h) \/ RestRaises(h)
  \/ SparkRejects(h) \/ SparkGivesUp(h) \/ SparkSends(h)
  \/ SparkUnderfunded(h) \/ SparkSendRaises(h) \/ SparkReturns(h)

Confirm(h) ==
  \/ RestAnswers(h)
  \/ SparkScans(h) \/ SparkSyncs(h) \/ SparkRescans(h) \/ SparkProbeRaises(h)

Verify(h) == MeltSettled(h) \/ MeltPreimage(h)

Source(h) == NodeStarts(h) \/ SspAccepts(h) \/ Resolves(h) \/ CatchesUp(h)

\* what happens whether or not the funding source can be asked
Unasked(h) == Queue(h) \/ Call(h) \/ Verify(h) \/ Source(h)

Next ==
  \/ \E h \in Hashes : Unasked(h) \/ Confirm(h)
  \/ Restart

Spec == Init /\ [][Next]_vars

-----------------------------------------------------------------------------
(* Safety.                                                                 *)

\* What the registry holds was never sent and never will be: "no transfer
\* request ever reached the SSP", the first-hand fact that lets
\* is_payment_complete answer False for a payment without a row.
RejectedNeverSent ==
  \A h \in registry : payment[h] = "none" /\ call[h] = "ended"

\* /verify tells a third party of a settled melt only if the payment did
\* succeed, and never of one whose note was given back, though it asks while
\* pay_invoice is still running and trusts a record that may lag.
ShownIsReal ==
  \A h \in Hashes : shown[h] # "nothing" => payment[h] = "succeeded" /\ told[h] # "unpaid"

\* The three backends keep the promise of pay_invoice and is_payment_complete
\* (module Funding): no payment goes out after the melt was told that there is
\* none, and no verdict is about a payment in flight.
Contract == INSTANCE Funding
KeepsContract == Contract!Spec

\* the rows never claim more than the network did
RowsTrue ==
  \A h \in Hashes :
    /\ row[h] = "pending" => payment[h] # "none"
    /\ row[h] = "complete" => payment[h] = "succeeded"
    /\ row[h] = "failed" => payment[h] = "failed"

\* a node has on record what it has taken
NodeRecords ==
  backend \in Rest =>
    /\ registry = {}
    /\ \A h \in Hashes : /\ row[h] = "none" => payment[h] = "none"
                         /\ call[h] # "unsure" /\ check[h] = "idle"

VerdictsFinal ==
  \A h \in Hashes :
    /\ told[h] = "paid" => payment[h] = "succeeded"
    /\ told[h] = "unpaid" => \/ payment[h] = "failed"
                             \/ payment[h] = "none" /\ call[h] = "ended"

BeforeTheCall ==
  \A h \in Hashes : call[h] \in {"none", "queued"} => payment[h] = "none"

VerdictsLate ==
  \A h \in Hashes : told[h] # "nothing" => call[h] \in {"unsure", "ended"}

\* a probe that is under way is about a melt without a verdict
ChecksAsked == \A h \in Hashes : check[h] # "idle" => Asked(h)

IndInv ==
  /\ TypeOK /\ RejectedNeverSent /\ ShownIsReal
  /\ RowsTrue /\ NodeRecords /\ VerdictsFinal /\ BeforeTheCall /\ VerdictsLate
  /\ ChecksAsked

=============================================================================
