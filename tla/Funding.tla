------------------------------ MODULE Funding -------------------------------
(***************************************************************************)
(* What the mint asks of a funding source, whichever it is: a payment goes *)
(* out at most once under a payment hash, and a verdict that a melt acts   *)
(* on (burn the note, or give it back) is the truth and stays the truth.   *)
(* node.pay_invoice and node.is_payment_complete promise this in their     *)
(* docstrings; Backends shows that lnd, cln and spark keep it.             *)
(***************************************************************************)
CONSTANT Hashes     \* payment hashes of invoices of other nodes

VARIABLES payment,  \* what became of the payment, on the network
          told      \* the verdict the mint acted on

vars == <<payment, told>>

Init == /\ payment = [h \in Hashes |-> "none"]
        /\ told = [h \in Hashes |-> "nothing"]

\* once its note may have been given back, a payment must not go out any more
Start(h) == /\ payment[h] = "none"
            /\ told[h] = "nothing"
            /\ payment' = [payment EXCEPT ![h] = "inflight"]
            /\ UNCHANGED told

Resolve(h) == /\ payment[h] = "inflight"
              /\ \E outcome \in {"succeeded", "failed"} :
                   payment' = [payment EXCEPT ![h] = outcome]
              /\ UNCHANGED told

\* a payment in flight is neither: nothing is told of it
Tell(h) == /\ told[h] = "nothing"
           /\ \/ payment[h] = "succeeded" /\ told' = [told EXCEPT ![h] = "paid"]
              \/ /\ payment[h] \in {"none", "failed"}
                 /\ told' = [told EXCEPT ![h] = "unpaid"]
           /\ UNCHANGED payment

Next == \E h \in Hashes : Start(h) \/ Resolve(h) \/ Tell(h)

Spec == Init /\ [][Next]_vars

=============================================================================
