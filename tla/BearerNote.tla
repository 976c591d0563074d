----------------------------- MODULE BearerNote -----------------------------
(***************************************************************************)
(* What the mint promises the holder of a note and itself about melts: a   *)
(* note is outstanding, or reserved for one payment, or burned.  Money     *)
(* goes out only for a note that is reserved for it, and that note leaves  *)
(* the reservation in two ways only: burned, because the payment           *)
(* succeeded, or outstanding again, because it did not and will not go     *)
(* out.  Module Melt implements it with a database, a task, a reconcile    *)
(* round and a process that may stop at any time.                          *)
(***************************************************************************)
CONSTANTS Notes, Hashes, NoNote, NoHash

VARIABLES
  note,     \* "outstanding", "reserved", "burned"; or "stray": a reconcile
            \* round acted on it with an entry that was no longer current,
            \* and nothing is promised of it any more
  purpose,  \* the payment a note is reserved for, or was burned for
  payer,    \* the note that pays for a payment
  payment   \* what became of each payment

vars == <<note, purpose, payer, payment>>

Init == /\ note = [n \in Notes |-> "outstanding"]
        /\ purpose = [n \in Notes |-> NoHash]
        /\ payer = [h \in Hashes |-> NoNote]
        /\ payment = [h \in Hashes |-> "none"]

Reserve(n, h) ==
  /\ note[n] = "outstanding" /\ payer[h] = NoNote
  /\ note' = [note EXCEPT ![n] = "reserved"]
  /\ purpose' = [purpose EXCEPT ![n] = h]
  /\ UNCHANGED <<payer, payment>>

\* a stray note is committed when it was reserved and astray since
Commit(n, h) ==
  /\ payer[h] = NoNote
  /\ note[n] = "stray" \/ (note[n] = "reserved" /\ purpose[n] = h)
  /\ payer' = [payer EXCEPT ![h] = n]
  /\ UNCHANGED <<note, purpose, payment>>

\* rotated, split or merged away
Swap(n) ==
  /\ note[n] = "outstanding"
  /\ note' = [note EXCEPT ![n] = "burned"]
  /\ UNCHANGED <<purpose, payer, payment>>

\* money goes out once under a hash
Pay(h) ==
  /\ payment[h] = "none" /\ payer[h] # NoNote
  /\ LET n == payer[h]
     IN note[n] = "stray" \/ (note[n] = "reserved" /\ purpose[n] = h)
  /\ payment' = [payment EXCEPT ![h] = "inflight"]
  /\ UNCHANGED <<note, purpose, payer>>

Resolve(h) ==
  /\ payment[h] = "inflight"
  /\ \E outcome \in {"succeeded", "failed"} :
       payment' = [payment EXCEPT ![h] = outcome]
  /\ UNCHANGED <<note, purpose, payer>>

ReservedFor(h) == {n \in Notes : note[n] = "reserved" /\ purpose[n] = h}

\* the notes `lost` go astray in the same step
Move(ns, to, lost) ==
  /\ note' = [n \in Notes |-> IF n \in lost THEN "stray"
                             ELSE IF n \in ns THEN to ELSE note[n]]
  /\ purpose' = [n \in Notes |-> IF n \in lost \/ (n \in ns /\ to = "outstanding")
                                THEN NoHash ELSE purpose[n]]
  /\ UNCHANGED <<payer, payment>>

\* only a note that is reserved for another payment is lost
MayLose(h, lost) == \A n \in lost : note[n] = "reserved" /\ purpose[n] # h

Burn(h, ns, lost) ==
  /\ payment[h] = "succeeded"
  /\ ns \subseteq ReservedFor(h) /\ MayLose(h, lost)
  /\ Move(ns, "burned", lost)

Release(h, ns, lost) ==
  /\ payer[h] \in ns => payment[h] \in {"none", "failed"}
  /\ ns \subseteq ReservedFor(h) /\ MayLose(h, lost)
  /\ Move(ns, "outstanding", lost)

Next ==
  \/ \E n \in Notes : Swap(n) \/ \E h \in Hashes : Reserve(n, h) \/ Commit(n, h)
  \/ \E h \in Hashes : Pay(h) \/ Resolve(h)
  \/ \E h \in Hashes, ns, lost \in SUBSET Notes :
       Burn(h, ns, lost) \/ Release(h, ns, lost)

Spec == Init /\ [][Next]_vars

=============================================================================
