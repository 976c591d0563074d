-------------------------------- MODULE Melt --------------------------------
(***************************************************************************)
(* The melt of a bearer note: a wallet asks the mint to pay a foreign      *)
(* invoice, the mint reserves the note, answers, pays in the background    *)
(* and then burns or restores the note.                                    *)
(*                                                                         *)
(* The mint is one asyncio process.  A coroutine runs undisturbed between  *)
(* two awaits, so an action here is what runs between two awaits, cut only *)
(* where two database commits follow each other: the process can stop, or  *)
(* the second commit can fail, between them.  Every SQL transaction of     *)
(* NoteStore is one commit.                                                *)
(***************************************************************************)
EXTENDS Naturals

CONSTANTS Notes,            \* note ids
          Hashes,           \* payment hashes of invoices of other nodes
          NoNote, NoHash,   \* SQL NULL / Python None
          ConfirmAttempts   \* 1 + len(_CONFIRMATION_RETRY_DELAYS_SECONDS)

ASSUME MeltAssumption == /\ NoNote \notin Notes
                         /\ NoHash \notin Hashes
                         /\ ConfirmAttempts \in Nat \ {0}

VARIABLES
  \* the database: columns of notes, and the rows and flag of melts
  spent, pending, pendingHash, melts, settled,
  \* process memory: lifecycle, the handler between its two commits, the
  \* background tasks, _in_flight_melts
  process, reservingNote, reservingHash, taskPc, attempts, inFlight,
  \* process memory: the reconcile round that is running, if any
  todo, snapshot, confirming, answer,
  \* the funding source
  payment,
  \* payer[h] is the argument of _melt_pay for h and outlives the task as
  \* history; burnedBy and staleFreed are history variables
  payer, burnedBy, staleFreed

database == <<spent, pending, pendingHash, melts, settled>>
tasks == <<taskPc, attempts, inFlight, payer>>
handler == <<reservingNote, reservingHash>>
round == <<todo, snapshot, confirming, answer>>
history == <<burnedBy, staleFreed>>
vars == <<database, process, tasks, handler, round, payment, history>>

Outcomes == {"none", "inflight", "succeeded", "failed"}
TaskPcs == {"none", "queued", "paying", "confirming", "marking"}
Answers == {"none", "waiting", "unknown", "paid", "unpaid", "marking"}

TypeOK ==
  /\ spent \in [Notes -> BOOLEAN]
  /\ pending \in [Notes -> BOOLEAN]
  /\ pendingHash \in [Notes -> Hashes \cup {NoHash}]
  /\ melts \in SUBSET Hashes
  /\ settled \in SUBSET melts
  /\ process \in {"down", "boot", "up"}
  /\ reservingNote \in Notes \cup {NoNote}
  /\ reservingHash \in Hashes \cup {NoHash}
  /\ taskPc \in [Hashes -> TaskPcs]
  /\ attempts \in [Hashes -> 0..ConfirmAttempts]
  /\ inFlight \in [Hashes -> Nat]
  /\ todo \in SUBSET Hashes
  /\ snapshot \in [Hashes -> SUBSET Notes]
  /\ confirming \in Hashes \cup {NoHash}
  /\ answer \in Answers
  /\ payment \in [Hashes -> Outcomes]
  /\ payer \in [Hashes -> Notes \cup {NoNote}]
  /\ burnedBy \in [Notes -> Hashes \cup {NoHash}]
  /\ staleFreed \in SUBSET Notes

NoRound == /\ todo' = {}
           /\ snapshot' = [h \in Hashes |-> {}]
           /\ confirming' = NoHash
           /\ answer' = "none"

Init ==
  /\ spent = [n \in Notes |-> FALSE]
  /\ pending = [n \in Notes |-> FALSE]
  /\ pendingHash = [n \in Notes |-> NoHash]
  /\ melts = {}
  /\ settled = {}
  /\ process = "boot"
  /\ reservingNote = NoNote
  /\ reservingHash = NoHash
  /\ taskPc = [h \in Hashes |-> "none"]
  /\ attempts = [h \in Hashes |-> 0]
  /\ inFlight = [h \in Hashes |-> 0]
  /\ todo = {}
  /\ snapshot = [h \in Hashes |-> {}]
  /\ confirming = NoHash
  /\ answer = "none"
  /\ payment = [h \in Hashes |-> "none"]
  /\ payer = [h \in Hashes |-> NoNote]
  /\ burnedBy = [n \in Notes |-> NoHash]
  /\ staleFreed = {}

(***************************************************************************)
(* No coroutine stands between two commits: the event loop may run another *)
(***************************************************************************)
LoopFree ==
  /\ process # "down"
  /\ reservingHash = NoHash
  /\ answer # "marking"
  /\ \A h \in Hashes : taskPc[h] # "marking"

-----------------------------------------------------------------------------
(* NoteStore: what each statement does to the rows of a set of notes.      *)

Held(n, h) == pending[n] /\ ~spent[n] /\ pendingHash[n] = h

\* Mutant: the reservation is not cleared
Finalize_LeavesPending(ns, h) ==
  /\ spent' = [n \in Notes |-> n \in ns \/ spent[n]]
  /\ burnedBy' = [n \in Notes |-> IF n \in ns /\ ~spent[n] THEN h ELSE burnedBy[n]]
  /\ UNCHANGED <<pending, pendingHash, melts, settled>>

\* finalize_melt: unconditional, as in the code
Finalize(ns, h) ==
  /\ spent' = [n \in Notes |-> n \in ns \/ spent[n]]
  /\ pending' = [n \in Notes |-> n \notin ns /\ pending[n]]
  /\ pendingHash' = [n \in Notes |-> IF n \in ns THEN NoHash ELSE pendingHash[n]]
  /\ burnedBy' = [n \in Notes |-> IF n \in ns /\ ~spent[n] THEN h ELSE burnedBy[n]]
  /\ UNCHANGED <<melts, settled>>

\* restore: does not look at what the note is reserved for now
Restore(ns) ==
  /\ pending' = [n \in Notes |-> n \notin ns /\ pending[n]]
  /\ pendingHash' = [n \in Notes |-> IF n \in ns THEN NoHash ELSE pendingHash[n]]
  /\ UNCHANGED <<spent, melts, settled, burnedBy>>

\* mark_melt_settled: an UPDATE, so a hash with no row stays without one
MarkSettled(h) ==
  /\ settled' = settled \cup ({h} \cap melts)
  /\ UNCHANGED <<spent, pending, pendingHash, melts>>

PendingMelts == [h \in Hashes |-> {n \in Notes : Held(n, h)}]

TrackEnd(h) ==
  inFlight' = [inFlight EXCEPT ![h] = IF @ > 1 THEN @ - 1 ELSE 0]

-----------------------------------------------------------------------------
(* get_withdraw_callback with `pr`: validation and mark_pending run with   *)
(* no await in between, then record_melt is a commit of its own.           *)

\* Mutant: an invoice of an earlier melt is taken again
Reserve_UsedInvoice(n, h) ==
  /\ process = "up" /\ LoopFree
  /\ ~spent[n] /\ ~pending[n]
  /\ pending' = [pending EXCEPT ![n] = TRUE]
  /\ pendingHash' = [pendingHash EXCEPT ![n] = h]
  /\ inFlight' = [inFlight EXCEPT ![h] = @ + 1]
  /\ reservingNote' = n
  /\ reservingHash' = h
  /\ UNCHANGED <<spent, melts, settled, process, taskPc, attempts, payer,
                 round, payment, history>>

Reserve(n, h) ==
  /\ process = "up" /\ LoopFree
  /\ h \notin melts
  /\ ~spent[n] /\ ~pending[n]
  /\ pending' = [pending EXCEPT ![n] = TRUE]
  /\ pendingHash' = [pendingHash EXCEPT ![n] = h]
  /\ inFlight' = [inFlight EXCEPT ![h] = @ + 1]
  /\ reservingNote' = n
  /\ reservingHash' = h
  /\ UNCHANGED <<spent, melts, settled, process, taskPc, attempts, payer,
                 round, payment, history>>

\* record_melt commits and _melt_pay is scheduled
Schedule(h) ==
  /\ reservingHash = h
  /\ melts' = melts \cup {h}
  /\ taskPc' = [taskPc EXCEPT ![h] = "queued"]
  /\ payer' = [payer EXCEPT ![h] = reservingNote]
  /\ reservingNote' = NoNote
  /\ reservingHash' = NoHash
  /\ UNCHANGED <<spent, pending, pendingHash, settled, process, attempts,
                 inFlight, round, payment, history>>

\* Mutant: the handler that fails forgets its registration
RecordFails_KeepsEntry(h) ==
  /\ reservingHash = h
  /\ reservingNote' = NoNote
  /\ reservingHash' = NoHash
  /\ UNCHANGED <<database, process, tasks, round, payment, history>>

\* record_melt raises: the registration is dropped, the reservation stays
RecordFails(h) ==
  /\ reservingHash = h
  /\ TrackEnd(h)
  /\ reservingNote' = NoNote
  /\ reservingHash' = NoHash
  /\ UNCHANGED <<database, process, taskPc, attempts, payer, round, payment,
                 history>>

\* a rotate, split or merge burns the note (_swap_locked)
Swap(n) ==
  /\ process = "up" /\ LoopFree
  /\ ~spent[n] /\ ~pending[n]
  /\ spent' = [spent EXCEPT ![n] = TRUE]
  /\ UNCHANGED <<pending, pendingHash, melts, settled, process, tasks, handler,
                 round, payment, history>>

-----------------------------------------------------------------------------
(* The funding source, as node.py and its callers rely on it.              *)

\* a payment that failed may be started again under the same hash; one that
\* is in flight or has succeeded is not paid twice
PayLands(h) ==
  /\ taskPc[h] = "queued"
  /\ payment' = [payment EXCEPT ![h] =
                   IF @ \in {"none", "failed"} THEN "inflight" ELSE @]
  /\ taskPc' = [taskPc EXCEPT ![h] = "paying"]
  /\ UNCHANGED <<database, process, attempts, inFlight, payer, handler, round,
                 history>>

PayResolves(h) ==
  /\ payment[h] = "inflight"
  /\ \E outcome \in {"succeeded", "failed"} :
       payment' = [payment EXCEPT ![h] = outcome]
  /\ UNCHANGED <<database, process, tasks, handler, round, history>>

\* Mutant: a payment in flight is reported complete
Reports_InFlightIsPaid(h, a) ==
  \/ a = "paid" /\ payment[h] \in {"inflight", "succeeded"}
  \/ a = "unpaid" /\ payment[h] \in {"none", "failed"}
  \/ a = "unknown"

\* what is_payment_complete may report: a payment in flight, like a source
\* that cannot be reached, makes it raise
Reports(h, a) ==
  \/ a = "paid" /\ payment[h] = "succeeded"
  \/ a = "unpaid" /\ payment[h] \in {"none", "failed"}
  \/ a = "unknown"

-----------------------------------------------------------------------------
(* _melt_pay, the background task of one melt.                             *)

EndTask(h) ==
  /\ taskPc' = [taskPc EXCEPT ![h] = "none"]
  /\ attempts' = [attempts EXCEPT ![h] = 0]
  /\ TrackEnd(h)

\* pay_invoice returned: the payment settled
PaySucceeds(h) ==
  /\ LoopFree
  /\ taskPc[h] = "paying"
  /\ payment[h] = "succeeded"
  /\ Finalize({payer[h]}, h)
  /\ taskPc' = [taskPc EXCEPT ![h] = "marking"]
  /\ UNCHANGED <<process, attempts, inFlight, payer, handler, round, payment,
                 staleFreed>>

\* Mutant: the backoff delays are counted as the attempts on top of the first
PayRaises_OneMoreAttempt(h) ==
  /\ LoopFree
  /\ taskPc[h] \in {"queued", "paying"}
  /\ taskPc' = [taskPc EXCEPT ![h] = "confirming"]
  /\ attempts' = [attempts EXCEPT ![h] = ConfirmAttempts + 1]
  /\ UNCHANGED <<database, process, inFlight, payer, handler, round, payment,
                 history>>

\* pay_invoice raised: a failure response, a timeout, or a request that
\* never reached the funding source (then it never will)
PayRaises(h) ==
  /\ LoopFree
  /\ taskPc[h] \in {"queued", "paying"}
  /\ taskPc' = [taskPc EXCEPT ![h] = "confirming"]
  /\ attempts' = [attempts EXCEPT ![h] = ConfirmAttempts]
  /\ UNCHANGED <<database, process, inFlight, payer, handler, round, payment,
                 history>>

ConfirmPaid(h) ==
  /\ LoopFree
  /\ taskPc[h] = "confirming"
  /\ Reports(h, "paid")
  /\ Finalize({payer[h]}, h)
  /\ taskPc' = [taskPc EXCEPT ![h] = "marking"]
  /\ UNCHANGED <<process, attempts, inFlight, payer, handler, round, payment,
                 staleFreed>>

ConfirmUnpaid(h) ==
  /\ LoopFree
  /\ taskPc[h] = "confirming"
  /\ Reports(h, "unpaid")
  /\ Restore({payer[h]})
  /\ EndTask(h)
  /\ UNCHANGED <<process, payer, handler, round, payment, staleFreed>>

\* Mutant: a melt that cannot be confirmed is taken for a failed one
ConfirmRaises_GivesUp(h) ==
  /\ LoopFree
  /\ taskPc[h] = "confirming"
  /\ IF attempts[h] > 1
       THEN /\ attempts' = [attempts EXCEPT ![h] = @ - 1]
            /\ UNCHANGED <<taskPc, inFlight, database, burnedBy>>
       ELSE EndTask(h) /\ Restore({payer[h]})
  /\ UNCHANGED <<process, payer, handler, round, payment, staleFreed>>

\* is_payment_complete raised; after the last attempt the notes stay pending
ConfirmRaises(h) ==
  /\ LoopFree
  /\ taskPc[h] = "confirming"
  /\ IF attempts[h] > 1
       THEN /\ attempts' = [attempts EXCEPT ![h] = @ - 1]
            /\ UNCHANGED <<taskPc, inFlight>>
       ELSE EndTask(h)
  /\ UNCHANGED <<database, process, payer, handler, round, payment, history>>

TaskMarks(h) ==
  /\ taskPc[h] = "marking"
  /\ MarkSettled(h)
  /\ EndTask(h)
  /\ UNCHANGED <<process, payer, handler, round, payment, history>>

\* Mutant: no `finally`
TaskStoreFails_KeepsEntry(h) ==
  /\ \/ taskPc[h] = "marking"
     \/ LoopFree /\ taskPc[h] = "paying" /\ payment[h] = "succeeded"
     \/ LoopFree /\ taskPc[h] = "confirming" /\ payment[h] # "inflight"
  /\ taskPc' = [taskPc EXCEPT ![h] = "none"]
  /\ attempts' = [attempts EXCEPT ![h] = 0]
  /\ UNCHANGED <<inFlight, database, process, payer, handler, round, payment,
                 history>>

\* a commit of the task raises: `finally` still drops the registration
TaskStoreFails(h) ==
  /\ \/ taskPc[h] = "marking"
     \/ LoopFree /\ taskPc[h] = "paying" /\ payment[h] = "succeeded"
     \/ LoopFree /\ taskPc[h] = "confirming" /\ payment[h] # "inflight"
  /\ EndTask(h)
  /\ UNCHANGED <<database, process, payer, handler, round, payment, history>>

-----------------------------------------------------------------------------
(* reconcile_pending_melts, at boot and on each healthy monitor tick.      *)

Idle == confirming = NoHash

\* Mutant: a live melt is not skipped
Advance_NoSkip(entries, notesOf) ==
  \/ entries = {} /\ NoRound
  \/ \E h \in entries :
       /\ todo' = entries \ {h}
       /\ snapshot' = notesOf
       /\ confirming' = h
       /\ answer' = "waiting"

\* On to the next entry of `entries` with no live melt in this process,
\* skipping those that have one; the order of the rows is SQLite's.
Advance(entries, notesOf) ==
  \/ /\ \A h \in entries : inFlight[h] > 0
     /\ NoRound
  \/ \E h \in entries, skipped \in SUBSET {g \in entries : inFlight[g] > 0} :
       /\ inFlight[h] = 0
       /\ todo' = entries \ (skipped \cup {h})
       /\ snapshot' = notesOf
       /\ confirming' = h
       /\ answer' = "waiting"

StartRound ==
  /\ LoopFree /\ Idle
  /\ LET found == {h \in Hashes : PendingMelts[h] # {}}
     IN found # {} /\ Advance(found, PendingMelts)
  /\ UNCHANGED <<database, process, tasks, handler, payment, history>>

RoundAnswer(a) ==
  /\ confirming # NoHash /\ answer = "waiting"
  /\ Reports(confirming, a)
  /\ answer' = a
  /\ UNCHANGED <<database, process, tasks, handler, todo, snapshot, confirming,
                 payment, history>>

RoundLeaves ==
  /\ LoopFree
  /\ answer = "unknown"
  /\ Advance(todo, snapshot)
  /\ UNCHANGED <<database, process, tasks, handler, payment, history>>

\* notes of the entry that are reserved for another melt by now
Stale == {n \in Notes : /\ n \in snapshot[confirming]
                        /\ pending[n] /\ pendingHash[n] # confirming}

RoundRestores ==
  /\ LoopFree
  /\ answer = "unpaid"
  /\ Restore(snapshot[confirming])
  /\ staleFreed' = staleFreed \cup Stale
  /\ Advance(todo, snapshot)
  /\ UNCHANGED <<process, tasks, handler, payment>>

RoundFinalizes ==
  /\ LoopFree
  /\ answer = "paid"
  /\ Finalize(snapshot[confirming], confirming)
  /\ staleFreed' = staleFreed \cup Stale
  /\ answer' = "marking"
  /\ UNCHANGED <<process, tasks, handler, todo, snapshot, confirming, payment>>

RoundMarks ==
  /\ answer = "marking"
  /\ MarkSettled(confirming)
  /\ Advance(todo, snapshot)
  /\ UNCHANGED <<process, tasks, handler, payment, history>>

\* a commit raises: _reconcile_pending_melts_safely ends the round
RoundStoreFails ==
  /\ answer \in {"paid", "unpaid", "marking"}
  /\ answer # "marking" => LoopFree
  /\ NoRound
  /\ UNCHANGED <<database, process, tasks, handler, payment, history>>

-----------------------------------------------------------------------------
(* The process (server.lifespan): requests are served after the boot round *)

Serve ==
  /\ process = "boot" /\ Idle
  /\ process' = "up"
  /\ UNCHANGED <<database, tasks, handler, round, payment, history>>

\* a crash or a stop: everything that is not in the database is gone
Crash ==
  /\ process # "down"
  /\ process' = "down"
  /\ reservingNote' = NoNote
  /\ reservingHash' = NoHash
  /\ taskPc' = [h \in Hashes |-> "none"]
  /\ attempts' = [h \in Hashes |-> 0]
  /\ inFlight' = [h \in Hashes |-> 0]
  /\ NoRound
  /\ UNCHANGED <<database, payer, payment, history>>

Boot ==
  /\ process = "down"
  /\ process' = "boot"
  /\ UNCHANGED <<database, tasks, handler, round, payment, history>>

Handler(h) == (\E n \in Notes : Reserve(n, h)) \/ Schedule(h) \/ RecordFails(h)

FundingSource(h) == PayLands(h) \/ PayResolves(h)

Task(h) ==
  \/ PaySucceeds(h) \/ PayRaises(h)
  \/ ConfirmPaid(h) \/ ConfirmUnpaid(h) \/ ConfirmRaises(h)
  \/ TaskMarks(h) \/ TaskStoreFails(h)

Round ==
  \/ StartRound \/ RoundLeaves
  \/ (\E a \in Answers : RoundAnswer(a))
  \/ RoundRestores \/ RoundFinalizes \/ RoundMarks \/ RoundStoreFails

Next ==
  \/ \E h \in Hashes : Handler(h) \/ FundingSource(h) \/ Task(h)
  \/ \E n \in Notes : Swap(n)
  \/ Round
  \/ Serve \/ Crash \/ Boot

Spec == Init /\ [][Next]_vars

-----------------------------------------------------------------------------
(* Safety.                                                                 *)

Live(h) == payment[h] \in {"inflight", "succeeded"}
TaskRuns(h) == taskPc[h] \in {"queued", "paying", "confirming"}

\* _in_flight_melts counts exactly the melts this process is working on, the
\* handler that has reserved and not yet scheduled included; what reconcile
\* skips is neither more nor less than what a task will resolve.
RegistryMatchesTasks ==
  \A h \in Hashes :
    inFlight[h] = (IF taskPc[h] = "none" THEN 0 ELSE 1)
                  + (IF reservingHash = h THEN 1 ELSE 0)

\* An invoice is paid at most once, across crashes, retries by the wallet and
\* failed attempts: when _melt_pay is about to call pay_invoice, the funding
\* source has never heard of the hash.
InvoicePaidOnce ==
  \A h \in Hashes : taskPc[h] = "queued" => payment[h] = "none"

\* A note that a melt burned was burned for a payment that did succeed, by
\* whichever of the task and the reconcile round got there, and the flag that
\* /verify trusts before it asks the funding source tells the truth.
BurnedOnlyIfPaid ==
  /\ \A n \in Notes : burnedBy[n] # NoHash => payment[burnedBy[n]] = "succeeded"
  /\ \A h \in settled : payment[h] = "succeeded"

\* While the payment that a note is to cover is under way or has succeeded,
\* the note stays reserved for it until it is burned by it, whatever crashes,
\* timeouts and other requests do in between; the one exception is a note that
\* a reconcile round released with an entry that was no longer current.
PaidNoteKept ==
  \A h \in Hashes :
    LET n == payer[h]
    IN (Live(h) /\ n \notin staleFreed) => (Held(n, h) \/ burnedBy[n] = h)

\* "Notes whose melt attempt is still live IN THIS process are skipped": a
\* melt that is being paid keeps its note reserved.
LiveMeltReserved ==
  \A h \in Hashes : TaskRuns(h) => Held(payer[h], h)

\* No note is burned for a payment that another note was burned for.
OneNotePerPayment ==
  \A m, n \in Notes : burnedBy[m] # NoHash /\ burnedBy[m] = burnedBy[n] => m = n

-----------------------------------------------------------------------------
(* The promise of BearerNote, and how the state here implements it.        *)

noteState ==
  [n \in Notes |-> CASE n \in staleFreed -> "stray"
                     [] n \notin staleFreed /\ spent[n] -> "burned"
                     [] n \notin staleFreed /\ ~spent[n] /\ pending[n] -> "reserved"
                     [] OTHER -> "outstanding"]

notePurpose ==
  [n \in Notes |-> CASE noteState[n] = "reserved" -> pendingHash[n]
                     [] noteState[n] = "burned" -> burnedBy[n]
                     [] OTHER -> NoHash]

Promise == INSTANCE BearerNote WITH note <- noteState, purpose <- notePurpose

\* A melt's database, task, reconcile round and crashes keep the promise of
\* BearerNote: no note leaves its reservation but by a payment that succeeded
\* or one that did not and will not go out, and no money leaves without a note
\* reserved for it; the exception is a note a stale round acted on.
KeepsPromise == Promise!Spec

-----------------------------------------------------------------------------
(* The inductive invariant behind PaidNoteKept, part by part.              *)

\* nothing ever happened under a hash that has no melts row
UnrecordedUntouched ==
  \A h \in Hashes \ melts :
    taskPc[h] = "none" /\ payment[h] = "none" /\ payer[h] = NoNote

RecordedHasPayer == \A h \in melts : payer[h] \in Notes

\* between its two commits the handler has its note reserved under a fresh hash
ReservingHolds ==
  reservingHash # NoHash =>
    /\ reservingHash \notin melts
    /\ reservingNote \in Notes
    /\ Held(reservingNote, reservingHash)

BurnedIsSpent == \A n \in Notes : burnedBy[n] # NoHash => spent[n]

TaskHoldsNote ==
  \A h \in Hashes :
    /\ taskPc[h] = "marking" => payment[h] = "succeeded"
    /\ payer[h] \notin staleFreed =>
         /\ TaskRuns(h) => Held(payer[h], h)
         /\ taskPc[h] = "marking" => burnedBy[payer[h]] = h

RoundShape ==
  /\ confirming = NoHash <=> answer = "none"
  /\ confirming \notin todo
  /\ answer \in {"paid", "marking"} => payment[confirming] = "succeeded"

\* the round only acts on the payer's note of a hash no task works on
RoundEntryDead ==
  confirming # NoHash =>
    LET n == payer[confirming]
    IN (n \in snapshot[confirming] /\ n \notin staleFreed) =>
         /\ taskPc[confirming] = "none"
         /\ answer = "unpaid" => ~Live(confirming)

\* a note left under a hash without a melts row waits for its round
UnrecordedEntryHeld ==
  \A h \in (todo \cup {confirming}) \ (melts \cup {NoHash}) :
    \A n \in snapshot[h] \ staleFreed : Held(n, h) \/ spent[n]

ReservingNotInEntry ==
  (reservingHash # NoHash /\ reservingHash = confirming) =>
    reservingNote \in staleFreed \/ reservingNote \notin snapshot[confirming]

IndInv ==
  /\ TypeOK /\ RegistryMatchesTasks /\ InvoicePaidOnce /\ BurnedOnlyIfPaid
  /\ PaidNoteKept /\ UnrecordedUntouched /\ RecordedHasPayer /\ ReservingHolds
  /\ BurnedIsSpent /\ TaskHoldsNote /\ RoundShape /\ RoundEntryDead
  /\ UnrecordedEntryHeld /\ ReservingNotInEntry

-----------------------------------------------------------------------------
(* What the refinement of BearerNote rests on besides.                     *)

PendingUnspent == \A n \in Notes : pending[n] => ~spent[n]

\* a note that an entry of the round has under the hash of another note's
\* payment waits for that entry
EntryHeld ==
  \A h \in (todo \cup {confirming}) \ {NoHash} :
    \A n \in snapshot[h] \ (staleFreed \cup {payer[h]}) : Held(n, h) \/ spent[n]

PromiseInv == PendingUnspent /\ EntryHeld

-----------------------------------------------------------------------------
(* Liveness.  The event loop is strongly fair to a coroutine that is ready *)
(* again and again (asyncio runs ready callbacks first come, first served);*)
(* a payment resolves; a funding source that is asked about a hash again   *)
(* and again answers in the end, and a database write that is tried again  *)
(* and again succeeds in the end.                                          *)

Fairness ==
  /\ WF_vars(Serve \/ Boot)
  /\ WF_vars(\E h \in Hashes : Schedule(h) \/ RecordFails(h))
  /\ WF_vars(\E h \in Hashes : PayResolves(h))
  /\ SF_vars(Round)
  /\ \A h \in Hashes :
       /\ SF_vars(Task(h))
       /\ SF_vars(confirming = h /\ (RoundAnswer("paid") \/ RoundAnswer("unpaid")))
       /\ SF_vars(confirming = h /\ (RoundRestores \/ RoundFinalizes))

FairSpec == Spec /\ Fairness

\* No reservation stays for ever: once the process stops crashing, a note
\* that is pending becomes spent or outstanding with nobody stepping in.
PendingResolves ==
  <>[][~Crash]_vars => \A n \in Notes : pending[n] ~> ~pending[n]

=============================================================================
