--------------------------- MODULE MeltRefinement ---------------------------
(***************************************************************************)
(* A melt implements BearerNote, for any number of notes and invoices:     *)
(* every action of Melt is an action of BearerNote or none, read through   *)
(* noteState and notePurpose.  It rests on IndInv (MeltProofs) and on      *)
(* PromiseInv: nothing that is reserved is spent, and an entry of a round  *)
(* has no note that is free again.                                         *)
(***************************************************************************)
EXTENDS MeltProofs

LEMMA InitPromiseInv == Init => PromiseInv
  BY MeltAssumption DEF Init, PromiseInv, PendingUnspent, EntryHeld

LEMMA PendingUnspentStep ==
  ASSUME IndInv, PendingUnspent, [Next]_vars
  PROVE  PendingUnspent'
<1> USE MeltAssumption DEF IndInv, TypeOK, PendingUnspent, database, tasks,
    handler, round, history
<1>1. ASSUME NEW h \in Hashes, Handler(h) \/ FundingSource(h)
      PROVE  PendingUnspent'
  BY <1>1 DEF Handler, FundingSource, Reserve, Schedule, RecordFails, PayLands,
     PayResolves
<1>2. ASSUME NEW h \in Hashes, Task(h) PROVE PendingUnspent'
  BY <1>2 DEF Task, PaySucceeds, PayRaises, ConfirmPaid, ConfirmUnpaid,
     ConfirmRaises, TaskMarks, TaskStoreFails, Finalize, Restore, MarkSettled
<1>3. ASSUME NEW n \in Notes, Swap(n) PROVE PendingUnspent'
  BY <1>3 DEF Swap
<1>4. CASE Round
  BY <1>4 DEF Round, StartRound, RoundLeaves, RoundAnswer, RoundRestores,
     RoundFinalizes, RoundMarks, RoundStoreFails, Finalize, Restore, MarkSettled
<1>5. CASE Serve \/ Crash \/ Boot \/ UNCHANGED vars
  BY <1>5 DEF Serve, Crash, Boot, vars
<1> QED BY <1>1, <1>2, <1>3, <1>4, <1>5 DEF Next

\* A round only ever shrinks its entries, so what held for them still does.
LEMMA AdvanceKeepsEntries ==
  ASSUME TypeOK, RoundShape, EntryHeld, Advance(todo, snapshot),
         UNCHANGED <<spent, pending, pendingHash, staleFreed, payer>>
  PROVE  EntryHeld'
  BY MeltAssumption DEF TypeOK, RoundShape, EntryHeld, Advance, NoRound, Held

LEMMA EntryHeldStep ==
  ASSUME IndInv, PendingUnspent, EntryHeld, [Next]_vars
  PROVE  EntryHeld'
<1> USE MeltAssumption DEF IndInv, TypeOK, Held, database, tasks, handler,
    round, history
<1>1. ASSUME NEW h \in Hashes, Handler(h) PROVE EntryHeld'
  <2>1. CASE \E n \in Notes : Reserve(n, h)
    BY <2>1 DEF Reserve, EntryHeld
  <2>2. CASE Schedule(h)
    BY <2>2 DEF Schedule, EntryHeld, ReservingHolds, UnrecordedUntouched
  <2>3. CASE RecordFails(h)
    BY <2>3 DEF RecordFails, EntryHeld
  <2> QED BY <1>1, <2>1, <2>2, <2>3 DEF Handler
<1>2. ASSUME NEW h \in Hashes, FundingSource(h) PROVE EntryHeld'
  BY <1>2 DEF FundingSource, PayLands, PayResolves, EntryHeld
<1>3. ASSUME NEW h \in Hashes, Task(h) PROVE EntryHeld'
  <2>1. CASE PaySucceeds(h) \/ ConfirmPaid(h)
    BY <2>1 DEF PaySucceeds, ConfirmPaid, Finalize, EntryHeld
  <2>2. CASE ConfirmUnpaid(h)
    BY <2>2 DEF ConfirmUnpaid, Restore, EntryHeld, TaskHoldsNote, TaskRuns
  <2>3. CASE PayRaises(h) \/ ConfirmRaises(h) \/ TaskMarks(h) \/ TaskStoreFails(h)
    BY <2>3 DEF PayRaises, ConfirmRaises, TaskMarks, TaskStoreFails,
       MarkSettled, EntryHeld
  <2> QED BY <1>3, <2>1, <2>2, <2>3 DEF Task
<1>4. ASSUME NEW n \in Notes, Swap(n) PROVE EntryHeld'
  BY <1>4 DEF Swap, EntryHeld
<1>5. CASE Round
  <2>1. CASE StartRound
    BY <2>1 DEF StartRound, Advance, NoRound, PendingMelts, EntryHeld
  <2>2. CASE RoundLeaves
    BY <2>2, AdvanceKeepsEntries DEF RoundLeaves
  <2>3. CASE \E a \in Answers : RoundAnswer(a)
    BY <2>3 DEF RoundAnswer, EntryHeld
  <2>4. CASE RoundRestores
    BY <2>4 DEF RoundRestores, Restore, Stale, Advance, NoRound, EntryHeld,
       RoundShape, PendingUnspent
  <2>5. CASE RoundFinalizes
    BY <2>5 DEF RoundFinalizes, Finalize, Stale, EntryHeld, RoundShape
  <2>6. CASE RoundMarks
    BY <2>6, AdvanceKeepsEntries DEF RoundMarks, MarkSettled
  <2>7. CASE RoundStoreFails
    BY <2>7 DEF RoundStoreFails, NoRound, EntryHeld
  <2> QED BY <1>5, <2>1, <2>2, <2>3, <2>4, <2>5, <2>6, <2>7 DEF Round
<1>6. CASE Serve \/ Crash \/ Boot \/ UNCHANGED vars
  BY <1>6 DEF Serve, Crash, Boot, vars, NoRound, EntryHeld
<1> QED BY <1>1, <1>2, <1>3, <1>4, <1>5, <1>6 DEF Next

\* No reserved note is spent, and a note that a round has under the hash of
\* another note's payment is reserved until that round acts on it.
THEOREM PromiseInvariant == Spec => []PromiseInv
<1>1. IndInv /\ PromiseInv /\ [Next]_vars => PromiseInv'
  BY PendingUnspentStep, EntryHeldStep DEF PromiseInv
<1> QED BY <1>1, InitPromiseInv, MeltInvariant, PTL DEF Spec

-----------------------------------------------------------------------------
(* What each action is in BearerNote.                                      *)

Refined == Promise!Next \/ UNCHANGED Promise!vars

LEMMA Stutters ==
  ASSUME UNCHANGED <<spent, pending, pendingHash, staleFreed, burnedBy, payer,
                     payment>>
  PROVE  UNCHANGED Promise!vars
  BY DEF Promise!vars, noteState, notePurpose

\* The notes of S that are reserved for another payment than h.
Elsewhere(S, h) == {n \in S : pending[n] /\ pendingHash[n] # h}

\* The notes of S that h's payment may still dispose of.
Due(S, h) == {n \in S \ staleFreed : Held(n, h)}

\* Releasing a set of notes releases those that are reserved for h, and loses
\* those that are reserved for something else.
LEMMA RestoreRefines ==
  ASSUME TypeOK, PendingUnspent, NEW h \in Hashes, NEW S \in SUBSET Notes,
         Restore(S), staleFreed' = staleFreed \cup Elsewhere(S, h),
         UNCHANGED <<payer, payment>>,
         payer[h] \in Due(S, h) => payment[h] \in {"none", "failed"}
  PROVE  Refined
<1> DEFINE due == Due(S, h)
           lost == Elsewhere(S, h) \ staleFreed
<1> USE DEF TypeOK, PendingUnspent, Held, Due, Elsewhere
<1>1. due \in SUBSET Notes /\ lost \in SUBSET Notes
  OBVIOUS
<1>2. due \subseteq Promise!ReservedFor(h)
  BY DEF Promise!ReservedFor, noteState, notePurpose
<1>3. Promise!MayLose(h, lost)
  BY DEF Promise!MayLose, noteState, notePurpose
<1>4. noteState' = [n \in Notes |-> IF n \in lost THEN "stray"
                                    ELSE IF n \in due THEN "outstanding"
                                    ELSE noteState[n]]
  BY DEF Restore, noteState
<1>5. notePurpose' = [n \in Notes |->
                        IF n \in lost \/ n \in due THEN NoHash ELSE notePurpose[n]]
  BY DEF Restore, noteState, notePurpose
<1>6. Promise!Move(due, "outstanding", lost)
  BY <1>4, <1>5 DEF Promise!Move
<1>7. Promise!Release(h, due, lost)
  BY <1>2, <1>3, <1>6 DEF Promise!Release
<1> QED BY <1>1, <1>7 DEF Refined, Promise!Next

\* Burning does the same, provided that none of the notes is free.
LEMMA FinalizeRefines ==
  ASSUME TypeOK, PendingUnspent, NEW h \in Hashes, NEW S \in SUBSET Notes,
         Finalize(S, h), staleFreed' = staleFreed \cup Elsewhere(S, h),
         UNCHANGED <<payer, payment>>, payment[h] = "succeeded",
         \A n \in S \ staleFreed : pending[n] \/ spent[n]
  PROVE  Refined
<1> DEFINE due == Due(S, h)
           lost == Elsewhere(S, h) \ staleFreed
<1> USE DEF TypeOK, PendingUnspent, Held, Due, Elsewhere
<1>1. due \in SUBSET Notes /\ lost \in SUBSET Notes
  OBVIOUS
<1>2. due \subseteq Promise!ReservedFor(h)
  BY DEF Promise!ReservedFor, noteState, notePurpose
<1>3. Promise!MayLose(h, lost)
  BY DEF Promise!MayLose, noteState, notePurpose
<1>4. noteState' = [n \in Notes |-> IF n \in lost THEN "stray"
                                    ELSE IF n \in due THEN "burned"
                                    ELSE noteState[n]]
  BY DEF Finalize, noteState
<1>5. notePurpose' = [n \in Notes |->
                        IF n \in lost THEN NoHash ELSE notePurpose[n]]
  BY DEF Finalize, noteState, notePurpose
<1>6. Promise!Move(due, "burned", lost)
  BY <1>4, <1>5 DEF Promise!Move
<1>7. Promise!Burn(h, due, lost)
  BY <1>2, <1>3, <1>6 DEF Promise!Burn
<1> QED BY <1>1, <1>7 DEF Refined, Promise!Next

LEMMA HandlerRefines ==
  ASSUME IndInv, NEW h \in Hashes, Handler(h)
  PROVE  Refined
<1> USE MeltAssumption DEF IndInv, TypeOK, database, tasks, handler, round, history
<1>1. ASSUME NEW n \in Notes, Reserve(n, h) PROVE Refined
  <2>1. payer[h] = NoNote
    BY <1>1 DEF Reserve, UnrecordedUntouched
  <2>2. CASE n \in staleFreed
    BY <1>1, <2>2 DEF Refined, Reserve, noteState, notePurpose, Promise!vars
  <2>3. CASE n \notin staleFreed
    <3>1. noteState[n] = "outstanding"
      BY <1>1, <2>3 DEF Reserve, noteState
    <3>2. noteState' = [noteState EXCEPT ![n] = "reserved"]
      BY <1>1, <2>3 DEF Reserve, noteState
    <3>3. notePurpose' = [notePurpose EXCEPT ![n] = h]
      BY <1>1, <2>3 DEF Reserve, noteState, notePurpose
    <3>4. Promise!Reserve(n, h)
      BY <1>1, <2>1, <3>1, <3>2, <3>3 DEF Reserve, Promise!Reserve
    <3> QED BY <3>4 DEF Refined, Promise!Next
  <2> QED BY <2>2, <2>3
<1>2. CASE Schedule(h)
  <2> DEFINE n == reservingNote
  <2>1. n \in Notes /\ h \notin melts /\ Held(n, h)
    BY <1>2 DEF Schedule, ReservingHolds
  <2>2. payer[h] = NoNote
    BY <2>1 DEF UnrecordedUntouched
  <2>3. noteState[n] = "stray" \/ (noteState[n] = "reserved" /\ notePurpose[n] = h)
    BY <2>1 DEF Held, noteState, notePurpose
  <2>4. UNCHANGED <<noteState, notePurpose, payment>>
    BY <1>2 DEF Schedule, noteState, notePurpose
  <2>5. Promise!Commit(n, h)
    BY <1>2, <2>2, <2>3, <2>4 DEF Schedule, Promise!Commit
  <2> QED BY <2>1, <2>5 DEF Refined, Promise!Next
<1>3. CASE RecordFails(h)
  BY <1>3, Stutters DEF RecordFails, Refined
<1> QED BY <1>1, <1>2, <1>3 DEF Handler

\* Money goes out under a task that holds its note.
LEMMA FundingSourceRefines ==
  ASSUME IndInv, NEW h \in Hashes, FundingSource(h)
  PROVE  Refined
<1> USE MeltAssumption DEF IndInv, TypeOK, database, tasks, handler, round, history
<1>1. CASE PayLands(h)
  <2> DEFINE n == payer[h]
  <2>1. h \in melts /\ n \in Notes /\ payment[h] = "none"
    BY <1>1 DEF PayLands, UnrecordedUntouched, RecordedHasPayer, InvoicePaidOnce
  <2>2. noteState[n] = "stray" \/ (noteState[n] = "reserved" /\ notePurpose[n] = h)
    BY <1>1, <2>1 DEF PayLands, TaskHoldsNote, TaskRuns, Held, noteState, notePurpose
  <2>3. UNCHANGED <<noteState, notePurpose, payer>>
    BY <1>1 DEF PayLands, noteState, notePurpose
  <2>4. Promise!Pay(h)
    BY <1>1, <2>1, <2>2, <2>3 DEF PayLands, Promise!Pay
  <2> QED BY <2>4 DEF Refined, Promise!Next
<1>2. CASE PayResolves(h)
  <2>1. UNCHANGED <<noteState, notePurpose, payer>>
    BY <1>2 DEF PayResolves, noteState, notePurpose
  <2>2. Promise!Resolve(h)
    BY <1>2, <2>1 DEF PayResolves, Promise!Resolve
  <2> QED BY <2>2 DEF Refined, Promise!Next
<1> QED BY <1>1, <1>2 DEF FundingSource

\* A task burns or releases the one note it holds, unless that is astray.
LEMMA TaskRefines ==
  ASSUME IndInv, PromiseInv, NEW h \in Hashes, Task(h)
  PROVE  Refined
<1> USE MeltAssumption DEF IndInv, TypeOK, PromiseInv, database, tasks,
    handler, round, history
<1> DEFINE S == {payer[h]}
<1>1. CASE PaySucceeds(h) \/ ConfirmPaid(h) \/ ConfirmUnpaid(h)
  <2>1. TaskRuns(h)
    BY <1>1 DEF PaySucceeds, ConfirmPaid, ConfirmUnpaid, TaskRuns
  <2>2. S \in SUBSET Notes
    BY <2>1 DEF TaskRuns, UnrecordedUntouched, RecordedHasPayer
  <2>3. payer[h] \notin staleFreed => Held(payer[h], h)
    BY <2>1 DEF TaskHoldsNote
  <2>4. staleFreed = staleFreed \cup Elsewhere(S, h)
    BY <2>3 DEF Elsewhere, Held
  <2>5. CASE PaySucceeds(h) \/ ConfirmPaid(h)
    <3>1. \A n \in S \ staleFreed : pending[n] \/ spent[n]
      BY <2>3 DEF Held
    <3> QED BY <2>2, <2>4, <2>5, <3>1, FinalizeRefines
            DEF PaySucceeds, ConfirmPaid, Reports
  <2>6. CASE ConfirmUnpaid(h)
    BY <2>2, <2>4, <2>6, RestoreRefines DEF ConfirmUnpaid, Reports
  <2> QED BY <1>1, <2>5, <2>6
<1>2. CASE PayRaises(h) \/ ConfirmRaises(h) \/ TaskMarks(h) \/ TaskStoreFails(h)
  BY <1>2, Stutters DEF PayRaises, ConfirmRaises, TaskMarks, TaskStoreFails,
     MarkSettled, Refined
<1> QED BY <1>1, <1>2 DEF Task

LEMMA SwapRefines ==
  ASSUME IndInv, NEW n \in Notes, Swap(n)
  PROVE  Refined
<1> USE MeltAssumption DEF IndInv, TypeOK, database, tasks, handler, round, history
<1>1. CASE n \in staleFreed
  BY <1>1 DEF Refined, Swap, noteState, notePurpose, Promise!vars
<1>2. CASE n \notin staleFreed
  <2>1. noteState[n] = "outstanding"
    BY <1>2 DEF Swap, noteState
  <2>2. noteState' = [noteState EXCEPT ![n] = "burned"]
    BY <1>2 DEF Swap, noteState
  <2>3. notePurpose' = notePurpose
    BY <1>2 DEF Swap, noteState, notePurpose, BurnedIsSpent
  <2>4. Promise!Swap(n)
    BY <2>1, <2>2, <2>3 DEF Swap, Promise!Swap
  <2> QED BY <2>4 DEF Refined, Promise!Next
<1> QED BY <1>1, <1>2

\* A round burns or releases its entry: the payer's note, if it is there, is
\* one that no task works on, and the others have waited for this round.
LEMMA RoundRefines ==
  ASSUME IndInv, PromiseInv, Round
  PROVE  Refined
<1> USE MeltAssumption DEF IndInv, TypeOK, PromiseInv, database, tasks,
    handler, round, history
<1>1. CASE RoundRestores \/ RoundFinalizes
  <2> DEFINE h == confirming
             S == snapshot[h]
  <2>1. h \in Hashes /\ S \in SUBSET Notes
    BY <1>1 DEF RoundRestores, RoundFinalizes, RoundShape
  <2>2. Stale = Elsewhere(S, h)
    BY <2>1 DEF Stale, Elsewhere
  <2>3. CASE RoundRestores
    <3>1. payer[h] \in Due(S, h) => payment[h] \in {"none", "failed"}
      BY <2>1, <2>3 DEF RoundRestores, RoundEntryDead, Due, Live, Outcomes
    <3> QED BY <2>1, <2>2, <2>3, <3>1, RestoreRefines DEF RoundRestores
  <2>4. CASE RoundFinalizes
    <3>1. payment[h] = "succeeded"
      BY <2>4 DEF RoundFinalizes, RoundShape
    <3>2. ASSUME NEW n \in S \ staleFreed PROVE pending[n] \/ spent[n]
      <4>1. CASE n = payer[h]
        BY <2>1, <3>1, <4>1 DEF PaidNoteKept, Live, Held, BurnedIsSpent
      <4>2. CASE n # payer[h]
        BY <2>1, <4>2 DEF EntryHeld, Held
      <4> QED BY <4>1, <4>2
    <3> QED BY <2>1, <2>2, <2>4, <3>1, <3>2, FinalizeRefines DEF RoundFinalizes
  <2> QED BY <1>1, <2>3, <2>4
<1>2. CASE ~(RoundRestores \/ RoundFinalizes)
  BY <1>2, Stutters DEF Round, StartRound, RoundLeaves, RoundAnswer, RoundMarks,
     MarkSettled, RoundStoreFails, Refined
<1> QED BY <1>1, <1>2

LEMMA StepRefines == IndInv /\ PromiseInv /\ [Next]_vars => [Promise!Next]_(Promise!vars)
<1> SUFFICES ASSUME IndInv, PromiseInv, [Next]_vars PROVE Refined
  BY DEF Refined
<1>1. CASE Serve \/ Crash \/ Boot \/ UNCHANGED vars
  BY <1>1, Stutters DEF Serve, Crash, Boot, vars, database, tasks, handler,
     history, Refined
<1> QED BY <1>1, HandlerRefines, FundingSourceRefines, TaskRefines, SwapRefines,
           RoundRefines DEF Next

\* The melt implements BearerNote: a database of two commits per melt, a task
\* that may fail anywhere, a reconcile round on a snapshot and a process that
\* may stop at any time together never burn a note for a payment that did not
\* succeed, never free one whose payment may still go out, and never pay
\* without a note - save for a note a stale round acted on.
THEOREM MeltKeepsPromise == Spec => KeepsPromise
<1>1. Init => Promise!Init
  BY DEF Init, Promise!Init, noteState, notePurpose
<1> QED BY <1>1, StepRefines, MeltInvariant, PromiseInvariant, PTL
        DEF Spec, KeepsPromise, Promise!Spec

=============================================================================
