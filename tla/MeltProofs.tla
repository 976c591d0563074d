----------------------------- MODULE MeltProofs -----------------------------
(***************************************************************************)
(* What a melt guarantees for any number of notes, invoices and retries:   *)
(* type correctness, and the invariant IndInv of Melt with the safety      *)
(* properties it contains.                                                 *)
(***************************************************************************)
EXTENDS Melt, TLAPS

LEMMA InitTypeOK == Init => TypeOK
  BY MeltAssumption DEF Init, TypeOK, Outcomes, TaskPcs, Answers

LEMMA AdvanceTypeOK ==
  ASSUME NEW S \in SUBSET Hashes, NEW f \in [Hashes -> SUBSET Notes],
         Advance(S, f)
  PROVE  /\ todo' \in SUBSET Hashes
         /\ snapshot' \in [Hashes -> SUBSET Notes]
         /\ confirming' \in Hashes \cup {NoHash}
         /\ answer' \in Answers
  BY DEF Advance, NoRound, Answers

LEMMA TrackEndTypeOK ==
  ASSUME NEW h \in Hashes, inFlight \in [Hashes -> Nat], TrackEnd(h)
  PROVE  inFlight' \in [Hashes -> Nat]
  BY DEF TrackEnd

LEMMA StepTypeOK == TypeOK /\ [Next]_vars => TypeOK'
<1> SUFFICES ASSUME TypeOK, [Next]_vars PROVE TypeOK'
  OBVIOUS
<1> USE MeltAssumption DEF TypeOK, database, tasks, handler, round, history
<1>1. ASSUME NEW h \in Hashes, Handler(h) PROVE TypeOK'
  <2>1. CASE \E n \in Notes : Reserve(n, h)
    BY <2>1 DEF Reserve
  <2>2. CASE Schedule(h)
    BY <2>2 DEF Schedule, TaskPcs
  <2>3. CASE RecordFails(h)
    BY <2>3, TrackEndTypeOK DEF RecordFails
  <2> QED BY <1>1, <2>1, <2>2, <2>3 DEF Handler
<1>2. ASSUME NEW h \in Hashes, FundingSource(h) PROVE TypeOK'
  BY <1>2 DEF FundingSource, PayLands, PayResolves, Outcomes, TaskPcs
<1>3. ASSUME NEW h \in Hashes, Task(h) PROVE TypeOK'
  <2>1. CASE PaySucceeds(h)
    BY <2>1 DEF PaySucceeds, Finalize, TaskPcs
  <2>2. CASE PayRaises(h)
    BY <2>2 DEF PayRaises, TaskPcs
  <2>3. CASE ConfirmPaid(h)
    BY <2>3 DEF ConfirmPaid, Finalize, TaskPcs
  <2>4. CASE ConfirmUnpaid(h)
    BY <2>4, TrackEndTypeOK DEF ConfirmUnpaid, Restore, EndTask, TaskPcs
  <2>5. CASE ConfirmRaises(h)
    BY <2>5, TrackEndTypeOK DEF ConfirmRaises, EndTask, TaskPcs
  <2>6. CASE TaskMarks(h)
    BY <2>6, TrackEndTypeOK DEF TaskMarks, MarkSettled, EndTask, TaskPcs
  <2>7. CASE TaskStoreFails(h)
    BY <2>7, TrackEndTypeOK DEF TaskStoreFails, EndTask, TaskPcs
  <2> QED BY <1>3, <2>1, <2>2, <2>3, <2>4, <2>5, <2>6, <2>7 DEF Task
<1>4. ASSUME NEW n \in Notes, Swap(n) PROVE TypeOK'
  BY <1>4 DEF Swap
<1>5. CASE Round
  <2>1. CASE StartRound
    BY <2>1, AdvanceTypeOK DEF StartRound, PendingMelts
  <2>2. CASE RoundLeaves
    BY <2>2, AdvanceTypeOK DEF RoundLeaves
  <2>3. CASE \E a \in Answers : RoundAnswer(a)
    BY <2>3 DEF RoundAnswer
  <2>4. CASE RoundRestores
    BY <2>4, AdvanceTypeOK DEF RoundRestores, Restore, Stale
  <2>5. CASE RoundFinalizes
    BY <2>5 DEF RoundFinalizes, Finalize, Stale, Answers
  <2>6. CASE RoundMarks
    BY <2>6, AdvanceTypeOK DEF RoundMarks, MarkSettled
  <2>7. CASE RoundStoreFails
    BY <2>7 DEF RoundStoreFails, NoRound, Answers
  <2> QED BY <1>5, <2>1, <2>2, <2>3, <2>4, <2>5, <2>6, <2>7 DEF Round
<1>6. CASE Serve \/ Crash \/ Boot
  BY <1>6 DEF Serve, Crash, Boot, NoRound, TaskPcs, Answers
<1>7. CASE UNCHANGED vars
  BY <1>7 DEF vars
<1> QED BY <1>1, <1>2, <1>3, <1>4, <1>5, <1>6, <1>7 DEF Next

\* Every variable keeps its type: the columns, the memory of the process and
\* the status of each payment.
THEOREM TypeCorrect == Spec => []TypeOK
  BY InitTypeOK, StepTypeOK, PTL DEF Spec

-----------------------------------------------------------------------------
(* IndInv, one lemma per action: the conjuncts the action can disturb, each  *)
(* from the parts of the invariant it needs.                                *)

\* The note was free, so no task, no round entry and no live payment had it.
LEMMA ReservePreserves ==
  ASSUME IndInv, TypeOK', NEW n \in Notes, NEW h \in Hashes, Reserve(n, h)
  PROVE  IndInv'
<1> USE DEF IndInv, TypeOK, Reserve, LoopFree, database, tasks, handler,
    round, history
<1>1. RegistryMatchesTasks'
  BY MeltAssumption DEF RegistryMatchesTasks
<1>2. PaidNoteKept'
  BY DEF PaidNoteKept, Live, Held
<1>3. ReservingHolds'
  BY DEF ReservingHolds, Held
<1>4. TaskHoldsNote'
  BY DEF TaskHoldsNote, TaskRuns, Held
<1>5. UnrecordedEntryHeld'
  BY DEF UnrecordedEntryHeld, Held
<1>6. ReservingNotInEntry'
  BY DEF ReservingNotInEntry, Held, UnrecordedEntryHeld
<1>7. UNCHANGED <<InvoicePaidOnce, BurnedOnlyIfPaid, UnrecordedUntouched,
      RecordedHasPayer, BurnedIsSpent, RoundShape, RoundEntryDead>>
  BY DEF InvoicePaidOnce, BurnedOnlyIfPaid, UnrecordedUntouched,
      RecordedHasPayer, BurnedIsSpent, RoundShape, RoundEntryDead, Live
<1> QED BY <1>1, <1>2, <1>3, <1>4, <1>5, <1>6, <1>7

\* The hash gets its row, its payer and its task: nothing ran under it before,
\* and the round is not working on this note under this hash.
LEMMA SchedulePreserves ==
  ASSUME IndInv, TypeOK', NEW h \in Hashes, Schedule(h)
  PROVE  IndInv'
<1> USE DEF IndInv, TypeOK, Schedule, database, tasks, handler, round, history
<1>1. RegistryMatchesTasks'
  BY MeltAssumption DEF RegistryMatchesTasks, UnrecordedUntouched,
      ReservingHolds
<1>2. InvoicePaidOnce'
  BY MeltAssumption DEF InvoicePaidOnce, UnrecordedUntouched, ReservingHolds
<1>3. PaidNoteKept'
  BY MeltAssumption DEF PaidNoteKept, Held, Live, ReservingHolds
<1>4. UnrecordedUntouched'
  BY DEF UnrecordedUntouched
<1>5. RecordedHasPayer'
  BY MeltAssumption DEF RecordedHasPayer, ReservingHolds
<1>6. ReservingHolds'
  BY DEF ReservingHolds, Held
<1>7. TaskHoldsNote'
  BY MeltAssumption DEF TaskHoldsNote, Held, TaskRuns, ReservingHolds
<1>8. RoundEntryDead'
  BY DEF RoundEntryDead, Live, ReservingNotInEntry
<1>9. UnrecordedEntryHeld'
  BY DEF UnrecordedEntryHeld, Held
<1>10. ReservingNotInEntry'
  BY DEF ReservingNotInEntry
<1>11. UNCHANGED <<BurnedOnlyIfPaid, BurnedIsSpent, RoundShape>>
  BY DEF BurnedOnlyIfPaid, BurnedIsSpent, RoundShape
<1> QED BY <1>1, <1>2, <1>3, <1>4, <1>5, <1>6, <1>7, <1>8, <1>9, <1>10, <1>11

LEMMA RecordFailsPreserves ==
  ASSUME IndInv, TypeOK', NEW h \in Hashes, RecordFails(h)
  PROVE  IndInv'
<1> USE DEF IndInv, TypeOK, RecordFails, TrackEnd, database, tasks, handler,
    round, history
<1>1. RegistryMatchesTasks'
  BY MeltAssumption DEF RegistryMatchesTasks
<1>2. ReservingHolds'
  BY DEF ReservingHolds, Held
<1>3. ReservingNotInEntry'
  BY DEF ReservingNotInEntry
<1>4. UNCHANGED <<InvoicePaidOnce, BurnedOnlyIfPaid, PaidNoteKept,
      UnrecordedUntouched, RecordedHasPayer, BurnedIsSpent, TaskHoldsNote,
      RoundShape, RoundEntryDead, UnrecordedEntryHeld>>
  BY DEF InvoicePaidOnce, BurnedOnlyIfPaid, PaidNoteKept, UnrecordedUntouched,
      RecordedHasPayer, BurnedIsSpent, TaskHoldsNote, RoundShape,
      RoundEntryDead, UnrecordedEntryHeld, Held, Live, TaskRuns
<1> QED BY <1>1, <1>2, <1>3, <1>4

LEMMA SwapPreserves ==
  ASSUME IndInv, TypeOK', NEW n \in Notes, Swap(n)
  PROVE  IndInv'
<1> USE DEF IndInv, TypeOK, Swap, LoopFree, database, tasks, handler, round,
    history
<1>1. PaidNoteKept'
  BY DEF PaidNoteKept, Live, Held
<1>2. ReservingHolds'
  BY DEF ReservingHolds, Held
<1>3. BurnedIsSpent'
  BY DEF BurnedIsSpent
<1>4. TaskHoldsNote'
  BY DEF TaskHoldsNote, TaskRuns, Held
<1>5. UnrecordedEntryHeld'
  BY DEF UnrecordedEntryHeld, Held
<1>6. UNCHANGED <<RegistryMatchesTasks, InvoicePaidOnce, BurnedOnlyIfPaid,
      UnrecordedUntouched, RecordedHasPayer, RoundShape, RoundEntryDead,
      ReservingNotInEntry>>
  BY DEF RegistryMatchesTasks, InvoicePaidOnce, BurnedOnlyIfPaid,
      UnrecordedUntouched, RecordedHasPayer, RoundShape, RoundEntryDead,
      ReservingNotInEntry, Live
<1> QED BY <1>1, <1>2, <1>3, <1>4, <1>5, <1>6

\* The payment starts while its task holds the note.
LEMMA PayLandsPreserves ==
  ASSUME IndInv, TypeOK', NEW h \in Hashes, PayLands(h)
  PROVE  IndInv'
<1> USE DEF IndInv, TypeOK, PayLands, database, tasks, handler, round, history
<1>1. RegistryMatchesTasks'
  BY DEF RegistryMatchesTasks
<1>2. InvoicePaidOnce'
  BY DEF InvoicePaidOnce
<1>3. BurnedOnlyIfPaid'
  BY DEF BurnedOnlyIfPaid
<1>4. PaidNoteKept'
  BY DEF PaidNoteKept, Held, Live, TaskRuns, TaskHoldsNote
<1>5. UnrecordedUntouched'
  BY DEF UnrecordedUntouched
<1>6. TaskHoldsNote'
  BY DEF TaskHoldsNote, TaskRuns, Held
<1>7. RoundShape'
  BY DEF RoundShape
<1>8. RoundEntryDead'
  BY DEF RoundEntryDead, Live
<1>9. UNCHANGED <<RecordedHasPayer, ReservingHolds, BurnedIsSpent,
      UnrecordedEntryHeld, ReservingNotInEntry>>
  BY DEF RecordedHasPayer, ReservingHolds, BurnedIsSpent, UnrecordedEntryHeld,
      ReservingNotInEntry, Held
<1> QED BY <1>1, <1>2, <1>3, <1>4, <1>5, <1>6, <1>7, <1>8, <1>9

LEMMA PayResolvesPreserves ==
  ASSUME IndInv, TypeOK', NEW h \in Hashes, PayResolves(h)
  PROVE  IndInv'
<1> USE DEF IndInv, TypeOK, PayResolves, database, tasks, handler, round,
    history
<1>1. InvoicePaidOnce'
  BY DEF InvoicePaidOnce
<1>2. BurnedOnlyIfPaid'
  BY DEF BurnedOnlyIfPaid
<1>3. PaidNoteKept'
  BY DEF PaidNoteKept, Live, Held
<1>4. UnrecordedUntouched'
  BY DEF UnrecordedUntouched
<1>5. TaskHoldsNote'
  BY DEF TaskHoldsNote, TaskRuns, Held
<1>6. RoundShape'
  BY DEF RoundShape
<1>7. RoundEntryDead'
  BY DEF RoundEntryDead, Live
<1>8. UNCHANGED <<RegistryMatchesTasks, RecordedHasPayer, ReservingHolds,
      BurnedIsSpent, UnrecordedEntryHeld, ReservingNotInEntry>>
  BY DEF RegistryMatchesTasks, RecordedHasPayer, ReservingHolds,
      BurnedIsSpent, UnrecordedEntryHeld, ReservingNotInEntry, Held
<1> QED BY <1>1, <1>2, <1>3, <1>4, <1>5, <1>6, <1>7, <1>8

\* The task burns its own note; by TaskHoldsNote no other hash holds it.
LEMMA PaySucceedsPreserves ==
  ASSUME IndInv, TypeOK', NEW h \in Hashes, PaySucceeds(h)
  PROVE  IndInv'
<1> USE DEF IndInv, TypeOK, PaySucceeds, Finalize, LoopFree, database, tasks,
    handler, round, history
<1>1. RegistryMatchesTasks'
  BY DEF RegistryMatchesTasks
<1>2. InvoicePaidOnce'
  BY DEF InvoicePaidOnce
<1>3. BurnedOnlyIfPaid'
  BY DEF BurnedOnlyIfPaid
<1>4. PaidNoteKept'
  BY MeltAssumption DEF PaidNoteKept, Held, Live, UnrecordedUntouched,
      RecordedHasPayer, BurnedIsSpent
<1>5. UnrecordedUntouched'
  BY DEF UnrecordedUntouched
<1>6. ReservingHolds'
  BY DEF ReservingHolds, Held
<1>7. BurnedIsSpent'
  BY DEF BurnedIsSpent
<1>8. TaskHoldsNote'
  BY DEF TaskHoldsNote, Held, TaskRuns, UnrecordedUntouched, RecordedHasPayer
<1>9. RoundEntryDead'
  BY DEF RoundEntryDead, Live
<1>10. UnrecordedEntryHeld'
  BY DEF UnrecordedEntryHeld, Held
<1>11. UNCHANGED <<RecordedHasPayer, RoundShape, ReservingNotInEntry>>
  BY DEF RecordedHasPayer, RoundShape, ReservingNotInEntry
<1> QED BY <1>1, <1>2, <1>3, <1>4, <1>5, <1>6, <1>7, <1>8, <1>9, <1>10, <1>11

LEMMA PayRaisesPreserves ==
  ASSUME IndInv, TypeOK', NEW h \in Hashes, PayRaises(h)
  PROVE  IndInv'
<1> USE DEF IndInv, TypeOK, PayRaises, database, tasks, handler, round,
    history
<1>1. RegistryMatchesTasks'
  BY DEF RegistryMatchesTasks
<1>2. InvoicePaidOnce'
  BY DEF InvoicePaidOnce
<1>3. UnrecordedUntouched'
  BY DEF UnrecordedUntouched
<1>4. TaskHoldsNote'
  BY DEF TaskHoldsNote, TaskRuns, Held
<1>5. RoundEntryDead'
  BY DEF RoundEntryDead, Live
<1>6. UNCHANGED <<BurnedOnlyIfPaid, PaidNoteKept, RecordedHasPayer,
      ReservingHolds, BurnedIsSpent, RoundShape, UnrecordedEntryHeld,
      ReservingNotInEntry>>
  BY DEF BurnedOnlyIfPaid, PaidNoteKept, RecordedHasPayer, ReservingHolds,
      BurnedIsSpent, RoundShape, UnrecordedEntryHeld, ReservingNotInEntry,
      Held, Live
<1> QED BY <1>1, <1>2, <1>3, <1>4, <1>5, <1>6

LEMMA ConfirmPaidPreserves ==
  ASSUME IndInv, TypeOK', NEW h \in Hashes, ConfirmPaid(h)
  PROVE  IndInv'
<1> USE DEF IndInv, TypeOK, ConfirmPaid, Reports, Finalize, LoopFree,
    database, tasks, handler, round, history
<1>1. RegistryMatchesTasks'
  BY DEF RegistryMatchesTasks
<1>2. InvoicePaidOnce'
  BY DEF InvoicePaidOnce
<1>3. BurnedOnlyIfPaid'
  BY DEF BurnedOnlyIfPaid
<1>4. PaidNoteKept'
  BY MeltAssumption DEF PaidNoteKept, Held, Live, UnrecordedUntouched,
      RecordedHasPayer, BurnedIsSpent
<1>5. UnrecordedUntouched'
  BY DEF UnrecordedUntouched
<1>6. ReservingHolds'
  BY DEF ReservingHolds, Held
<1>7. BurnedIsSpent'
  BY DEF BurnedIsSpent
<1>8. TaskHoldsNote'
  BY DEF TaskHoldsNote, Held, TaskRuns, UnrecordedUntouched, RecordedHasPayer,
      RoundEntryDead
<1>9. RoundEntryDead'
  BY DEF RoundEntryDead, Live
<1>10. UnrecordedEntryHeld'
  BY DEF UnrecordedEntryHeld, Held
<1>11. UNCHANGED <<RecordedHasPayer, RoundShape, ReservingNotInEntry>>
  BY DEF RecordedHasPayer, RoundShape, ReservingNotInEntry
<1> QED BY <1>1, <1>2, <1>3, <1>4, <1>5, <1>6, <1>7, <1>8, <1>9, <1>10, <1>11

\* The task lets its own note go: the funding source has just said that the
\* payment is dead, and a note waiting under an unrecorded hash has no task.
LEMMA ConfirmUnpaidPreserves ==
  ASSUME IndInv, TypeOK', NEW h \in Hashes, ConfirmUnpaid(h)
  PROVE  IndInv'
<1> USE DEF IndInv, TypeOK, ConfirmUnpaid, Reports, Restore, EndTask,
    TrackEnd, LoopFree, database, tasks, handler, round, history
<1>1. RegistryMatchesTasks'
  BY DEF RegistryMatchesTasks
<1>2. InvoicePaidOnce'
  BY DEF InvoicePaidOnce
<1>3. PaidNoteKept'
  BY DEF PaidNoteKept, Held, Live, TaskRuns, UnrecordedUntouched,
      RecordedHasPayer, TaskHoldsNote
<1>4. UnrecordedUntouched'
  BY DEF UnrecordedUntouched
<1>5. ReservingHolds'
  BY DEF ReservingHolds, Held
<1>6. BurnedIsSpent'
  BY DEF BurnedIsSpent
<1>7. TaskHoldsNote'
  BY DEF TaskHoldsNote, Held, TaskRuns, UnrecordedUntouched, RecordedHasPayer
<1>8. RoundEntryDead'
  BY DEF RoundEntryDead, Live
<1>9. UnrecordedEntryHeld'
  BY DEF UnrecordedEntryHeld, Held, Live, TaskRuns, UnrecordedUntouched,
      TaskHoldsNote
<1>10. UNCHANGED <<BurnedOnlyIfPaid, RecordedHasPayer, RoundShape,
      ReservingNotInEntry>>
  BY DEF BurnedOnlyIfPaid, RecordedHasPayer, RoundShape, ReservingNotInEntry
<1> QED BY <1>1, <1>2, <1>3, <1>4, <1>5, <1>6, <1>7, <1>8, <1>9, <1>10

LEMMA ConfirmRaisesPreserves ==
  ASSUME IndInv, TypeOK', NEW h \in Hashes, ConfirmRaises(h)
  PROVE  IndInv'
<1> USE DEF IndInv, TypeOK, ConfirmRaises, EndTask, TrackEnd, LoopFree,
    database, tasks, handler, round, history
<1>1. RegistryMatchesTasks'
  BY DEF RegistryMatchesTasks
<1>2. InvoicePaidOnce'
  BY DEF InvoicePaidOnce
<1>3. UnrecordedUntouched'
  BY DEF UnrecordedUntouched
<1>4. TaskHoldsNote'
  BY DEF TaskHoldsNote, TaskRuns, Held
<1>5. RoundEntryDead'
  BY DEF RoundEntryDead, Live
<1>6. UNCHANGED <<BurnedOnlyIfPaid, PaidNoteKept, RecordedHasPayer,
      ReservingHolds, BurnedIsSpent, RoundShape, UnrecordedEntryHeld,
      ReservingNotInEntry>>
  BY DEF BurnedOnlyIfPaid, PaidNoteKept, RecordedHasPayer, ReservingHolds,
      BurnedIsSpent, RoundShape, UnrecordedEntryHeld, ReservingNotInEntry,
      Held, Live
<1> QED BY <1>1, <1>2, <1>3, <1>4, <1>5, <1>6

LEMMA TaskMarksPreserves ==
  ASSUME IndInv, TypeOK', NEW h \in Hashes, TaskMarks(h)
  PROVE  IndInv'
<1> USE DEF IndInv, TypeOK, TaskMarks, MarkSettled, EndTask, TrackEnd,
    database, tasks, handler, round, history
<1>1. RegistryMatchesTasks'
  BY DEF RegistryMatchesTasks
<1>2. InvoicePaidOnce'
  BY DEF InvoicePaidOnce
<1>3. BurnedOnlyIfPaid'
  BY DEF BurnedOnlyIfPaid, TaskHoldsNote
<1>4. UnrecordedUntouched'
  BY DEF UnrecordedUntouched
<1>5. TaskHoldsNote'
  BY DEF TaskHoldsNote, TaskRuns, Held
<1>6. RoundEntryDead'
  BY DEF RoundEntryDead, Live
<1>7. UNCHANGED <<PaidNoteKept, RecordedHasPayer, ReservingHolds,
      BurnedIsSpent, RoundShape, UnrecordedEntryHeld, ReservingNotInEntry>>
  BY DEF PaidNoteKept, RecordedHasPayer, ReservingHolds, BurnedIsSpent,
      RoundShape, UnrecordedEntryHeld, ReservingNotInEntry, Held, Live
<1> QED BY <1>1, <1>2, <1>3, <1>4, <1>5, <1>6, <1>7

LEMMA TaskStoreFailsPreserves ==
  ASSUME IndInv, TypeOK', NEW h \in Hashes, TaskStoreFails(h)
  PROVE  IndInv'
<1> USE DEF IndInv, TypeOK, TaskStoreFails, EndTask, TrackEnd, database,
    tasks, handler, round, history
<1>1. RegistryMatchesTasks'
  BY DEF RegistryMatchesTasks
<1>2. InvoicePaidOnce'
  BY DEF InvoicePaidOnce
<1>3. UnrecordedUntouched'
  BY DEF UnrecordedUntouched
<1>4. TaskHoldsNote'
  BY DEF TaskHoldsNote, TaskRuns, Held
<1>5. RoundEntryDead'
  BY DEF RoundEntryDead, Live
<1>6. UNCHANGED <<BurnedOnlyIfPaid, PaidNoteKept, RecordedHasPayer,
      ReservingHolds, BurnedIsSpent, RoundShape, UnrecordedEntryHeld,
      ReservingNotInEntry>>
  BY DEF BurnedOnlyIfPaid, PaidNoteKept, RecordedHasPayer, ReservingHolds,
      BurnedIsSpent, RoundShape, UnrecordedEntryHeld, ReservingNotInEntry,
      Held, Live
<1> QED BY <1>1, <1>2, <1>3, <1>4, <1>5, <1>6

\* A snapshot of the rows; the first entry worked on has no live task.
LEMMA StartRoundPreserves ==
  ASSUME IndInv, TypeOK', StartRound
  PROVE  IndInv'
<1> USE DEF IndInv, TypeOK, StartRound, Idle, PendingMelts, Advance, NoRound,
    LoopFree, database, tasks, handler, round, history
<1>1. RoundShape'
  BY DEF RoundShape, RegistryMatchesTasks
<1>2. RoundEntryDead'
  BY DEF RoundEntryDead, RegistryMatchesTasks
<1>3. UnrecordedEntryHeld'
  BY DEF UnrecordedEntryHeld, Held
<1>4. ReservingNotInEntry'
  BY DEF ReservingNotInEntry
<1>5. UNCHANGED <<RegistryMatchesTasks, InvoicePaidOnce, BurnedOnlyIfPaid,
      PaidNoteKept, UnrecordedUntouched, RecordedHasPayer, ReservingHolds,
      BurnedIsSpent, TaskHoldsNote>>
  BY DEF RegistryMatchesTasks, InvoicePaidOnce, BurnedOnlyIfPaid,
      PaidNoteKept, UnrecordedUntouched, RecordedHasPayer, ReservingHolds,
      BurnedIsSpent, TaskHoldsNote, Held, Live, TaskRuns
<1> QED BY <1>1, <1>2, <1>3, <1>4, <1>5

LEMMA RoundAnswerPreserves ==
  ASSUME IndInv, TypeOK', NEW a \in Answers, RoundAnswer(a)
  PROVE  IndInv'
<1> USE DEF IndInv, TypeOK, RoundAnswer, Reports, database, tasks, handler,
    round, history
<1>1. RoundShape'
  BY DEF RoundShape
<1>2. RoundEntryDead'
  BY DEF RoundEntryDead, Live
<1>3. UNCHANGED <<RegistryMatchesTasks, InvoicePaidOnce, BurnedOnlyIfPaid,
      PaidNoteKept, UnrecordedUntouched, RecordedHasPayer, ReservingHolds,
      BurnedIsSpent, TaskHoldsNote, UnrecordedEntryHeld, ReservingNotInEntry>>
  BY DEF RegistryMatchesTasks, InvoicePaidOnce, BurnedOnlyIfPaid,
      PaidNoteKept, UnrecordedUntouched, RecordedHasPayer, ReservingHolds,
      BurnedIsSpent, TaskHoldsNote, UnrecordedEntryHeld, ReservingNotInEntry,
      Held, Live, TaskRuns
<1> QED BY <1>1, <1>2, <1>3

LEMMA RoundLeavesPreserves ==
  ASSUME IndInv, TypeOK', RoundLeaves
  PROVE  IndInv'
<1> USE DEF IndInv, TypeOK, RoundLeaves, Advance, NoRound, LoopFree, database,
    tasks, handler, round, history
<1>1. RoundShape'
  BY DEF RoundShape, RegistryMatchesTasks
<1>2. RoundEntryDead'
  BY DEF RoundEntryDead, RegistryMatchesTasks
<1>3. UnrecordedEntryHeld'
  BY DEF UnrecordedEntryHeld, Held
<1>4. ReservingNotInEntry'
  BY DEF ReservingNotInEntry
<1>5. UNCHANGED <<RegistryMatchesTasks, InvoicePaidOnce, BurnedOnlyIfPaid,
      PaidNoteKept, UnrecordedUntouched, RecordedHasPayer, ReservingHolds,
      BurnedIsSpent, TaskHoldsNote>>
  BY DEF RegistryMatchesTasks, InvoicePaidOnce, BurnedOnlyIfPaid,
      PaidNoteKept, UnrecordedUntouched, RecordedHasPayer, ReservingHolds,
      BurnedIsSpent, TaskHoldsNote, Held, Live, TaskRuns
<1> QED BY <1>1, <1>2, <1>3, <1>4, <1>5

\* The round lets the notes of its entry go.  One that is reserved for another
\* hash by now is stale and joins staleFreed; any other is either not the
\* payer of this hash, or its payment is dead (RoundEntryDead).
LEMMA RoundRestoresPreserves ==
  ASSUME IndInv, TypeOK', RoundRestores
  PROVE  IndInv'
<1> USE DEF IndInv, TypeOK, RoundRestores, Restore, Stale, Advance, NoRound,
    LoopFree, database, tasks, handler, round, history
<1>1. PaidNoteKept'
  BY DEF PaidNoteKept, Held, Live, UnrecordedUntouched, RecordedHasPayer,
      BurnedIsSpent, RoundEntryDead
<1>2. ReservingHolds'
  BY DEF ReservingHolds, Held
<1>3. BurnedIsSpent'
  BY DEF BurnedIsSpent
<1>4. TaskHoldsNote'
  BY DEF TaskHoldsNote, Held, TaskRuns, UnrecordedUntouched, RecordedHasPayer,
      RoundShape, RoundEntryDead
<1>5. RoundShape'
  BY DEF RoundShape, RegistryMatchesTasks
<1>6. RoundEntryDead'
  BY DEF RoundEntryDead, RegistryMatchesTasks
<1>7. UnrecordedEntryHeld'
  BY DEF UnrecordedEntryHeld, Held, RoundShape
<1>8. ReservingNotInEntry'
  BY DEF ReservingNotInEntry
<1>9. UNCHANGED <<RegistryMatchesTasks, InvoicePaidOnce, BurnedOnlyIfPaid,
      UnrecordedUntouched, RecordedHasPayer>>
  BY DEF RegistryMatchesTasks, InvoicePaidOnce, BurnedOnlyIfPaid,
      UnrecordedUntouched, RecordedHasPayer
<1> QED BY <1>1, <1>2, <1>3, <1>4, <1>5, <1>6, <1>7, <1>8, <1>9

\* The round burns the notes of its entry for a payment that succeeded.
LEMMA RoundFinalizesPreserves ==
  ASSUME IndInv, TypeOK', RoundFinalizes
  PROVE  IndInv'
<1> USE DEF IndInv, TypeOK, RoundFinalizes, Finalize, Stale, LoopFree,
    database, tasks, handler, round, history
<1>1. BurnedOnlyIfPaid'
  BY DEF BurnedOnlyIfPaid, RoundShape
<1>2. PaidNoteKept'
  BY MeltAssumption DEF PaidNoteKept, Held, Live, UnrecordedUntouched,
      RecordedHasPayer, BurnedIsSpent
<1>3. ReservingHolds'
  BY DEF ReservingHolds, Held
<1>4. BurnedIsSpent'
  BY DEF BurnedIsSpent
<1>5. TaskHoldsNote'
  BY DEF TaskHoldsNote, Held, TaskRuns, UnrecordedUntouched, RecordedHasPayer,
      RoundShape, RoundEntryDead
<1>6. RoundShape'
  BY DEF RoundShape
<1>7. RoundEntryDead'
  BY DEF RoundEntryDead, Live
<1>8. UnrecordedEntryHeld'
  BY DEF UnrecordedEntryHeld, Held
<1>9. ReservingNotInEntry'
  BY DEF ReservingNotInEntry
<1>10. UNCHANGED <<RegistryMatchesTasks, InvoicePaidOnce,
      UnrecordedUntouched, RecordedHasPayer>>
  BY DEF RegistryMatchesTasks, InvoicePaidOnce, UnrecordedUntouched,
      RecordedHasPayer
<1> QED BY <1>1, <1>2, <1>3, <1>4, <1>5, <1>6, <1>7, <1>8, <1>9, <1>10

LEMMA RoundMarksPreserves ==
  ASSUME IndInv, TypeOK', RoundMarks
  PROVE  IndInv'
<1> USE DEF IndInv, TypeOK, RoundMarks, MarkSettled, Advance, NoRound,
    database, tasks, handler, round, history
<1>1. BurnedOnlyIfPaid'
  BY DEF BurnedOnlyIfPaid, RoundShape
<1>2. RoundShape'
  BY MeltAssumption DEF RoundShape
<1>3. RoundEntryDead'
  BY DEF RoundEntryDead, RegistryMatchesTasks
<1>4. UnrecordedEntryHeld'
  BY DEF UnrecordedEntryHeld, Held
<1>5. ReservingNotInEntry'
  BY DEF ReservingNotInEntry, RegistryMatchesTasks
<1>6. UNCHANGED <<RegistryMatchesTasks, InvoicePaidOnce, PaidNoteKept,
      UnrecordedUntouched, RecordedHasPayer, ReservingHolds, BurnedIsSpent,
      TaskHoldsNote>>
  BY DEF RegistryMatchesTasks, InvoicePaidOnce, PaidNoteKept,
      UnrecordedUntouched, RecordedHasPayer, ReservingHolds, BurnedIsSpent,
      TaskHoldsNote, Held, Live, TaskRuns
<1> QED BY <1>1, <1>2, <1>3, <1>4, <1>5, <1>6

LEMMA RoundStoreFailsPreserves ==
  ASSUME IndInv, TypeOK', RoundStoreFails
  PROVE  IndInv'
<1> USE DEF IndInv, TypeOK, RoundStoreFails, NoRound, database, tasks,
    handler, round, history
<1>1. RoundShape'
  BY DEF RoundShape
<1>2. RoundEntryDead'
  BY DEF RoundEntryDead, Live
<1>3. UnrecordedEntryHeld'
  BY DEF UnrecordedEntryHeld, Held
<1>4. ReservingNotInEntry'
  BY DEF ReservingNotInEntry
<1>5. UNCHANGED <<RegistryMatchesTasks, InvoicePaidOnce, BurnedOnlyIfPaid,
      PaidNoteKept, UnrecordedUntouched, RecordedHasPayer, ReservingHolds,
      BurnedIsSpent, TaskHoldsNote>>
  BY DEF RegistryMatchesTasks, InvoicePaidOnce, BurnedOnlyIfPaid,
      PaidNoteKept, UnrecordedUntouched, RecordedHasPayer, ReservingHolds,
      BurnedIsSpent, TaskHoldsNote, Held, Live, TaskRuns
<1> QED BY <1>1, <1>2, <1>3, <1>4, <1>5

LEMMA CrashPreserves ==
  ASSUME IndInv, TypeOK', Crash
  PROVE  IndInv'
<1> USE DEF IndInv, TypeOK, Crash, NoRound, database, tasks, handler, round,
    history
<1>1. RegistryMatchesTasks'
  BY MeltAssumption DEF RegistryMatchesTasks
<1>2. InvoicePaidOnce'
  BY DEF InvoicePaidOnce
<1>3. UnrecordedUntouched'
  BY DEF UnrecordedUntouched
<1>4. ReservingHolds'
  BY DEF ReservingHolds, Held
<1>5. TaskHoldsNote'
  BY DEF TaskHoldsNote, TaskRuns, Held
<1>6. RoundShape'
  BY DEF RoundShape
<1>7. RoundEntryDead'
  BY DEF RoundEntryDead, Live
<1>8. UnrecordedEntryHeld'
  BY DEF UnrecordedEntryHeld, Held
<1>9. ReservingNotInEntry'
  BY DEF ReservingNotInEntry
<1>10. UNCHANGED <<BurnedOnlyIfPaid, PaidNoteKept, RecordedHasPayer,
      BurnedIsSpent>>
  BY DEF BurnedOnlyIfPaid, PaidNoteKept, RecordedHasPayer, BurnedIsSpent,
      Held, Live
<1> QED BY <1>1, <1>2, <1>3, <1>4, <1>5, <1>6, <1>7, <1>8, <1>9, <1>10

-----------------------------------------------------------------------------
LEMMA ProcessPreserves ==
  ASSUME IndInv, TypeOK', Serve \/ Boot \/ UNCHANGED vars
  PROVE  IndInv'
<1>1. UNCHANGED <<spent, pending, pendingHash, melts, settled, reservingNote,
                  reservingHash, taskPc, inFlight, todo, snapshot, confirming,
                  answer, payment, payer, burnedBy, staleFreed>>
  BY DEF Serve, Boot, vars, database, tasks, handler, round, history
<1> QED
  BY <1>1 DEF IndInv, RegistryMatchesTasks, InvoicePaidOnce, BurnedOnlyIfPaid,
      PaidNoteKept, UnrecordedUntouched, RecordedHasPayer, ReservingHolds,
      BurnedIsSpent, TaskHoldsNote, RoundShape, RoundEntryDead,
      UnrecordedEntryHeld, ReservingNotInEntry, Held, Live, TaskRuns

LEMMA InitIndInv == Init => IndInv
<1> SUFFICES ASSUME Init PROVE IndInv
  OBVIOUS
<1>1. TypeOK
  BY InitTypeOK
<1> QED
  BY <1>1, MeltAssumption
  DEF Init, IndInv, RegistryMatchesTasks, InvoicePaidOnce, BurnedOnlyIfPaid,
      PaidNoteKept, UnrecordedUntouched, RecordedHasPayer, ReservingHolds,
      BurnedIsSpent, TaskHoldsNote, RoundShape, RoundEntryDead,
      UnrecordedEntryHeld, ReservingNotInEntry, Held, Live, TaskRuns

LEMMA StepIndInv == IndInv /\ [Next]_vars => IndInv'
<1> SUFFICES ASSUME IndInv, [Next]_vars PROVE IndInv'
  OBVIOUS
<1>0. TypeOK'
  BY StepTypeOK DEF IndInv
<1>1. ASSUME NEW h \in Hashes, Handler(h) \/ FundingSource(h) PROVE IndInv'
  BY <1>0, <1>1, ReservePreserves, SchedulePreserves, RecordFailsPreserves,
     PayLandsPreserves, PayResolvesPreserves DEF Handler, FundingSource
<1>2. ASSUME NEW h \in Hashes, Task(h) PROVE IndInv'
  BY <1>0, <1>2, PaySucceedsPreserves, PayRaisesPreserves,
     ConfirmPaidPreserves, ConfirmUnpaidPreserves, ConfirmRaisesPreserves,
     TaskMarksPreserves, TaskStoreFailsPreserves DEF Task
<1>3. ASSUME NEW n \in Notes, Swap(n) PROVE IndInv'
  BY <1>0, <1>3, SwapPreserves
<1>4. CASE Round
  BY <1>0, <1>4, StartRoundPreserves, RoundAnswerPreserves,
     RoundLeavesPreserves, RoundRestoresPreserves, RoundFinalizesPreserves,
     RoundMarksPreserves, RoundStoreFailsPreserves DEF Round
<1>5. CASE Crash
  BY <1>0, <1>5, CrashPreserves
<1>6. CASE Serve \/ Boot \/ UNCHANGED vars
  BY <1>0, <1>6, ProcessPreserves
<1> QED BY <1>1, <1>2, <1>3, <1>4, <1>5, <1>6 DEF Next

\* The invariant of the melt, over every interleaving of requests, tasks,
\* rounds, failing commits and crashes: what the other theorems rest on.
THEOREM MeltInvariant == Spec => []IndInv
  BY InitIndInv, StepIndInv, PTL DEF Spec

-----------------------------------------------------------------------------

\* The note behind a payment that is under way or has succeeded stays reserved
\* for it until it is burned by it, except a note that a reconcile round
\* released with an outdated entry: over every interleaving of requests,
\* background tasks, reconcile rounds, failing commits and crashes.
THEOREM PaidNoteIsKept == Spec => []PaidNoteKept
<1>1. IndInv => PaidNoteKept
  BY DEF IndInv
<1> QED BY <1>1, MeltInvariant, PTL

\* pay_invoice is never called for a hash the funding source knows already, so
\* no invoice is paid twice, whatever is retried and wherever the mint stops.
THEOREM NoInvoicePaidTwice == Spec => []InvoicePaidOnce
<1>1. IndInv => InvoicePaidOnce
  BY DEF IndInv
<1> QED BY <1>1, MeltInvariant, PTL

\* A melt burns a note, and /verify calls a melt settled, only when the payment
\* has succeeded.
THEOREM NothingBurnedUnpaid == Spec => []BurnedOnlyIfPaid
<1>1. IndInv => BurnedOnlyIfPaid
  BY DEF IndInv
<1> QED BY <1>1, MeltInvariant, PTL

\* The registry that reconcile consults counts the live melts exactly.
THEOREM RegistryIsExact == Spec => []RegistryMatchesTasks
<1>1. IndInv => RegistryMatchesTasks
  BY DEF IndInv
<1> QED BY <1>1, MeltInvariant, PTL

=============================================================================
