--------------------------- MODULE BackendsProofs ---------------------------
(***************************************************************************)
(* For any invoices, any size of the registry and every funding source:    *)
(* the outgoing payments of Backends keep the contract of Funding, what    *)
(* the registry holds was never sent, and /verify tells the truth.         *)
(***************************************************************************)
EXTENDS Reconcile, FiniteSetTheorems, TLAPS

\* TypeOK bounds the registry, which says something of a finite set only
TypeInv == TypeOK /\ IsFiniteSet(registry)

LEMMA InitTypeInv == Init => TypeInv
  BY RegistryAssumption, FS_EmptySet DEF Init, TypeInv, TypeOK, Rest

\* A full registry drops an entry before it takes one.
LEMMA MarkRejectedTypeInv ==
  ASSUME TypeInv, NEW h \in Hashes, MarkRejected(h)
  PROVE  /\ registry' \in SUBSET Hashes
         /\ IsFiniteSet(registry')
         /\ Cardinality(registry') <= RegistryMax
<1> DEFINE grown == registry \cup {h}
<1>1. /\ registry \in SUBSET Hashes
      /\ IsFiniteSet(registry) /\ Cardinality(registry) <= RegistryMax
  BY DEF TypeInv, TypeOK
<1>2. /\ grown \in SUBSET Hashes /\ IsFiniteSet(grown)
      /\ Cardinality(grown) \in Nat
      /\ Cardinality(grown) <= Cardinality(registry) + 1
  <2>1. IsFiniteSet(grown)
    BY <1>1, FS_AddElement
  <2>2. Cardinality(registry) \in Nat /\ Cardinality(grown) \in Nat
    BY <1>1, <2>1, FS_CardinalityType
  <2>3. Cardinality(grown) = Cardinality(registry) + (IF h \in registry THEN 0 ELSE 1)
    <3>1. CASE h \in registry
      <4>1. grown = registry
        BY <3>1
      <4> HIDE DEF grown
      <4> QED BY <3>1, <4>1, <2>2
    <3>2. CASE h \notin registry
      BY <1>1, <3>2, FS_AddElement
    <3> QED BY <3>1, <3>2
  <2> QED BY <1>1, <2>1, <2>2, <2>3
<1>3. CASE Cardinality(grown) <= RegistryMax
  BY <1>2, <1>3 DEF MarkRejected
<1>4. CASE ~(Cardinality(grown) <= RegistryMax)
  <2>1. PICK dropped \in registry \ {h} : registry' = grown \ {dropped}
    BY <1>4 DEF MarkRejected
  <2>2. IsFiniteSet(registry') /\ Cardinality(registry') = Cardinality(grown) - 1
    BY <1>2, <2>1, FS_RemoveElement
  <2>3. Cardinality(registry) \in Nat
    BY <1>1, FS_CardinalityType
  <2>4. Cardinality(registry') <= RegistryMax
    BY <1>1, <1>2, <2>2, <2>3, RegistryAssumption
  <2> QED BY <1>2, <2>1, <2>2, <2>4
<1> QED BY <1>3, <1>4

LEMMA StepTypeInv == TypeInv /\ [Next]_vars => TypeInv'
<1> SUFFICES ASSUME TypeInv, [Next]_vars PROVE TypeInv'
  OBVIOUS
<1> USE DEF TypeInv, TypeOK, Rest
<1>1. ASSUME NEW h \in Hashes, Queue(h) PROVE TypeInv'
  BY <1>1 DEF Queue
<1>2. ASSUME NEW h \in Hashes, Call(h) PROVE TypeInv'
  <2>1. CASE RestSends(h) \/ RestReturns(h) \/ RestRaises(h)
    BY <2>1 DEF RestSends, RestReturns, LndPays, ClnPays, RestRaises
  <2>2. CASE SparkRejects(h) \/ SparkUnderfunded(h)
    BY <2>2, MarkRejectedTypeInv DEF SparkRejects, SparkUnderfunded
  <2>3. CASE SparkGivesUp(h) \/ SparkSends(h) \/ SparkSendRaises(h)
    BY <2>3 DEF SparkGivesUp, SparkSends, SparkSendRaises
  <2>4. CASE SparkReturns(h)
    BY <2>4 DEF SparkReturns, RowOf
  <2> QED BY <1>2, <2>1, <2>2, <2>3, <2>4 DEF Call
<1>3. ASSUME NEW h \in Hashes, Confirm(h) PROVE TypeInv'
  <2>1. CASE RestAnswers(h)
    BY <2>1 DEF RestAnswers
  <2>2. CASE SparkScans(h)
    BY <2>2 DEF SparkScans
  <2>3. CASE SparkSyncs(h)
    BY <2>3 DEF SparkSyncs, RowOf
  <2>4. CASE SparkRescans(h) \/ SparkProbeRaises(h)
    BY <2>4 DEF SparkRescans, SparkProbeRaises
  <2> QED BY <1>3, <2>1, <2>2, <2>3, <2>4 DEF Confirm
<1>4. ASSUME NEW h \in Hashes, Verify(h) PROVE TypeInv'
  BY <1>4 DEF Verify, MeltSettled, MeltPreimage,
       LndPreimage, ClnPreimage, SparkPreimage
<1>5. ASSUME NEW h \in Hashes, Source(h) PROVE TypeInv'
  BY <1>5 DEF Source, NodeStarts, SspAccepts, Resolves, CatchesUp, RowOf
<1>6. CASE Restart
  BY <1>6, RegistryAssumption, FS_EmptySet DEF Restart
<1>7. CASE UNCHANGED vars
  BY <1>7 DEF vars
<1> QED BY <1>1, <1>2, <1>3, <1>4, <1>5, <1>6, <1>7 DEF Next, Unasked

-----------------------------------------------------------------------------
(* IndInv, by the actors of Next.                                          *)

LEMMA InitIndInv == Init => IndInv
  BY InitTypeInv DEF TypeInv, Init, IndInv, RejectedNeverSent, ShownIsReal, RowsTrue,
     NodeRecords, VerdictsFinal, BeforeTheCall, VerdictsLate, ChecksAsked, Rest

\* A call of lnd or cln ends with a verdict on what succeeded, or with none.
LEMMA RestCallPreserves ==
  ASSUME IndInv, TypeInv', NEW h \in Hashes,
         Queue(h) \/ RestSends(h) \/ RestReturns(h) \/ RestRaises(h)
  PROVE  IndInv'
<1> USE DEF IndInv, TypeInv, TypeOK, Queue, RestSends, RestReturns, LndPays, ClnPays,
              RestRaises
<1>1. RejectedNeverSent'
  BY DEF RejectedNeverSent
<1>2. ShownIsReal'
  BY DEF ShownIsReal
<1>3. RowsTrue' /\ NodeRecords'
  BY DEF RowsTrue, NodeRecords
<1>4. VerdictsFinal'
  BY DEF VerdictsFinal
<1>5. BeforeTheCall' /\ VerdictsLate' /\ ChecksAsked'
  BY DEF BeforeTheCall, VerdictsLate, ChecksAsked, Asked
<1> QED BY <1>1, <1>2, <1>3, <1>4, <1>5

\* spark turns a payment down only where nothing of it has left the wallet,
\* and a send that raises leaves the call open.
LEMMA SparkCallPreserves ==
  ASSUME IndInv, TypeInv', NEW h \in Hashes,
         \/ SparkRejects(h) \/ SparkGivesUp(h) \/ SparkSends(h)
         \/ SparkUnderfunded(h) \/ SparkSendRaises(h) \/ SparkReturns(h)
  PROVE  IndInv'
<1> USE DEF IndInv, TypeInv, TypeOK, Rest, SparkRejects, SparkGivesUp,
    SparkSends, SparkUnderfunded, SparkSendRaises, SparkReturns
<1>1. RejectedNeverSent'
  BY DEF RejectedNeverSent, MarkRejected, BeforeTheCall
<1>2. ShownIsReal'
  BY DEF ShownIsReal
<1>3. RowsTrue' /\ NodeRecords'
  BY DEF RowsTrue, NodeRecords, RowOf
<1>4. VerdictsFinal'
  BY DEF VerdictsFinal, VerdictsLate
<1>5. BeforeTheCall' /\ VerdictsLate' /\ ChecksAsked'
  BY DEF BeforeTheCall, VerdictsLate, ChecksAsked, Asked
<1> QED BY <1>1, <1>2, <1>3, <1>4, <1>5

\* A verdict rests on a row that is true, on a node that has no row of what it
\* never took, or on the registry.
LEMMA ConfirmPreserves ==
  ASSUME IndInv, TypeInv', NEW h \in Hashes, Confirm(h)
  PROVE  IndInv'
<1> USE DEF IndInv, TypeInv, TypeOK, Rest, Confirm, RestAnswers, SparkScans,
    SparkSyncs, SparkRescans, SparkProbeRaises, Asked
<1>1. RejectedNeverSent' /\ BeforeTheCall' /\ VerdictsLate'
  <2>1. UNCHANGED <<payment, call, registry>>
    OBVIOUS
  <2>2. RejectedNeverSent' /\ BeforeTheCall'
    BY <2>1 DEF RejectedNeverSent, BeforeTheCall
  <2>3. VerdictsLate'
    BY <2>1 DEF VerdictsLate, ChecksAsked
  <2> QED BY <2>2, <2>3
<1>5. ChecksAsked'
  BY DEF ChecksAsked, NodeRecords, LndSays, ClnSays
<1>2. ShownIsReal'
  BY DEF ShownIsReal, RowsTrue, NodeRecords, RejectedNeverSent, LndSays,
     ClnSays, RowSays
<1>3. RowsTrue' /\ NodeRecords'
  BY DEF RowsTrue, NodeRecords, RowOf
<1>4. VerdictsFinal'
  BY DEF VerdictsFinal, RowsTrue, NodeRecords, RejectedNeverSent, LndSays,
     ClnSays, RowSays
<1> QED BY <1>1, <1>2, <1>3, <1>4, <1>5

\* /verify believes a verdict or a row, never their absence.
LEMMA VerifyPreserves ==
  ASSUME IndInv, TypeInv', NEW h \in Hashes, Verify(h)
  PROVE  IndInv'
<1> USE DEF IndInv, TypeInv, TypeOK, Verify, MeltSettled, MeltPreimage,
       LndPreimage, ClnPreimage, SparkPreimage
<1>1. ShownIsReal'
  BY DEF ShownIsReal, VerdictsFinal, RowsTrue, LiveSays, LndSays, ClnSays, RowSays
<1>2. UNCHANGED <<RejectedNeverSent, RowsTrue, NodeRecords, VerdictsFinal,
      BeforeTheCall, VerdictsLate, ChecksAsked>>
  BY DEF RejectedNeverSent, RowsTrue, NodeRecords, VerdictsFinal,
     BeforeTheCall, VerdictsLate, ChecksAsked, Asked
<1> QED BY <1>1, <1>2

\* A payment starts only under a call that is open, and then resolves once.
LEMMA SourcePreserves ==
  ASSUME IndInv, TypeInv', NEW h \in Hashes, Source(h)
  PROVE  IndInv'
<1> USE DEF IndInv, TypeInv, TypeOK, Rest, Source, NodeStarts, SspAccepts,
    Resolves, CatchesUp
<1>1. RejectedNeverSent'
  BY DEF RejectedNeverSent
<1>2. ShownIsReal'
  BY DEF ShownIsReal
<1>3. RowsTrue' /\ NodeRecords'
  BY DEF RowsTrue, NodeRecords, RowOf
<1>4. VerdictsFinal'
  BY DEF VerdictsFinal, VerdictsLate
<1>5. BeforeTheCall' /\ VerdictsLate' /\ ChecksAsked'
  BY DEF BeforeTheCall, VerdictsLate, ChecksAsked, Asked
<1> QED BY <1>1, <1>2, <1>3, <1>4, <1>5

\* The registry is forgotten; only a spark call is left open.
LEMMA RestartPreserves ==
  ASSUME IndInv, TypeInv', Restart
  PROVE  IndInv'
<1> USE DEF IndInv, TypeInv, TypeOK, Rest, Restart
<1>1. RejectedNeverSent'
  BY DEF RejectedNeverSent
<1>2. ShownIsReal' /\ RowsTrue'
  BY DEF ShownIsReal, RowsTrue
<1>3. NodeRecords'
  BY DEF NodeRecords
<1>4. VerdictsFinal'
  BY DEF VerdictsFinal
<1>5. BeforeTheCall' /\ VerdictsLate' /\ ChecksAsked'
  BY DEF BeforeTheCall, VerdictsLate, ChecksAsked, Asked
<1> QED BY <1>1, <1>2, <1>3, <1>4, <1>5

LEMMA StepIndInv == IndInv /\ TypeInv /\ [Next]_vars => IndInv' /\ TypeInv'
<1> SUFFICES ASSUME IndInv, TypeInv, [Next]_vars PROVE IndInv' /\ TypeInv'
  OBVIOUS
<1>0. TypeInv'
  BY StepTypeInv
<1>1. ASSUME NEW h \in Hashes, Queue(h) \/ Call(h) PROVE IndInv'
  BY <1>0, <1>1, RestCallPreserves, SparkCallPreserves DEF Call
<1>2. ASSUME NEW h \in Hashes, Confirm(h) \/ Verify(h) \/ Source(h)
      PROVE  IndInv'
  BY <1>0, <1>2, ConfirmPreserves, VerifyPreserves, SourcePreserves
<1>3. CASE Restart
  BY <1>0, <1>3, RestartPreserves
<1>4. CASE UNCHANGED vars
  BY <1>0, <1>4 DEF IndInv, TypeInv, vars, RejectedNeverSent, ShownIsReal,
     RowsTrue, NodeRecords, VerdictsFinal, BeforeTheCall, VerdictsLate,
     ChecksAsked, Asked
<1> QED BY <1>0, <1>1, <1>2, <1>3, <1>4 DEF Next, Unasked

\* The invariant of the outgoing payments of lnd, cln and spark: the bound of
\* the registry, true rows, and verdicts that stay true.
THEOREM PaymentsInvariant == Spec => []IndInv
<1>1. Init => IndInv /\ TypeInv
  BY InitIndInv, InitTypeInv
<1> QED BY <1>1, StepIndInv, PTL DEF Spec

\* Among the types, the bound of the registry: however many payments are turned
\* down, it never grows past _PREPARE_REJECTED_MAX.
THEOREM RegistryBounded == Spec => []TypeOK
<1>1. IndInv => TypeOK
  BY DEF IndInv
<1> QED BY <1>1, PaymentsInvariant, PTL

\* "No transfer request ever reached the SSP" for anything in the registry, so
\* is_payment_complete may answer False for it without a row.
THEOREM RejectedWasNeverSent == Spec => []RejectedNeverSent
<1>1. IndInv => RejectedNeverSent
  BY DEF IndInv
<1> QED BY <1>1, PaymentsInvariant, PTL

\* /verify never shows a melt as settled unless its payment succeeded, nor one
\* whose note was given back.
THEOREM VerifyTellsTheTruth == Spec => []ShownIsReal
<1>1. IndInv => ShownIsReal
  BY DEF IndInv
<1> QED BY <1>1, PaymentsInvariant, PTL

-----------------------------------------------------------------------------
(* The refinement: what each action is in Funding.                         *)

\* The only actions that move money are a start and its resolution.
LEMMA SourceRefines ==
  ASSUME IndInv, NEW h \in Hashes, Source(h)
  PROVE  Contract!Start(h) \/ Contract!Resolve(h) \/ UNCHANGED Contract!vars
<1> USE DEF IndInv, TypeOK, Contract!vars
<1>1. CASE NodeStarts(h) \/ SspAccepts(h)
  <2>1. told[h] = "nothing"
    BY <1>1 DEF NodeStarts, SspAccepts, NodeRecords, VerdictsFinal, VerdictsLate
  <2> QED BY <1>1, <2>1 DEF NodeStarts, SspAccepts, Contract!Start
<1>2. CASE Resolves(h)
  BY <1>2 DEF Resolves, Contract!Resolve
<1>3. CASE CatchesUp(h)
  BY <1>3 DEF CatchesUp
<1> QED BY <1>1, <1>2, <1>3 DEF Source

\* pay_invoice only returns for a payment that succeeded.
LEMMA CallRefines ==
  ASSUME IndInv, NEW h \in Hashes, Call(h)
  PROVE  Contract!Tell(h) \/ UNCHANGED Contract!vars
<1> USE DEF IndInv, TypeOK, Contract!vars
<1>1. CASE RestReturns(h) \/ SparkReturns(h)
  <2>1. told[h] = "nothing"
    BY <1>1 DEF RestReturns, LndPays, ClnPays, SparkReturns, VerdictsLate
  <2> QED BY <1>1, <2>1
    DEF RestReturns, LndPays, ClnPays, SparkReturns, Contract!Tell
<1>2. CASE ~(RestReturns(h) \/ SparkReturns(h))
  BY <1>2 DEF Call, RestSends, RestRaises, SparkRejects, SparkGivesUp,
     SparkSends, SparkUnderfunded, SparkSendRaises
<1> QED BY <1>1, <1>2

\* is_payment_complete only answers from a true row, from a node's missing
\* one, or from the registry.
LEMMA ConfirmRefines ==
  ASSUME IndInv, NEW h \in Hashes, Confirm(h)
  PROVE  Contract!Tell(h) \/ UNCHANGED Contract!vars
<1> USE DEF IndInv, TypeOK, Contract!vars
<1>1. CASE RestAnswers(h)
  BY <1>1 DEF RestAnswers, Asked, LndSays, ClnSays, Rest, RowsTrue,
     NodeRecords, Contract!Tell
<1>2. CASE SparkScans(h)
  BY <1>2 DEF SparkScans, Asked, RowSays, RowsTrue, RejectedNeverSent,
     Contract!Tell
<1>3. CASE SparkRescans(h)
  <2>1. told[h] = "nothing"
    BY <1>3 DEF SparkRescans, ChecksAsked, Asked
  <2> QED BY <1>3, <2>1 DEF SparkRescans, RowSays, RowsTrue, Contract!Tell
<1>4. CASE SparkSyncs(h) \/ SparkProbeRaises(h)
  BY <1>4 DEF SparkSyncs, SparkProbeRaises
<1> QED BY <1>1, <1>2, <1>3, <1>4 DEF Confirm

\* lnd, cln and spark keep the promise of pay_invoice and is_payment_complete:
\* a payment goes out at most once and never after a verdict, and a verdict is
\* never about a payment in flight.
THEOREM BackendsKeepContract == Spec => KeepsContract
<1>1. Init => Contract!Init
  BY DEF Init, Contract!Init
<1>2. IndInv /\ [Next]_vars => [Contract!Next]_(Contract!vars)
  <2> SUFFICES ASSUME IndInv, [Next]_vars
               PROVE  Contract!Next \/ UNCHANGED Contract!vars
    OBVIOUS
  <2>1. ASSUME NEW h \in Hashes, Queue(h) \/ Verify(h)
        PROVE  UNCHANGED Contract!vars
    BY <2>1 DEF Contract!vars, Queue, Verify, MeltSettled, MeltPreimage,
       LndPreimage, ClnPreimage, SparkPreimage
  <2>2. ASSUME NEW h \in Hashes, Call(h) \/ Confirm(h) \/ Source(h)
        PROVE  Contract!Next \/ UNCHANGED Contract!vars
    BY <2>2, CallRefines, ConfirmRefines, SourceRefines DEF Contract!Next
  <2>3. CASE Restart \/ UNCHANGED vars
    BY <2>3 DEF Restart, vars, Contract!vars
  <2> QED BY <2>1, <2>2, <2>3 DEF Next, Unasked
<1> QED BY <1>1, <1>2, PaymentsInvariant, PTL DEF Spec, KeepsContract, Contract!Spec

-----------------------------------------------------------------------------
(* With the monitor: the rounds ask no question that Spec does not allow.  *)

\* Composed with the process that watches the funding source, its payments are
\* those of Spec, so each of the results above holds of the composition.
THEOREM RoundsArePayments == RoundsSpec => Spec /\ KeepsContract
<1>1. RoundsInit => Init
  BY DEF RoundsInit
<1>2. [RoundsNext]_allVars => [Next]_vars
  <2> SUFFICES ASSUME [RoundsNext]_allVars PROVE [Next]_vars
    OBVIOUS
  <2>1. ASSUME NEW h \in Hashes, RoundAsks(h) \/ TaskAsks(h) \/ ProbeRaises(h)
        PROVE  Next
    <3>1. Confirm(h)
      BY <2>1 DEF RoundAsks, TaskAsks, ProbeRaises, Confirm
    <3> QED BY <3>1 DEF Next
  <2>2. ASSUME NEW h \in Hashes, Elsewhere(h) PROVE Next
    BY <2>2 DEF Elsewhere, Next
  <2>3. CASE Watches
    BY <2>3 DEF Watches
  <2>4. CASE Restarts
    BY <2>4 DEF Restarts, Next
  <2>5. CASE UNCHANGED allVars
    BY <2>5 DEF allVars
  <2> QED BY <2>1, <2>2, <2>3, <2>4, <2>5 DEF RoundsNext
<1> QED BY <1>1, <1>2, BackendsKeepContract, PTL DEF RoundsSpec, Spec

=============================================================================
