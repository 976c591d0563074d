-------------------------- MODULE SettlePollProofs --------------------------
(***************************************************************************)
(* The settlement poll and its receipts, for any number of invoices, names *)
(* and shares and any limit: IndInv of SettlePoll is inductive.  The rows  *)
(* a round works on do not matter for MintedOnce: whoever settles an       *)
(* invoice, and in whatever order, SettleMint looks again.  They do for    *)
(* the receipts, which are published of what the query found; what it      *)
(* finds is a fold over the table, and the first section is about that.    *)
(***************************************************************************)
EXTENDS SettlePoll, Lemmas

Added(found, i, rows) == IF i \in rows THEN Append(found, i) ELSE found

\* the function behind the fold, for the sets of positions of s up to n
Collects(g, s, n, rows) ==
  g = [D \in SUBSET (1..n) |->
         IF D = {} THEN <<>> ELSE Added(g[D \ {Max(D)}], s[Max(D)], rows)]

LEMMA RowsOfIsFold ==
  ASSUME NEW rows, DOMAIN issued = 1..Len(issued)
  PROVE  RowsOf(rows) = (CHOOSE g : Collects(g, issued, Len(issued), rows))[1..Len(issued)]
  BY DEF RowsOf, FoldLeft, MapThenFoldSet, Collects, Added

LEMMA CollectsExist ==
  ASSUME NEW s, NEW rows, NEW n \in Nat PROVE \E g : Collects(g, s, n, rows)
<1> DEFINE Bad == {k \in Nat : ~ \E g : Collects(g, s, k, rows)}
<1> SUFFICES ASSUME Bad # {} PROVE FALSE
  OBVIOUS
<1>1. PICK k \in Bad : \A j \in Bad : k <= j
  <2>1. Bad \in SUBSET Nat
    OBVIOUS
  <2> HIDE DEF Bad
  <2> QED BY <2>1, MinIsLeast
<1>2. k # 0
  <2> DEFINE g == [D \in SUBSET (1..0) |-> <<>>]
  <2>1. Collects(g, s, 0, rows)
    BY DEF Collects
  <2> QED BY <1>1, <2>1
<1>3. k \in Nat /\ k - 1 \in Nat /\ k - 1 \notin Bad
  BY <1>1, <1>2
<1>4. PICK g : Collects(g, s, k - 1, rows)
  BY <1>3
<1> DEFINE h == [D \in SUBSET (1..k) |->
                   IF D = {} THEN <<>>
                   ELSE IF k \in D THEN Added(g[D \ {k}], s[k], rows) ELSE g[D]]
<1>5. ASSUME NEW D \in SUBSET (1..k), D # {}
      PROVE  h[D] = Added(h[D \ {Max(D)}], s[Max(D)], rows)
  <2>1. Max(D) \in D /\ \A y \in D : Max(D) >= y
    BY <1>3, <1>5, MaxIsInside
  <2>2. D \ {Max(D)} \in SUBSET (1..k) /\ g[{}] = <<>>
    BY <1>4 DEF Collects
  <2>3. CASE k \in D
    <3>1. Max(D) = k
      <4>1. Max(D) \in 1..k /\ Max(D) >= k
        BY <2>1, <2>3
      <4> QED BY <1>3, <4>1
    <3>2. h[D \ {k}] = g[D \ {k}]
      BY <1>3, <2>2, <3>1
    <3> QED BY <2>3, <3>1, <3>2
  <2>4. CASE k \notin D
    <3>1. D \in SUBSET (1..(k - 1))
      BY <1>3, <2>4
    <3>2. g[D] = Added(g[D \ {Max(D)}], s[Max(D)], rows)
      BY <1>4, <1>5, <3>1 DEF Collects
    <3>3. h[D \ {Max(D)}] = g[D \ {Max(D)}]
      BY <2>2, <2>4
    <3> QED BY <1>5, <2>4, <3>2, <3>3
  <2> QED BY <2>3, <2>4
<1>6. Collects(h, s, k, rows)
  <2>1. h = [D \in SUBSET (1..k) |->
               IF D = {} THEN <<>> ELSE Added(h[D \ {Max(D)}], s[Max(D)], rows)]
    BY <1>5
  <2> HIDE DEF h
  <2> QED BY <2>1 DEF Collects
<1> QED BY <1>1, <1>6

\* rows that the query finds are rows on file that it asks for
LEMMA RowsOfFinds ==
  ASSUME NEW S, issued \in Seq(S), NEW rows
  PROVE  RowsOf(rows) \in Seq(S \cap rows)
<1> DEFINE n == Len(issued)
<1>1. n \in Nat /\ DOMAIN issued = 1..n /\ \A k \in 1..n : issued[k] \in S
  OBVIOUS
<1> HIDE DEF n
<1>2. PICK g : Collects(g, issued, n, rows) /\ RowsOf(rows) = g[1..n]
  BY <1>1, CollectsExist, RowsOfIsFold DEF n
<1> DEFINE found == S \cap rows
           Bad == {D \in SUBSET (1..n) : g[D] \notin Seq(found)}
<1> SUFFICES ASSUME Bad # {} PROVE FALSE
  BY <1>1, <1>2
<1>3. PICK D \in Bad : \A E \in SUBSET D : E # D => E \notin Bad
  <2>1. Bad \in SUBSET SUBSET (1..n) /\ IsFiniteSet(1..n)
    BY <1>1, FS_Interval
  <2> HIDE DEF Bad
  <2> QED BY <2>1, SmallestSubset
<1>4. \A i \in S : i \in rows <=> i \in found
  OBVIOUS
<1> HIDE DEF found
<1>5. D # {} /\ D \in SUBSET (1..n)
  <2>1. g[{}] = <<>>
    BY <1>2 DEF Collects
  <2>2. g[{}] \in Seq(found)
    BY <2>1
  <2> QED BY <1>3, <2>2
<1>6. Max(D) \in D
  BY <1>1, <1>5, MaxIsInside
<1>7. g[D] = Added(g[D \ {Max(D)}], issued[Max(D)], rows)
  BY <1>2, <1>5 DEF Collects
<1>8. g[D \ {Max(D)}] \in Seq(found)
  BY <1>3, <1>5, <1>6
<1>9. issued[Max(D)] \in S
  BY <1>1, <1>5, <1>6
<1>10. g[D] \in Seq(found)
  <2> DEFINE before == g[D \ {Max(D)}]
             i == issued[Max(D)]
  <2>1. before \in Seq(found) /\ i \in S /\ g[D] = Added(before, i, rows)
    BY <1>7, <1>8, <1>9
  <2> HIDE DEF before, i
  <2> QED BY <1>4, <2>1 DEF Added
<1> QED BY <1>3, <1>10

\* the newest of them, within the limit
LEMMA NewestFinds ==
  ASSUME issued \in Seq(Invoices), NEW rows
  PROVE  Newest(rows) \in Seq(Invoices) /\ Len(Newest(rows)) <= Limit
<1> DEFINE found == RowsOf(rows \ (aged \cup settled))
           queue == Reverse(found)
           n == IF Len(queue) < Limit THEN Len(queue) ELSE Limit
<1>1. found \in Seq(Invoices)
  <2> DEFINE asked == rows \ (aged \cup settled)
  <2>1. RowsOf(asked) \in Seq(Invoices \cap asked)
    BY RowsOfFinds
  <2>2. Seq(Invoices \cap asked) \subseteq Seq(Invoices)
    OBVIOUS
  <2> QED BY <2>1, <2>2
<1> HIDE DEF found
<1>2. queue \in Seq(Invoices)
  BY <1>1 DEF Reverse
<1> HIDE DEF queue
<1>3. n \in 0..Len(queue) /\ n <= Limit
  BY <1>2, SettlePollAssumption
<1>4. Newest(rows) = SubSeq(queue, 1, n)
  BY DEF Newest, queue, found
<1> HIDE DEF n
<1>5. SubSeq(queue, 1, n) \in Seq(Invoices) /\ Len(SubSeq(queue, 1, n)) = n
  BY <1>2, <1>3
<1> QED BY <1>3, <1>4, <1>5

-----------------------------------------------------------------------------

LEMMA InitIndInv == Init => IndInv
<1> SUFFICES ASSUME Init PROVE IndInv
  OBVIOUS
<1>1. <<>> \in Seq(Invoices) /\ Limit >= 0
  BY SettlePollAssumption
<1>2. issued \in Seq(Invoices) /\ work \in Seq(Invoices) /\ poll = "sleeping"
  BY <1>1 DEF Init
<1>3. TypeOK
  BY <1>2 DEF Init, TypeOK
<1> QED BY <1>3 DEF Init, IndInv, MintedOnce, ReceiptsHonest, IssuedNamed,
                    AskedHasRow, ReceiptRows, Invoices

LEMMA SettledIsPaid ==
  ASSUME TypeOK, NEW i \in Mints, SourceSettled(i) PROVE invoice[i] = "paid"
  BY DEF TypeOK, Invoices, SourceSettled, LndSettled, ClnSettled, SparkSettled

\* settle_mint or settle_address_fee, whoever calls it and whether or not it
\* was called before
LEMMA SettleKeeps ==
  ASSUME IndInv, NEW i \in Invoices, SourceSettled(i), Settle(i),
         UNCHANGED <<holder, forName, invoice>>
  PROVE  /\ settled' \in SUBSET Invoices /\ settled \subseteq settled'
         /\ credited' \in [Mints -> Shares \cup {NoShare}]
         /\ logged' \in [Mints -> Nat]
         /\ MintedOnce' /\ IssuedNamed'
<1>1. CASE i \in Mints /\ i \notin settled
  <2>1. invoice[i] = "paid" /\ forName[i] \in Names
    BY <1>1, SettledIsPaid DEF IndInv, IssuedNamed
  <2>2. /\ holder[forName[i]] \in Shares
        /\ settled' = settled \cup {i}
        /\ credited' = [credited EXCEPT ![i] = holder[forName[i]]]
        /\ logged' = [logged EXCEPT ![i] = @ + 1]
    BY <1>1, <2>1 DEF Settle, SettleMint, IndInv, TypeOK
  <2>3. logged[i] = 0
    BY <1>1 DEF IndInv, MintedOnce
  <2>4. /\ settled' \in SUBSET Invoices
        /\ credited' \in [Mints -> Shares \cup {NoShare}]
        /\ logged' \in [Mints -> Nat]
    BY <1>1, <2>2 DEF IndInv, TypeOK
  <2>5. MintedOnce'
    <3>1. credited'[i] # NoShare /\ i \in settled' /\ logged'[i] = 1
      BY <1>1, <2>2, <2>3, SettlePollAssumption DEF IndInv, TypeOK
    <3>2. \A m \in Mints \ {i} :
            /\ m \in settled' <=> m \in settled
            /\ credited'[m] = credited[m] /\ logged'[m] = logged[m]
      BY <1>1, <2>2 DEF IndInv, TypeOK
    <3> QED BY <2>1, <3>1, <3>2 DEF IndInv, MintedOnce
  <2> QED BY <2>2, <2>4, <2>5 DEF IndInv, IssuedNamed
<1>2. CASE i \in Mints /\ i \in settled
  BY <1>2 DEF Settle, SettleMint, IndInv, TypeOK, MintedOnce, IssuedNamed
<1>3. CASE i \notin Mints
  BY <1>3 DEF Settle, SettleFee, IndInv, TypeOK, MintedOnce, IssuedNamed
<1> QED BY <1>1, <1>2, <1>3

\* the rest of a round's rows are rows of the round
LEMMA RowsRemain ==
  ASSUME TypeOK, work # <<>>
  PROVE  /\ Head(work) \in Invoices /\ Head(work) = work[1] /\ 1 \in DOMAIN work
         /\ Tail(work) \in Seq(Invoices) /\ Len(Tail(work)) <= Len(work)
         /\ \A k \in DOMAIN Tail(work) : \E j \in DOMAIN work : Tail(work)[k] = work[j]
<1>1. work \in Seq(Invoices) /\ Len(work) \in Nat /\ Len(work) > 0
  BY DEF TypeOK
<1>2. \A k \in DOMAIN Tail(work) : k + 1 \in DOMAIN work /\ Tail(work)[k] = work[k + 1]
  BY <1>1
<1> QED BY <1>1, <1>2

-----------------------------------------------------------------------------
(* The rounds of the poll.                                                 *)

\* a step of the coroutine that settles nothing and publishes nothing
LEMMA TurnKeeps ==
  ASSUME IndInv,
         UNCHANGED <<backend, nostrKey, database, verifying, invoice, relayed, logged>>,
         reachable' \in BOOLEAN,
         poll' \in {"sleeping", "mints", "fees", "receipts", "marking"},
         work' \in Seq(Invoices), asking' \in BOOLEAN,
         poll' \in {"mints", "fees"} => Len(work') <= Limit,
         AskedHasRow', ReceiptRows'
  PROVE  IndInv'
<1> USE DEF database
<1>1. TypeOK'
  BY DEF IndInv, TypeOK
<1> QED BY <1>1 DEF IndInv, MintedOnce, ReceiptsHonest, IssuedNamed

LEMMA NextRowKeeps ==
  ASSUME IndInv, work # <<>>, poll # "marking", NextRow,
         UNCHANGED <<reachable, backend, nostrKey, database, verifying, invoice,
                     relayed, logged>>
  PROVE  IndInv'
<1> USE DEF database
<1>1. /\ poll' = poll /\ work' = Tail(work) /\ asking' = FALSE
      /\ work' \in Seq(Invoices) /\ Len(work') <= Len(work)
      /\ \A k \in DOMAIN work' : \E j \in DOMAIN work : work'[k] = work[j]
  BY RowsRemain DEF NextRow, IndInv
<1>2. AskedHasRow'
  BY <1>1 DEF AskedHasRow
<1>3. ReceiptRows'
  BY <1>1 DEF IndInv, ReceiptRows
<1>4. poll' \in {"mints", "fees"} => Len(work') <= Limit
  BY <1>1, SettlePollAssumption DEF IndInv, TypeOK
<1>5. /\ reachable' \in BOOLEAN /\ asking' \in BOOLEAN
      /\ poll' \in {"sleeping", "mints", "fees", "receipts", "marking"}
  BY <1>1 DEF IndInv, TypeOK
<1> QED BY <1>1, <1>2, <1>3, <1>4, <1>5, TurnKeeps

LEMMA EndRoundKeeps ==
  ASSUME IndInv, EndRound, reachable' \in BOOLEAN,
         UNCHANGED <<backend, nostrKey, database, verifying, invoice, relayed, logged>>
  PROVE  IndInv'
<1>1. poll' = "sleeping" /\ work' = <<>> /\ asking' = FALSE
  BY DEF EndRound
<1>2. <<>> \in Seq(Invoices) /\ AskedHasRow' /\ ReceiptRows'
  BY <1>1 DEF AskedHasRow, ReceiptRows
<1> QED BY <1>1, <1>2, TurnKeeps

LEMMA WakesKeeps == ASSUME IndInv, PollWakes PROVE IndInv'
<1> USE DEF world
<1>1. /\ poll' = "mints" /\ asking' = FALSE
      /\ work' \in Seq(Invoices) /\ Len(work') <= Limit
  BY NewestFinds DEF PollWakes, PendingPolledMints, IndInv, TypeOK
<1>2. AskedHasRow' /\ ReceiptRows'
  BY <1>1 DEF AskedHasRow, ReceiptRows
<1>3. /\ UNCHANGED <<backend, nostrKey, database, verifying, invoice, relayed, logged>>
      /\ reachable' \in BOOLEAN
  BY DEF PollWakes, settings, IndInv, TypeOK
<1> QED BY <1>1, <1>2, <1>3, TurnKeeps

\* the query for receipts finds settled zaps
LEMMA ReceiptsFound ==
  ASSUME IndInv
  PROVE  /\ UnpublishedZaps \in Seq(Invoices)
         /\ \A k \in DOMAIN UnpublishedZaps : UnpublishedZaps[k] \in Zaps \cap settled
<1> DEFINE rows == (Zaps \cap settled) \ published
           both == Invoices \cap rows
<1>1. UnpublishedZaps \in Seq(both)
  BY RowsOfFinds DEF IndInv, TypeOK, UnpublishedZaps
<1>2. both \subseteq Invoices /\ both \subseteq Zaps \cap settled
  OBVIOUS
<1> HIDE DEF both
<1> QED BY <1>1, <1>2

LEMMA TurnsKeeps == ASSUME IndInv, PollTurns PROVE IndInv'
<1> USE DEF world
<1>1. /\ UNCHANGED <<backend, nostrKey, database, verifying, invoice, relayed, logged>>
      /\ reachable' \in BOOLEAN /\ asking' = FALSE
  BY DEF PollTurns, settings, IndInv, TypeOK
<1>2. settled' = settled /\ AskedHasRow'
  BY <1>1 DEF database, AskedHasRow
<1>3. CASE poll' = "fees" /\ work' = HeldAddressFees
  <2>1. work' \in Seq(Invoices) /\ Len(work') <= Limit
    BY <1>3, NewestFinds DEF HeldAddressFees, IndInv, TypeOK
  <2>2. ReceiptRows'
    BY <1>3 DEF ReceiptRows
  <2> QED BY <1>1, <1>2, <1>3, <2>1, <2>2, TurnKeeps
<1>4. CASE poll' = "receipts" /\ work' = UnpublishedZaps
  <2>1. /\ work' \in Seq(Invoices)
        /\ \A k \in DOMAIN work' : work'[k] \in Zaps \cap settled'
    BY <1>2, <1>4, ReceiptsFound
  <2>2. ReceiptRows'
    BY <1>4, <2>1 DEF ReceiptRows
  <2> QED BY <1>1, <1>2, <1>4, <2>1, <2>2, TurnKeeps
<1>5. CASE poll' = "sleeping" /\ work' = <<>>
  BY <1>1, <1>5, EndRoundKeeps DEF EndRound
<1> QED BY <1>3, <1>4, <1>5 DEF PollTurns

LEMMA AsksKeeps == ASSUME IndInv, PollAsks PROVE IndInv'
<1> USE DEF world
<1>1. /\ UNCHANGED <<reachable, backend, nostrKey, database, verifying, invoice,
                     relayed, logged>>
      /\ poll \in {"mints", "fees"} /\ work # <<>>
  BY DEF PollAsks, settings
<1>2. CASE NextRow
  BY <1>1, <1>2, NextRowKeeps
<1>3. CASE asking' = TRUE /\ UNCHANGED <<poll, work>>
  <2>1. AskedHasRow' /\ ReceiptRows'
    BY <1>1, <1>3 DEF AskedHasRow, ReceiptRows
  <2>2. /\ reachable' \in BOOLEAN /\ asking' \in BOOLEAN
        /\ poll' \in {"sleeping", "mints", "fees", "receipts", "marking"}
        /\ work' \in Seq(Invoices) /\ Len(work') <= Limit
    BY <1>1, <1>3 DEF IndInv, TypeOK
  <2> QED BY <1>1, <2>1, <2>2, TurnKeeps
<1> QED BY <1>2, <1>3 DEF PollAsks

LEMMA UnpaidKeeps == ASSUME IndInv, PollFindsUnpaid PROVE IndInv'
<1>1. /\ UNCHANGED <<reachable, backend, nostrKey, database, verifying, invoice,
                     relayed, logged>>
      /\ work # <<>> /\ poll # "marking" /\ NextRow
  BY DEF PollFindsUnpaid, settings, world, IndInv, AskedHasRow
<1> QED BY <1>1, NextRowKeeps

LEMMA RaisesKeeps == ASSUME IndInv, PollRaises \/ Restart PROVE IndInv'
<1> USE DEF world
<1>1. CASE PollRaises
  BY <1>1, EndRoundKeeps DEF PollRaises, settings, IndInv, TypeOK
<1>2. CASE Restart
  <2>1. /\ poll' = "sleeping" /\ work' = <<>> /\ asking' = FALSE
        /\ UNCHANGED <<reachable, backend, nostrKey, database, invoice, relayed, logged>>
        /\ verifying' = {}
    BY <1>2 DEF Restart, EndRound, settings
  <2>2. <<>> \in Seq(Invoices)
    OBVIOUS
  <2>3. TypeOK'
    BY <2>1, <2>2 DEF IndInv, TypeOK, database
  <2> QED BY <2>1, <2>3
      DEF IndInv, MintedOnce, ReceiptsHonest, IssuedNamed, AskedHasRow,
          ReceiptRows, database
<1> QED BY <1>1, <1>2

\* while a question about a row waits, others may settle the same invoice
LEMMA SettlesKeeps == ASSUME IndInv, PollSettles PROVE IndInv'
<1>1. /\ asking /\ poll \in {"mints", "fees"} /\ work # <<>>
      /\ SourceSettled(Head(work)) /\ Settle(Head(work)) /\ NextRow
      /\ UNCHANGED <<reachable, backend, nostrKey, holder, issued, forName, aged,
                     published, verifying, invoice, relayed>>
  BY DEF PollSettles, settings, IndInv, AskedHasRow
<1>2. /\ settled' \in SUBSET Invoices /\ settled \subseteq settled'
      /\ credited' \in [Mints -> Shares \cup {NoShare}]
      /\ logged' \in [Mints -> Nat]
      /\ MintedOnce' /\ IssuedNamed'
  BY <1>1, RowsRemain, SettleKeeps DEF IndInv
<1>3. /\ poll' = poll /\ asking' = FALSE
      /\ work' \in Seq(Invoices) /\ Len(work') <= Len(work)
  BY <1>1, RowsRemain DEF NextRow, IndInv
<1>4. Len(work') <= Limit
  BY <1>1, <1>3, SettlePollAssumption DEF IndInv, TypeOK
<1>5. TypeOK'
  BY <1>1, <1>2, <1>3, <1>4 DEF IndInv, TypeOK
<1>6. ReceiptsHonest' /\ AskedHasRow' /\ ReceiptRows'
  BY <1>1, <1>2, <1>3 DEF IndInv, ReceiptsHonest, AskedHasRow, ReceiptRows
<1> QED BY <1>2, <1>5, <1>6 DEF IndInv

-----------------------------------------------------------------------------
(* Receipts.                                                               *)

LEMMA ReceiptRowIsSettled ==
  ASSUME IndInv, poll \in {"receipts", "marking"}, work # <<>>
  PROVE  Head(work) \in Zaps \cap settled
  BY RowsRemain DEF IndInv, ReceiptRows

LEMMA TakenKeeps == ASSUME IndInv, ReceiptTaken PROVE IndInv'
<1>1. /\ poll = "receipts" /\ work # <<>> /\ poll' = "marking"
      /\ relayed' = relayed \cup {Head(work)}
      /\ UNCHANGED <<reachable, backend, nostrKey, database, work, asking,
                     verifying, invoice, logged>>
  BY DEF ReceiptTaken, settings
<1> USE DEF database
<1>2. Head(work) \in Zaps \cap settled
  BY <1>1, ReceiptRowIsSettled
<1>3. TypeOK'
  BY <1>1, <1>2 DEF IndInv, TypeOK
<1>4. ReceiptsHonest' /\ ReceiptRows' /\ AskedHasRow'
  BY <1>1, <1>2 DEF IndInv, ReceiptsHonest, ReceiptRows, AskedHasRow
<1> QED BY <1>1, <1>3, <1>4 DEF IndInv, MintedOnce, IssuedNamed

LEMMA NotTakenKeeps == ASSUME IndInv, ReceiptNotTaken PROVE IndInv'
<1>1. /\ poll = "receipts" /\ work # <<>> /\ NextRow
      /\ relayed' \in {relayed, relayed \cup {Head(work)}}
      /\ UNCHANGED <<reachable, backend, nostrKey, database, verifying, invoice, logged>>
  BY DEF ReceiptNotTaken, settings
<1> USE DEF database
<1>2. Head(work) \in Zaps \cap settled
  BY <1>1, ReceiptRowIsSettled
<1>3. /\ poll' = "receipts" /\ asking' = FALSE /\ work' \in Seq(Invoices)
      /\ \A k \in DOMAIN work' : \E j \in DOMAIN work : work'[k] = work[j]
  BY <1>1, RowsRemain DEF NextRow, IndInv
<1>4. TypeOK'
  BY <1>1, <1>2, <1>3 DEF IndInv, TypeOK
<1>5. ReceiptsHonest' /\ ReceiptRows' /\ AskedHasRow'
  BY <1>1, <1>2, <1>3 DEF IndInv, ReceiptsHonest, ReceiptRows, AskedHasRow
<1> QED BY <1>1, <1>4, <1>5 DEF IndInv, MintedOnce, IssuedNamed

LEMMA MarkedKeeps == ASSUME IndInv, ReceiptMarked PROVE IndInv'
<1>1. /\ poll = "marking" /\ poll' = "receipts" /\ work' = Tail(work)
      /\ published' = published \cup {Head(work)}
      /\ UNCHANGED <<reachable, backend, nostrKey, holder, issued, forName, aged,
                     settled, credited, asking, verifying, invoice, relayed, logged>>
  BY DEF ReceiptMarked, settings, world
<1>2. work # <<>> /\ Head(work) \in relayed /\ ~asking
  BY <1>1 DEF IndInv, ReceiptRows, AskedHasRow
<1>3. Head(work) \in Zaps \cap settled
  BY <1>1, <1>2, ReceiptRowIsSettled
<1>4. /\ work' \in Seq(Invoices)
      /\ \A k \in DOMAIN work' : \E j \in DOMAIN work : work'[k] = work[j]
  BY <1>1, <1>2, RowsRemain DEF IndInv
<1>5. TypeOK'
  BY <1>1, <1>3, <1>4 DEF IndInv, TypeOK
<1>6. ReceiptsHonest' /\ ReceiptRows' /\ AskedHasRow'
  BY <1>1, <1>2, <1>3, <1>4 DEF IndInv, ReceiptsHonest, ReceiptRows, AskedHasRow
<1> QED BY <1>1, <1>5, <1>6 DEF IndInv, MintedOnce, IssuedNamed

-----------------------------------------------------------------------------
(* What goes on between the rounds, and while one waits.                   *)

LEMMA VerifyKeeps == ASSUME IndInv, NEW i \in Invoices, Verify(i) PROVE IndInv'
<1> USE DEF settings, database, world
<1>1. CASE VerifySettles(i)
  <2>1. /\ SourceSettled(i) /\ Settle(i) /\ verifying' = verifying \ {i}
        /\ UNCHANGED <<reachable, backend, nostrKey, holder, issued, forName, aged,
                       published, poll, work, asking, invoice, relayed>>
    BY <1>1 DEF VerifySettles
  <2>2. /\ settled' \in SUBSET Invoices /\ settled \subseteq settled'
        /\ credited' \in [Mints -> Shares \cup {NoShare}]
        /\ logged' \in [Mints -> Nat]
        /\ MintedOnce' /\ IssuedNamed'
    BY <2>1, SettleKeeps
  <2>3. TypeOK'
    BY <2>1, <2>2 DEF IndInv, TypeOK
  <2>4. ReceiptsHonest' /\ ReceiptRows' /\ AskedHasRow'
    BY <2>1, <2>2 DEF IndInv, ReceiptsHonest, ReceiptRows, AskedHasRow
  <2> QED BY <2>2, <2>3, <2>4 DEF IndInv
<1>2. CASE VerifyAsks(i) \/ VerifyLeaves(i)
  <2>1. /\ verifying' \in SUBSET Invoices
        /\ UNCHANGED <<reachable, backend, nostrKey, database, poll, work, asking,
                       invoice, relayed, logged>>
    BY <1>2 DEF VerifyAsks, VerifyLeaves, IndInv, TypeOK
  <2>2. TypeOK'
    BY <2>1 DEF IndInv, TypeOK
  <2> QED BY <2>1, <2>2
      DEF IndInv, MintedOnce, ReceiptsHonest, IssuedNamed, AskedHasRow, ReceiptRows
<1> QED BY <1>1, <1>2 DEF Verify

LEMMA IssueKeeps == ASSUME IndInv, NEW i \in Invoices, Issue(i) PROVE IndInv'
<1>1. /\ invoice[i] = "none" /\ invoice' = [invoice EXCEPT ![i] = "open"]
      /\ issued' = Append(issued, i)
      /\ UNCHANGED <<reachable, backend, nostrKey, holder, aged, settled, credited,
                     published, poll, work, asking, verifying, relayed, logged>>
  BY DEF Issue, settings, coroutines
<1>2. \/ i \in Fees /\ UNCHANGED forName
      \/ \E n \in Names : i \in Mints /\ forName' = [forName EXCEPT ![i] = n]
  BY DEF Issue
<1>3. /\ forName' \in [Mints -> Names \cup {NoName}]
      /\ invoice' \in [Invoices -> {"none", "open", "paid"}]
      /\ issued' \in Seq(Invoices)
  BY <1>1, <1>2 DEF IndInv, TypeOK
<1>4. TypeOK'
  BY <1>1, <1>3 DEF IndInv, TypeOK
<1>5. IssuedNamed'
  BY <1>1, <1>2, SettlePollAssumption DEF IndInv, TypeOK, IssuedNamed, Invoices
<1>6. MintedOnce'
  BY <1>1 DEF IndInv, TypeOK, MintedOnce, Invoices
<1> QED BY <1>1, <1>4, <1>5, <1>6
    DEF IndInv, ReceiptsHonest, AskedHasRow, ReceiptRows

LEMMA PaidKeeps == ASSUME IndInv, NEW i \in Invoices, InvoicePaid(i) PROVE IndInv'
<1>1. /\ invoice[i] = "open" /\ invoice' = [invoice EXCEPT ![i] = "paid"]
      /\ UNCHANGED <<reachable, backend, nostrKey, database, poll, work, asking,
                     verifying, relayed, logged>>
  BY DEF InvoicePaid, settings, coroutines
<1> USE DEF database
<1>2. TypeOK'
  BY <1>1 DEF IndInv, TypeOK
<1>3. IssuedNamed' /\ MintedOnce'
  BY <1>1 DEF IndInv, TypeOK, IssuedNamed, MintedOnce, Invoices
<1> QED BY <1>1, <1>2, <1>3 DEF IndInv, ReceiptsHonest, AskedHasRow, ReceiptRows

LEMMA OtherKeeps ==
  ASSUME IndInv, Naming \/ Ages \/ SourceFlips \/ UNCHANGED vars PROVE IndInv'
<1> USE DEF settings, database, coroutines, world
<1>1. /\ UNCHANGED <<backend, nostrKey, issued, forName, settled, credited, published,
                     poll, work, asking, verifying, invoice, relayed, logged>>
      /\ reachable' \in BOOLEAN
      /\ holder' \in [Names -> Shares \cup {NoShare}]
      /\ aged' \in SUBSET Invoices
  <2>1. CASE Naming
    BY <2>1 DEF Naming, Delete, Register, IndInv, TypeOK
  <2>2. CASE Ages
    BY <2>2 DEF Ages, IndInv, TypeOK
  <2>3. CASE SourceFlips \/ UNCHANGED vars
    BY <2>3 DEF SourceFlips, vars, IndInv, TypeOK
  <2> QED BY <2>1, <2>2, <2>3
<1>2. TypeOK'
  BY <1>1 DEF IndInv, TypeOK
<1> QED BY <1>1, <1>2
    DEF IndInv, MintedOnce, ReceiptsHonest, IssuedNamed, AskedHasRow, ReceiptRows

LEMMA StepIndInv == IndInv /\ [Next]_vars => IndInv'
<1> SUFFICES ASSUME IndInv, [Next]_vars PROVE IndInv'
  OBVIOUS
<1>1. CASE Poll
  BY <1>1, WakesKeeps, AsksKeeps, SettlesKeeps, UnpaidKeeps, RaisesKeeps,
     TurnsKeeps, TakenKeeps, NotTakenKeeps, MarkedKeeps DEF Poll
<1>2. ASSUME NEW i \in Invoices, Issue(i) \/ InvoicePaid(i) \/ Verify(i) PROVE IndInv'
  BY <1>2, IssueKeeps, PaidKeeps, VerifyKeeps
<1>3. CASE Naming \/ Ages \/ SourceFlips \/ UNCHANGED vars
  BY <1>3, OtherKeeps
<1>4. CASE Restart
  BY <1>4, RaisesKeeps
<1> QED BY <1>1, <1>2, <1>3, <1>4 DEF Next

-----------------------------------------------------------------------------

\* In every reachable state of every instance: what the poll relies on holds,
\* a question waits only about a row of the round, receipts are published only
\* of settled zaps, and an invoice that exists names its address.
THEOREM PollIndInv == Spec => []IndInv
  BY InitIndInv, StepIndInv, PTL DEF Spec

\* The tables and the coroutines stay well formed: a round never holds more
\* rows than the limit, whatever is issued, settled or freed while it runs.
THEOREM PollTyped == Spec => []TypeOK
<1>1. IndInv => TypeOK
  BY DEF IndInv
<1> QED BY <1>1, PollIndInv, PTL

\* The poll, verify requests, deletions, restarts and outages in any order:
\* every invoice becomes at most one note, is logged once and only if it was
\* paid, and one that is settled on file has its note.
THEOREM EveryMintSettlesOnce == Spec => []MintedOnce
<1>1. IndInv => MintedOnce
  BY DEF IndInv
<1> QED BY <1>1, PollIndInv, PTL

\* Whenever the process stops or a relay's OK is lost: a zap marked as
\* receipted is one whose receipt a relay took, and no receipt was ever given
\* to a relay of a zap that has no note.
THEOREM EveryReceiptIsHonest == Spec => []ReceiptsHonest
<1>1. IndInv => ReceiptsHonest
  BY DEF IndInv
<1> QED BY <1>1, PollIndInv, PTL

=============================================================================
