--------------------------- MODULE NoteStoreProofs ---------------------------
(***************************************************************************)
(* The ledger, for any ids, invoices, amounts, fees and number of waiting  *)
(* requests.  That an invoice can always become its note, and that no note *)
(* is burned twice, rests on what SwapAccepts and CreateMint look at in    *)
(* the transaction that commits; that notes are worth what was paid for    *)
(* them rests also on ReadsStand, because a request that waited adds up    *)
(* values it read before.  A burn or a release looks at nothing, so what    *)
(* holds of melts is only MeltsHeld: a payment has its note reserved, or   *)
(* burned, or is one that a stale round came between.                      *)
(*                                                                         *)
(* That the funds cover the notes is a statement about three sums: of the  *)
(* notes' values, of the payments that wait for a note, and of the melts'  *)
(* payments that went out before their note was burned.  It is proved by   *)
(* what each step takes out of them and adds.                              *)
(***************************************************************************)
EXTENDS NoteStore, Lemmas

-----------------------------------------------------------------------------
(* What a set of notes is owed, and what one note more or less changes.    *)

\* what the notes in S are owed, at their amounts f and with a base fee b each
Owed(f, S, b) == Total(f, S) + b * Cardinality(S)

LEMMA OwedEmpties ==
  ASSUME NEW f, NEW b \in Int PROVE Owed(f, {}, b) = 0
<1>1. Total(f, {}) = 0
  BY TotalUnfolds, FS_EmptySet
<1>2. Cardinality({}) = 0
  BY FS_EmptySet
<1> QED BY <1>1, <1>2 DEF Owed

LEMMA OwedRemoves ==
  ASSUME NEW S, IsFiniteSet(S), NEW f, \A i \in S : f[i] \in Int, NEW b \in Int
  PROVE  /\ Owed(f, S, b) \in Int
         /\ \A x \in S : /\ Owed(f, S \ {x}, b) \in Int
                        /\ Owed(f, S, b) = Owed(f, S \ {x}, b) + f[x] + b
<1>0. ASSUME NEW T, IsFiniteSet(T), \A i \in T : f[i] \in Int
      PROVE  Owed(f, T, b) \in Int
  <2>1. Cardinality(T) \in Nat /\ Total(f, T) \in Int
    BY <1>0, FS_CardinalityType, TotalRemoves
  <2>2. \A n \in Int : b * n \in Int
    OBVIOUS
  <2> QED BY <2>1, <2>2 DEF Owed
<1>1. Cardinality(S) \in Nat /\ Total(f, S) \in Int
  BY FS_CardinalityType, TotalRemoves
<1>2. ASSUME NEW x \in S PROVE Owed(f, S, b) = Owed(f, S \ {x}, b) + f[x] + b
  <2>1. Total(f, S) = f[x] + Total(f, S \ {x})
    BY TotalRemoves
  <2>2. Cardinality(S \ {x}) = Cardinality(S) - 1
    BY FS_RemoveElement
  <2>3. IsFiniteSet(S \ {x}) /\ \A i \in S \ {x} : f[i] \in Int
    BY FS_RemoveElement
  <2>4. Total(f, S \ {x}) \in Int
    BY <2>3, TotalRemoves
  <2>5. \A n \in Int : b * n = b * (n - 1) + b
    OBVIOUS
  <2> QED BY <1>1, <2>1, <2>2, <2>4, <2>5 DEF Owed
<1>3. ASSUME NEW x \in S PROVE Owed(f, S \ {x}, b) \in Int
  BY <1>0, FS_RemoveElement
<1> QED BY <1>0, <1>2, <1>3

LEMMA OwedAdds ==
  ASSUME NEW S, IsFiniteSet(S), NEW x, x \notin S, NEW f, NEW b \in Int,
         \A i \in S \cup {x} : f[i] \in Int
  PROVE  Owed(f, S \cup {x}, b) = Owed(f, S, b) + f[x] + b
<1>1. IsFiniteSet(S \cup {x}) /\ (S \cup {x}) \ {x} = S
  BY FS_AddElement
<1> QED BY <1>1, OwedRemoves

LEMMA OwedReads ==
  ASSUME NEW S, IsFiniteSet(S), NEW f, NEW g, \A i \in S : f[i] = g[i], NEW b
  PROVE  Owed(f, S, b) = Owed(g, S, b)
  BY TotalReads DEF Owed

LEMMA OwedFalls ==
  ASSUME NEW S, IsFiniteSet(S), NEW f, \A i \in S : f[i] \in Int,
         NEW b \in Int, NEW c \in Int, c <= b
  PROVE  Owed(f, S, c) <= Owed(f, S, b)
<1>1. Cardinality(S) \in Nat /\ Total(f, S) \in Int
  BY FS_CardinalityType, TotalRemoves
<1>2. \A n \in Nat : c * n <= b * n
  <2>1. \A n \in Nat : (b - c) * n >= 0 /\ b * n = c * n + (b - c) * n
    OBVIOUS
  <2> QED BY <2>1
<1> QED BY <1>1, <1>2 DEF Owed

LEMMA OwedShrinks ==
  ASSUME NEW S, IsFiniteSet(S), NEW f, \A i \in S : f[i] \in Nat, NEW b \in Nat,
         NEW T \in SUBSET S
  PROVE  IsFiniteSet(T) /\ Owed(f, T, b) \in Int /\ Owed(f, T, b) <= Owed(f, S, b)
<1> DEFINE Bad == {V \in SUBSET S : \E U \in SUBSET V : ~(Owed(f, U, b) <= Owed(f, V, b))}
<1>1. ASSUME NEW V \in SUBSET S PROVE IsFiniteSet(V) /\ Owed(f, V, b) \in Int
  <2>1. IsFiniteSet(V) /\ b \in Int /\ \A i \in V : f[i] \in Int
    BY FS_Subset
  <2> QED BY <2>1, OwedRemoves
<1>2. ASSUME Bad # {} PROVE FALSE
  <2>1. PICK V \in Bad : \A W \in SUBSET V : W # V => W \notin Bad
    <3>1. Bad \in SUBSET SUBSET S
      OBVIOUS
    <3> HIDE DEF Bad
    <3> QED BY <1>2, <3>1, SmallestSubset
  <2>2. PICK U \in SUBSET V : ~(Owed(f, U, b) <= Owed(f, V, b))
    OBVIOUS
  <2>3. V \in SUBSET S /\ IsFiniteSet(V) /\ Owed(f, U, b) \in Int /\ Owed(f, V, b) \in Int
    BY <1>1
  <2>4. PICK x \in V : x \notin U
    BY <2>2, <2>3
  <2>5. V \ {x} \notin Bad /\ U \in SUBSET (V \ {x}) /\ V \ {x} \in SUBSET S
    <3> HIDE DEF Bad
    <3> QED BY <2>1, <2>3, <2>4
  <2>6. Owed(f, U, b) <= Owed(f, V \ {x}, b)
    BY <2>5
  <2>7. /\ Owed(f, V \ {x}, b) \in Int
        /\ Owed(f, V, b) = Owed(f, V \ {x}, b) + f[x] + b
    BY <2>3, <2>4, OwedRemoves
  <2> QED BY <2>2, <2>3, <2>6, <2>7
<1> QED BY <1>1, <1>2

-----------------------------------------------------------------------------
(* The mint fee holds the base fee, whatever it is rounded to.             *)

LEMMA RoundsUp ==
  ASSUME NEW fee \in Nat
  PROVE  /\ ((fee + 1000 - 1) \div 1000) * 1000 \in Nat
         /\ ((fee + 1000 - 1) \div 1000) * 1000 >= fee
         /\ ((fee + 1000 - 1) \div 1000) * 1000 < fee + 1000
  OBVIOUS

LEMMA FeeCoversBase ==
  ASSUME NEW gross \in Nat, NEW s, s.baseFee \in Nat, s.feePpm \in Nat
  PROVE  NetOf(gross, s) \in Int /\ NetOf(gross, s) + s.baseFee <= gross
<1> DEFINE share == (gross * s.feePpm) \div Million
           fee == s.baseFee + share
<1>1. share \in Nat
  <2>1. gross * s.feePpm \in Nat
    OBVIOUS
  <2> QED BY <2>1 DEF Million
<1> HIDE DEF share
<1>2. fee \in Nat /\ fee >= s.baseFee
  BY <1>1
<1>3. MintFee(gross, s) = ((fee + 1000 - 1) \div 1000) * 1000
  BY DEF MintFee, share, Sat
<1> HIDE DEF fee
<1>4. MintFee(gross, s) \in Nat /\ MintFee(gross, s) >= fee
  BY <1>2, <1>3, RoundsUp
<1> QED BY <1>2, <1>4 DEF NetOf

-----------------------------------------------------------------------------

(* The inductive invariant: the tables are empty at first.                 *)

LEMMA InitIndInv == Init => IndInv
<1> SUFFICES ASSUME Init PROVE IndInv
  OBVIOUS
<1>1. NoCall \in [k1 : Seq(Ids), outs : Seq(Ids), split : Nat, value : Nat]
  BY DEF NoCall
<1>2. call \in [Calls -> [k1 : Seq(Ids), outs : Seq(Ids), split : Nat, value : Nat]]
  BY <1>1 DEF Init
<1>3. burns \subseteq [ids : SUBSET Ids, outs : Seq(Ids), amounts : Seq(Nat)]
  BY DEF Init
<1>4. /\ note \in [Ids -> {"none", "out", "pending", "spent"}]
      /\ amount \in [Ids -> Nat]
      /\ mint \in [Payments -> {"none", "unpaid", "minted"}]
      /\ mintId \in [Payments -> Ids \cup {NoId}] /\ net \in [Payments -> Nat]
      /\ invoicing \in [Payments -> Ids \cup {NoId}]
      /\ price \in [Payments -> Nat] /\ paid \in [Payments -> BOOLEAN]
  BY DEF Init
<1>5. baseFee \in BaseFees /\ sunset \in BOOLEAN
  BY Zenon DEF Init
<1>6. funds \in Int
  BY DEF Init
<1>7. /\ heldFor \in [Ids -> Hashes \cup {NoHash}]
      /\ payer \in [Hashes -> Ids \cup {NoId}] /\ due \in [Hashes -> Nat]
      /\ tasks \subseteq {h \in Hashes : payer[h] # NoId}
      /\ payment \in [Hashes -> {"none", "open", "sent", "failed"}]
      /\ snapshot \subseteq Hashes \X Ids /\ at \in Hashes \cup {NoHash}
      /\ reused \in BOOLEAN /\ stray \subseteq Hashes
  BY DEF Init
<1>8. TypeOK
  BY <1>2, <1>3, <1>4, <1>5, <1>6, <1>7 DEF TypeOK
<1>9. MeltsHeld
  BY DEF Init, MeltsHeld
<1> QED BY <1>8, <1>9
    DEF Init, IndInv, MintNeverBricked, BurnedOnce, NotesWorth, MintsWorth,
        MintsOnce, ReadsStand

-----------------------------------------------------------------------------
(* Swaps.                                                                  *)

\* the request's notes and what they are worth, as the transaction sees them
Asks(k1, outs, split, total) ==
  /\ k1 \in Seq(Ids) /\ outs \in Seq(Ids) /\ split \in Nat /\ total \in Nat
  /\ Len(outs) = (IF split > 0 THEN 2 ELSE 1)
  /\ \/ Len(k1) = 1 /\ total = amount[k1[1]]
     \/ Len(k1) = 2 /\ total = amount[k1[1]] + amount[k1[2]]

\* every output is worth something, and the outputs together what was put in
LEMMA OutputsWorth ==
  ASSUME TypeOK, NEW k1, NEW outs, NEW split, NEW total,
         Asks(k1, outs, split, total), Offered(total, split),
         NEW values, values = Outputs(Len(k1), total, split)
  PROVE  /\ values \in Seq(Nat) /\ Len(values) = Len(outs)
         /\ \A j \in DOMAIN outs : values[j] = 0 => Len(outs) = 1 /\ total = 0
         /\ split > 0 => values[1] + values[2] = total - baseFee
         /\ ~(split > 0) => values[1] = total + (Len(k1) - 1) * baseFee
<1>1. baseFee \in Nat /\ split \in Nat /\ total \in Nat
  BY NoteStoreAssumption DEF TypeOK, Asks
<1>2. CASE split > 0
  <2>1. values = <<split, total - split - baseFee>>
    BY <1>2 DEF Outputs
  <2>2. split \in Nat \ {0} /\ total - split - baseFee \in Nat \ {0}
    BY <1>1, <1>2 DEF Offered
  <2> QED BY <1>1, <1>2, <2>1, <2>2 DEF Asks
<1>3. CASE ~(split > 0)
  <2>1. values = <<total + (Len(k1) - 1) * baseFee>>
    BY <1>3 DEF Outputs
  <2>2. (Len(k1) - 1) * baseFee \in Nat
    <3>1. CASE Len(k1) = 1
      BY <1>1, <3>1
    <3>2. CASE Len(k1) = 2
      BY <1>1, <3>2
    <3> QED BY <3>1, <3>2 DEF Asks
  <2>3. /\ total + (Len(k1) - 1) * baseFee \in Nat
        /\ total + (Len(k1) - 1) * baseFee = 0 => total = 0
    BY <1>1, <2>2
  <2> QED BY <1>3, <2>1, <2>3 DEF Asks
<1> QED BY <1>2, <1>3

\* the rows that a swap writes
LEMMA RedeemEffect ==
  ASSUME IndInv, NEW k1, NEW outs, NEW split, NEW total,
         Asks(k1, outs, split, total), Redeem(k1, outs, split, total),
         NEW values, values = Outputs(Len(k1), total, split)
  PROVE  /\ Distinct(k1) /\ Distinct(outs)
         /\ Members(k1) \subseteq Ids /\ Members(outs) \subseteq Ids
         /\ \A i \in Members(k1) : note[i] = "out"
         /\ \A i \in Members(outs) :
              note[i] = "none" /\ \A p \in Payments : mintId[p] # i
         /\ note' = [i \in Ids |-> IF i \in Members(k1) THEN "spent"
                                   ELSE IF i \in Members(outs) THEN "out" ELSE note[i]]
         /\ amount' \in [Ids -> Nat]
         /\ \A i \in Ids \ Members(outs) : amount'[i] = amount[i]
         /\ \A j \in DOMAIN outs : amount'[outs[j]] = values[j]
         /\ burns' = burns \cup
              {[ids |-> Members(k1), outs |-> outs, amounts |-> values]}
<1>1. SwapAccepts(k1, outs) /\ Swap(k1, outs, values) /\ Offered(total, split)
  BY DEF Redeem
<1>2. k1 \in Seq(Ids) /\ outs \in Seq(Ids)
  BY DEF Asks
<1>3. values \in Seq(Nat) /\ Len(values) = Len(outs)
  BY <1>1, OutputsWorth DEF IndInv
<1>4. /\ Members(k1) \subseteq Ids /\ Members(outs) \subseteq Ids
      /\ \A i \in Members(k1) : note[i] = "out"
      /\ \A i \in Members(outs) :
           note[i] = "none" /\ \A p \in Payments : mintId[p] # i
      /\ Distinct(k1) /\ Distinct(outs)
  BY <1>1, <1>2 DEF Members, SwapAccepts, IdInUse
<1>5. /\ note' = [i \in Ids |-> IF i \in Members(k1) THEN "spent"
                               ELSE IF i \in Members(outs) THEN "out" ELSE note[i]]
      /\ burns' = burns \cup
           {[ids |-> Members(k1), outs |-> outs, amounts |-> values]}
      /\ amount' = [i \in Ids |-> IF i \in Members(outs)
                      THEN values[CHOOSE j \in DOMAIN outs : outs[j] = i]
                      ELSE amount[i]]
  BY <1>1 DEF Swap
<1>6. \A j \in DOMAIN outs : amount'[outs[j]] = values[j]
  <2> SUFFICES ASSUME NEW j \in DOMAIN outs PROVE amount'[outs[j]] = values[j]
    OBVIOUS
  <2>1. outs[j] \in Members(outs) /\ outs[j] \in Ids
    BY <1>2 DEF Members
  <2>2. (CHOOSE k \in DOMAIN outs : outs[k] = outs[j]) = j
    BY <1>4 DEF Distinct
  <2>3. amount'[outs[j]] = values[CHOOSE k \in DOMAIN outs : outs[k] = outs[j]]
    BY <1>5, <2>1
  <2> QED BY <2>2, <2>3
<1>7. \A j \in DOMAIN outs : values[j] \in Nat
  BY <1>2, <1>3
<1>8. \A i \in Members(outs) : amount'[i] \in Nat
  BY <1>6, <1>7 DEF Members
<1>9. \A i \in Ids \ Members(outs) : amount'[i] = amount[i]
  BY <1>5
<1>10. amount' \in [Ids -> Nat]
  BY <1>5, <1>8, <1>9 DEF IndInv, TypeOK
<1> QED BY <1>4, <1>5, <1>6, <1>8, <1>9, <1>10

\* what melts rest on, as long as other requests leave reserved notes alone
LEMMA MeltsHeldStays ==
  ASSUME IndInv, UNCHANGED melting,
         \A i \in Ids : note'[i] = "pending" <=> note[i] = "pending",
         \A i \in Ids : note[i] = "spent" => note'[i] = "spent",
         \A i \in Ids : note[i] # "none" => note'[i] # "none" /\ amount'[i] = amount[i]
  PROVE  MeltsHeld'
<1>1. UNCHANGED <<heldFor, payer, due, payment, stray, tasks, snapshot, at, reused>>
  BY DEF melting, reservations, round
<1>2. \A h \in Hashes : payer[h] # NoId => payer[h] \in Ids
  BY DEF IndInv, TypeOK
<1>3. \A e \in snapshot : e[2] \in Ids
  BY DEF IndInv, TypeOK
<1>4. ASSUME NEW h \in Hashes, payment[h] \in {"open", "sent"}, h \notin stray
      PROVE  \/ Held(payer[h], h)'
             \/ payment[h] = "sent" /\ note'[payer[h]] = "spent"
  <2>1. payer[h] \in Ids
    BY <1>2, <1>4 DEF IndInv, MeltsHeld
  <2>2. Held(payer[h], h) \/ (payment[h] = "sent" /\ note[payer[h]] = "spent")
    BY <1>4 DEF IndInv, MeltsHeld
  <2> QED BY <1>1, <2>1, <2>2 DEF Held
<1>5. \A i \in Ids : note'[i] = "pending" <=> heldFor'[i] # NoHash
  BY <1>1 DEF IndInv, MeltsHeld
<1>6. \A h \in Hashes :
        /\ payer'[h] = NoId => payment'[h] = "none"
        /\ payer'[h] # NoId => note'[payer'[h]] # "none" /\ due'[h] = amount'[payer'[h]]
  BY <1>1, <1>2 DEF IndInv, MeltsHeld
<1>7. (\A e \in snapshot' : note'[e[2]] # "none") /\ (at' \in tasks' => reused')
  BY <1>1, <1>3 DEF IndInv, MeltsHeld
<1> QED BY <1>1, <1>4, <1>5, <1>6, <1>7 DEF MeltsHeld

\* they keep the invariant, and change no note that was on file
LEMMA RedeemKeeps ==
  ASSUME IndInv, NEW k1, NEW outs, NEW split, NEW total,
         Asks(k1, outs, split, total), Redeem(k1, outs, split, total),
         UNCHANGED <<mints, melting>>
  PROVE  /\ note' \in [Ids -> {"none", "out", "pending", "spent"}]
         /\ amount' \in [Ids -> Nat]
         /\ burns' \subseteq [ids : SUBSET Ids, outs : Seq(Ids), amounts : Seq(Nat)]
         /\ MintNeverBricked' /\ BurnedOnce' /\ NotesWorth' /\ MeltsHeld'
         /\ \A i \in Ids : note[i] # "none" => note'[i] # "none" /\ amount'[i] = amount[i]
<1> DEFINE values == Outputs(Len(k1), total, split)
           burn == [ids |-> Members(k1), outs |-> outs, amounts |-> values]
<1>1. /\ k1 \in Seq(Ids) /\ outs \in Seq(Ids) /\ values \in Seq(Nat)
      /\ Len(values) = Len(outs) /\ total \in Nat
      /\ \A j \in DOMAIN outs : values[j] = 0 => Len(outs) = 1 /\ total = 0
      /\ \/ Len(k1) = 1 /\ total = amount[k1[1]]
         \/ Len(k1) = 2 /\ total = amount[k1[1]] + amount[k1[2]]
  BY OutputsWorth DEF IndInv, Asks, Redeem
<1> HIDE DEF values
<1>2. /\ Members(k1) \subseteq Ids /\ Members(outs) \subseteq Ids
      /\ \A i \in Members(k1) : note[i] = "out"
      /\ \A i \in Members(outs) :
           note[i] = "none" /\ \A p \in Payments : mintId[p] # i
  BY RedeemEffect
<1>3. /\ note' = [i \in Ids |-> IF i \in Members(k1) THEN "spent"
                               ELSE IF i \in Members(outs) THEN "out" ELSE note[i]]
      /\ amount' \in [Ids -> Nat]
      /\ \A i \in Ids \ Members(outs) : amount'[i] = amount[i]
      /\ \A j \in DOMAIN outs : amount'[outs[j]] = values[j]
      /\ burns' = burns \cup {burn}
  BY RedeemEffect DEF values
<1>4. note' \in [Ids -> {"none", "out", "pending", "spent"}]
  BY <1>3 DEF IndInv, TypeOK
<1>5. burns' \subseteq [ids : SUBSET Ids, outs : Seq(Ids), amounts : Seq(Nat)]
  BY <1>1, <1>2, <1>3 DEF IndInv, TypeOK
<1>6. MintNeverBricked'
  <2>1. \A p \in Payments : mint'[p] = "unpaid" => mintId'[p] \in Ids \ Members(k1)
    BY <1>2 DEF IndInv, MintsWorth, MintNeverBricked, mints
  <2> QED BY <1>2, <1>3, <2>1 DEF IndInv, MintNeverBricked, mints
<1>7. total = 0 => \A i \in Members(k1) : amount[i] = 0
  <2>1. \A j \in DOMAIN k1 : k1[j] \in Ids /\ amount[k1[j]] \in Nat
    BY <1>1 DEF IndInv, TypeOK
  <2>2. DOMAIN k1 = 1..Len(k1)
    BY <1>1
  <2>3. total = 0 => \A j \in DOMAIN k1 : amount[k1[j]] = 0
    <3>1. CASE Len(k1) = 1
      BY <1>1, <2>2, <3>1
    <3>2. CASE Len(k1) = 2
      <4>1. DOMAIN k1 = {1, 2}
        BY <2>2, <3>2
      <4>2. amount[k1[1]] \in Nat /\ amount[k1[2]] \in Nat
        BY <2>1, <4>1
      <4>3. total = amount[k1[1]] + amount[k1[2]]
        BY <1>1, <3>2
      <4> QED BY <4>1, <4>2, <4>3
    <3> QED BY <1>1, <3>1, <3>2
  <2> QED BY <2>3 DEF Members
<1>8. \A b \in burns : b.ids \cap Members(k1) = {}
  BY <1>2 DEF IndInv, BurnedOnce
<1>9. ASSUME NEW b \in burns
      PROVE  /\ \A i \in b.ids : note'[i] = "spent"
             /\ \A j \in DOMAIN b.outs :
                  note'[b.outs[j]] # "none" /\ amount'[b.outs[j]] = b.amounts[j]
  <2>1. b.ids \subseteq Ids /\ b.outs \in Seq(Ids)
    BY DEF IndInv, TypeOK
  <2>2. \A i \in b.ids : i \in Ids /\ note[i] = "spent"
    BY <2>1 DEF IndInv, BurnedOnce
  <2>3. \A j \in DOMAIN b.outs :
          /\ b.outs[j] \in Ids /\ note[b.outs[j]] # "none"
          /\ amount[b.outs[j]] = b.amounts[j]
    BY <2>1 DEF IndInv, BurnedOnce
  <2> QED BY <1>2, <1>3, <2>2, <2>3
<1>10. /\ \A i \in burn.ids : note'[i] = "spent"
       /\ \A j \in DOMAIN burn.outs :
            /\ note'[burn.outs[j]] # "none"
            /\ amount'[burn.outs[j]] = burn.amounts[j]
  <2>1. \A j \in DOMAIN outs : outs[j] \in Members(outs)
    BY DEF Members
  <2> QED BY <1>2, <1>3, <2>1
<1>11. BurnedOnce'
  <2>1. \A b, d \in burns' : b # d => b.ids \cap d.ids = {}
    BY <1>3, <1>8 DEF IndInv, BurnedOnce
  <2>2. ASSUME NEW b \in burns'
        PROVE  /\ \A i \in b.ids : note'[i] = "spent"
               /\ \A j \in DOMAIN b.outs :
                    note'[b.outs[j]] # "none" /\ amount'[b.outs[j]] = b.amounts[j]
    <3> HIDE DEF burn
    <3>1. b \in burns \/ b = burn
      BY <1>3
    <3> QED BY <3>1, <1>9, <1>10
  <2> QED BY <2>1, <2>2 DEF BurnedOnce
<1>12. \A i \in Ids : note[i] # "none" => note'[i] # "none" /\ amount'[i] = amount[i]
  BY <1>2, <1>3
<1>13. NotesWorth'
  <2>1. ASSUME MinMint > 0, NEW i \in Ids, note'[i] # "none" PROVE amount'[i] > 0
    <3>1. CASE i \in Members(outs)
      <4>1. PICK j \in DOMAIN outs : outs[j] = i
        BY <3>1 DEF Members
      <4>2. amount'[i] = values[j] /\ values[j] \in Nat
        BY <1>1, <1>3, <4>1
      <4>3. \A k \in Members(k1) : amount[k] > 0
        BY <1>2, <2>1 DEF IndInv, NotesWorth
      <4>4. k1[1] \in Members(k1)
        BY <1>1 DEF Members
      <4>5. total # 0
        BY <1>7, <4>3, <4>4
      <4> QED BY <1>1, <4>1, <4>2, <4>5
    <3>2. CASE i \notin Members(outs)
      <4>1. note[i] # "none" /\ amount'[i] = amount[i]
        BY <1>2, <1>3, <2>1, <3>2
      <4> QED BY <2>1, <4>1 DEF IndInv, NotesWorth
    <3> QED BY <3>1, <3>2
  <2>2. ASSUME NEW b \in burns, NEW j \in DOMAIN b.outs, b.amounts[j] = 0
        PROVE  Len(b.outs) = 1 /\ \A i \in b.ids : amount'[i] = 0
    <3>1. b.ids \subseteq Ids
      BY DEF IndInv, TypeOK
    <3>2. \A i \in b.ids : note[i] = "spent" /\ amount[i] = 0
      BY <2>2 DEF IndInv, BurnedOnce, NotesWorth
    <3> QED BY <1>12, <2>2, <3>1, <3>2 DEF IndInv, NotesWorth
  <2>3. ASSUME NEW j \in DOMAIN burn.outs, burn.amounts[j] = 0
        PROVE  Len(burn.outs) = 1 /\ \A i \in burn.ids : amount'[i] = 0
    <3>1. Len(outs) = 1 /\ total = 0
      BY <1>1, <2>3
    <3>2. \A i \in Members(k1) : amount'[i] = amount[i]
      BY <1>2, <1>12
    <3> QED BY <1>7, <3>1, <3>2
  <2> HIDE DEF burn
  <2>4. \A b \in burns' : b \in burns \/ b = burn
    BY <1>3
  <2> QED BY <2>1, <2>2, <2>3, <2>4 DEF NotesWorth
<1>14. MeltsHeld'
  <2>1. \A i \in Ids : note'[i] = "pending" <=> note[i] = "pending"
    BY <1>2, <1>3
  <2>2. \A i \in Ids : note[i] = "spent" => note'[i] = "spent"
    BY <1>2, <1>3
  <2> QED BY <1>12, <2>1, <2>2, MeltsHeldStays
<1> QED BY <1>3, <1>4, <1>5, <1>6, <1>11, <1>12, <1>13, <1>14

\* a request that does not wait is priced by the rows it swaps
LEMMA SwappingAsks ==
  ASSUME IndInv, Swapping
  PROVE  \E k1, outs, split, total :
           Asks(k1, outs, split, total) /\ Redeem(k1, outs, split, total)
<1>1. PICK i \in Ids, p1 \in Ids :
        \/ Rotate(i, p1)
        \/ \E j \in Ids : Merge(i, j, p1)
        \/ \E p2 \in Ids, split \in Amounts :
             \/ Split(i, <<p1, p2>>, split)
             \/ \E j \in Ids : MergeSplit(i, j, <<p1, p2>>, split)
  BY DEF Swapping
<1>2. Amounts \subseteq Nat
  BY NoteStoreAssumption
<1>3. \A j \in Ids : amount[j] \in Nat /\ amount[i] + amount[j] \in Nat
  BY DEF IndInv, TypeOK
<1>4. CASE Rotate(i, p1)
  <2>1. Redeem(<<i>>, <<p1>>, 0, amount[i])
    BY <1>4 DEF Rotate
  <2>2. Asks(<<i>>, <<p1>>, 0, amount[i])
    BY <1>3, <2>1 DEF Asks
  <2> QED BY <2>1, <2>2
<1>5. ASSUME NEW j \in Ids, Merge(i, j, p1)
      PROVE  \E k1, outs, split, total :
               Asks(k1, outs, split, total) /\ Redeem(k1, outs, split, total)
  <2>1. Redeem(<<i, j>>, <<p1>>, 0, amount[i] + amount[j])
    BY <1>5 DEF Merge
  <2>2. Asks(<<i, j>>, <<p1>>, 0, amount[i] + amount[j])
    BY <1>3, <2>1 DEF Asks
  <2> QED BY <2>1, <2>2
<1>6. ASSUME NEW p2 \in Ids, NEW split \in Amounts, Split(i, <<p1, p2>>, split)
      PROVE  \E k1, outs, s, total :
               Asks(k1, outs, s, total) /\ Redeem(k1, outs, s, total)
  <2>1. split > 0 /\ Redeem(<<i>>, <<p1, p2>>, split, amount[i])
    BY <1>6 DEF Split
  <2>2. Asks(<<i>>, <<p1, p2>>, split, amount[i])
    BY <1>2, <1>3, <2>1 DEF Asks
  <2> QED BY <2>1, <2>2
<1>7. ASSUME NEW j \in Ids, NEW p2 \in Ids, NEW split \in Amounts,
             MergeSplit(i, j, <<p1, p2>>, split)
      PROVE  \E k1, outs, s, total :
               Asks(k1, outs, s, total) /\ Redeem(k1, outs, s, total)
  <2>1. split > 0 /\ Redeem(<<i, j>>, <<p1, p2>>, split, amount[i] + amount[j])
    BY <1>7 DEF MergeSplit
  <2>2. Asks(<<i, j>>, <<p1, p2>>, split, amount[i] + amount[j])
    BY <1>2, <1>3, <2>1 DEF Asks
  <2> QED BY <2>1, <2>2
<1> QED BY <1>1, <1>4, <1>5, <1>6, <1>7

\* a request that waited is priced by what it read, which still stands
LEMMA ArrivalAsks ==
  ASSUME IndInv, NEW c \in Calls, NoteArrives(c)
  PROVE  LET r == call[c]
             total == r.value + amount[r.k1[2]]
         IN Asks(r.k1, r.outs, r.split, total) /\ Redeem(r.k1, r.outs, r.split, total)
<1> DEFINE r == call[c]
           total == r.value + amount[r.k1[2]]
<1>1. r # NoCall /\ note[r.k1[2]] # "none" /\ Redeem(r.k1, r.outs, r.split, total)
  BY DEF NoteArrives
<1>2. r \in [k1 : Seq(Ids), outs : Seq(Ids), split : Nat, value : Nat]
  BY DEF IndInv, TypeOK
<1>3. /\ Len(r.k1) = 2 /\ Len(r.outs) = (IF r.split > 0 THEN 2 ELSE 1)
      /\ note[r.k1[1]] # "none" /\ amount[r.k1[1]] = r.value
  BY <1>1 DEF IndInv, ReadsStand
<1> HIDE DEF r
<1>4. /\ r.k1 \in Seq(Ids) /\ r.outs \in Seq(Ids) /\ r.split \in Nat
      /\ r.k1[1] \in Ids /\ r.k1[2] \in Ids
  BY <1>2, <1>3
<1>5. amount[r.k1[1]] \in Nat /\ amount[r.k1[2]] \in Nat
  BY <1>4 DEF IndInv, TypeOK
<1>6. total \in Nat /\ total = amount[r.k1[1]] + amount[r.k1[2]]
  BY <1>3, <1>5
<1>7. Asks(r.k1, r.outs, r.split, total)
  BY <1>3, <1>4, <1>6 DEF Asks
<1> QED BY <1>1, <1>7 DEF r

LEMMA ReadsNamed ==
  ASSUME IndInv
  PROVE  \A c \in Calls : call[c] # NoCall => call[c].k1[1] \in Ids
<1> SUFFICES ASSUME NEW c \in Calls, call[c] # NoCall PROVE call[c].k1[1] \in Ids
  OBVIOUS
<1>1. call[c].k1 \in Seq(Ids)
  BY DEF IndInv, TypeOK
<1>2. Len(call[c].k1) = 2
  BY DEF IndInv, ReadsStand
<1> QED BY <1>1, <1>2

LEMMA SwappingKeeps == IndInv /\ Swapping => IndInv'
<1> SUFFICES ASSUME IndInv, Swapping PROVE IndInv'
  OBVIOUS
<1>1. PICK k1, outs, split, total :
        Asks(k1, outs, split, total) /\ Redeem(k1, outs, split, total)
  BY SwappingAsks
<1>2. UNCHANGED <<mints, memory, source, melting>>
  BY DEF Swapping
<1>3. /\ note' \in [Ids -> {"none", "out", "pending", "spent"}]
      /\ amount' \in [Ids -> Nat]
      /\ burns' \subseteq [ids : SUBSET Ids, outs : Seq(Ids), amounts : Seq(Nat)]
      /\ MintNeverBricked' /\ BurnedOnce' /\ NotesWorth' /\ MeltsHeld'
      /\ \A i \in Ids : note[i] # "none" => note'[i] # "none" /\ amount'[i] = amount[i]
  BY <1>1, <1>2, RedeemKeeps
<1> USE DEF mints, memory, settings, source
<1>4. TypeOK'
  BY <1>2, <1>3 DEF IndInv, TypeOK, melting, reservations, round
<1>5. MintsWorth' /\ MintsOnce'
  BY <1>2 DEF IndInv, MintsWorth, MintsOnce, Fee
<1>6. ReadsStand'
  BY <1>2, <1>3, ReadsNamed DEF IndInv, ReadsStand
<1> QED BY <1>3, <1>4, <1>5, <1>6 DEF IndInv

LEMMA WaitingKeeps ==
  ASSUME IndInv, NEW c \in Calls, Waiting(c) PROVE IndInv'
<1> USE DEF table, mints, settings, source, melting, reservations, round
<1>1. ASSUME NEW i \in Ids, NEW j \in Ids, NEW outs \in Seq(Ids), NEW split \in Nat,
             Len(outs) = (IF split > 0 THEN 2 ELSE 1),
             AwaitNote(c, i, j, outs, split)
      PROVE  IndInv'
  <2> DEFINE r == [k1 |-> <<i, j>>, outs |-> outs, split |-> split, value |-> amount[i]]
  <2>1. /\ note[i] # "none" /\ call' = [call EXCEPT ![c] = r]
        /\ UNCHANGED <<table, mints, settings, invoicing, source, melting>>
    BY <1>1 DEF AwaitNote
  <2>2. /\ r \in [k1 : Seq(Ids), outs : Seq(Ids), split : Nat, value : Nat]
        /\ Len(r.k1) = 2 /\ Len(r.outs) = (IF r.split > 0 THEN 2 ELSE 1)
        /\ note[r.k1[1]] # "none" /\ amount[r.k1[1]] = r.value
    BY <1>1, <2>1 DEF IndInv, TypeOK
  <2> HIDE DEF r
  <2>3. TypeOK'
    BY <2>1, <2>2 DEF IndInv, TypeOK
  <2>4. ReadsStand'
    BY <2>1, <2>2 DEF IndInv, TypeOK, ReadsStand
  <2> QED BY <2>1, <2>3, <2>4
      DEF IndInv, MintNeverBricked, BurnedOnce, NotesWorth, MintsWorth, MintsOnce, Fee,
          MeltsHeld, Held
<1>2. NoCall \in [k1 : Seq(Ids), outs : Seq(Ids), split : Nat, value : Nat]
  BY DEF NoCall
<1>3. CASE NoteArrives(c)
  <2>1. /\ note' \in [Ids -> {"none", "out", "pending", "spent"}]
        /\ amount' \in [Ids -> Nat]
        /\ burns' \subseteq [ids : SUBSET Ids, outs : Seq(Ids), amounts : Seq(Nat)]
        /\ MintNeverBricked' /\ BurnedOnce' /\ NotesWorth' /\ MeltsHeld'
        /\ \A i \in Ids :
             note[i] # "none" => note'[i] # "none" /\ amount'[i] = amount[i]
    BY <1>3, ArrivalAsks, RedeemKeeps DEF NoteArrives
  <2>2. /\ UNCHANGED <<mints, settings, invoicing, source, melting>>
        /\ call' = [call EXCEPT ![c] = NoCall]
    BY <1>3 DEF NoteArrives
  <2>3. TypeOK'
    BY <1>2, <2>1, <2>2 DEF IndInv, TypeOK
  <2>4. ReadsStand'
    BY <2>1, <2>2, ReadsNamed DEF IndInv, TypeOK, ReadsStand
  <2> QED BY <2>1, <2>2, <2>3, <2>4 DEF IndInv, MintsWorth, MintsOnce, Fee
<1>4. CASE Refuse(c)
  <2>1. TypeOK'
    BY <1>2, <1>4 DEF Refuse, IndInv, TypeOK
  <2>2. ReadsStand'
    BY <1>4 DEF Refuse, IndInv, TypeOK, ReadsStand
  <2>3. UNCHANGED <<table, mints, settings, invoicing, source, melting>>
    BY <1>4 DEF Refuse
  <2> QED BY <2>1, <2>2, <2>3
      DEF IndInv, MintNeverBricked, BurnedOnce, NotesWorth, MintsWorth, MintsOnce, Fee,
          MeltsHeld, Held
<1>5. ASSUME NEW p1 \in Ids, NEW p2 \in Ids
      PROVE  <<p1>> \in Seq(Ids) /\ <<p1, p2>> \in Seq(Ids)
  OBVIOUS
<1>6. ASSUME NEW i \in Ids, NEW j \in Ids, NEW p1 \in Ids, AwaitNote(c, i, j, <<p1>>, 0)
      PROVE  IndInv'
  <2>1. Len(<<p1>>) = (IF 0 > 0 THEN 2 ELSE 1)
    OBVIOUS
  <2> QED BY <1>1, <1>5, <1>6, <2>1
<1>7. ASSUME NEW i \in Ids, NEW j \in Ids, NEW p1 \in Ids, NEW p2 \in Ids,
             NEW split \in Amounts, AwaitNote(c, i, j, <<p1, p2>>, split)
      PROVE  IndInv'
  <2>1. split \in Nat /\ split > 0
    BY NoteStoreAssumption
  <2>2. Len(<<p1, p2>>) = (IF split > 0 THEN 2 ELSE 1)
    BY <2>1
  <2> QED BY <1>1, <1>5, <1>7, <2>1, <2>2
<1> QED BY <1>3, <1>4, <1>6, <1>7 DEF Waiting

-----------------------------------------------------------------------------
(* Mints, melts, restarts.                                                 *)

LEMMA MintingKeeps ==
  ASSUME IndInv, NEW p \in Payments, Minting(p) PROVE IndInv'
<1> USE DEF table, mints, settings, memory, source, melting, reservations, round
<1>0. FeePpm \in Nat /\ baseFee \in Nat
  BY NoteStoreAssumption DEF IndInv, TypeOK
<1>1. ASSUME NEW i \in Ids, NEW gross \in Amounts, RequestInvoice(p, i, gross)
      PROVE  IndInv'
  <2>1. /\ price[p] = 0 /\ NetOf(gross, Fee) >= MinMint
        /\ price' = [price EXCEPT ![p] = gross]
        /\ invoicing' = [invoicing EXCEPT ![p] = i]
        /\ UNCHANGED <<table, mints, settings, call, paid, funds, melting>>
    BY <1>1 DEF RequestInvoice
  <2>2. gross \in Nat \ {0}
    BY NoteStoreAssumption
  <2>3. TypeOK'
    BY <2>1, <2>2 DEF IndInv, TypeOK
  <2>4. MintsWorth'
    <3>1. Fee' = Fee
      BY <2>1 DEF Fee
    <3> QED BY <2>1, <2>2, <3>1 DEF IndInv, TypeOK, MintsWorth
  <2>5. MintsOnce'
    BY <2>1, <2>2 DEF IndInv, TypeOK, MintsOnce
  <2> QED BY <2>1, <2>3, <2>4, <2>5
      DEF IndInv, MintNeverBricked, BurnedOnce, NotesWorth, ReadsStand, MeltsHeld, Held
<1>2. CASE CreateMint(p)
  <2>1. /\ invoicing[p] \in Ids /\ price[p] > 0 /\ NetOf(price[p], Fee) >= MinMint
        /\ invoicing' = [invoicing EXCEPT ![p] = NoId]
        /\ UNCHANGED <<table, settings, call, source, melting>>
    BY <1>2 DEF CreateMint, IndInv, TypeOK, MintsWorth
  <2>2. Fee' = Fee
    BY <2>1 DEF Fee
  <2>3. CASE IdInUse(invoicing[p])
    <3>1. UNCHANGED mints
      BY <1>2, <2>3 DEF CreateMint
    <3>2. TypeOK' /\ MintsWorth' /\ MintsOnce'
      BY <2>1, <2>2, <3>1 DEF IndInv, TypeOK, MintsWorth, MintsOnce
    <3> QED BY <2>1, <3>1, <3>2
        DEF IndInv, MintNeverBricked, BurnedOnce, NotesWorth, ReadsStand, MeltsHeld, Held
  <2>4. CASE ~IdInUse(invoicing[p])
    <3>1. /\ mint' = [mint EXCEPT ![p] = "unpaid"]
          /\ mintId' = [mintId EXCEPT ![p] = invoicing[p]]
          /\ net' = [net EXCEPT ![p] = NetOf(price[p], Fee)]
      BY <1>2, <2>4 DEF CreateMint
    <3>2. NetOf(price[p], Fee) \in Nat
      <4>1. price[p] \in Nat /\ Fee.baseFee \in Nat /\ Fee.feePpm \in Nat
        BY <1>0 DEF IndInv, TypeOK, Fee
      <4>2. NetOf(price[p], Fee) \in Int
        BY <4>1, FeeCoversBase
      <4> QED BY <2>1, <4>2, NoteStoreAssumption
    <3> DEFINE value == NetOf(price[p], Fee)
    <3> HIDE DEF value
    <3>3. value \in Nat /\ value >= MinMint /\ net' = [net EXCEPT ![p] = value]
      BY <2>1, <3>1, <3>2 DEF value
    <3>4. TypeOK'
      BY <2>1, <3>1, <3>3 DEF IndInv, TypeOK
    <3>5. MintNeverBricked'
      BY <2>1, <2>4, <3>1 DEF IndInv, TypeOK, MintNeverBricked, IdInUse
    <3>6. MintsWorth'
      BY <2>1, <2>2, <3>1, <3>3 DEF IndInv, TypeOK, MintsWorth
    <3>7. MintsOnce'
      BY <2>1, <3>1 DEF IndInv, TypeOK, MintsOnce
    <3> QED BY <2>1, <3>4, <3>5, <3>6, <3>7
        DEF IndInv, BurnedOnce, NotesWorth, ReadsStand, MeltsHeld, Held
  <2> QED BY <2>3, <2>4
<1>3. CASE PayInvoice(p)
  <2>1. /\ mint[p] = "unpaid" /\ paid' = [paid EXCEPT ![p] = TRUE]
        /\ funds' = funds + price[p]
        /\ UNCHANGED <<table, mints, memory, price, melting>>
    BY <1>3 DEF PayInvoice
  <2>2. TypeOK'
    <3>1. paid' \in [Payments -> BOOLEAN] /\ funds' \in Int
      BY <2>1 DEF IndInv, TypeOK
    <3> QED BY <2>1, <3>1 DEF IndInv, TypeOK
  <2>3. MintsOnce'
    BY <2>1 DEF IndInv, TypeOK, MintsOnce
  <2>4. MintsWorth'
    BY <2>1 DEF IndInv, MintsWorth, Fee
  <2> QED BY <2>1, <2>2, <2>3, <2>4
      DEF IndInv, MintNeverBricked, BurnedOnce, NotesWorth, ReadsStand, MeltsHeld, Held
<1>4. CASE Settle(p)
  <2>1. /\ mintId[p] \in Ids /\ note[mintId[p]] = "none" /\ mint[p] = "unpaid"
        /\ net[p] >= MinMint
        /\ mint' = [mint EXCEPT ![p] = "minted"]
        /\ note' = [note EXCEPT ![mintId[p]] = "out"]
        /\ amount' = [amount EXCEPT ![mintId[p]] = net[p]]
        /\ UNCHANGED <<mintId, net, burns, memory, source, melting>>
    BY <1>4 DEF Settle, IndInv, MintsWorth
  <2>2. TypeOK'
    BY <2>1 DEF IndInv, TypeOK
  <2>3. MintNeverBricked'
    BY <2>1 DEF IndInv, TypeOK, MintsWorth, MintNeverBricked
  <2>4. BurnedOnce'
    <3>1. \A b \in burns : mintId[p] \notin b.ids
      BY <2>1 DEF IndInv, BurnedOnce
    <3>2. \A b \in burns : b.outs \in Seq(Ids) /\ b.ids \subseteq Ids
      BY DEF IndInv, TypeOK
    <3>3. \A b \in burns : \A j \in DOMAIN b.outs :
            b.outs[j] # mintId[p] /\ b.outs[j] \in Ids
      BY <2>1, <3>2 DEF IndInv, BurnedOnce
    <3> QED BY <2>1, <3>1, <3>2, <3>3 DEF IndInv, TypeOK, BurnedOnce
  <2>5. NotesWorth'
    <3>1. MinMint > 0 => \A i \in Ids : note'[i] # "none" => amount'[i] > 0
      BY <2>1, NoteStoreAssumption DEF IndInv, TypeOK, NotesWorth
    <3>2. \A b \in burns : b.ids \subseteq Ids /\ mintId[p] \notin b.ids
      BY <2>1 DEF IndInv, TypeOK, BurnedOnce
    <3>3. \A b \in burns : \A i \in b.ids : amount'[i] = amount[i]
      BY <2>1, <3>2 DEF IndInv, TypeOK
    <3> QED BY <2>1, <3>1, <3>3 DEF IndInv, NotesWorth
  <2>6. MintsWorth' /\ MintsOnce'
    BY <2>1 DEF IndInv, TypeOK, MintsWorth, MintsOnce, Fee
  <2>7. ReadsStand'
    BY <2>1, ReadsNamed DEF IndInv, TypeOK, ReadsStand
  <2>8. MeltsHeld'
    BY <2>1, MeltsHeldStays DEF IndInv, TypeOK
  <2> QED BY <2>2, <2>3, <2>4, <2>5, <2>6, <2>7, <2>8 DEF IndInv
<1> QED BY <1>1, <1>2, <1>3, <1>4 DEF Minting

\* what burning or releasing reserved notes leaves alone
LEMMA NotesMove ==
  ASSUME IndInv, UNCHANGED <<amount, burns, mints, memory, price, paid>>,
         note' \in [Ids -> {"none", "out", "pending", "spent"}],
         \A i \in Ids : /\ note[i] = "none" <=> note'[i] = "none"
                        /\ note[i] = "spent" => note'[i] = "spent"
  PROVE  /\ MintNeverBricked' /\ BurnedOnce' /\ NotesWorth'
         /\ MintsWorth' /\ MintsOnce' /\ ReadsStand'
<1> USE DEF mints, memory, settings
<1>1. MintNeverBricked'
  BY DEF IndInv, TypeOK, MintsWorth, MintNeverBricked
<1>2. BurnedOnce'
  <2>1. \A b \in burns : b.outs \in Seq(Ids) /\ b.ids \subseteq Ids
    BY DEF IndInv, TypeOK
  <2>2. \A b \in burns : \A j \in DOMAIN b.outs : b.outs[j] \in Ids
    BY <2>1
  <2> QED BY <2>1, <2>2 DEF IndInv, TypeOK, BurnedOnce
<1>3. NotesWorth' /\ ReadsStand'
  BY ReadsNamed DEF IndInv, TypeOK, NotesWorth, ReadsStand
<1>4. MintsWorth' /\ MintsOnce'
  BY DEF IndInv, MintsWorth, MintsOnce, Fee
<1> QED BY <1>1, <1>2, <1>3, <1>4

\* the rest of the types, for a step that moves notes only
LEMMA TypesMove ==
  ASSUME IndInv, UNCHANGED <<amount, burns, mints, memory, price, paid>>, funds' \in Int,
         note' \in [Ids -> {"none", "out", "pending", "spent"}],
         heldFor' \in [Ids -> Hashes \cup {NoHash}],
         payer' \in [Hashes -> Ids \cup {NoId}], due' \in [Hashes -> Nat],
         tasks' \subseteq {h \in Hashes : payer'[h] # NoId},
         payment' \in [Hashes -> {"none", "open", "sent", "failed"}],
         snapshot' \subseteq Hashes \X Ids, at' \in Hashes \cup {NoHash},
         reused' \in BOOLEAN, stray' \subseteq Hashes
  PROVE  TypeOK'
  BY DEF IndInv, TypeOK, mints, memory, settings

LEMMA HeldOnFile ==
  ASSUME IndInv
  PROVE  /\ \A h \in Hashes : payer[h] # NoId => payer[h] \in Ids /\ note[payer[h]] # "none"
         /\ \A h \in tasks : h \in Hashes /\ payer[h] # NoId
         /\ Entry \subseteq Ids /\ \A i \in Entry : note[i] # "none"
         /\ at \notin tasks \/ reused
  BY DEF IndInv, TypeOK, MeltsHeld, Entry

LEMMA MeltNoteKeeps ==
  ASSUME IndInv, NEW i \in Ids, NEW h \in Hashes, MeltNote(i, h) PROVE IndInv'
<1>1. /\ note[i] = "out" /\ payer[h] = NoId
      /\ note' = [note EXCEPT ![i] = "pending"] /\ heldFor' = [heldFor EXCEPT ![i] = h]
      /\ UNCHANGED <<amount, burns, mints, memory, source, snapshot, at, stray>>
  BY DEF MeltNote
<1>2. \/ /\ payer' = [payer EXCEPT ![h] = i] /\ due' = [due EXCEPT ![h] = amount[i]]
         /\ tasks' = tasks \cup {h} /\ payment' = [payment EXCEPT ![h] = "open"]
         /\ reused' = (reused \/ h = at)
      \/ UNCHANGED <<payer, due, tasks, payment, reused>>
  BY DEF MeltNote
<1>3. /\ amount[i] \in Nat /\ i # NoId /\ h # NoHash
      /\ payer' = [payer EXCEPT ![h] = i] => ~UNCHANGED payer
  BY <1>1, NoteStoreAssumption DEF IndInv, TypeOK
<1>4. TypeOK'
  <2>0. /\ payer \in [Hashes -> Ids \cup {NoId}] /\ due \in [Hashes -> Nat]
        /\ payment \in [Hashes -> {"none", "open", "sent", "failed"}]
        /\ tasks \subseteq {g \in Hashes : payer[g] # NoId}
    BY DEF IndInv, TypeOK
  <2>1. /\ note' \in [Ids -> {"none", "out", "pending", "spent"}]
        /\ heldFor' \in [Ids -> Hashes \cup {NoHash}]
    BY <1>1 DEF IndInv, TypeOK
  <2>3. /\ payer' \in [Hashes -> Ids \cup {NoId}] /\ due' \in [Hashes -> Nat]
        /\ payment' \in [Hashes -> {"none", "open", "sent", "failed"}]
    BY <1>2, <1>3, <2>0
  <2>4. tasks' \subseteq {g \in Hashes : payer'[g] # NoId}
    BY <1>2, <1>3, <2>0
  <2>2. /\ snapshot' \subseteq Hashes \X Ids /\ at' \in Hashes \cup {NoHash}
        /\ reused' \in BOOLEAN /\ stray' \subseteq Hashes /\ funds' \in Int
    BY <1>1, <1>2 DEF IndInv, TypeOK, source
  <2> QED BY <1>1, <2>1, <2>2, <2>3, <2>4, TypesMove DEF source
<1>5. /\ MintNeverBricked' /\ BurnedOnce' /\ NotesWorth'
      /\ MintsWorth' /\ MintsOnce' /\ ReadsStand'
  <2>1. \A k \in Ids : /\ note[k] = "none" <=> note'[k] = "none"
                       /\ note[k] = "spent" => note'[k] = "spent"
    BY <1>1 DEF IndInv, TypeOK
  <2> QED BY <1>1, <1>4, <2>1, NotesMove DEF source, TypeOK
<1>6. MeltsHeld'
  <2>1. \A k \in Ids : note'[k] = "pending" <=> heldFor'[k] # NoHash
    BY <1>1, <1>3 DEF IndInv, TypeOK, MeltsHeld
  <2>2. ASSUME NEW g \in Hashes
        PROVE  /\ payer'[g] = NoId => payment'[g] = "none"
               /\ payer'[g] # NoId =>
                    note'[payer'[g]] # "none" /\ due'[g] = amount'[payer'[g]]
               /\ payment'[g] \in {"open", "sent"} /\ g \notin stray' =>
                    \/ Held(payer[g], g)'
                    \/ payment'[g] = "sent" /\ note'[payer'[g]] = "spent"
    <3>1. CASE g = h /\ payer' = [payer EXCEPT ![h] = i]
      <4>1. payer'[g] = i /\ due'[g] = amount[i] /\ payment'[g] = "open"
        <5>1. payer \in [Hashes -> Ids \cup {NoId}] /\ DOMAIN due = Hashes
              /\ DOMAIN payment = Hashes
          BY DEF IndInv, TypeOK
        <5> QED BY <1>2, <1>3, <3>1, <5>1
      <4>2. note'[i] = "pending" /\ heldFor'[i] = g
        BY <1>1, <3>1 DEF IndInv, TypeOK
      <4> QED BY <1>1, <1>3, <4>1, <4>2 DEF Held
    <3>2. CASE ~(g = h /\ payer' = [payer EXCEPT ![h] = i])
      <4>1. payer'[g] = payer[g] /\ due'[g] = due[g] /\ payment'[g] = payment[g]
        BY <1>2, <3>2 DEF IndInv, TypeOK
      <4>2. payer[g] # NoId => payer[g] \in Ids /\ note[payer[g]] # "none"
        BY HeldOnFile
      <4>3. payer[g] # NoId /\ payer[g] # i =>
              note'[payer[g]] = note[payer[g]] /\ heldFor'[payer[g]] = heldFor[payer[g]]
        BY <1>1, <4>2 DEF IndInv, TypeOK
      <4>4. payer[g] = i => note'[payer[g]] = "pending" /\ ~Held(payer[g], g)
        BY <1>1 DEF IndInv, TypeOK, Held
      <4>5. payment[g] \in {"open", "sent"} => payer[g] # NoId
        BY DEF IndInv, MeltsHeld
      <4>6. payer[g] # NoId => due[g] = amount[payer[g]] /\ amount' = amount /\ stray' = stray
        BY <1>1 DEF IndInv, MeltsHeld
      <4>7. payer[g] = NoId => payment[g] = "none"
        BY DEF IndInv, MeltsHeld
      <4>8. payment[g] \in {"open", "sent"} /\ g \notin stray =>
              Held(payer[g], g) \/ (payment[g] = "sent" /\ note[payer[g]] = "spent")
        BY DEF IndInv, MeltsHeld
      <4>9. Held(payer[g], g)' <=> note'[payer[g]] = "pending" /\ heldFor'[payer[g]] = g
        BY <4>1 DEF Held
      <4>10. payer[g] = i => note[payer[g]] = "out"
        BY <1>1
      <4>11. stray' = stray
        BY <1>1
      <4>12. payment[g] \in {"open", "sent"} /\ g \notin stray =>
               \/ Held(payer[g], g)'
               \/ payment[g] = "sent" /\ note'[payer[g]] = "spent"
        BY <4>3, <4>4, <4>5, <4>8, <4>9, <4>10 DEF Held
      <4> QED BY <4>1, <4>2, <4>3, <4>4, <4>6, <4>7, <4>11, <4>12
    <3> QED BY <3>1, <3>2
  <2>3. \A e \in snapshot : note'[e[2]] # "none"
    BY <1>1 DEF IndInv, TypeOK, MeltsHeld
  <2>4. at' \in tasks' => reused'
    BY <1>1, <1>2 DEF IndInv, MeltsHeld
  <2> QED BY <1>1, <2>1, <2>2, <2>3, <2>4 DEF MeltsHeld
<1> QED BY <1>4, <1>5, <1>6 DEF IndInv

\* a step of a melt or of a round: it moves notes, payments and the round
LEMMA MeltStepKeeps ==
  ASSUME IndInv,
         UNCHANGED <<amount, burns, mints, memory, price, paid, payer, due>>,
         funds' \in Int, tasks' \subseteq tasks,
         note' \in [Ids -> {"none", "out", "pending", "spent"}],
         heldFor' \in [Ids -> Hashes \cup {NoHash}], stray' \subseteq Hashes,
         payment' \in [Hashes -> {"none", "open", "sent", "failed"}],
         \A i \in Ids : /\ note[i] = "none" <=> note'[i] = "none"
                        /\ note[i] = "spent" => note'[i] = "spent"
                        /\ note'[i] = "pending" <=> heldFor'[i] # NoHash,
         \A h \in Hashes : payer[h] = NoId => payment'[h] = "none",
         \A h \in Hashes : payment'[h] \in {"open", "sent"} /\ h \notin stray' =>
           Held(payer[h], h)' \/ (payment'[h] = "sent" /\ note'[payer[h]] = "spent"),
         snapshot' \subseteq Hashes \X Ids, \A e \in snapshot' : note[e[2]] # "none",
         at' \in Hashes \cup {NoHash}, reused' \in BOOLEAN, at' \in tasks' => reused'
  PROVE  IndInv'
<1>1. TypeOK'
  <2>1. tasks' \subseteq {h \in Hashes : payer'[h] # NoId}
    BY DEF IndInv, TypeOK
  <2>2. payer' \in [Hashes -> Ids \cup {NoId}] /\ due' \in [Hashes -> Nat]
    BY DEF IndInv, TypeOK
  <2> QED BY <2>1, <2>2, TypesMove
<1>2. /\ MintNeverBricked' /\ BurnedOnce' /\ NotesWorth'
      /\ MintsWorth' /\ MintsOnce' /\ ReadsStand'
  BY NotesMove
<1>3. MeltsHeld'
  <2>1. ASSUME NEW h \in Hashes
        PROVE  /\ payer'[h] = NoId => payment'[h] = "none"
               /\ payer'[h] # NoId =>
                    note'[payer'[h]] # "none" /\ due'[h] = amount'[payer'[h]]
               /\ payment'[h] \in {"open", "sent"} /\ h \notin stray' =>
                    \/ Held(payer[h], h)'
                    \/ payment'[h] = "sent" /\ note'[payer'[h]] = "spent"
    <3>1. payer[h] # NoId => payer[h] \in Ids /\ note[payer[h]] # "none"
      BY HeldOnFile
    <3>2. payer[h] # NoId => due[h] = amount[payer[h]]
      BY DEF IndInv, MeltsHeld
    <3> QED BY <3>1, <3>2
  <2>2. \A e \in snapshot' : e[2] \in Ids /\ note'[e[2]] # "none"
    OBVIOUS
  <2> QED BY <2>1, <2>2 DEF MeltsHeld
<1> QED BY <1>1, <1>2, <1>3 DEF IndInv

LEMMA Accounted ==
  ASSUME IndInv
  PROVE  \A h \in Hashes :
           /\ payer[h] = NoId => payment[h] = "none"
           /\ payment[h] \in {"open", "sent"} =>
                payer[h] \in Ids /\ note[payer[h]] # "none"
           /\ payment[h] \in {"open", "sent"} /\ h \notin stray =>
                Held(payer[h], h) \/ (payment[h] = "sent" /\ note[payer[h]] = "spent")
<1>1. \A h \in Hashes :
        /\ payer[h] = NoId => payment[h] = "none"
        /\ payment[h] \in {"open", "sent"} /\ h \notin stray =>
             Held(payer[h], h) \/ (payment[h] = "sent" /\ note[payer[h]] = "spent")
  BY DEF IndInv, MeltsHeld
<1> QED BY <1>1, HeldOnFile

\* a burn takes the notes of a payment that went out
LEMMA BurnMoves ==
  ASSUME IndInv, NEW ns \in SUBSET Ids, \A i \in ns : note[i] # "none",
         NEW h \in Hashes, payment[h] = "sent", Burn(ns, h), UNCHANGED <<payer, payment>>
  PROVE  /\ note' \in [Ids -> {"none", "out", "pending", "spent"}]
         /\ heldFor' \in [Ids -> Hashes \cup {NoHash}] /\ stray' \subseteq Hashes
         /\ \A i \in Ids : /\ note[i] = "none" <=> note'[i] = "none"
                           /\ note[i] = "spent" => note'[i] = "spent"
                           /\ note'[i] = "pending" <=> heldFor'[i] # NoHash
         /\ \A g \in Hashes : payment'[g] \in {"open", "sent"} /\ g \notin stray' =>
              Held(payer[g], g)' \/ (payment'[g] = "sent" /\ note'[payer[g]] = "spent")
<1>1. /\ note' = [i \in Ids |-> IF i \in ns THEN "spent" ELSE note[i]]
      /\ heldFor' = [i \in Ids |-> IF i \in ns THEN NoHash ELSE heldFor[i]]
      /\ stray' = (stray \cup Others(ns, h))
                    \ {g \in {h} : payer[g] \in ns /\ note[payer[g]] # "spent"}
  BY DEF Burn
<1>2. /\ note' \in [Ids -> {"none", "out", "pending", "spent"}]
      /\ heldFor' \in [Ids -> Hashes \cup {NoHash}] /\ stray' \subseteq Hashes
  BY <1>1 DEF IndInv, TypeOK, Others
<1>3. \A i \in Ids : /\ note[i] = "none" <=> note'[i] = "none"
                     /\ note[i] = "spent" => note'[i] = "spent"
                     /\ note'[i] = "pending" <=> heldFor'[i] # NoHash
  BY <1>1 DEF IndInv, MeltsHeld
<1>4. ASSUME NEW g \in Hashes, payment[g] \in {"open", "sent"}, g \notin stray'
      PROVE  Held(payer[g], g)' \/ (payment[g] = "sent" /\ note'[payer[g]] = "spent")
  <2>1. payer[g] \in Ids
    BY <1>4, Accounted
  <2>2. payer[g] \notin ns =>
          note'[payer[g]] = note[payer[g]] /\ heldFor'[payer[g]] = heldFor[payer[g]]
    BY <1>1, <2>1
  <2>3. payer[g] \in ns => note'[payer[g]] = "spent"
    BY <1>1, <2>1
  <2>4. g \in Hashes => (g \notin stray =>
          Held(payer[g], g) \/ (payment[g] = "sent" /\ note[payer[g]] = "spent"))
    BY <1>4, Accounted
  <2>5. payer'[g] = payer[g]
    OBVIOUS
  <2>6. CASE g = h
    <3>1. payer[g] \notin ns => g \notin stray
      BY <1>1, <1>4, <2>6
    <3> QED BY <2>2, <2>3, <2>4, <2>5, <2>6, <3>1 DEF Held
  <2>7. CASE g # h
    <3>1. g \notin stray /\ g \notin Others(ns, h)
      BY <1>1, <1>4, <2>7
    <3>2. ~(payer[g] \in ns /\ Held(payer[g], g))
      BY <2>7, <3>1 DEF Others
    <3> QED BY <2>2, <2>3, <2>4, <2>5, <3>1, <3>2 DEF Held
  <2> QED BY <2>6, <2>7
<1> QED BY <1>2, <1>3, <1>4

\* a release takes the notes of payments that failed, or strays
LEMMA ReleaseMoves ==
  ASSUME IndInv, NEW ns \in SUBSET Ids, NEW taken \in SUBSET Hashes,
         \A g \in Hashes : payer[g] \in ns /\ Held(payer[g], g)
                           /\ payment[g] \in {"open", "sent"} => g \in taken,
         Release(ns, taken), UNCHANGED <<payer, payment>>
  PROVE  /\ note' \in [Ids -> {"none", "out", "pending", "spent"}]
         /\ heldFor' \in [Ids -> Hashes \cup {NoHash}] /\ stray' \subseteq Hashes
         /\ \A i \in Ids : /\ note[i] = "none" <=> note'[i] = "none"
                           /\ note[i] = "spent" => note'[i] = "spent"
                           /\ note'[i] = "pending" <=> heldFor'[i] # NoHash
         /\ \A g \in Hashes : payment'[g] \in {"open", "sent"} /\ g \notin stray' =>
              Held(payer[g], g)' \/ (payment'[g] = "sent" /\ note'[payer[g]] = "spent")
<1>1. /\ note' = [i \in Ids |-> IF i \in ns /\ note[i] = "pending" THEN "out" ELSE note[i]]
      /\ heldFor' = [i \in Ids |-> IF i \in ns THEN NoHash ELSE heldFor[i]]
      /\ stray' = stray \cup taken
  BY DEF Release
<1>2. /\ note' \in [Ids -> {"none", "out", "pending", "spent"}]
      /\ heldFor' \in [Ids -> Hashes \cup {NoHash}] /\ stray' \subseteq Hashes
  BY <1>1 DEF IndInv, TypeOK
<1>3. \A i \in Ids : /\ note[i] = "none" <=> note'[i] = "none"
                     /\ note[i] = "spent" => note'[i] = "spent"
                     /\ note'[i] = "pending" <=> heldFor'[i] # NoHash
  BY <1>1 DEF IndInv, MeltsHeld
<1>4. ASSUME NEW g \in Hashes, payment[g] \in {"open", "sent"}, g \notin stray'
      PROVE  Held(payer[g], g)' \/ (payment[g] = "sent" /\ note'[payer[g]] = "spent")
  <2>1. payer[g] \in Ids /\ payer'[g] = payer[g]
    BY <1>4, Accounted
  <2>2. payer[g] \notin ns =>
          note'[payer[g]] = note[payer[g]] /\ heldFor'[payer[g]] = heldFor[payer[g]]
    BY <1>1, <2>1
  <2>3. note[payer[g]] = "spent" => note'[payer[g]] = "spent"
    BY <1>3, <2>1
  <2>4. g \notin stray /\ ~(payer[g] \in ns /\ Held(payer[g], g))
    BY <1>1, <1>4
  <2>5. Held(payer[g], g) \/ (payment[g] = "sent" /\ note[payer[g]] = "spent")
    BY <1>4, <2>4, Accounted
  <2> QED BY <2>1, <2>2, <2>3, <2>4, <2>5 DEF Held
<1> QED BY <1>2, <1>3, <1>4

LEMMA AdvanceMoves ==
  ASSUME IndInv, NEW rest \in SUBSET (Hashes \X Ids), Advance(rest) \/ NoRound
  PROVE  /\ snapshot' \subseteq rest /\ at' \in Hashes \cup {NoHash}
         /\ reused' = FALSE /\ at' \notin tasks
<1>1. tasks \subseteq Hashes /\ NoHash \notin Hashes
  BY NoteStoreAssumption DEF IndInv, TypeOK
<1>2. CASE snapshot' = {} /\ at' = NoHash /\ reused' = FALSE
  BY <1>1, <1>2
<1>3. ASSUME NEW h \in {e[1] : e \in rest} \ tasks, NEW skipped \in SUBSET tasks,
             snapshot' = {e \in rest : e[1] \notin skipped}, at' = h, reused' = FALSE
      PROVE  /\ snapshot' \subseteq rest /\ at' \in Hashes \cup {NoHash}
             /\ reused' = FALSE /\ at' \notin tasks
  BY <1>3
<1> QED BY <1>2, <1>3 DEF Advance, NoRound

\* the release of a task and of a round lose track of no payment
LEMMA TaskTakes ==
  ASSUME IndInv, NEW h \in tasks, payment[h] = "failed",
         NEW g \in Hashes, payer[g] = payer[h], Held(payer[g], g),
         payment[g] \in {"open", "sent"}
  PROVE  g \in Others({payer[h]}, h)
  BY DEF Others

LEMMA RoundTakes ==
  ASSUME IndInv, at # NoHash, AnswersUnpaid,
         NEW g \in Hashes, payer[g] \in Entry, Held(payer[g], g),
         payment[g] \in {"open", "sent"}
  PROVE  g \in Others(Entry, IF reused THEN NoHash ELSE at)
<1>1. CASE reused
  <2>1. g # NoHash
    BY NoteStoreAssumption
  <2> QED BY <1>1, <2>1 DEF Others
<1>2. CASE ~reused
  <2>1. payment[at] \in {"none", "failed"}
    BY <1>2, HeldOnFile DEF AnswersUnpaid
  <2>2. g # at
    BY <2>1
  <2> QED BY <1>2, <2>2 DEF Others
<1> QED BY <1>1, <1>2

LEMMA MeltingKeeps ==
  ASSUME IndInv, NEW h \in Hashes, Melting(h) PROVE IndInv'
<1> USE DEF source, reservations, round
<1>0. /\ snapshot \subseteq Hashes \X Ids /\ at \in Hashes \cup {NoHash}
      /\ reused \in BOOLEAN /\ (at \in tasks => reused)
      /\ \A e \in snapshot : note[e[2]] # "none"
      /\ payment \in [Hashes -> {"none", "open", "sent", "failed"}]
      /\ note \in [Ids -> {"none", "out", "pending", "spent"}]
      /\ heldFor \in [Ids -> Hashes \cup {NoHash}] /\ stray \subseteq Hashes
      /\ \A i \in Ids : note[i] = "pending" <=> heldFor[i] # NoHash
      /\ funds \in Int /\ due[h] \in Nat
  BY DEF IndInv, TypeOK, MeltsHeld
<1>1. ASSUME NEW i \in Ids, MeltNote(i, h) PROVE IndInv'
  BY <1>1, MeltNoteKeeps
<1>2. CASE PaymentEnds(h)
  <2>1. PICK end \in {"sent", "failed"} : payment' = [payment EXCEPT ![h] = end]
    BY <1>2 DEF PaymentEnds
  <2>2. /\ payment[h] = "open" /\ funds' \in Int
        /\ UNCHANGED <<table, mints, memory, price, paid, heldFor, payer, due,
                       stray, tasks, round>>
    BY <1>0, <1>2 DEF PaymentEnds
  <2>3. \A g \in Hashes : payment'[g] \in {"open", "sent"} /\ g \notin stray' =>
          Held(payer[g], g)' \/ (payment'[g] = "sent" /\ note'[payer[g]] = "spent")
    <3> SUFFICES ASSUME NEW g \in Hashes, payment'[g] \in {"open", "sent"}, g \notin stray
                 PROVE  Held(payer[g], g) \/ (payment'[g] = "sent" /\ note[payer[g]] = "spent")
      BY <2>2 DEF Held, table
    <3>1. payment[g] \in {"open", "sent"} /\ (g # h => payment'[g] = payment[g])
      BY <1>0, <2>1, <2>2
    <3> QED BY <2>2, <3>1, Accounted
  <2>4. /\ payment' \in [Hashes -> {"none", "open", "sent", "failed"}]
        /\ \A g \in Hashes : payer[g] = NoId => payment'[g] = "none"
    BY <1>0, <2>1, <2>2, Accounted
  <2> QED BY <1>0, <2>2, <2>3, <2>4, MeltStepKeeps DEF table
<1>3. CASE TaskResolves(h)
  <2>1. /\ h \in tasks /\ tasks' = tasks \ {h}
        /\ UNCHANGED <<amount, burns, mints, memory, source, payer, due, payment, round>>
    BY <1>3 DEF TaskResolves
  <2> DEFINE ns == {payer[h]}
  <2>2. ns \in SUBSET Ids /\ \A i \in ns : note[i] # "none"
    BY <2>1, HeldOnFile
  <2>3. /\ note' \in [Ids -> {"none", "out", "pending", "spent"}]
        /\ heldFor' \in [Ids -> Hashes \cup {NoHash}] /\ stray' \subseteq Hashes
        /\ \A i \in Ids : /\ note[i] = "none" <=> note'[i] = "none"
                          /\ note[i] = "spent" => note'[i] = "spent"
                          /\ note'[i] = "pending" <=> heldFor'[i] # NoHash
        /\ \A g \in Hashes : payment'[g] \in {"open", "sent"} /\ g \notin stray' =>
             Held(payer[g], g)' \/ (payment'[g] = "sent" /\ note'[payer[g]] = "spent")
    <3>1. CASE payment[h] = "sent" /\ Burn(ns, h)
      <4> HIDE DEF ns
      <4> QED BY <2>1, <2>2, <3>1, BurnMoves
    <3>2. CASE payment[h] = "failed" /\ Release(ns, Others(ns, h))
      <4>1. \A g \in Hashes : payer[g] \in ns /\ Held(payer[g], g)
                              /\ payment[g] \in {"open", "sent"} => g \in Others(ns, h)
        BY <2>1, <3>2, TaskTakes
      <4>2. Others(ns, h) \in SUBSET Hashes
        BY DEF Others
      <4> HIDE DEF ns
      <4> QED BY <2>1, <2>2, <3>2, <4>1, <4>2, ReleaseMoves
    <3> QED BY <1>3, <3>1, <3>2 DEF TaskResolves
  <2>4. \A g \in Hashes : payer[g] = NoId => payment'[g] = "none"
    BY <2>1, Accounted
  <2> QED BY <1>0, <2>1, <2>3, <2>4, MeltStepKeeps
<1>4. CASE TaskLeaves(h)
  <2>1. /\ tasks' \subseteq tasks
        /\ UNCHANGED <<table, mints, memory, source, reservations, round>>
    BY <1>4 DEF TaskLeaves
  <2>2. \A g \in Hashes : payment'[g] \in {"open", "sent"} /\ g \notin stray' =>
          Held(payer[g], g)' \/ (payment'[g] = "sent" /\ note'[payer[g]] = "spent")
    BY <2>1, Accounted DEF Held, table
  <2>3. \A g \in Hashes : payer[g] = NoId => payment'[g] = "none"
    BY <2>1, Accounted
  <2> QED BY <1>0, <2>1, <2>2, <2>3, MeltStepKeeps DEF table
<1> QED BY <1>1, <1>2, <1>3, <1>4 DEF Melting

LEMMA ReconcilingKeeps == IndInv /\ Reconciling => IndInv'
<1> SUFFICES ASSUME IndInv, Reconciling PROVE IndInv'
  OBVIOUS
<1> USE DEF source, reservations, round
<1>0. /\ snapshot \subseteq Hashes \X Ids /\ at \in Hashes \cup {NoHash}
      /\ \A e \in snapshot : note[e[2]] # "none"
      /\ payment \in [Hashes -> {"none", "open", "sent", "failed"}]
      /\ note \in [Ids -> {"none", "out", "pending", "spent"}]
      /\ heldFor \in [Ids -> Hashes \cup {NoHash}] /\ stray \subseteq Hashes
      /\ \A i \in Ids : note[i] = "pending" <=> heldFor[i] # NoHash
      /\ funds \in Int
      /\ \A g \in Hashes : payer[g] = NoId => payment[g] = "none"
  BY DEF IndInv, TypeOK, MeltsHeld
<1>1. Later \in SUBSET (Hashes \X Ids) /\ \A e \in Later : note[e[2]] # "none"
  BY <1>0 DEF Later
<1>2. ASSUME NEW rest \in SUBSET (Hashes \X Ids), \A e \in rest : note[e[2]] # "none",
             Advance(rest) \/ NoRound,
             UNCHANGED <<table, mints, memory, source, reservations, tasks>>
      PROVE  IndInv'
  <2>1. /\ snapshot' \subseteq rest /\ at' \in Hashes \cup {NoHash}
        /\ reused' = FALSE /\ at' \notin tasks
    BY <1>2, AdvanceMoves
  <2>2. \A g \in Hashes : payment'[g] \in {"open", "sent"} /\ g \notin stray' =>
          Held(payer[g], g)' \/ (payment'[g] = "sent" /\ note'[payer[g]] = "spent")
    BY <1>2, Accounted DEF Held, table
  <2> QED BY <1>0, <1>2, <2>1, <2>2, MeltStepKeeps DEF table
<1>3. CASE StartRound
  <2> DEFINE found == {e \in Hashes \X Ids : Held(e[2], e[1])}
  <2>1. Advance(found) /\ UNCHANGED <<table, mints, memory, source, reservations, tasks>>
    BY <1>3 DEF StartRound
  <2>2. found \in SUBSET (Hashes \X Ids) /\ \A e \in found : note[e[2]] # "none"
    BY DEF Held
  <2> HIDE DEF found
  <2> QED BY <1>2, <2>1, <2>2
<1>4. CASE RoundLeaves
  BY <1>1, <1>2, <1>4 DEF RoundLeaves
<1>5. CASE RoundResolves
  <2>1. /\ at # NoHash /\ (Advance(Later) \/ NoRound)
        /\ UNCHANGED <<amount, burns, mints, memory, source, payer, due, payment, tasks>>
    BY <1>5 DEF RoundResolves
  <2>2. Entry \in SUBSET Ids /\ \A i \in Entry : note[i] # "none"
    BY HeldOnFile
  <2>3. at \in Hashes
    BY <1>0, <2>1
  <2>4. /\ note' \in [Ids -> {"none", "out", "pending", "spent"}]
        /\ heldFor' \in [Ids -> Hashes \cup {NoHash}] /\ stray' \subseteq Hashes
        /\ \A i \in Ids : /\ note[i] = "none" <=> note'[i] = "none"
                          /\ note[i] = "spent" => note'[i] = "spent"
                          /\ note'[i] = "pending" <=> heldFor'[i] # NoHash
        /\ \A g \in Hashes : payment'[g] \in {"open", "sent"} /\ g \notin stray' =>
             Held(payer[g], g)' \/ (payment'[g] = "sent" /\ note'[payer[g]] = "spent")
    <3>1. CASE payment[at] = "sent" /\ Burn(Entry, at)
      BY <2>1, <2>2, <2>3, <3>1, BurnMoves
    <3>2. CASE /\ AnswersUnpaid
               /\ Release(Entry, Others(Entry, IF reused THEN NoHash ELSE at))
      <4> DEFINE taken == Others(Entry, IF reused THEN NoHash ELSE at)
      <4>1. taken \in SUBSET Hashes
        BY DEF Others
      <4>2. \A g \in Hashes : payer[g] \in Entry /\ Held(payer[g], g)
                              /\ payment[g] \in {"open", "sent"} => g \in taken
        BY <2>1, <3>2, RoundTakes
      <4>3. Release(Entry, taken)
        BY <3>2
      <4> HIDE DEF taken
      <4> QED BY <2>1, <2>2, <4>1, <4>2, <4>3, ReleaseMoves
    <3> QED BY <1>5, <3>1, <3>2 DEF RoundResolves
  <2>5. /\ snapshot' \subseteq Later /\ at' \in Hashes \cup {NoHash}
        /\ reused' = FALSE /\ at' \notin tasks
    BY <1>1, <2>1, AdvanceMoves
  <2> QED BY <1>0, <1>1, <2>1, <2>4, <2>5, MeltStepKeeps
<1> QED BY <1>3, <1>4, <1>5 DEF Reconciling

LEMMA RestartKeeps == IndInv /\ (Restart \/ UNCHANGED vars) => IndInv'
<1> USE DEF table, mints, memory, settings, source, melting, reservations, round
<1>1. ASSUME IndInv, Restart PROVE IndInv'
  <2>1. NoCall \in [k1 : Seq(Ids), outs : Seq(Ids), split : Nat, value : Nat]
    BY DEF NoCall
  <2>2. /\ \A p \in Payments : invoicing'[p] = NoId
        /\ \A c \in Calls : call'[c] = NoCall
        /\ tasks' = {} /\ snapshot' = {} /\ at' = NoHash /\ reused' = FALSE
        /\ UNCHANGED <<table, mints, source, reservations>>
    BY <1>1 DEF Restart, NoRound
  <2>3. TypeOK'
    BY <1>1, <2>1, <2>2 DEF Restart, IndInv, TypeOK
  <2>4. MintsWorth' /\ MintsOnce' /\ ReadsStand'
    BY <1>1, <2>2 DEF IndInv, MintsWorth, MintsOnce, ReadsStand
  <2> QED BY <1>1, <2>2, <2>3, <2>4
      DEF IndInv, MintNeverBricked, BurnedOnce, NotesWorth, MeltsHeld, Held
<1>2. ASSUME IndInv, UNCHANGED vars PROVE IndInv'
  BY <1>2 DEF vars, IndInv, TypeOK, MintNeverBricked, BurnedOnce, NotesWorth,
              MintsWorth, MintsOnce, ReadsStand, Fee, MeltsHeld, Held
<1> QED BY <1>1, <1>2

LEMMA StepIndInv == IndInv /\ [Next]_vars => IndInv'
  BY MintingKeeps, SwappingKeeps, WaitingKeeps, MeltingKeeps, ReconcilingKeeps,
     RestartKeeps DEF Next

-----------------------------------------------------------------------------
(* What no step does to a note on file.                                    *)

Keeps ==
  /\ burns \subseteq burns'
  /\ \A i \in Ids : note[i] # "none" =>
       /\ note'[i] # "none" /\ amount'[i] = amount[i]
       /\ note[i] = "spent" => note'[i] = "spent"

LEMMA RedeemKeepsNotes ==
  ASSUME IndInv, NEW k1, NEW outs, NEW split, NEW total,
         Asks(k1, outs, split, total), Redeem(k1, outs, split, total)
  PROVE  Keeps
<1> DEFINE values == Outputs(Len(k1), total, split)
<1>1. /\ Members(k1) \subseteq Ids
      /\ \A i \in Members(k1) : note[i] = "out"
      /\ \A i \in Members(outs) : note[i] = "none"
      /\ note' = [i \in Ids |-> IF i \in Members(k1) THEN "spent"
                                ELSE IF i \in Members(outs) THEN "out" ELSE note[i]]
      /\ \A i \in Ids \ Members(outs) : amount'[i] = amount[i]
      /\ burns' = burns \cup {[ids |-> Members(k1), outs |-> outs, amounts |-> values]}
  BY RedeemEffect
<1> HIDE DEF values
<1>2. burns \subseteq burns'
  BY <1>1
<1>3. \A i \in Ids : note[i] # "none" =>
        /\ note'[i] # "none" /\ amount'[i] = amount[i]
        /\ note[i] = "spent" => note'[i] = "spent"
  BY <1>1
<1> QED BY <1>2, <1>3 DEF Keeps

\* a melt or a round reserves, releases and burns notes, and makes none
LEMMA MeltsMakeNoNote ==
  ASSUME IndInv, Reconciling \/ \E h \in Hashes : Melting(h)
  PROVE  /\ UNCHANGED <<amount, burns, mints, memory, price, paid>>
         /\ \A i \in Ids : /\ note[i] # "none" => note'[i] # "none"
                           /\ note[i] = "spent" => note'[i] = "spent"
<1> USE DEF table, source, reservations
<1>1. ASSUME NEW h \in Hashes, Melting(h)
      PROVE  /\ UNCHANGED <<amount, burns, mints, memory, price, paid>>
             /\ \A i \in Ids : /\ note[i] # "none" => note'[i] # "none"
                               /\ note[i] = "spent" => note'[i] = "spent"
  <2>1. ASSUME NEW i \in Ids, MeltNote(i, h)
        PROVE  /\ UNCHANGED <<amount, burns, mints, memory, price, paid>>
               /\ \A j \in Ids : /\ note[j] # "none" => note'[j] # "none"
                                 /\ note[j] = "spent" => note'[j] = "spent"
    BY <2>1 DEF MeltNote, IndInv, TypeOK
  <2>2. CASE PaymentEnds(h) \/ TaskLeaves(h)
    BY <2>2 DEF PaymentEnds, TaskLeaves
  <2>3. CASE TaskResolves(h)
    BY <2>3 DEF TaskResolves, Burn, Release
  <2> QED BY <1>1, <2>1, <2>2, <2>3 DEF Melting
<1>2. CASE StartRound \/ RoundLeaves
  BY <1>2 DEF StartRound, RoundLeaves
<1>3. CASE RoundResolves
  BY <1>3 DEF RoundResolves, Burn, Release
<1> QED BY <1>1, <1>2, <1>3 DEF Reconciling

LEMMA StepKeepsNotes == IndInv /\ [Next]_vars => Keeps
<1> SUFFICES ASSUME IndInv, [Next]_vars PROVE Keeps
  OBVIOUS
<1>1. CASE UNCHANGED table
  BY <1>1 DEF table, Keeps
<1>2. ASSUME NEW p \in Payments, Minting(p) PROVE Keeps
  <2>1. CASE Settle(p)
    <3>1. /\ note[mintId[p]] = "none" /\ burns' = burns
          /\ note' = [note EXCEPT ![mintId[p]] = "out"]
          /\ amount' = [amount EXCEPT ![mintId[p]] = net[p]]
      BY <2>1 DEF Settle
    <3> QED BY <3>1 DEF Keeps, IndInv, TypeOK
  <2>2. CASE ~Settle(p)
    <3>1. UNCHANGED table
      BY <1>2, <2>2 DEF Minting, RequestInvoice, CreateMint, PayInvoice
    <3> QED BY <1>1, <3>1
  <2> QED BY <2>1, <2>2
<1>3. CASE Swapping
  BY <1>3, SwappingAsks, RedeemKeepsNotes
<1>4. ASSUME NEW c \in Calls, Waiting(c) PROVE Keeps
  <2>1. CASE NoteArrives(c)
    BY <2>1, ArrivalAsks, RedeemKeepsNotes
  <2>2. CASE ~NoteArrives(c)
    <3>1. UNCHANGED table
      BY <1>4, <2>2 DEF Waiting, AwaitNote, Refuse
    <3> QED BY <1>1, <3>1
  <2> QED BY <2>1, <2>2
<1>5. CASE Reconciling \/ \E h \in Hashes : Melting(h)
  BY <1>5, MeltsMakeNoNote DEF Keeps
<1>6. CASE Restart
  BY <1>1, <1>6 DEF Restart
<1>7. CASE UNCHANGED vars
  BY <1>1, <1>7 DEF vars
<1> QED BY <1>2, <1>3, <1>4, <1>5, <1>6, <1>7 DEF Next

-----------------------------------------------------------------------------
(* What the notes of a request are owed, and what a swap makes of it.      *)

\* what one note, or two, are worth together
ValueOf(f, s) == IF Len(s) = 1 THEN f[s[1]] ELSE f[s[1]] + f[s[2]]

LEMMA OwedWithoutOne ==
  ASSUME NEW S, IsFiniteSet(S), NEW f, \A i \in S : f[i] \in Int, NEW b \in Int,
         NEW x \in S
  PROVE  /\ IsFiniteSet(S \ {x}) /\ \A i \in S \ {x} : f[i] \in Int
         /\ Owed(f, S \ {x}, b) \in Int /\ f[x] \in Int
         /\ Owed(f, S, b) = Owed(f, S \ {x}, b) + f[x] + b
<1>1. IsFiniteSet(S \ {x})
  BY FS_RemoveElement
<1>2. \A y \in S : /\ Owed(f, S \ {y}, b) \in Int
                   /\ Owed(f, S, b) = Owed(f, S \ {y}, b) + f[y] + b
  BY OwedRemoves
<1> QED BY <1>1, <1>2

LEMMA OwedWithoutTwo ==
  ASSUME NEW S, IsFiniteSet(S), NEW f, \A i \in S : f[i] \in Int, NEW b \in Int,
         NEW x \in S, NEW y \in S, x # y, NEW two, two = S \ {x, y}
  PROVE  /\ IsFiniteSet(two) /\ Owed(f, two, b) \in Int
         /\ f[x] \in Int /\ f[y] \in Int
         /\ Owed(f, S, b) = Owed(f, two, b) + f[x] + f[y] + b + b
<1> DEFINE one == S \ {x}
<1>1. /\ IsFiniteSet(one) /\ \A i \in one : f[i] \in Int
      /\ Owed(f, one, b) \in Int /\ f[x] \in Int
      /\ Owed(f, S, b) = Owed(f, one, b) + f[x] + b
  BY OwedWithoutOne
<1>2. y \in one /\ one \ {y} = two
  OBVIOUS
<1> HIDE DEF one
<1>3. /\ IsFiniteSet(one \ {y}) /\ Owed(f, one \ {y}, b) \in Int /\ f[y] \in Int
      /\ Owed(f, one, b) = Owed(f, one \ {y}, b) + f[y] + b
  BY <1>1, <1>2, OwedWithoutOne
<1>4. /\ IsFiniteSet(two) /\ Owed(f, two, b) \in Int
      /\ Owed(f, one, b) = Owed(f, two, b) + f[y] + b
  BY <1>2, <1>3
<1>5. Owed(f, S, b) = Owed(f, two, b) + f[x] + f[y] + b + b
  BY <1>1, <1>3, <1>4
<1> QED BY <1>1, <1>3, <1>4, <1>5

LEMMA OwedWithout ==
  ASSUME NEW S, IsFiniteSet(S), NEW f, \A i \in S : f[i] \in Int, NEW b \in Int,
         NEW s \in Seq(S), Len(s) = 1 \/ Len(s) = 2, Distinct(s)
  PROVE  /\ IsFiniteSet(S \ Members(s))
         /\ Owed(f, S \ Members(s), b) \in Int /\ ValueOf(f, s) \in Int
         /\ Owed(f, S, b) = Owed(f, S \ Members(s), b) + ValueOf(f, s) + Len(s) * b
<1>1. CASE Len(s) = 1
  <2> DEFINE x == s[1]
  <2>1. x \in S /\ Members(s) = {x} /\ ValueOf(f, s) = f[x]
    <3>1. x \in S /\ DOMAIN s = {1}
      BY <1>1
    <3>2. Members(s) = {x}
      BY <3>1 DEF Members
    <3>3. ValueOf(f, s) = f[x]
      BY <1>1 DEF ValueOf
    <3> QED BY <3>1, <3>2, <3>3
  <2> HIDE DEF x
  <2>2. /\ IsFiniteSet(S \ {x}) /\ Owed(f, S \ {x}, b) \in Int /\ f[x] \in Int
        /\ Owed(f, S, b) = Owed(f, S \ {x}, b) + f[x] + b
    BY <2>1, OwedWithoutOne
  <2> QED BY <1>1, <2>1, <2>2
<1>2. CASE Len(s) = 2
  <2> DEFINE x == s[1]
             y == s[2]
             two == S \ Members(s)
  <2>1. /\ x \in S /\ y \in S /\ x # y /\ two = S \ {x, y}
        /\ ValueOf(f, s) = f[x] + f[y]
    <3>1. x \in S /\ y \in S /\ DOMAIN s = {1, 2}
      BY <1>2
    <3>2. Members(s) = {x, y}
      BY <3>1 DEF Members
    <3>3. x # y
      BY <3>1 DEF Distinct
    <3>4. ValueOf(f, s) = f[x] + f[y]
      BY <1>2 DEF ValueOf
    <3> QED BY <3>1, <3>2, <3>3, <3>4
  <2> HIDE DEF x, y, two
  <2>2. /\ IsFiniteSet(two) /\ Owed(f, two, b) \in Int
        /\ f[x] \in Int /\ f[y] \in Int
        /\ Owed(f, S, b) = Owed(f, two, b) + f[x] + f[y] + b + b
    BY <2>1, OwedWithoutTwo
  <2>3. Len(s) * b = b + b
    BY <1>2
  <2> QED BY <1>2, <2>1, <2>2, <2>3 DEF two
<1> QED BY <1>1, <1>2

\* rotate, split and merge: more is never owed than before
LEMMA RedeemOwes ==
  ASSUME IndInv, IsFiniteSet(Outstanding),
         NEW k1, NEW outs, NEW split, NEW total,
         Asks(k1, outs, split, total), Redeem(k1, outs, split, total)
  PROVE  /\ IsFiniteSet(Outstanding')
         /\ Owed(amount', Outstanding', baseFee) <= Owed(amount, Outstanding, baseFee)
<1> DEFINE values == Outputs(Len(k1), total, split)
           kept == Outstanding \ Members(k1)
<1>1. /\ Distinct(k1) /\ Distinct(outs)
      /\ Members(k1) \subseteq Ids /\ Members(outs) \subseteq Ids
      /\ \A i \in Members(k1) : note[i] = "out"
      /\ \A i \in Members(outs) : note[i] = "none"
      /\ note' = [i \in Ids |-> IF i \in Members(k1) THEN "spent"
                                ELSE IF i \in Members(outs) THEN "out" ELSE note[i]]
      /\ amount' \in [Ids -> Nat]
      /\ \A i \in Ids \ Members(outs) : amount'[i] = amount[i]
      /\ \A j \in DOMAIN outs : amount'[outs[j]] = values[j]
  BY RedeemEffect
<1>2. /\ Len(values) = Len(outs) /\ values \in Seq(Nat)
      /\ split > 0 => values[1] + values[2] = total - baseFee
      /\ ~(split > 0) => values[1] = total + (Len(k1) - 1) * baseFee
  BY OutputsWorth DEF IndInv, Redeem
<1> HIDE DEF values
<1>3. /\ k1 \in Seq(Ids) /\ outs \in Seq(Ids) /\ split \in Nat /\ total \in Nat
      /\ Len(outs) = (IF split > 0 THEN 2 ELSE 1) /\ Len(k1) \in {1, 2}
      /\ baseFee \in Nat
  BY NoteStoreAssumption DEF Asks, IndInv, TypeOK
<1>4. /\ Outstanding' = kept \cup Members(outs)
      /\ kept = Outstanding' \ Members(outs)
      /\ \A i \in Outstanding : amount[i] \in Int
      /\ \A i \in Outstanding' : amount'[i] \in Int
      /\ \A i \in kept : amount[i] = amount'[i]
  BY <1>1 DEF Outstanding, IndInv, TypeOK
<1>5. k1 \in Seq(Outstanding)
  <2>1. \A j \in DOMAIN k1 : k1[j] \in Outstanding
    BY <1>1, <1>3 DEF Members, Outstanding
  <2> HIDE DEF kept
  <2> QED BY <1>3, <2>1
<1>6. outs \in Seq(Outstanding')
  <2>1. \A j \in DOMAIN outs : outs[j] \in Outstanding'
    BY <1>4 DEF Members
  <2> QED BY <1>3, <2>1
<1>7. ValueOf(amount, k1) = total
  BY <1>3 DEF Asks, ValueOf
<1>8. ValueOf(amount', outs) = (IF split > 0 THEN values[1] + values[2] ELSE values[1])
  BY <1>1, <1>3 DEF ValueOf
<1>9. /\ IsFiniteSet(kept) /\ Owed(amount, kept, baseFee) \in Int
      /\ Owed(amount, Outstanding, baseFee)
           = Owed(amount, kept, baseFee) + total + Len(k1) * baseFee
  BY <1>1, <1>3, <1>4, <1>5, <1>7, OwedWithout
<1>10. IsFiniteSet(Outstanding')
  <2>1. Members(outs) = (IF split > 0 THEN {outs[1], outs[2]} ELSE {outs[1]})
    BY <1>3 DEF Members
  <2>2. IsFiniteSet(Members(outs))
    <3>1. IsFiniteSet({outs[1]}) /\ IsFiniteSet({outs[1]} \cup {outs[2]})
      BY FS_Singleton, FS_AddElement
    <3>2. {outs[1]} \cup {outs[2]} = {outs[1], outs[2]}
      OBVIOUS
    <3> QED BY <2>1, <3>1, <3>2
  <2> QED BY <1>4, <1>9, <2>2, FS_Union
<1>11. Owed(amount', Outstanding', baseFee)
         = Owed(amount', kept, baseFee) + ValueOf(amount', outs) + Len(outs) * baseFee
  <2> DEFINE after == Outstanding'
             worth == amount'
             b == baseFee
  <2>1. /\ IsFiniteSet(after) /\ outs \in Seq(after) /\ Distinct(outs)
        /\ \A i \in after : worth[i] \in Int
        /\ kept = after \ Members(outs) /\ (Len(outs) = 1 \/ Len(outs) = 2)
        /\ b \in Int
    BY <1>1, <1>3, <1>4, <1>6, <1>10
  <2> HIDE DEF after, kept, worth, b
  <2>2. Owed(worth, after, b)
          = Owed(worth, after \ Members(outs), b) + ValueOf(worth, outs) + Len(outs) * b
    BY <2>1, OwedWithout
  <2> QED BY <2>1, <2>2 DEF after, worth, b
<1>12. Owed(amount', kept, baseFee) = Owed(amount, kept, baseFee)
  <2> HIDE DEF kept
  <2> QED BY <1>4, <1>9, OwedReads
<1> DEFINE rest == Owed(amount, kept, baseFee)
<1>13. /\ rest \in Int
       /\ Owed(amount, Outstanding, baseFee) = rest + total + Len(k1) * baseFee
       /\ Owed(amount', Outstanding', baseFee)
            = rest + ValueOf(amount', outs) + Len(outs) * baseFee
  BY <1>9, <1>11, <1>12
<1> HIDE DEF rest
<1>14. CASE split > 0
  <2>1. Owed(amount', Outstanding', baseFee) = rest + (total - baseFee) + 2 * baseFee
    BY <1>2, <1>3, <1>8, <1>13, <1>14
  <2>2. Len(k1) * baseFee >= baseFee
    <3>1. 1 * baseFee >= baseFee /\ 2 * baseFee >= baseFee
      BY <1>3
    <3> QED BY <1>3, <3>1
  <2> QED BY <1>3, <1>10, <1>13, <2>1, <2>2
<1>15. CASE ~(split > 0)
  <2>1. Owed(amount', Outstanding', baseFee)
          = rest + (total + (Len(k1) - 1) * baseFee) + 1 * baseFee
    BY <1>2, <1>3, <1>8, <1>13, <1>15
  <2>2. (Len(k1) - 1) * baseFee + 1 * baseFee = Len(k1) * baseFee
    BY <1>3
  <2> QED BY <1>3, <1>10, <1>13, <2>1, <2>2
<1> QED BY <1>14, <1>15

\* the funds pay what is owed, and hold the payments that wait for a note
Holds(f, out, b, given, open, has) ==
  /\ IsFiniteSet(out) /\ IsFiniteSet(open)
  /\ has >= Owed(f, out, b) + Total(given, open)

Priced == \A p \in Payments : mint[p] = "unpaid" => price[p] >= net[p] + baseFee

\* Solvent as one statement about invoices and one about sums, which steps that
\* leave the sums' arguments alone keep without a look inside
LEMMA SolventSplits ==
  /\ Solvent <=> /\ Priced /\ IsFiniteSet(Gone)
                 /\ Holds(amount, Outstanding, baseFee, price, PaidOpen, Backing)
  /\ Solvent' <=> /\ Priced' /\ IsFiniteSet(Gone')
                  /\ Holds(amount, Outstanding, baseFee, price, PaidOpen, Backing)'
<1>1. Solvent <=> /\ Priced /\ IsFiniteSet(Gone)
                  /\ Holds(amount, Outstanding, baseFee, price, PaidOpen, Backing)
  BY DEF Solvent, Priced, Holds, Owed, Total, Liability
<1>2. Solvent' <=>
        (/\ Priced /\ IsFiniteSet(Gone)
         /\ Holds(amount, Outstanding, baseFee, price, PaidOpen, Backing))'
  BY <1>1, PTL
<1> QED BY <1>1, <1>2

LEMMA BackingSums ==
  Backing = funds + Total(due, Gone) /\ Backing' = funds' + Total(due', Gone')
<1>1. Backing = funds + Total(due, Gone)
  BY DEF Backing, Total
<1>2. (Backing = funds + Total(due, Gone))'
  BY <1>1, PTL
<1> QED BY <1>1, <1>2

LEMMA BackingTyped ==
  ASSUME IndInv, IsFiniteSet(Gone)
  PROVE  /\ \A h \in Gone : due[h] \in Nat
         /\ funds \in Int /\ Total(due, Gone) \in Int
         /\ Backing \in Int /\ Backing = funds + Total(due, Gone)
<1>1. funds \in Int /\ \A h \in Gone : due[h] \in Nat
  BY DEF IndInv, TypeOK, Gone
<1>2. Total(due, Gone) \in Int
  BY <1>1, TotalRemoves
<1> QED BY <1>1, <1>2, BackingSums

LEMMA SumsTyped ==
  ASSUME IndInv, Solvent
  PROVE  /\ IsFiniteSet(Outstanding) /\ IsFiniteSet(PaidOpen) /\ IsFiniteSet(Gone)
         /\ baseFee \in Nat /\ Backing \in Int
         /\ \A i \in Outstanding : amount[i] \in Nat
         /\ Owed(amount, Outstanding, baseFee) \in Int
         /\ \A p \in PaidOpen : price[p] \in Nat
         /\ Total(price, PaidOpen) \in Nat
<1>1. /\ IsFiniteSet(Outstanding) /\ IsFiniteSet(PaidOpen) /\ IsFiniteSet(Gone)
      /\ baseFee \in Nat
      /\ \A i \in Outstanding : amount[i] \in Nat
      /\ \A p \in PaidOpen : price[p] \in Nat
  BY NoteStoreAssumption DEF Solvent, IndInv, TypeOK, Outstanding, PaidOpen
<1>2. Owed(amount, Outstanding, baseFee) \in Int
  BY <1>1, OwedRemoves
<1>3. Total(price, PaidOpen) \in Nat
  BY <1>1, TotalNat
<1> QED BY <1>1, <1>2, <1>3, BackingTyped

\* requests that leave the melts alone, and reserved notes, move money only
LEMMA BackingStays ==
  ASSUME IndInv, Solvent, UNCHANGED reservations,
         \A i \in Ids : note'[i] = "pending" <=> note[i] = "pending",
         NEW n \in Int, funds' = funds + n
  PROVE  IsFiniteSet(Gone') /\ Backing' = Backing + n
<1>1. UNCHANGED <<heldFor, payer, due, payment, stray>>
  BY DEF reservations
<1>2. \A h \in Hashes : payment[h] = "sent" => (Held(payer[h], h)' <=> Held(payer[h], h))
  BY <1>1, Accounted DEF Held
<1>3. Gone' = Gone
  BY <1>1, <1>2 DEF Gone
<1>4. Backing' = funds' + Total(due, Gone)
  BY <1>1, <1>3, BackingSums
<1>5. IsFiniteSet(Gone)
  BY SumsTyped
<1>6. funds \in Int /\ Total(due, Gone) \in Int /\ Backing = funds + Total(due, Gone)
  BY <1>5, BackingTyped
<1> HIDE DEF Backing
<1>7. Backing' = Backing + n
  BY <1>4, <1>6
<1> QED BY <1>3, <1>5, <1>7

-----------------------------------------------------------------------------
(* Who takes money, who owes it: request by request.                       *)

LEMMA RedeemSolvent ==
  ASSUME IndInv, Solvent, NEW k1, NEW outs, NEW split, NEW total,
         Asks(k1, outs, split, total), Redeem(k1, outs, split, total),
         IndInv', UNCHANGED <<mints, settings, source, melting>>
  PROVE  Solvent'
<1>1. Priced /\ Holds(amount, Outstanding, baseFee, price, PaidOpen, Backing)
  BY SolventSplits
<1>2. /\ UNCHANGED <<baseFee, price, funds, mint, net>>
      /\ PaidOpen' = PaidOpen
  BY DEF mints, settings, source, PaidOpen
<1>3. /\ IsFiniteSet(Outstanding')
      /\ Owed(amount', Outstanding', baseFee) <= Owed(amount, Outstanding, baseFee)
  BY <1>1, RedeemOwes DEF Holds
<1>4. /\ Owed(amount, Outstanding, baseFee) \in Int /\ Total(price, PaidOpen) \in Nat
      /\ Backing \in Int /\ funds \in Int /\ baseFee \in Nat
  BY SumsTyped DEF IndInv, TypeOK
<1>9. IsFiniteSet(Gone') /\ Backing' = Backing
  <2>1. \A i \in Ids : note'[i] = "pending" <=> note[i] = "pending"
    BY RedeemEffect
  <2>2. funds' = funds + 0
    BY <1>2, <1>4
  <2>3. Backing' = Backing + 0 /\ IsFiniteSet(Gone')
    BY <2>1, <2>2, BackingStays DEF melting
  <2> QED BY <1>4, <2>3
<1>5. Owed(amount', Outstanding', baseFee) \in Int
  <2> DEFINE after == Outstanding'
             worth == amount'
  <2>1. IsFiniteSet(after) /\ \A i \in after : worth[i] \in Int
    BY <1>3 DEF IndInv, TypeOK, Outstanding
  <2> HIDE DEF after, worth
  <2>2. Owed(worth, after, baseFee) \in Int
    BY <1>4, <2>1, OwedRemoves
  <2> QED BY <2>2 DEF after, worth
<1>6. Holds(amount', Outstanding', baseFee, price, PaidOpen, Backing)
  BY <1>1, <1>3, <1>4, <1>5 DEF Holds
<1>7. Priced'
  BY <1>1, <1>2 DEF Priced
<1>8. Holds(amount, Outstanding, baseFee, price, PaidOpen, Backing)'
  BY <1>2, <1>6, <1>9
<1> QED BY <1>7, <1>8, <1>9, SolventSplits

\* a payment covers its note and the base fee of it, before and after it settles
LEMMA MintingSolvent ==
  ASSUME IndInv, Solvent, NEW p \in Payments, Minting(p), IndInv'
  PROVE  Solvent'
<1> USE DEF table, mints, settings, memory, source
<1>1. Priced /\ Holds(amount, Outstanding, baseFee, price, PaidOpen, Backing)
  BY SolventSplits
<1>2. /\ Owed(amount, Outstanding, baseFee) \in Int /\ Total(price, PaidOpen) \in Nat
      /\ Backing \in Int /\ funds \in Int /\ baseFee \in Nat /\ FeePpm \in Nat
      /\ IsFiniteSet(Outstanding) /\ IsFiniteSet(PaidOpen)
      /\ \A i \in Outstanding : amount[i] \in Int
      /\ \A q \in PaidOpen : price[q] \in Nat
  <2>1. funds \in Int /\ FeePpm \in Nat
    BY NoteStoreAssumption DEF IndInv, TypeOK
  <2> QED BY <2>1, SumsTyped
<1>7. ASSUME NEW n \in Int, funds' = funds + n
      PROVE  IsFiniteSet(Gone') /\ Backing' = Backing + n
  <2>1. UNCHANGED reservations
    BY DEF Minting, RequestInvoice, CreateMint, PayInvoice, Settle, melting
  <2>2. \A i \in Ids : note'[i] = "pending" <=> note[i] = "pending"
    <3>1. CASE UNCHANGED note
      BY <3>1
    <3>2. CASE Settle(p)
      BY <3>2 DEF Settle, IndInv, TypeOK
    <3> QED BY <3>1, <3>2 DEF Minting, RequestInvoice, CreateMint, PayInvoice
  <2> QED BY <1>7, <2>1, <2>2, BackingStays
<1>8. funds' = funds => IsFiniteSet(Gone') /\ Backing' = Backing
  <2>1. SUFFICES ASSUME funds' = funds PROVE IsFiniteSet(Gone') /\ Backing' = Backing
    OBVIOUS
  <2>2. funds' = funds + 0
    BY <1>2, <2>1
  <2>3. Backing' = Backing + 0 /\ IsFiniteSet(Gone')
    BY <1>7, <2>2
  <2> QED BY <1>2, <2>3
<1>3. ASSUME NEW i \in Ids, NEW gross \in Amounts, RequestInvoice(p, i, gross)
      PROVE  Solvent'
  <2>1. /\ price[p] = 0 /\ price' = [price EXCEPT ![p] = gross]
        /\ UNCHANGED <<table, mints, settings, paid, funds>>
    BY <1>3 DEF RequestInvoice
  <2>2. mint[p] = "none"
    BY <2>1 DEF IndInv, MintsOnce
  <2>3. /\ Outstanding' = Outstanding /\ PaidOpen' = PaidOpen
        /\ \A q \in PaidOpen : price[q] = price'[q]
    BY <2>1, <2>2 DEF Outstanding, PaidOpen, IndInv, TypeOK
  <2>4. Total(price', PaidOpen) = Total(price, PaidOpen)
    <3> DEFINE given == price'
               open == PaidOpen
    <3>1. IsFiniteSet(open) /\ \A q \in open : price[q] = given[q]
      BY <1>2, <2>3
    <3> HIDE DEF given, open
    <3>2. Total(price, open) = Total(given, open)
      BY <3>1, TotalReads
    <3> QED BY <3>2 DEF given, open
  <2>5. Holds(amount, Outstanding, baseFee, price', PaidOpen, Backing)
    BY <1>1, <2>4 DEF Holds
  <2>6. Holds(amount, Outstanding, baseFee, price, PaidOpen, Backing)'
    BY <1>8, <2>1, <2>3, <2>5
  <2>7. Priced'
    BY <1>1, <2>1, <2>2 DEF Priced, IndInv, TypeOK
  <2> QED BY <1>8, <2>1, <2>6, <2>7, SolventSplits
<1>4. CASE CreateMint(p)
  <2>1. /\ price[p] > 0 /\ NetOf(price[p], Fee) >= MinMint
        /\ mint[p] = "none" /\ ~paid[p]
        /\ UNCHANGED <<table, settings, source>>
    BY <1>4 DEF CreateMint, IndInv, MintsWorth, MintsOnce
  <2>2. \/ UNCHANGED mints
        \/ /\ mint' = [mint EXCEPT ![p] = "unpaid"]
           /\ net' = [net EXCEPT ![p] = NetOf(price[p], Fee)]
    BY <1>4 DEF CreateMint
  <2>3. Outstanding' = Outstanding /\ PaidOpen' = PaidOpen
    BY <2>1, <2>2 DEF Outstanding, PaidOpen, IndInv, TypeOK
  <2>4. Holds(amount, Outstanding, baseFee, price, PaidOpen, Backing)'
    BY <1>1, <1>8, <2>1, <2>3
  <2>5. Priced'
    <3>1. NetOf(price[p], Fee) + baseFee <= price[p]
      <4>1. price[p] \in Nat /\ Fee.baseFee = baseFee /\ Fee.feePpm \in Nat
        BY <1>2 DEF IndInv, TypeOK, Fee
      <4> QED BY <1>2, <4>1, FeeCoversBase
    <3> DEFINE value == NetOf(price[p], Fee)
    <3>2. /\ UNCHANGED <<price, baseFee>> /\ value + baseFee <= price[p]
          /\ \/ UNCHANGED mints
             \/ /\ mint' = [mint EXCEPT ![p] = "unpaid"]
                /\ net' = [net EXCEPT ![p] = value]
      BY <2>1, <2>2, <3>1
    <3> HIDE DEF value
    <3>3. value \in Int
      <4>1. price[p] \in Nat /\ Fee.baseFee \in Nat /\ Fee.feePpm \in Nat
        BY <1>2 DEF IndInv, TypeOK, Fee
      <4> QED BY <4>1, FeeCoversBase DEF value
    <3> QED BY <1>1, <1>2, <3>2, <3>3 DEF Priced, IndInv, TypeOK
  <2> QED BY <1>8, <2>1, <2>4, <2>5, SolventSplits
<1>5. CASE PayInvoice(p)
  <2>1. /\ mint[p] = "unpaid" /\ ~paid[p] /\ paid' = [paid EXCEPT ![p] = TRUE]
        /\ funds' = funds + price[p]
        /\ UNCHANGED <<table, mints, memory, price>>
    BY <1>5 DEF PayInvoice
  <2>2. Outstanding' = Outstanding /\ PaidOpen' = PaidOpen \cup {p}
    BY <2>1 DEF Outstanding, PaidOpen, IndInv, TypeOK
  <2>3. p \notin PaidOpen /\ price[p] \in Nat
    BY <2>1 DEF PaidOpen, IndInv, TypeOK
  <2>4. Total(price, PaidOpen \cup {p}) = Total(price, PaidOpen) + price[p]
    <3> DEFINE open == PaidOpen
    <3>1. /\ IsFiniteSet(open) /\ p \notin open
          /\ \A q \in open \cup {p} : price[q] \in Int
      BY <1>2, <2>3
    <3> HIDE DEF open
    <3>2. Total(price, open \cup {p}) = Total(price, open) + price[p]
      BY <3>1, TotalAdds
    <3> QED BY <3>2 DEF open
  <2>5. IsFiniteSet(PaidOpen \cup {p})
    BY <1>2, FS_AddElement
  <2>9. IsFiniteSet(Gone') /\ Backing' = Backing + price[p]
    BY <1>7, <2>1, <2>3
  <2>6. Holds(amount, Outstanding, baseFee, price, PaidOpen \cup {p}, Backing')
    BY <1>1, <1>2, <2>3, <2>4, <2>5, <2>9 DEF Holds
  <2>7. Holds(amount, Outstanding, baseFee, price, PaidOpen, Backing)'
    BY <2>1, <2>2, <2>6
  <2>8. Priced'
    BY <1>1, <2>1 DEF Priced
  <2> QED BY <2>7, <2>8, <2>9, SolventSplits
<1>6. CASE Settle(p)
  <2> DEFINE i == mintId[p]
             rest == PaidOpen \ {p}
  <2>1. /\ mint[p] = "unpaid" /\ paid[p] /\ note[i] = "none" /\ i \in Ids
        /\ mint' = [mint EXCEPT ![p] = "minted"]
        /\ note' = [note EXCEPT ![i] = "out"]
        /\ amount' = [amount EXCEPT ![i] = net[p]]
        /\ UNCHANGED <<net, memory, source>>
    BY <1>6 DEF Settle, IndInv, MintsWorth
  <2> HIDE DEF i
  <2>2. Outstanding' = Outstanding \cup {i} /\ PaidOpen' = rest
    BY <2>1 DEF Outstanding, PaidOpen, IndInv, TypeOK
  <2>3. /\ i \notin Outstanding /\ p \in PaidOpen /\ amount'[i] = net[p]
        /\ \A k \in Outstanding : amount[k] = amount'[k]
        /\ price[p] >= net[p] + baseFee /\ net[p] \in Nat /\ price[p] \in Nat
    BY <1>1, <2>1 DEF Outstanding, PaidOpen, Priced, IndInv, TypeOK
  <2>4. /\ IsFiniteSet(rest)
        /\ Total(price, rest) \in Int
        /\ Total(price, PaidOpen) = price[p] + Total(price, rest)
    <3>1. IsFiniteSet(rest) /\ \A q \in rest : price[q] \in Int
      BY <1>2, FS_RemoveElement
    <3>2. Total(price, rest) \in Int
      <4> HIDE DEF rest
      <4> QED BY <3>1, TotalRemoves
    <3>3. Total(price, PaidOpen) = price[p] + Total(price, PaidOpen \ {p})
      <4> DEFINE open == PaidOpen
      <4>1. IsFiniteSet(open) /\ p \in open /\ \A q \in open : price[q] \in Int
        BY <1>2, <2>3
      <4> HIDE DEF open
      <4>2. \A x \in open : Total(price, open) = price[x] + Total(price, open \ {x})
        BY <4>1, TotalRemoves
      <4>3. Total(price, open) = price[p] + Total(price, open \ {p})
        BY <4>1, <4>2
      <4> QED BY <4>3 DEF open
    <3> QED BY <3>1, <3>2, <3>3
  <2>5. /\ IsFiniteSet(Outstanding \cup {i})
        /\ Owed(amount', Outstanding \cup {i}, baseFee)
             = Owed(amount, Outstanding, baseFee) + net[p] + baseFee
    <3> DEFINE out == Outstanding
               worth == amount'
               b == baseFee
    <3>1. /\ IsFiniteSet(out) /\ i \notin out /\ b \in Int
          /\ worth[i] = net[p] /\ net[p] \in Int
          /\ \A k \in out : amount[k] = worth[k] /\ amount[k] \in Int
      BY <1>2, <2>3
    <3> HIDE DEF out, worth, b
    <3>2. \A k \in out \cup {i} : worth[k] \in Int
      BY <3>1
    <3>3. Owed(worth, out \cup {i}, b) = Owed(worth, out, b) + worth[i] + b
      BY <3>1, <3>2, OwedAdds
    <3>4. Owed(amount, out, b) = Owed(worth, out, b)
      BY <3>1, OwedReads
    <3>5. IsFiniteSet(out \cup {i})
      BY <3>1, FS_AddElement
    <3> QED BY <3>1, <3>3, <3>4, <3>5 DEF out, worth, b
  <2> HIDE DEF rest
  <2>6. Holds(amount', Outstanding \cup {i}, baseFee, price, rest, Backing)
    BY <1>1, <1>2, <2>3, <2>4, <2>5 DEF Holds
  <2>7. Holds(amount, Outstanding, baseFee, price, PaidOpen, Backing)'
    BY <1>8, <2>1, <2>2, <2>6
  <2>8. Priced'
    BY <1>1, <2>1 DEF Priced, IndInv, TypeOK
  <2> QED BY <1>8, <2>1, <2>7, <2>8, SolventSplits
<1> QED BY <1>3, <1>4, <1>5, <1>6 DEF Minting

\* a payment that goes out takes from the funds what its note is worth
LEMMA PaymentOwes ==
  ASSUME IndInv, Solvent, NEW h \in Hashes, PaymentEnds(h)
  PROVE  IsFiniteSet(Gone') /\ Backing' = Backing
<1>1. /\ payment[h] = "open"
      /\ UNCHANGED <<note, heldFor, payer, due, stray>>
  BY DEF PaymentEnds, table
<1>2. /\ IsFiniteSet(Gone) /\ funds \in Int /\ Total(due, Gone) \in Int
      /\ Backing = funds + Total(due, Gone) /\ Backing' = funds' + Total(due, Gone')
      /\ \A g \in Gone : due[g] \in Nat
  BY <1>1, SumsTyped, BackingTyped, BackingSums
<1>3. h \notin Gone /\ due[h] \in Nat
  BY <1>1 DEF Gone, IndInv, TypeOK
<1>4. CASE payment' = [payment EXCEPT ![h] = "sent"] /\ funds' = funds - due[h]
  <2>1. h \in stray \/ Held(payer[h], h)
    BY <1>1, Accounted
  <2>2. Gone' = Gone \cup {h}
    BY <1>1, <1>4, <2>1 DEF Gone, Held, IndInv, TypeOK
  <2>3. Total(due, Gone \cup {h}) = Total(due, Gone) + due[h]
    <3> DEFINE sent == Gone
    <3>1. IsFiniteSet(sent) /\ h \notin sent /\ \A g \in sent \cup {h} : due[g] \in Int
      BY <1>2, <1>3
    <3> HIDE DEF sent
    <3>2. Total(due, sent \cup {h}) = Total(due, sent) + due[h]
      BY <3>1, TotalAdds
    <3> QED BY <3>2 DEF sent
  <2>4. IsFiniteSet(Gone')
    BY <1>2, <2>2, FS_AddElement
  <2> HIDE DEF Backing
  <2>5. Backing' = (funds - due[h]) + (Total(due, Gone) + due[h])
    BY <1>2, <1>4, <2>2, <2>3
  <2> QED BY <1>2, <1>3, <2>4, <2>5
<1>5. CASE payment' = [payment EXCEPT ![h] = "failed"] /\ UNCHANGED funds
  <2>1. Gone' = Gone
    BY <1>1, <1>5 DEF Gone, Held, IndInv, TypeOK
  <2> QED BY <1>2, <1>5, <2>1
<1> QED BY <1>4, <1>5 DEF PaymentEnds

\* the payments that went out and have a note, or have lost it, once notes moved
LEMMA BurnGone ==
  ASSUME IndInv, NEW ns \in SUBSET Ids, NEW h \in Hashes, payment[h] = "sent",
         Burn(ns, h), UNCHANGED <<payer, payment>>
  PROVE  Gone' = IF payer[h] \in ns /\ note[payer[h]] # "spent"
                   THEN Gone \ {h} ELSE Gone
<1>1. /\ note' = [i \in Ids |-> IF i \in ns THEN "spent" ELSE note[i]]
      /\ heldFor' = [i \in Ids |-> IF i \in ns THEN NoHash ELSE heldFor[i]]
      /\ stray' = (stray \cup Others(ns, h))
                    \ {g \in {h} : payer[g] \in ns /\ note[payer[g]] # "spent"}
  BY DEF Burn
<1>2. ASSUME NEW g \in Hashes, payment[g] = "sent"
      PROVE  /\ g # h => (g \in Gone' <=> g \in Gone)
             /\ g = h => (g \in Gone' <=> g \in Gone /\ ~(payer[h] \in ns
                                                          /\ note[payer[h]] # "spent"))
  <2>1. payer[g] \in Ids
    BY <1>2, Accounted
  <2>2. Held(payer[g], g)' <=> Held(payer[g], g) /\ payer[g] \notin ns
    BY <1>1, <2>1 DEF Held
  <2>3. /\ g \in Gone' <=> g \in stray' \/ Held(payer[g], g)'
        /\ g \in Gone <=> g \in stray \/ Held(payer[g], g)
    BY <1>2 DEF Gone
  <2>4. g # h => (g \in stray' <=> \/ g \in stray
                                   \/ payer[g] \in ns /\ Held(payer[g], g))
    BY <1>1 DEF Others
  <2>5. g = h => (g \in stray' <=> /\ g \in stray
                                   /\ ~(payer[g] \in ns /\ note[payer[g]] # "spent"))
    BY <1>1 DEF Others
  <2>6. Held(payer[g], g) => note[payer[g]] # "spent"
    BY DEF Held
  <2> QED BY <2>2, <2>3, <2>4, <2>5, <2>6
<1>3. \A g \in Gone : g \in Hashes /\ payment[g] = "sent"
  BY DEF Gone
<1>4. \A g \in Gone' : g \in Hashes /\ payment[g] = "sent"
  BY DEF Gone
<1> QED BY <1>2, <1>3, <1>4

LEMMA ReleaseGone ==
  ASSUME IndInv, NEW ns \in SUBSET Ids, NEW taken \in SUBSET Hashes,
         \A g \in Hashes : payer[g] \in ns /\ Held(payer[g], g)
                           /\ payment[g] \in {"open", "sent"} => g \in taken,
         \A g \in taken : Held(payer[g], g),
         Release(ns, taken), UNCHANGED <<payer, payment>>
  PROVE  Gone' = Gone /\ Outstanding' = Outstanding
<1>1. /\ note' = [i \in Ids |-> IF i \in ns /\ note[i] = "pending" THEN "out" ELSE note[i]]
      /\ heldFor' = [i \in Ids |-> IF i \in ns THEN NoHash ELSE heldFor[i]]
      /\ stray' = stray \cup taken
  BY DEF Release
<1>2. ASSUME NEW g \in Hashes, payment[g] = "sent" PROVE g \in Gone' <=> g \in Gone
  <2>1. payer[g] \in Ids
    BY <1>2, Accounted
  <2>2. Held(payer[g], g)' <=> Held(payer[g], g) /\ payer[g] \notin ns
    BY <1>1, <2>1, NoteStoreAssumption DEF Held
  <2>3. /\ g \in Gone' <=> g \in stray' \/ Held(payer[g], g)'
        /\ g \in Gone <=> g \in stray \/ Held(payer[g], g)
    BY <1>2 DEF Gone
  <2> QED BY <1>1, <1>2, <2>2, <2>3
<1>3. Gone' = Gone
  <2>1. \A g \in Gone : g \in Hashes /\ payment[g] = "sent"
    BY DEF Gone
  <2>2. \A g \in Gone' : g \in Hashes /\ payment[g] = "sent"
    BY DEF Gone
  <2> QED BY <1>2, <2>1, <2>2
<1>4. Outstanding' = Outstanding
  BY <1>1 DEF Outstanding
<1> QED BY <1>3, <1>4

\* a burn stops owing its note, for the payment that was made for it
LEMMA BurnOwes ==
  ASSUME IndInv, Solvent, NEW ns \in SUBSET Ids, \A i \in ns : note[i] # "none",
         NEW h \in Hashes, payment[h] = "sent", Burn(ns, h),
         UNCHANGED <<payer, payment, due, funds>>
  PROVE  /\ IsFiniteSet(Outstanding') /\ IsFiniteSet(Gone')
         /\ Owed(amount, Outstanding', baseFee) \in Int /\ Backing' \in Int
         /\ Owed(amount, Outstanding', baseFee) + Backing
              <= Owed(amount, Outstanding, baseFee) + Backing'
<1> DEFINE x == payer[h]
           left == Outstanding \ ns
           f == amount
           out == Outstanding
           b == baseFee
<1>1. /\ IsFiniteSet(out) /\ IsFiniteSet(Gone) /\ b \in Nat
      /\ Owed(f, out, b) \in Int /\ \A i \in out : f[i] \in Nat
  BY SumsTyped
<1>2. /\ funds \in Int /\ Total(due, Gone) \in Int
      /\ Backing = funds + Total(due, Gone) /\ Backing' = funds + Total(due, Gone')
      /\ \A g \in Gone : due[g] \in Nat
  BY <1>1, BackingTyped, BackingSums
<1>3. Outstanding' = left
  BY DEF Burn, Outstanding
<1>4. Gone' = IF x \in ns /\ note[x] # "spent" THEN Gone \ {h} ELSE Gone
  BY BurnGone
<1>5. x \in ns /\ note[x] # "spent" =>
        x \in out /\ h \in Gone /\ due[h] = f[x]
  <2>1. x \in Ids /\ note[x] # "none" /\ x # NoId
    BY Accounted, NoteStoreAssumption
  <2>2. h \in stray \/ Held(x, h) \/ note[x] = "spent"
    BY Accounted
  <2>3. due[h] = f[x]
    BY <2>1 DEF IndInv, MeltsHeld
  <2> QED BY <2>1, <2>2, <2>3 DEF Gone, Outstanding, IndInv, TypeOK
<1> HIDE DEF x, f, out, b
<1>6. /\ IsFiniteSet(left) /\ Owed(f, left, b) \in Int
      /\ Owed(f, left, b) <= Owed(f, out, b)
  <2>1. left \in SUBSET out
    BY DEF out
  <2> HIDE DEF left
  <2> QED BY <1>1, <2>1, OwedShrinks
<1>7. CASE x \in ns /\ note[x] # "spent"
  <2> DEFINE others == out \ {x}
  <2>1. /\ IsFiniteSet(others) /\ \A i \in others : f[i] \in Nat
        /\ Owed(f, others, b) \in Int /\ f[x] \in Nat
        /\ Owed(f, out, b) = Owed(f, others, b) + f[x] + b
    <3>1. x \in out /\ b \in Int /\ \A i \in out : f[i] \in Int
      BY <1>1, <1>5, <1>7
    <3> QED BY <1>1, <3>1, OwedWithoutOne
  <2>2. left \in SUBSET others
    BY <1>7 DEF out
  <2>3. Owed(f, left, b) <= Owed(f, others, b)
    <3> HIDE DEF left, others
    <3> QED BY <1>1, <2>1, <2>2, OwedShrinks
  <2>4. /\ IsFiniteSet(Gone \ {h}) /\ Total(due, Gone \ {h}) \in Int
        /\ Total(due, Gone) = f[x] + Total(due, Gone \ {h})
    <3> DEFINE sent == Gone
    <3>1. IsFiniteSet(sent) /\ h \in sent /\ \A g \in sent : due[g] \in Int
      BY <1>1, <1>2, <1>5, <1>7
    <3> HIDE DEF sent
    <3>2. IsFiniteSet(sent \ {h}) /\ \A g \in sent \ {h} : due[g] \in Int
      BY <3>1, FS_RemoveElement
    <3>3. Total(due, sent \ {h}) \in Int
      BY <3>2, TotalRemoves
    <3>4. Total(due, sent) = due[h] + Total(due, sent \ {h})
      BY <3>1, TotalRemoves
    <3> QED BY <1>5, <1>7, <3>2, <3>3, <3>4 DEF sent
  <2>5. Backing' = funds + Total(due, Gone \ {h}) /\ IsFiniteSet(Gone')
    BY <1>2, <1>4, <1>7, <2>4
  <2> HIDE DEF left, others, Backing
  <2>6. Owed(f, left, b) + Backing <= Owed(f, out, b) + Backing' /\ Backing' \in Int
    BY <1>1, <1>2, <1>6, <2>1, <2>3, <2>4, <2>5
  <2> QED BY <1>3, <1>6, <2>5, <2>6 DEF f, out, b
<1>8. CASE ~(x \in ns /\ note[x] # "spent")
  <2>1. Gone' = Gone
    BY <1>4, <1>8
  <2>2. Backing' = Backing /\ Backing \in Int /\ IsFiniteSet(Gone')
    BY <1>1, <1>2, <2>1
  <2> HIDE DEF left, Backing
  <2>3. Owed(f, left, b) + Backing <= Owed(f, out, b) + Backing' /\ Backing' \in Int
    BY <1>1, <1>6, <2>2
  <2> QED BY <1>3, <1>6, <2>2, <2>3 DEF f, out, b
<1> QED BY <1>7, <1>8

\* what a melt or a round does to the sums
Balanced ==
  /\ IsFiniteSet(Outstanding') /\ IsFiniteSet(Gone')
  /\ Owed(amount, Outstanding', baseFee) \in Int /\ Backing' \in Int
  /\ Owed(amount, Outstanding', baseFee) + Backing
       <= Owed(amount, Outstanding, baseFee) + Backing'

LEMMA SameBalanced ==
  ASSUME IndInv, Solvent, Outstanding' = Outstanding, IsFiniteSet(Gone'),
         Backing' = Backing
  PROVE  Balanced
  BY SumsTyped DEF Balanced

LEMMA SameGone ==
  ASSUME IndInv, Solvent, Outstanding' = Outstanding, Gone' = Gone,
         UNCHANGED funds, \A h \in Gone : due'[h] = due[h]
  PROVE  Balanced
<1>1. IsFiniteSet(Gone)
  BY SumsTyped
<1>2. Total(due', Gone) = Total(due, Gone)
  <2> DEFINE after == due'
             sent == Gone
  <2>1. IsFiniteSet(sent) /\ \A h \in sent : after[h] = due[h]
    BY <1>1
  <2> HIDE DEF after, sent
  <2>2. Total(after, sent) = Total(due, sent)
    BY <2>1, TotalReads
  <2> QED BY <2>2 DEF after, sent
<1>3. Backing' = Backing
  BY <1>2, BackingSums
<1> QED BY <1>1, <1>3, SameBalanced

LEMMA MeltingBalanced ==
  ASSUME IndInv, Solvent, NEW h \in Hashes, Melting(h) PROVE Balanced
<1> USE DEF source, reservations
<1>1. ASSUME NEW i \in Ids, MeltNote(i, h) PROVE Balanced
  <2>1. /\ note[i] = "out" /\ payer[h] = NoId
        /\ note' = [note EXCEPT ![i] = "pending"] /\ heldFor' = [heldFor EXCEPT ![i] = h]
        /\ UNCHANGED <<funds, stray>>
    BY <1>1 DEF MeltNote
  <2>2. \A g \in Hashes \ {h} : /\ payer'[g] = payer[g] /\ due'[g] = due[g]
                                /\ payment'[g] = payment[g]
    BY <1>1 DEF MeltNote, IndInv, TypeOK
  <2>3. payment[h] = "none" /\ payment'[h] \in {"none", "open"}
    BY <1>1, <2>1, Accounted DEF MeltNote, IndInv, TypeOK
  <2>4. Outstanding' = Outstanding
    BY <2>1 DEF Outstanding, IndInv, TypeOK
  <2>5. ASSUME NEW g \in Hashes \ {h}, payment[g] = "sent"
        PROVE  Held(payer[g], g)' <=> Held(payer[g], g)
    <3>1. payer[g] \in Ids /\ payer'[g] = payer[g]
      BY <2>2, <2>5, Accounted
    <3>2. CASE payer[g] = i
      <4>1. ~Held(payer[g], g)
        BY <2>1, <3>2 DEF Held
      <4>2. heldFor'[payer'[g]] # g
        BY <2>1, <3>1, <3>2 DEF IndInv, TypeOK
      <4> QED BY <4>1, <4>2 DEF Held
    <3>3. CASE payer[g] # i
      BY <2>1, <3>1, <3>3 DEF Held
    <3> QED BY <3>2, <3>3
  <2>6. Gone' = Gone
    <3>1. \A g \in Hashes : g \in Gone' <=> g \in Gone
      BY <2>1, <2>2, <2>3, <2>5 DEF Gone
    <3>2. Gone \subseteq Hashes /\ Gone' \subseteq Hashes
      BY DEF Gone
    <3> QED BY <3>1, <3>2
  <2>7. \A g \in Gone : due'[g] = due[g]
    BY <2>2, <2>3 DEF Gone
  <2> QED BY <2>1, <2>4, <2>6, <2>7, SameGone
<1>2. CASE PaymentEnds(h)
  <2>1. Outstanding' = Outstanding
    BY <1>2 DEF PaymentEnds, table, Outstanding
  <2> QED BY <1>2, <2>1, PaymentOwes, SameBalanced
<1>3. CASE TaskResolves(h)
  <2>1. h \in tasks /\ UNCHANGED <<amount, funds, payer, due, payment>>
    BY <1>3 DEF TaskResolves
  <2> DEFINE ns == {payer[h]}
  <2>2. ns \in SUBSET Ids /\ \A i \in ns : note[i] # "none"
    BY <2>1, HeldOnFile
  <2>3. CASE payment[h] = "sent" /\ Burn(ns, h)
    <3> HIDE DEF ns
    <3> QED BY <2>1, <2>2, <2>3, BurnOwes DEF Balanced
  <2>4. CASE payment[h] = "failed" /\ Release(ns, Others(ns, h))
    <3>1. \A g \in Hashes : payer[g] \in ns /\ Held(payer[g], g)
                            /\ payment[g] \in {"open", "sent"} => g \in Others(ns, h)
      BY <2>1, <2>4, TaskTakes
    <3>2. Others(ns, h) \in SUBSET Hashes /\ \A g \in Others(ns, h) : Held(payer[g], g)
      BY DEF Others
    <3> HIDE DEF ns
    <3>3. Gone' = Gone /\ Outstanding' = Outstanding
      BY <2>1, <2>2, <2>4, <3>1, <3>2, ReleaseGone
    <3> QED BY <2>1, <3>3, SameGone
  <2> QED BY <1>3, <2>3, <2>4 DEF TaskResolves
<1>4. CASE TaskLeaves(h)
  <2>1. UNCHANGED <<note, funds, heldFor, payer, due, payment, stray>>
    BY <1>4 DEF TaskLeaves, table
  <2> QED BY <2>1, SameGone DEF Outstanding, Gone, Held
<1> QED BY <1>1, <1>2, <1>3, <1>4 DEF Melting

LEMMA ReconcilingBalanced ==
  ASSUME IndInv, Solvent, Reconciling PROVE Balanced
<1> USE DEF source, reservations
<1>1. CASE StartRound \/ RoundLeaves
  <2>1. UNCHANGED <<note, funds, heldFor, payer, due, payment, stray>>
    BY <1>1 DEF StartRound, RoundLeaves, table
  <2> QED BY <2>1, SameGone DEF Outstanding, Gone, Held
<1>2. CASE RoundResolves
  <2>1. /\ at # NoHash /\ at \in Hashes
        /\ UNCHANGED <<amount, funds, payer, due, payment>>
    BY <1>2 DEF RoundResolves, IndInv, TypeOK
  <2>2. Entry \in SUBSET Ids /\ \A i \in Entry : note[i] # "none"
    BY HeldOnFile
  <2>3. CASE payment[at] = "sent" /\ Burn(Entry, at)
    BY <2>1, <2>2, <2>3, BurnOwes DEF Balanced
  <2>4. CASE /\ AnswersUnpaid
             /\ Release(Entry, Others(Entry, IF reused THEN NoHash ELSE at))
    <3> DEFINE taken == Others(Entry, IF reused THEN NoHash ELSE at)
    <3>1. taken \in SUBSET Hashes /\ \A g \in taken : Held(payer[g], g)
      BY DEF Others
    <3>2. \A g \in Hashes : payer[g] \in Entry /\ Held(payer[g], g)
                            /\ payment[g] \in {"open", "sent"} => g \in taken
      BY <2>1, <2>4, RoundTakes
    <3>3. Release(Entry, taken)
      BY <2>4
    <3> HIDE DEF taken
    <3>4. Gone' = Gone /\ Outstanding' = Outstanding
      BY <2>1, <2>2, <3>1, <3>2, <3>3, ReleaseGone
    <3> QED BY <2>1, <3>4, SameGone
  <2> QED BY <1>2, <2>3, <2>4 DEF RoundResolves
<1> QED BY <1>1, <1>2 DEF Reconciling

\* a melt pays out what it stops owing, or what a stale round made it lose
LEMMA MeltingSolvent ==
  ASSUME IndInv, Solvent, Reconciling \/ \E h \in Hashes : Melting(h) PROVE Solvent'
<1>1. Priced /\ Holds(amount, Outstanding, baseFee, price, PaidOpen, Backing)
  BY SolventSplits
<1>2. /\ Owed(amount, Outstanding, baseFee) \in Int /\ Total(price, PaidOpen) \in Nat
      /\ Backing \in Int /\ IsFiniteSet(PaidOpen)
  BY SumsTyped
<1>3. Balanced
  BY MeltingBalanced, ReconcilingBalanced
<1>4. UNCHANGED <<amount, mint, net, baseFee, price, paid>> /\ PaidOpen' = PaidOpen
  BY MeltsMakeNoNote DEF mints, memory, settings, PaidOpen
<1>5. Priced'
  BY <1>1, <1>4 DEF Priced
<1>6. Holds(amount, Outstanding', baseFee, price, PaidOpen, Backing')
  BY <1>1, <1>2, <1>3 DEF Holds, Balanced
<1>7. Holds(amount, Outstanding, baseFee, price, PaidOpen, Backing)'
  BY <1>4, <1>6
<1> QED BY <1>3, <1>5, <1>7, SolventSplits DEF Balanced

\* requests that are lost owe nothing, and a lower base fee is owed less
LEMMA RestartSolvent ==
  ASSUME IndInv, Solvent, Restart, baseFee' <= baseFee, IndInv' PROVE Solvent'
<1>1. Priced /\ Holds(amount, Outstanding, baseFee, price, PaidOpen, Backing)
  BY SolventSplits
<1>2. /\ Owed(amount, Outstanding, baseFee) \in Int /\ Total(price, PaidOpen) \in Nat
      /\ Backing \in Int /\ funds \in Int /\ baseFee \in Nat
      /\ IsFiniteSet(Outstanding) /\ IsFiniteSet(PaidOpen)
      /\ \A k \in Outstanding : amount[k] \in Int
  BY SumsTyped DEF IndInv, TypeOK
<1>9. IsFiniteSet(Gone') /\ Backing' = Backing
  <2>1. UNCHANGED <<note, funds, reservations>>
    BY DEF Restart, table, source
  <2>2. funds' = funds + 0
    BY <1>2, <2>1
  <2>3. IsFiniteSet(Gone') /\ Backing' = Backing + 0
    BY <2>1, <2>2, BackingStays
  <2> QED BY <1>2, <2>3
<1>3. /\ UNCHANGED <<note, amount, mint, net, price, paid, funds>>
      /\ baseFee' \in Nat
  BY NoteStoreAssumption DEF Restart, table, mints, source
<1>4. Outstanding' = Outstanding /\ PaidOpen' = PaidOpen
  BY <1>3 DEF Outstanding, PaidOpen
<1>5. /\ Owed(amount, Outstanding, baseFee') \in Int
      /\ Owed(amount, Outstanding, baseFee') <= Owed(amount, Outstanding, baseFee)
  <2> DEFINE out == Outstanding
             b == baseFee
             c == baseFee'
  <2>1. /\ IsFiniteSet(out) /\ \A k \in out : amount[k] \in Int
        /\ b \in Int /\ c \in Int /\ c <= b
    BY <1>2, <1>3
  <2> HIDE DEF out, b, c
  <2>2. Owed(amount, out, c) \in Int /\ Owed(amount, out, c) <= Owed(amount, out, b)
    BY <2>1, OwedRemoves, OwedFalls
  <2> QED BY <2>2 DEF out, b, c
<1>6. Holds(amount, Outstanding, baseFee', price, PaidOpen, Backing)
  BY <1>1, <1>2, <1>5 DEF Holds
<1>7. Holds(amount, Outstanding, baseFee, price, PaidOpen, Backing)'
  BY <1>3, <1>4, <1>6, <1>9
<1>8. Priced'
  BY <1>1, <1>2, <1>3 DEF Priced, IndInv, TypeOK
<1> QED BY <1>7, <1>8, <1>9, SolventSplits

LEMMA SameSolvent ==
  ASSUME IndInv, Solvent, UNCHANGED <<table, mints, settings, source, reservations>>
  PROVE  Solvent'
<1>1. /\ Priced /\ IsFiniteSet(Gone)
      /\ Holds(amount, Outstanding, baseFee, price, PaidOpen, Backing)
  BY SolventSplits
<1>2. /\ UNCHANGED <<note, amount, baseFee, price, mint, net, funds>>
      /\ Outstanding' = Outstanding /\ PaidOpen' = PaidOpen
  BY DEF table, mints, settings, source, Outstanding, PaidOpen
<1>3. Gone' = Gone /\ Total(due', Gone') = Total(due, Gone)
  BY <1>2 DEF reservations, Gone, Held
<1>4. Backing' = Backing
  BY <1>2, <1>3, BackingSums
<1>5. Priced' /\ Holds(amount, Outstanding, baseFee, price, PaidOpen, Backing)'
  BY <1>1, <1>2, <1>4 DEF Priced
<1> QED BY <1>1, <1>3, <1>5, SolventSplits

LEMMA InitSolvent == Init => Solvent
<1> SUFFICES ASSUME Init PROVE Solvent
  OBVIOUS
<1>1. Outstanding = {} /\ PaidOpen = {} /\ Gone = {} /\ funds = 0 /\ baseFee \in Nat
  BY NoteStoreAssumption DEF Init, Outstanding, PaidOpen, Gone
<1>2. Owed(amount, {}, baseFee) = 0
  BY <1>1, OwedEmpties
<1>3. Total(price, {}) = 0 /\ Total(due, {}) = 0
  BY TotalUnfolds, FS_EmptySet
<1>4. Backing = 0
  BY <1>1, <1>3, BackingSums
<1>5. Holds(amount, Outstanding, baseFee, price, PaidOpen, Backing)
  BY <1>1, <1>2, <1>3, <1>4, FS_EmptySet DEF Holds
<1>6. Priced
  BY DEF Init, Priced
<1> QED BY <1>1, <1>5, <1>6, SolventSplits, FS_EmptySet

LEMMA SolventCovers == IndInv /\ Solvent => Covered
<1> SUFFICES ASSUME IndInv, Solvent PROVE Covered
  OBVIOUS
<1>1. Backing >= Owed(amount, Outstanding, baseFee) + Total(price, PaidOpen)
  BY SolventSplits DEF Holds
<1>2. /\ Owed(amount, Outstanding, baseFee) \in Int /\ Total(price, PaidOpen) \in Nat
      /\ Backing \in Int
  BY SumsTyped
<1>3. Backing >= Owed(amount, Outstanding, baseFee)
  BY <1>1, <1>2
<1> QED BY <1>3 DEF Owed, Total, Covered, Liability

LEMMA StepSolvent ==
  IndInv /\ Solvent /\ [Next]_vars /\ [baseFee' <= baseFee]_vars => Solvent'
<1> SUFFICES ASSUME IndInv, Solvent, [Next]_vars, [baseFee' <= baseFee]_vars
             PROVE  Solvent'
  OBVIOUS
<1>1. IndInv'
  BY StepIndInv
<1>2. ASSUME NEW p \in Payments, Minting(p) PROVE Solvent'
  BY <1>1, <1>2, MintingSolvent
<1>3. CASE Swapping
  <2>1. PICK k1, outs, split, total :
          Asks(k1, outs, split, total) /\ Redeem(k1, outs, split, total)
    BY <1>3, SwappingAsks
  <2>2. UNCHANGED <<mints, settings, source, melting>>
    BY <1>3 DEF Swapping, memory
  <2> QED BY <1>1, <2>1, <2>2, RedeemSolvent
<1>4. ASSUME NEW c \in Calls, Waiting(c) PROVE Solvent'
  <2>1. CASE NoteArrives(c)
    BY <1>1, <2>1, ArrivalAsks, RedeemSolvent DEF NoteArrives
  <2>2. CASE ~NoteArrives(c)
    <3>1. UNCHANGED <<table, mints, settings, source, reservations>>
      BY <1>4, <2>2 DEF Waiting, AwaitNote, Refuse, melting
    <3> QED BY <3>1, SameSolvent
  <2> QED BY <2>1, <2>2
<1>5. CASE Reconciling \/ \E h \in Hashes : Melting(h)
  BY <1>5, MeltingSolvent
<1>6. CASE Restart
  <2>1. CASE UNCHANGED vars
    BY <2>1, SameSolvent DEF vars, memory, melting
  <2>2. CASE baseFee' <= baseFee
    BY <1>1, <1>6, <2>2, RestartSolvent
  <2> QED BY <2>1, <2>2
<1>7. CASE UNCHANGED vars
  BY <1>7, SameSolvent DEF vars, memory, melting
<1> QED BY <1>2, <1>3, <1>4, <1>5, <1>6, <1>7 DEF Next

-----------------------------------------------------------------------------

\* In every reachable state of every instance, with any settings config.py
\* takes, a minimum of 0 included: the tables are well formed, an open invoice
\* credits at least the minimum, what a waiting request read of its first note
\* still stands, and every payment of a melt is accounted for.
THEOREM LedgerIndInv == Spec => []IndInv
  BY InitIndInv, StepIndInv, PTL DEF Spec

\* No request, however it is split, merged, melted or delayed, no reconcile
\* round and no change of the settings writes a row that is not one: no value
\* falls below zero, also a split's change after the base fee was taken off
\* it, and no live melt is without its row.
THEOREM LedgerTyped == Spec => []TypeOK
<1>1. IndInv => TypeOK
  BY DEF IndInv
<1> QED BY <1>1, LedgerIndInv, PTL

\* With a minimum above 0 every note is worth something.  With a minimum of 0
\* a payment of just the fee mints a note for nothing; then still no split
\* leaves one, and a rotate or a merge makes one out of such notes only.
THEOREM NotesAlwaysWorth == Spec => []NotesWorth
<1>1. IndInv => NotesWorth
  BY DEF IndInv
<1> QED BY <1>1, LedgerIndInv, PTL

\* An invoice that may still settle names an id that no note has and no other
\* invoice will credit: settle_mint's INSERT never fails on a paid invoice.
THEOREM PaidMintBecomesNote == Spec => []MintNeverBricked
<1>1. IndInv => MintNeverBricked
  BY DEF IndInv
<1> QED BY <1>1, LedgerIndInv, PTL

\* Recorded burns are disjoint, what they burned stays spent, and what they
\* made is on file at the recorded value, also when a request's notes moved
\* while it waited.
THEOREM NoNoteBurnedTwice == Spec => []BurnedOnce
<1>1. IndInv => BurnedOnce
  BY DEF IndInv
<1> QED BY <1>1, LedgerIndInv, PTL

\* What a bearer holds is his until he spends it, whatever settles, swaps or
\* melts: his note keeps its value and a spent one stays spent, and the burn
\* that answers a retry is never forgotten.
THEOREM NotesAreBearers == Spec => BearersKeep
<1>1. IndInv /\ [Next]_vars => [Keeps]_vars
  BY StepKeepsNotes
<1>2. Spec => [][Keeps]_vars
  BY <1>1, LedgerIndInv, PTL DEF Spec
<1> QED BY <1>2 DEF BearersKeep, Keeps

\* As long as the operator never raises the base fee, whatever is minted,
\* rotated, split, merged and melted in whatever order, and whatever tasks and
\* reconcile rounds, however stale, do to reserved notes: the funds pay every
\* note, its base fee, and every payment that has no note yet, but for the
\* payments that went out and whose notes are not burned for them.
THEOREM LedgerSolvent == Spec /\ FeeNeverRaised => []Solvent
<1>1. Init => Solvent
  BY InitSolvent
<1>2. Spec => []IndInv
  BY LedgerIndInv
<1> QED BY <1>1, <1>2, StepSolvent, PTL DEF Spec, FeeNeverRaised

\* So a merge never gives back what was not collected, and the mint owes its
\* bearers more than it holds only by the payments of reserved notes, which
\* are burned next, and by those whose note a stale round released.
THEOREM NotesAlwaysCovered == Spec /\ FeeNeverRaised => []Covered
<1>1. IndInv /\ Solvent => Covered
  BY SolventCovers
<1> QED BY <1>1, LedgerIndInv, LedgerSolvent, PTL

=============================================================================
