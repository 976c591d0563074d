--------------------------- MODULE AddressesProofs ---------------------------
(***************************************************************************)
(* Registered addresses, for any number of names, shares, fee invoices and *)
(* payments: the invariant IndInv of Addresses, which says that a share    *)
(* whose registration waits for its fee is accepted but on no name, and    *)
(* with it that names are promised once, proofs apply once, fees are kept  *)
(* only after their hold lapsed, and no index is left unused.              *)
(***************************************************************************)
EXTENDS Addresses, Lemmas

\* the index that a claim takes: on file from now on, like all below it
LEMMA ClaimsNext ==
  ASSUME TypeOK, NEW n \in Names, Free(n) # {}
  PROVE  /\ Min(Free(n)) \in Indexes
         /\ \A i \in Indexes :
              i >= next[n] /\ i < Min(Free(n)) => <<share[n], i>> \in used
<1>1. Free(n) \in SUBSET Nat
  BY DEF Free, Indexes
<1>2. Min(Free(n)) \in Free(n) /\ \A y \in Free(n) : Min(Free(n)) <= y
  BY <1>1, MinIsLeast
<1> DEFINE least == Min(Free(n))
<1> HIDE DEF least
<1>3. least \in Free(n) /\ \A y \in Free(n) : least <= y
  BY <1>2 DEF least
<1>4. ASSUME NEW i \in Indexes, i >= next[n], i < least
      PROVE  <<share[n], i>> \in used
  <2>1. i \notin Free(n)
    BY <1>1, <1>3, <1>4 DEF Indexes
  <2> QED BY <1>4, <2>1 DEF Free
<1> QED BY <1>3, <1>4 DEF Free, least

LEMMA ClaimKeeps ==
  ASSUME TypeOK, NoGap, NEW n \in Names, Registered(n), Free(n) # {},
         Claim(n), UNCHANGED share
  PROVE  /\ next' \in [Names -> 0..(LastIndex + 1)]
         /\ used' \subseteq Shares \X Indexes
         /\ NoGap'
<1> DEFINE least == Min(Free(n))
<1>1. least \in Indexes /\ \A i \in Indexes :
        i >= next[n] /\ i < least => <<share[n], i>> \in used
  BY ClaimsNext
<1> HIDE DEF least
<1>2. /\ used' = used \cup {<<share[n], least>>}
      /\ next' = [next EXCEPT ![n] = least + 1]
  BY DEF Claim, least
<1>3. next' \in [Names -> 0..(LastIndex + 1)]
  BY <1>1, <1>2, AddressesAssumption DEF TypeOK, Indexes
<1>4. used' \subseteq Shares \X Indexes
  BY <1>1, <1>2 DEF TypeOK, Registered
<1>5. NoGap'
  BY <1>1, <1>2, AddressesAssumption DEF NoGap, TypeOK, Registered, Indexes
<1> QED BY <1>3, <1>4, <1>5

LEMMA InitIndInv == Init => IndInv
  BY AddressesAssumption
  DEF Init, IndInv, TypeOK, UsesAccepted, HoldsAccepted, HoldsApart, MintsNamed,
      NoRival, ProofAppliesOnce, KeptOnlyIfLapsed, NoGap, Registered, Holds,
      NoHold, Indexes

-----------------------------------------------------------------------------
(* Putting a share on a name, with its hold, if it had one, gone.          *)

LEMMA PutOnKeeps ==
  ASSUME IndInv, NEW n \in Names, NEW s \in Shares, PutOn(n, s),
         uses[s] = 0, s \in accepted'
  PROVE  /\ share' \in [Names -> Shares \cup {NoShare}]
         /\ next' \in [Names -> 0..(LastIndex + 1)]
         /\ uses' \in [Shares -> Nat]
         /\ ProofAppliesOnce'
         /\ accepted \subseteq accepted' => UsesAccepted'
         /\ used' = used => NoGap'
<1> USE AddressesAssumption DEF IndInv, TypeOK, PutOn
<1>1. /\ share' \in [Names -> Shares \cup {NoShare}]
      /\ next' \in [Names -> 0..(LastIndex + 1)]
      /\ uses' \in [Shares -> Nat]
  OBVIOUS
<1>2. ProofAppliesOnce'
  BY DEF ProofAppliesOnce
<1>3. accepted \subseteq accepted' => UsesAccepted'
  BY DEF UsesAccepted
<1>4. used' = used => NoGap'
  BY DEF NoGap, Registered, Indexes
<1> QED BY <1>1, <1>2, <1>3, <1>4

LEMMA OwningPreserves == IndInv /\ Owning => IndInv'
<1> SUFFICES ASSUME IndInv, Owning PROVE IndInv'
  OBVIOUS
<1> USE AddressesAssumption DEF fees, mints, waiting, source, history
<1>1. ASSUME NEW n \in Names, NEW s \in Shares, Register(n, s) \/ Update(n, s)
      PROVE  IndInv'
  <2>1. PutOn(n, s) /\ s \notin accepted /\ accepted' = accepted \cup {s}
    BY <1>1 DEF Register, Update
  <2>2. UNCHANGED <<fees, mints, used, waiting, charging, source, outcome>>
    BY <1>1 DEF Register, Update
  <2>3. uses[s] = 0
    BY <2>1 DEF IndInv, UsesAccepted, TypeOK
  <2>4. /\ share' \in [Names -> Shares \cup {NoShare}]
        /\ next' \in [Names -> 0..(LastIndex + 1)]
        /\ uses' \in [Shares -> Nat]
        /\ ProofAppliesOnce' /\ UsesAccepted' /\ NoGap'
    BY <2>1, <2>2, <2>3, PutOnKeeps
  <2>5. TypeOK'
    BY <2>1, <2>2, <2>4 DEF IndInv, TypeOK, Indexes, NoHold
  <2>6. HoldsAccepted'
    BY <2>1, <2>2 DEF IndInv, HoldsAccepted, PutOn, TypeOK
  <2>7. NoRival'
    <3>1. Holds(n) = {}
      BY <1>1 DEF IndInv, NoRival, Register, Update, Taken
    <3> QED BY <2>1, <2>2, <3>1
        DEF IndInv, NoRival, PutOn, Registered, Holds, TypeOK
  <2>8. HoldsApart' /\ MintsNamed' /\ KeptOnlyIfLapsed'
    BY <2>2 DEF IndInv, HoldsApart, MintsNamed, KeptOnlyIfLapsed
  <2> QED BY <2>4, <2>5, <2>6, <2>7, <2>8 DEF IndInv
<1>2. ASSUME NEW n \in Names, Delete(n) PROVE IndInv'
  BY <1>2
  DEF Delete, IndInv, TypeOK, UsesAccepted, HoldsAccepted, HoldsApart,
      MintsNamed, NoRival, ProofAppliesOnce, KeptOnlyIfLapsed, NoGap,
      Registered, Holds, Indexes, NoHold
<1> QED BY <1>1, <1>2 DEF Owning

-----------------------------------------------------------------------------
(* The address fee.                                                        *)

LEMMA HoldPreserves ==
  ASSUME IndInv, NEW f \in Fees, Hold(f) PROVE IndInv'
<1> DEFINE h == holding[f]
<1> USE AddressesAssumption DEF fees, mints, source, history
<1>1. h \in [name : Names, share : Shares]
  BY DEF IndInv, TypeOK, Hold, NoHold
<1>2. CASE Taken(h.name) \/ h.share \in accepted
  <2>1. /\ holding' = [holding EXCEPT ![f] = NoHold]
        /\ UNCHANGED <<accepted, fees, share, next, mints, used, invoicing,
                       charging, source, history>>
    BY <1>2 DEF Hold
  <2> QED BY <2>1
      DEF IndInv, TypeOK, UsesAccepted, HoldsAccepted, HoldsApart, MintsNamed,
          NoRival, ProofAppliesOnce, KeptOnlyIfLapsed, NoGap, Registered, Holds,
          Indexes, NoHold
<1>3. CASE ~(Taken(h.name) \/ h.share \in accepted)
  <2>1. /\ holding' = [holding EXCEPT ![f] = NoHold]
        /\ accepted' = accepted \cup {h.share}
        /\ feeName' = [feeName EXCEPT ![f] = h.name]
        /\ feeShare' = [feeShare EXCEPT ![f] = h.share]
        /\ fee' = [fee EXCEPT ![f] = "unpaid"]
        /\ UNCHANGED <<age, share, next, mints, used, invoicing, charging,
                       source, history>>
    BY <1>3 DEF Hold
  <2> HIDE DEF h
  <2>2. h.name \in Names /\ h.share \in Shares \ accepted /\ uses[h.share] = 0
    BY <1>1, <1>3 DEF IndInv, UsesAccepted, TypeOK
  <2>3. TypeOK'
    BY <2>1, <2>2 DEF IndInv, TypeOK, NoHold, Indexes
  <2>4. UsesAccepted' /\ HoldsAccepted' /\ HoldsApart'
    BY <2>1, <2>2 DEF IndInv, TypeOK, UsesAccepted, HoldsAccepted, HoldsApart
  <2>5. NoRival'
    <3>1. Holds(h.name) = {} /\ ~Registered(h.name)
      BY <1>3 DEF Taken
    <3> QED BY <2>1, <2>2, <3>1 DEF IndInv, TypeOK, NoRival, Registered, Holds
  <2>6. MintsNamed' /\ ProofAppliesOnce' /\ KeptOnlyIfLapsed' /\ NoGap'
    BY <2>1
    DEF IndInv, MintsNamed, ProofAppliesOnce, KeptOnlyIfLapsed, NoGap, Registered
  <2> QED BY <2>3, <2>4, <2>5, <2>6 DEF IndInv
<1> QED BY <1>2, <1>3

\* a fee that is paid is registered, or kept if that is not possible any more
LEMMA FeePaidPreserves ==
  ASSUME IndInv, NEW f \in Fees, SettleFee(f) \/ MeltIntoFee(f) PROVE IndInv'
<1> USE AddressesAssumption DEF mints, waiting, source
<1> DEFINE n == feeName[f]
           s == feeShare[f]
<1>1. /\ fee[f] = "unpaid" /\ fee' = [fee EXCEPT ![f] = "paid"]
      /\ UNCHANGED <<accepted, feeName, feeShare, age, mints, used, waiting,
                     charging, source>>
  BY DEF SettleFee, MeltIntoFee
<1>2. n \in Names /\ s \in accepted /\ s \in Shares /\ uses[s] = 0
  BY <1>1 DEF IndInv, HoldsAccepted, TypeOK
<1>3. HoldsApart' /\ MintsNamed'
  BY <1>1 DEF IndInv, HoldsApart, MintsNamed, TypeOK
<1>4. CASE InTheWay(f)
  <2>1. outcome' = [outcome EXCEPT ![f] = "kept"] /\ UNCHANGED <<share, next, uses>>
    BY <1>4 DEF SettleFee, MeltIntoFee
  <2>2. age[f] # "fresh"
    <3>1. age[f] = "fresh" => f \in Holds(n)
      BY <1>1 DEF Holds
    <3> QED BY <1>2, <1>4, <3>1 DEF InTheWay, IndInv, NoRival
  <2>3. TypeOK' /\ UsesAccepted' /\ HoldsAccepted' /\ ProofAppliesOnce' /\ NoGap'
    BY <1>1, <2>1
    DEF IndInv, TypeOK, UsesAccepted, HoldsAccepted, ProofAppliesOnce, NoGap,
        Registered, Indexes, NoHold
  <2>4. NoRival'
    BY <1>1, <2>1 DEF IndInv, TypeOK, NoRival, Registered, Holds
  <2>5. KeptOnlyIfLapsed'
    BY <1>1, <2>1, <2>2 DEF IndInv, TypeOK, KeptOnlyIfLapsed
  <2> QED BY <1>3, <2>3, <2>4, <2>5 DEF IndInv
<1>5. CASE ~InTheWay(f)
  <2>1. PICK o \in {"registered", "melted"} : outcome' = [outcome EXCEPT ![f] = o]
    BY <1>5 DEF SettleFee, MeltIntoFee
  <2>2. PutOn(n, s)
    BY <1>5 DEF SettleFee, MeltIntoFee
  <2> HIDE DEF n, s
  <2>3. /\ share' \in [Names -> Shares \cup {NoShare}]
        /\ next' \in [Names -> 0..(LastIndex + 1)]
        /\ uses' \in [Shares -> Nat]
        /\ ProofAppliesOnce' /\ UsesAccepted' /\ NoGap'
    BY <1>1, <1>2, <2>2, PutOnKeeps
  <2>4. TypeOK'
    BY <1>1, <2>1, <2>3 DEF IndInv, TypeOK, Indexes, NoHold
  <2>5. HoldsAccepted'
    BY <1>1, <1>2, <2>2 DEF IndInv, TypeOK, HoldsAccepted, HoldsApart, PutOn, s
  <2>6. NoRival'
    <3>1. Holds(n) \subseteq {f}
      BY <1>5 DEF InTheWay, n
    <3> QED BY <1>1, <1>2, <2>2, <3>1
        DEF IndInv, TypeOK, NoRival, Registered, Holds, PutOn
  <2>7. KeptOnlyIfLapsed'
    BY <1>1, <2>1 DEF IndInv, TypeOK, KeptOnlyIfLapsed
  <2> QED BY <1>3, <2>3, <2>4, <2>5, <2>6, <2>7 DEF IndInv
<1> QED BY <1>4, <1>5

LEMMA ChargingPreserves ==
  ASSUME IndInv, NEW f \in Fees, Charging(f) PROVE IndInv'
<1> USE AddressesAssumption DEF usernames, fees, mints, waiting, source, history
<1>1. ASSUME NEW n \in Names, NEW s \in Shares, RequestHold(f, n, s)
      PROVE  IndInv'
  BY <1>1
  DEF RequestHold, IndInv, TypeOK, UsesAccepted, HoldsAccepted, HoldsApart,
      MintsNamed, NoRival, ProofAppliesOnce, KeptOnlyIfLapsed, NoGap,
      Registered, Holds, Indexes, NoHold
<1>2. CASE Ages(f)
  BY <1>2
  DEF Ages, IndInv, TypeOK, UsesAccepted, HoldsAccepted, HoldsApart,
      MintsNamed, NoRival, ProofAppliesOnce, KeptOnlyIfLapsed, NoGap,
      Registered, Holds, Indexes, NoHold
<1>3. CASE PayFee(f)
  BY <1>3
  DEF PayFee, IndInv, TypeOK, UsesAccepted, HoldsAccepted, HoldsApart,
      MintsNamed, NoRival, ProofAppliesOnce, KeptOnlyIfLapsed, NoGap,
      Registered, Holds, Indexes, NoHold
<1> QED BY <1>1, <1>2, <1>3, HoldPreserves, FeePaidPreserves DEF Charging

-----------------------------------------------------------------------------
(* Crediting.                                                              *)

LEMMA ClaimPreserves ==
  ASSUME IndInv, NEW n \in Names, Registered(n), Free(n) # {}, Claim(n),
         UNCHANGED <<share, accepted, fees, mintName, waiting, charging, source,
                     history>>,
         mint' \in [Mints -> {"none", "unpaid", "minted"}],
         \A m \in Mints : mint'[m] # "none" => mint[m] # "none"
  PROVE  IndInv'
<1> USE DEF fees, waiting, source, history
<1>1. /\ next' \in [Names -> 0..(LastIndex + 1)]
      /\ used' \subseteq Shares \X Indexes
      /\ NoGap'
  BY ClaimKeeps DEF IndInv
<1>2. TypeOK'
  BY <1>1 DEF IndInv, TypeOK, Indexes, NoHold
<1>3. MintsNamed'
  BY DEF IndInv, MintsNamed
<1> QED BY <1>1, <1>2, <1>3
    DEF IndInv, UsesAccepted, HoldsAccepted, HoldsApart, NoRival,
        ProofAppliesOnce, KeptOnlyIfLapsed, Registered, Holds

LEMMA CreditingPreserves ==
  ASSUME IndInv, NEW m \in Mints, Crediting(m) PROVE IndInv'
<1> USE AddressesAssumption DEF usernames, fees, mints, waiting, source, history
<1>1. CASE (\E n \in Names : RequestMint(m, n)) \/ CreateMint(m) \/ PayMint(m)
  <2>1. /\ UNCHANGED <<usernames, fees, used, holding, charging, feePaid, history>>
        /\ invoicing' \in [Mints -> Names \cup {NoName}]
        /\ mint' \in [Mints -> {"none", "unpaid", "minted"}]
        /\ mintName' \in [Mints -> Names \cup {NoName}]
        /\ mintPaid' \in [Mints -> BOOLEAN]
        /\ MintsNamed'
    <3>1. CASE \E n \in Names : RequestMint(m, n)
      BY <3>1 DEF RequestMint, IndInv, TypeOK, MintsNamed
    <3>2. CASE CreateMint(m)
      BY <3>2 DEF CreateMint, IndInv, TypeOK, MintsNamed
    <3>3. CASE PayMint(m)
      BY <3>3 DEF PayMint, IndInv, TypeOK, MintsNamed
    <3> QED BY <1>1, <3>1, <3>2, <3>3
  <2>2. TypeOK'
    BY <2>1 DEF IndInv, TypeOK, Indexes, NoHold
  <2> QED BY <2>1, <2>2
      DEF IndInv, UsesAccepted, HoldsAccepted, HoldsApart, NoRival,
          ProofAppliesOnce, KeptOnlyIfLapsed, NoGap, Registered, Holds
<1>2. CASE SettleMint(m)
  <2>1. mintName[m] \in Names
    BY <1>2 DEF SettleMint, IndInv, MintsNamed
  <2>2. /\ mint' \in [Mints -> {"none", "unpaid", "minted"}]
        /\ \A k \in Mints : mint'[k] # "none" => mint[k] # "none"
    BY <1>2 DEF SettleMint, IndInv, TypeOK
  <2> QED BY <1>2, <2>1, <2>2, ClaimPreserves DEF SettleMint
<1> QED BY <1>1, <1>2 DEF Crediting

LEMMA TransferringPreserves == IndInv /\ Transferring => IndInv'
<1> SUFFICES ASSUME IndInv, Transferring PROVE IndInv'
  OBVIOUS
<1> USE AddressesAssumption DEF usernames, fees, mints, waiting, source, history
<1>1. ASSUME NEW n \in Names, NEW swapped \in BOOLEAN, Transfer(n, swapped)
      PROVE  IndInv'
  <2>1. CASE swapped
    BY <1>1, <2>1, ClaimPreserves DEF Transfer, IndInv, TypeOK
  <2>2. CASE ~swapped
    BY <1>1, <2>2
    DEF Transfer, IndInv, TypeOK, UsesAccepted, HoldsAccepted, HoldsApart,
        MintsNamed, NoRival, ProofAppliesOnce, KeptOnlyIfLapsed, NoGap,
        Registered, Holds, Indexes, NoHold
  <2> QED BY <2>1, <2>2
<1>2. ASSUME NEW s \in Shares, NEW i \in Indexes, Plant(s, i) PROVE IndInv'
  BY <1>2
  DEF Plant, IndInv, TypeOK, UsesAccepted, HoldsAccepted, HoldsApart,
      MintsNamed, NoRival, ProofAppliesOnce, KeptOnlyIfLapsed, NoGap,
      Registered, Holds, Indexes, NoHold
<1> QED BY <1>1, <1>2 DEF Transferring

LEMMA RestartPreserves == IndInv /\ (Restart \/ UNCHANGED vars) => IndInv'
  BY AddressesAssumption
  DEF Restart, vars, usernames, fees, mints, waiting, source, history,
      IndInv, TypeOK, UsesAccepted, HoldsAccepted, HoldsApart,
      MintsNamed, NoRival, ProofAppliesOnce, KeptOnlyIfLapsed, NoGap,
      Registered, Holds, Indexes, NoHold

LEMMA StepIndInv == IndInv /\ [Next]_vars => IndInv'
  BY OwningPreserves, ChargingPreserves, CreditingPreserves,
     TransferringPreserves, RestartPreserves DEF Next

-----------------------------------------------------------------------------

\* Whatever is registered, held, paid, credited, transferred or deleted, in
\* any order and through any restart: the invariant of the address book.
THEOREM AddressBookInvariant == Spec => []IndInv
  BY InitIndInv, StepIndInv, PTL DEF Spec

\* A name is registered, or held for one unexpired fee invoice, or free.
THEOREM NamePromisedOnce == Spec => []OneClaim
<1>1. ASSUME NoRival, NEW n \in Names
      PROVE  (Registered(n) => Holds(n) = {}) /\ Cardinality(Holds(n)) <= 1
  <2>1. CASE Holds(n) = {}
    BY <2>1, FS_EmptySet
  <2>2. CASE Holds(n) # {}
    <3>1. PICK f \in Holds(n) : TRUE
      BY <2>2
    <3>2. Holds(n) = {f}
      BY <1>1, <3>1 DEF NoRival
    <3>3. Cardinality({f}) = 1
      BY FS_Singleton
    <3> QED BY <1>1, <3>2, <3>3 DEF NoRival
  <2> QED BY <2>1, <2>2
<1>2. IndInv => OneClaim
  BY <1>1 DEF IndInv, OneClaim
<1> QED BY <1>2, AddressBookInvariant, PTL

\* A share is put on a name at most once, however often its registration's
\* signature is sent again.
THEOREM ProofNeverReplayed == Spec => []ProofAppliesOnce
<1>1. IndInv => ProofAppliesOnce
  BY DEF IndInv
<1> QED BY <1>1, AddressBookInvariant, PTL

\* A fee that was paid in time is never kept without a registration.
THEOREM FeeKeptOnlyIfLapsed == Spec => []KeptOnlyIfLapsed
<1>1. IndInv => KeptOnlyIfLapsed
  BY DEF IndInv
<1> QED BY <1>1, AddressBookInvariant, PTL

\* No index below a name's next one is unused, so a scan of the share's notes
\* in order finds them all.
THEOREM NoIndexSkipped == Spec => []NoGap
<1>1. IndInv => NoGap
  BY DEF IndInv
<1> QED BY <1>1, AddressBookInvariant, PTL

\* Registrations, deletions, fees and credits in any order keep the tables well
\* formed: no name's next index passes the last one but by one, no index is
\* on file twice or out of range.
THEOREM AddressBookTyped == Spec => []TypeOK
<1>1. IndInv => TypeOK
  BY DEF IndInv
<1> QED BY <1>1, AddressBookInvariant, PTL

=============================================================================
