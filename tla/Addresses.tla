------------------------------ MODULE Addresses ------------------------------
(***************************************************************************)
(* Registered Lightning Addresses: names, the shares that receive for      *)
(* them, the fee a registration may cost, and the notes that payments and  *)
(* internal transfers credit to a share's next unused index.               *)
(*                                                                         *)
(* A request suspends where it asks the node for an invoice, or whether    *)
(* one was paid; each NoteStore method is one transaction.  A signature is *)
(* whoever holds it: any registration may be sent again at any time.       *)
(***************************************************************************)
EXTENDS Naturals, FiniteSetsExt

CONSTANTS Names, Shares, NoName, NoShare,
          Fees,      \* payment hashes of address fee invoices
          Mints,     \* payment hashes of invoices that credit an address
          LastIndex  \* bound: no share derives more notes than this

ASSUME AddressesAssumption ==
  /\ NoName \notin Names /\ NoShare \notin Shares
  /\ LastIndex \in Nat

VARIABLES
  \* table usernames (cx1 and next_index), table accepted_keys
  share, next, accepted,
  \* table address_fees: the name and share held, `paid`, and how far the
  \* clock is past expires_at and the window of the settlement poll
  feeName, feeShare, fee, age,
  \* table mints: a row names the address that will be credited, not a note
  mint, mintName,
  \* note ids on file that a share derives, as <<share, index>>
  used,
  \* requests that wait for an invoice, and settings.address_fee_msat > 0
  holding, invoicing, charging,
  \* the funding source: which invoices were paid over Lightning
  feePaid, mintPaid,
  \* what became of a fee, and how often a share was put on a name
  outcome, uses

usernames == <<share, next, accepted>>
fees == <<feeName, feeShare, fee, age>>
mints == <<mint, mintName>>
waiting == <<holding, invoicing>>
source == <<feePaid, mintPaid>>
history == <<outcome, uses>>
vars == <<usernames, fees, mints, used, waiting, charging, source, history>>

Indexes == 0..LastIndex
NoHold == [name |-> NoName, share |-> NoShare]

TypeOK ==
  /\ share \in [Names -> Shares \cup {NoShare}]
  /\ next \in [Names -> 0..(LastIndex + 1)]
  /\ accepted \subseteq Shares
  /\ feeName \in [Fees -> Names \cup {NoName}]
  /\ feeShare \in [Fees -> Shares \cup {NoShare}]
  /\ fee \in [Fees -> {"none", "unpaid", "paid"}]
  /\ age \in [Fees -> {"fresh", "expired", "old"}]
  /\ mint \in [Mints -> {"none", "unpaid", "minted"}]
  /\ mintName \in [Mints -> Names \cup {NoName}]
  /\ used \subseteq Shares \X Indexes
  /\ holding \in [Fees -> [name : Names, share : Shares] \cup {NoHold}]
  /\ invoicing \in [Mints -> Names \cup {NoName}]
  /\ charging \in BOOLEAN
  /\ feePaid \in [Fees -> BOOLEAN] /\ mintPaid \in [Mints -> BOOLEAN]
  /\ outcome \in [Fees -> {"none", "registered", "melted", "kept"}]
  /\ uses \in [Shares -> Nat]

Init ==
  /\ share = [n \in Names |-> NoShare]
  /\ next = [n \in Names |-> 0]
  /\ accepted = {}
  /\ feeName = [f \in Fees |-> NoName]
  /\ feeShare = [f \in Fees |-> NoShare]
  /\ fee = [f \in Fees |-> "none"]
  /\ age = [f \in Fees |-> "fresh"]
  /\ mint = [m \in Mints |-> "none"]
  /\ mintName = [m \in Mints |-> NoName]
  /\ used = {}
  /\ holding = [f \in Fees |-> NoHold]
  /\ invoicing = [m \in Mints |-> NoName]
  /\ charging \in BOOLEAN
  /\ feePaid = [f \in Fees |-> FALSE]
  /\ mintPaid = [m \in Mints |-> FALSE]
  /\ outcome = [f \in Fees |-> "none"]
  /\ uses = [s \in Shares |-> 0]

-----------------------------------------------------------------------------
Registered(n) == share[n] # NoShare

\* unpaid and unexpired holds of a name
Holds(n) == {f \in Fees : fee[f] = "unpaid" /\ feeName[f] = n /\ age[f] = "fresh"}

\* a name that only counts registrations as taken
Taken_IgnoresHolds(n) == Registered(n)

\* _username_taken
Taken(n) == Registered(n) \/ Holds(n) # {}

\* the rows a username gets or loses
PutOn(n, s) ==
  /\ share' = [share EXCEPT ![n] = s]
  /\ next' = [next EXCEPT ![n] = 0]
  /\ uses' = [uses EXCEPT ![s] = @ + 1]

\* a registration that forgets the key it accepted
Register_Forgets(n, s) ==
  /\ ~charging
  /\ ~Taken(n) /\ s \notin accepted
  /\ PutOn(n, s)
  /\ UNCHANGED <<accepted, fees, mints, used, waiting, charging, source, outcome>>

\* register_username without an address fee
Register(n, s) ==
  /\ ~charging
  /\ ~Taken(n) /\ s \notin accepted
  /\ PutOn(n, s)
  /\ accepted' = accepted \cup {s}
  /\ UNCHANGED <<fees, mints, used, waiting, charging, source, outcome>>

\* update_registered_username: the name moves to a new share
Update(n, s) ==
  /\ Registered(n) /\ s \notin accepted
  /\ PutOn(n, s)
  /\ accepted' = accepted \cup {s}
  /\ UNCHANGED <<fees, mints, used, waiting, charging, source, outcome>>

\* delete_registered_username: the name is free, its share stays accepted
Delete(n) ==
  /\ Registered(n)
  /\ share' = [share EXCEPT ![n] = NoShare]
  /\ next' = [next EXCEPT ![n] = 0]
  /\ UNCHANGED <<accepted, fees, mints, used, waiting, charging, source, history>>

-----------------------------------------------------------------------------
(* The address fee.                                                        *)

\* _hold_for_address_fee: the name is free, the node is asked for an invoice
RequestHold(f, n, s) ==
  /\ charging /\ fee[f] = "none" /\ holding[f] = NoHold
  /\ ~Taken(n)
  /\ holding' = [holding EXCEPT ![f] = [name |-> n, share |-> s]]
  /\ UNCHANGED <<usernames, fees, mints, used, invoicing, charging, source,
                 history>>

\* a hold that accepts the key only once its fee is paid
Hold_AcceptsLater(f) ==
  LET h == holding[f]
  IN /\ h # NoHold
     /\ holding' = [holding EXCEPT ![f] = NoHold]
     /\ IF Taken(h.name) \/ h.share \in accepted
          THEN UNCHANGED fees
          ELSE /\ feeName' = [feeName EXCEPT ![f] = h.name]
               /\ feeShare' = [feeShare EXCEPT ![f] = h.share]
               /\ fee' = [fee EXCEPT ![f] = "unpaid"]
               /\ UNCHANGED age
     /\ UNCHANGED <<usernames, mints, used, invoicing, charging, source, history>>

\* hold_username: refused if the name or the key was taken meanwhile
Hold(f) ==
  LET h == holding[f]
  IN /\ h # NoHold
     /\ holding' = [holding EXCEPT ![f] = NoHold]
     /\ IF Taken(h.name) \/ h.share \in accepted
          THEN UNCHANGED <<accepted, fees>>
          ELSE /\ accepted' = accepted \cup {h.share}
               /\ feeName' = [feeName EXCEPT ![f] = h.name]
               /\ feeShare' = [feeShare EXCEPT ![f] = h.share]
               /\ fee' = [fee EXCEPT ![f] = "unpaid"]
               /\ UNCHANGED age
     /\ UNCHANGED <<share, next, mints, used, invoicing, charging, source,
                    history>>

\* the clock passes expires_at, and a little later the poll's window
Ages(f) ==
  /\ fee[f] # "none" /\ age[f] # "old"
  /\ age' = [age EXCEPT ![f] = IF @ = "fresh" THEN "expired" ELSE "old"]
  /\ UNCHANGED <<usernames, feeName, feeShare, fee, mints, used, waiting,
                 charging, source, history>>

\* paid over Lightning, at the latest by an HTLC accepted before the expiry
PayFee(f) ==
  /\ fee[f] # "none" /\ age[f] # "old" /\ ~feePaid[f]
  /\ feePaid' = [feePaid EXCEPT ![f] = TRUE]
  /\ UNCHANGED <<usernames, fees, mints, used, waiting, charging, mintPaid,
                 history>>

\* what may stand in the way of a fee's registration: its own hold ends here
InTheWay(f) == Registered(feeName[f]) \/ Holds(feeName[f]) \ {f} # {}

\* settle_address_fee, by the poll, a lookup of the name or LUD-21 verify,
\* the first time the payment is seen; the expiry is never checked
SettleFee(f) ==
  /\ fee[f] = "unpaid" /\ feePaid[f]
  /\ fee' = [fee EXCEPT ![f] = "paid"]
  /\ IF InTheWay(f)
       THEN /\ outcome' = [outcome EXCEPT ![f] = "kept"]
            /\ UNCHANGED <<share, next, uses>>
       ELSE /\ outcome' = [outcome EXCEPT ![f] = "registered"]
            /\ PutOn(feeName[f], feeShare[f])
  /\ UNCHANGED <<accepted, feeName, feeShare, age, mints, used, waiting,
                 charging, source>>

\* a melt that does not look whether its hold still stands
MeltIntoFee_AnyAge(f) ==
  /\ fee[f] = "unpaid" /\ ~Registered(feeName[f])
  /\ fee' = [fee EXCEPT ![f] = "paid"]
  /\ outcome' = [outcome EXCEPT ![f] = "melted"]
  /\ PutOn(feeName[f], feeShare[f])
  /\ UNCHANGED <<accepted, feeName, feeShare, age, mints, used, waiting,
                 charging, source>>

\* pay_address_fee_with_notes: burns notes and registers in one transaction
MeltIntoFee(f) ==
  /\ fee[f] = "unpaid" /\ age[f] = "fresh" /\ ~InTheWay(f)
  /\ fee' = [fee EXCEPT ![f] = "paid"]
  /\ outcome' = [outcome EXCEPT ![f] = "melted"]
  /\ PutOn(feeName[f], feeShare[f])
  /\ UNCHANGED <<accepted, feeName, feeShare, age, mints, used, waiting,
                 charging, source>>

-----------------------------------------------------------------------------
(* Crediting.                                                              *)

\* _claim_index: the share's first note from next_index on that is not on file
Free(n) == {i \in Indexes : i >= next[n] /\ <<share[n], i>> \notin used}

Claim(n) ==
  LET i == Min(Free(n))
  IN /\ used' = used \cup {<<share[n], i>>}
     /\ next' = [next EXCEPT ![n] = i + 1]

\* _pay_callback for an address, up to the node's invoice
RequestMint(m, n) ==
  /\ mint[m] = "none" /\ invoicing[m] = NoName
  /\ Registered(n)
  /\ invoicing' = [invoicing EXCEPT ![m] = n]
  /\ UNCHANGED <<usernames, fees, mints, used, holding, charging, source,
                 history>>

\* a mint that picks its note when the invoice is issued
CreateMint_Claims(m) ==
  /\ invoicing[m] # NoName
  /\ invoicing' = [invoicing EXCEPT ![m] = NoName]
  /\ mint' = [mint EXCEPT ![m] = "unpaid"]
  /\ mintName' = [mintName EXCEPT ![m] = invoicing[m]]
  /\ next' = [next EXCEPT ![invoicing[m]] = @ + 1]
  /\ UNCHANGED <<share, accepted, fees, used, holding, charging, source,
                 history>>

\* create_mint, which does not look the name up again
CreateMint(m) ==
  /\ invoicing[m] # NoName
  /\ invoicing' = [invoicing EXCEPT ![m] = NoName]
  /\ mint' = [mint EXCEPT ![m] = "unpaid"]
  /\ mintName' = [mintName EXCEPT ![m] = invoicing[m]]
  /\ UNCHANGED <<usernames, fees, used, holding, charging, source, history>>

PayMint(m) ==
  /\ mint[m] = "unpaid" /\ ~mintPaid[m]
  /\ mintPaid' = [mintPaid EXCEPT ![m] = TRUE]
  /\ UNCHANGED <<usernames, fees, mints, used, waiting, charging, feePaid,
                 history>>

\* settle_mint: the name's next note now; it raises while nobody has the name
SettleMint(m) ==
  /\ mint[m] = "unpaid" /\ mintPaid[m]
  /\ Registered(mintName[m]) /\ Free(mintName[m]) # {}
  /\ mint' = [mint EXCEPT ![m] = "minted"]
  /\ Claim(mintName[m])
  /\ UNCHANGED <<share, accepted, fees, mintName, waiting, charging, source,
                 history>>

\* a transfer whose claim outlives a refused swap
Transfer_KeepsClaim(n, swapped) ==
  /\ Registered(n) /\ Free(n) # {}
  /\ IF swapped THEN Claim(n)
     ELSE next' = [next EXCEPT ![n] = Min(Free(n)) + 1] /\ UNCHANGED used
  /\ UNCHANGED <<share, accepted, fees, mints, waiting, charging, source,
                 history>>

\* transfer_to_username: the claim is rolled back with a swap that fails
Transfer(n, swapped) ==
  /\ Registered(n) /\ Free(n) # {}
  /\ IF swapped THEN Claim(n) ELSE UNCHANGED <<next, used>>
  /\ UNCHANGED <<share, accepted, fees, mints, waiting, charging, source,
                 history>>

\* whoever knows a share's keys may name them as the output of a swap, or in
\* the comment of a mint at the mint's own address
Plant(s, i) ==
  /\ <<s, i>> \notin used
  /\ used' = used \cup {<<s, i>>}
  /\ UNCHANGED <<usernames, fees, mints, waiting, charging, source, history>>

-----------------------------------------------------------------------------
\* the process stops and starts again, with or without an address fee
Restart ==
  /\ holding' = [f \in Fees |-> NoHold]
  /\ invoicing' = [m \in Mints |-> NoName]
  /\ charging' \in BOOLEAN
  /\ UNCHANGED <<usernames, fees, mints, used, source, history>>

Owning ==
  \E n \in Names :
    \/ \E s \in Shares : Register(n, s) \/ Update(n, s)
    \/ Delete(n)

Charging(f) ==
  \/ \E n \in Names, s \in Shares : RequestHold(f, n, s)
  \/ Hold(f) \/ Ages(f) \/ PayFee(f) \/ SettleFee(f) \/ MeltIntoFee(f)

Crediting(m) ==
  \/ \E n \in Names : RequestMint(m, n)
  \/ CreateMint(m) \/ PayMint(m) \/ SettleMint(m)

Transferring ==
  \/ \E n \in Names, swapped \in BOOLEAN : Transfer(n, swapped)
  \/ \E s \in Shares, i \in Indexes : Plant(s, i)

Next ==
  \/ Owning
  \/ \E f \in Fees : Charging(f)
  \/ \E m \in Mints : Crediting(m)
  \/ Transferring
  \/ Restart

Spec == Init /\ [][Next]_vars

-----------------------------------------------------------------------------
(* Properties.                                                             *)

\* A wallet that recovers a share by scanning its notes in order misses none:
\* every index below next_index is on file, so neither an unpaid invoice nor
\* a refused transfer nor a change of share leaves an unused one behind.
NoGap ==
  \A n \in Names : Registered(n) =>
    \A i \in Indexes : i < next[n] => <<share[n], i>> \in used

\* A name is promised once: registered, or held for one unexpired invoice, or
\* free, also while registrations wait for their invoices and holds lapse.
OneClaim ==
  \A n \in Names :
    /\ Registered(n) => Holds(n) = {}
    /\ Cardinality(Holds(n)) <= 1

\* A captured ownership proof never applies twice: however a share got onto a
\* name, and whatever became of the name or of a hold, it never does again.
ProofAppliesOnce == \A s \in Shares : uses[s] <= 1

\* A fee is kept for nothing only if its hold lapsed before the payment was
\* seen (settle_address_fee's comment).
KeptOnlyIfLapsed ==
  \A f \in Fees : outcome[f] = "kept" => age[f] # "fresh"

-----------------------------------------------------------------------------
(* What the properties above rest on.                                      *)

\* a share on a name was accepted
UsesAccepted == \A s \in Shares : uses[s] > 0 => s \in accepted

\* the share of an unpaid fee is accepted for it, and was never put on a name
HoldsAccepted ==
  \A f \in Fees : fee[f] = "unpaid" =>
    /\ feeName[f] \in Names /\ feeShare[f] \in accepted
    /\ uses[feeShare[f]] = 0

\* no two unpaid fees are for one share
HoldsApart ==
  \A f, g \in Fees :
    fee[f] = "unpaid" /\ fee[g] = "unpaid" /\ feeShare[f] = feeShare[g] => f = g

\* OneClaim, without counting
NoRival ==
  \A n \in Names :
    /\ Registered(n) => Holds(n) = {}
    /\ \A f, g \in Holds(n) : f = g

MintsNamed == \A m \in Mints : mint[m] # "none" => mintName[m] \in Names

IndInv ==
  /\ TypeOK /\ UsesAccepted /\ HoldsAccepted /\ HoldsApart /\ MintsNamed
  /\ NoRival /\ ProofAppliesOnce /\ KeptOnlyIfLapsed /\ NoGap

-----------------------------------------------------------------------------
\* _melt_into_address_fee's comment: one no longer payable, an already paid
\* one among them, is refused and burns nothing.
PaidFeeBurnsNothing ==
  [][\A f \in Fees :
       outcome[f] = "none" /\ outcome'[f] = "melted" => ~feePaid[f]]_vars

=============================================================================
