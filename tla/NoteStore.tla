------------------------------ MODULE NoteStore ------------------------------
(***************************************************************************)
(* The ledger: bearer notes, the invoices that mint them, and the rotate,  *)
(* split and merge requests that turn notes into other notes.              *)
(*                                                                         *)
(* Every NoteStore method is one transaction.  A request suspends only     *)
(* where it asks the funding source about a note whose mint invoice is     *)
(* still unpaid on file, so a merge may swap with what it read about its   *)
(* first note before it waited for its second; every other request runs    *)
(* undisturbed from its first read to its commit.                          *)
(*                                                                         *)
(* A melt is here as far as money goes: a note is reserved, its payment    *)
(* leaves, and the note is burned or released by the melt's task or by a   *)
(* reconcile round, neither of which looks at what the note is by then.    *)
(* Module Melt has the whole of it.                                        *)
(***************************************************************************)
EXTENDS Fees, Sequences, FiniteSetsExt

CONSTANTS Ids,        \* note ids, chosen by wallets
          Payments,   \* payment hashes of the invoices the mint issues
          Hashes,     \* payment hashes of invoices of other nodes
          NoId,       \* SQL NULL
          NoHash,     \* SQL NULL
          Calls,      \* slots for requests that wait for a note
          Amounts,    \* what is paid to mint, and what splits ask for
          BaseFees,   \* what the operator may set BASE_FEE_MSAT to
          FeePpm,     \* settings.fee_ppm
          MinMint     \* settings.min_mint_msat, which may be 0

ASSUME NoteStoreAssumption ==
  /\ NoId \notin Ids /\ NoHash \notin Hashes
  /\ Amounts \subseteq Nat \ {0}
  /\ BaseFees \subseteq Nat
  /\ FeePpm \in Nat /\ MinMint \in Nat

VARIABLES
  \* table notes: "out" is unspent, "pending" is reserved by a melt
  note, amount,
  \* table mints: an "unpaid" row names the note it will credit, and its value
  mint, mintId, net,
  \* table burns: the ids burned together, what they became, and at what value
  burns,
  \* settings.base_fee_msat and settings.sunset_mint
  baseFee, sunset,
  \* requests that are waiting: to create an invoice, for a second note
  invoicing, call,
  \* the funding source: what its invoices are for, which were paid, and what
  \* came in less what went out
  price, paid, funds,
  \* notes.pending_payment_hash; the rows of table melts, each with the note
  \* that its invoice is paid from and the invoice's amount
  heldFor, payer, due,
  \* the invoices that a _melt_pay of this process is paying, and what became
  \* of each payment
  tasks, payment,
  \* the reconcile round: the reserved notes it read and has not done with, by
  \* invoice; the invoice it asks about; whether that one was melted into since
  snapshot, at, reused,
  \* history: payments whose note was burned or released on behalf of another
  \* reservation than their own
  stray

table == <<note, amount, burns>>
mints == <<mint, mintId, net>>
settings == <<baseFee, sunset>>
memory == <<settings, invoicing, call>>
source == <<price, paid, funds>>
reservations == <<heldFor, payer, due, payment, stray>>
round == <<snapshot, at, reused>>
melting == <<reservations, tasks, round>>
vars == <<table, mints, memory, source, melting>>

NoCall == [k1 |-> <<>>, outs |-> <<>>, split |-> 0, value |-> 0]

TypeOK ==
  /\ note \in [Ids -> {"none", "out", "pending", "spent"}]
  /\ amount \in [Ids -> Nat]
  /\ mint \in [Payments -> {"none", "unpaid", "minted"}]
  /\ mintId \in [Payments -> Ids \cup {NoId}]
  /\ net \in [Payments -> Nat]
  /\ burns \subseteq [ids : SUBSET Ids, outs : Seq(Ids), amounts : Seq(Nat)]
  /\ baseFee \in BaseFees /\ sunset \in BOOLEAN
  /\ invoicing \in [Payments -> Ids \cup {NoId}]
  /\ call \in [Calls -> [k1 : Seq(Ids), outs : Seq(Ids), split : Nat, value : Nat]]
  /\ price \in [Payments -> Nat]
  /\ paid \in [Payments -> BOOLEAN]
  /\ funds \in Int
  /\ heldFor \in [Ids -> Hashes \cup {NoHash}]
  /\ payer \in [Hashes -> Ids \cup {NoId}]
  /\ due \in [Hashes -> Nat]
  /\ tasks \subseteq {h \in Hashes : payer[h] # NoId}
  /\ payment \in [Hashes -> {"none", "open", "sent", "failed"}]
  /\ snapshot \subseteq Hashes \X Ids
  /\ at \in Hashes \cup {NoHash} /\ reused \in BOOLEAN
  /\ stray \subseteq Hashes

Init ==
  /\ note = [i \in Ids |-> "none"]
  /\ amount = [i \in Ids |-> 0]
  /\ mint = [p \in Payments |-> "none"]
  /\ mintId = [p \in Payments |-> NoId]
  /\ net = [p \in Payments |-> 0]
  /\ burns = {}
  /\ baseFee \in BaseFees /\ sunset = FALSE
  /\ invoicing = [p \in Payments |-> NoId]
  /\ call = [c \in Calls |-> NoCall]
  /\ price = [p \in Payments |-> 0]
  /\ paid = [p \in Payments |-> FALSE]
  /\ funds = 0
  /\ heldFor = [i \in Ids |-> NoHash]
  /\ payer = [h \in Hashes |-> NoId]
  /\ due = [h \in Hashes |-> 0]
  /\ payment = [h \in Hashes |-> "none"]
  /\ tasks = {} /\ stray = {}
  /\ snapshot = {} /\ at = NoHash /\ reused = FALSE

\* _id_in_use
IdInUse(i) == note[i] # "none" \/ \E p \in Payments : mintId[p] = i

-----------------------------------------------------------------------------
(* Minting: _pay_callback for the mint's own address, and settlement.      *)

\* the settings NetOf reads
Fee == [baseFee |-> baseFee, feePpm |-> FeePpm]

\* the amount nets enough: the node creates an invoice, meanwhile the
\* note to credit is only a comment
RequestInvoice(p, i, gross) ==
  /\ price[p] = 0 /\ ~sunset
  /\ NetOf(gross, Fee) >= MinMint
  /\ price' = [price EXCEPT ![p] = gross]
  /\ invoicing' = [invoicing EXCEPT ![p] = i]
  /\ UNCHANGED <<table, mints, settings, call, paid, funds, melting>>

\* create_mint, against what is in use by now: a collision is an error and
\* nobody sees the invoice
CreateMint(p) ==
  /\ invoicing[p] # NoId
  /\ invoicing' = [invoicing EXCEPT ![p] = NoId]
  /\ IF IdInUse(invoicing[p])
       THEN UNCHANGED mints
       ELSE /\ mint' = [mint EXCEPT ![p] = "unpaid"]
            /\ mintId' = [mintId EXCEPT ![p] = invoicing[p]]
            /\ net' = [net EXCEPT ![p] = NetOf(price[p], Fee)]
  /\ UNCHANGED <<table, settings, call, source, melting>>

PayInvoice(p) ==
  /\ mint[p] = "unpaid" /\ ~paid[p]
  /\ paid' = [paid EXCEPT ![p] = TRUE]
  /\ funds' = funds + price[p]
  /\ UNCHANGED <<table, mints, memory, price, melting>>

\* settle_mint, the first time anybody sees the invoice settled; its INSERT,
\* and with it the transaction, fails for ever on an id that names a note
Settle(p) ==
  /\ mint[p] = "unpaid" /\ paid[p]
  /\ note[mintId[p]] = "none"
  /\ mint' = [mint EXCEPT ![p] = "minted"]
  /\ note' = [note EXCEPT ![mintId[p]] = "out"]
  /\ amount' = [amount EXCEPT ![mintId[p]] = net[p]]
  /\ UNCHANGED <<mintId, net, burns, memory, source, melting>>

-----------------------------------------------------------------------------
(* Rotate, split and merge: get_withdraw_callback without `pr`.            *)

Members(s) == {s[j] : j \in DOMAIN s}
Distinct(s) == \A i, j \in DOMAIN s : s[i] = s[j] => i = j

\* a merge that refunds one base fee too many
Outputs_RefundsEvery(n, total, split) ==
  IF split > 0 THEN <<split, total - split - baseFee>>
               ELSE <<total + n * baseFee>>

\* a split pays the base fee out of its change, a merge gets back the base
\* fee of every note but one, and a rotate is a merge of one note
Outputs(n, total, split) ==
  IF split > 0 THEN <<split, total - split - baseFee>>
               ELSE <<total + (n - 1) * baseFee>>

\* a split whose change may be a note for nothing
Offered_Nothing(total, split) ==
  split > 0 => ~sunset /\ split < total /\ total - split - baseFee >= 0

\* a split is for less than the total, and never leaves a note for nothing
Offered(total, split) ==
  split > 0 => ~sunset /\ split < total /\ total - split - baseFee >= 1

\* a swap that trusts what the request read about its notes
SwapAccepts_Trusts(k1, outs) ==
  /\ Distinct(k1) /\ \A j \in DOMAIN k1 : note[k1[j]] # "none"
  /\ Distinct(outs) /\ \A j \in DOMAIN outs : ~IdInUse(outs[j])

\* a swap that looks for its outputs among the notes only
SwapAccepts_NotesOnly(k1, outs) ==
  /\ Distinct(k1) /\ \A j \in DOMAIN k1 : note[k1[j]] = "out"
  /\ Distinct(outs) /\ \A j \in DOMAIN outs : note[outs[j]] = "none"

\* a swap that looks for its outputs among the open invoices only
SwapAccepts_InvoicesOnly(k1, outs) ==
  /\ Distinct(k1) /\ \A j \in DOMAIN k1 : note[k1[j]] = "out"
  /\ Distinct(outs)
  /\ \A j \in DOMAIN outs : \A p \in Payments : mintId[p] # outs[j]

\* _swap_locked's checks, on the rows as they are now
SwapAccepts(k1, outs) ==
  /\ Distinct(k1) /\ \A j \in DOMAIN k1 : note[k1[j]] = "out"
  /\ Distinct(outs) /\ \A j \in DOMAIN outs : ~IdInUse(outs[j])

\* _swap_locked's effect: burn, insert, and remember the burn
Swap(k1, outs, values) ==
  /\ note' = [i \in Ids |-> IF i \in Members(k1) THEN "spent"
                            ELSE IF i \in Members(outs) THEN "out" ELSE note[i]]
  /\ amount' = [i \in Ids |-> IF i \in Members(outs)
                   THEN values[CHOOSE j \in DOMAIN outs : outs[j] = i]
                   ELSE amount[i]]
  /\ burns' = burns \cup
       {[ids |-> Members(k1), outs |-> outs, amounts |-> values]}

Redeem(k1, outs, split, total) ==
  /\ Offered(total, split) /\ SwapAccepts(k1, outs)
  /\ Swap(k1, outs, Outputs(Len(k1), total, split))

\* a request whose notes are all on file reads them and swaps in one go
Rotate(i, out) == Redeem(<<i>>, <<out>>, 0, amount[i])
Split(i, outs, split) == split > 0 /\ Redeem(<<i>>, outs, split, amount[i])
Merge(i, j, out) == Redeem(<<i, j>>, <<out>>, 0, amount[i] + amount[j])
MergeSplit(i, j, outs, split) ==
  split > 0 /\ Redeem(<<i, j>>, outs, split, amount[i] + amount[j])

\* a request that has read its first note asks the funding source about its
\* second, which an unpaid mint will credit
AwaitNote(c, first, second, outs, split) ==
  /\ call[c] = NoCall
  /\ note[first] \in {"out", "pending"}
  /\ \E p \in Payments : mint[p] = "unpaid" /\ mintId[p] = second
  /\ call' = [call EXCEPT ![c] = [k1 |-> <<first, second>>, outs |-> outs,
                                  split |-> split, value |-> amount[first]]]
  /\ UNCHANGED <<table, mints, settings, invoicing, source, melting>>

\* the answer came; a second note that is still unknown is an invalid k1
NoteArrives(c) ==
  LET r == call[c]
      second == r.k1[2]
  IN /\ r # NoCall
     /\ note[second] # "none"
     /\ Redeem(r.k1, r.outs, r.split, r.value + amount[second])
     /\ call' = [call EXCEPT ![c] = NoCall]
     /\ UNCHANGED <<mints, settings, invoicing, source, melting>>

\* every refusal leaves the ledger alone, and so does the answer to an exact
\* retry, read off the recorded burn
Refuse(c) ==
  /\ call[c] # NoCall
  /\ call' = [call EXCEPT ![c] = NoCall]
  /\ UNCHANGED <<table, mints, settings, invoicing, source, melting>>

-----------------------------------------------------------------------------
(* Melts: get_withdraw_callback with `pr`, _melt_pay, the reconcile rounds. *)

Held(i, h) == note[i] = "pending" /\ heldFor[i] = h

\* the reserved notes of ns that another invoice than h is paid from
Others(ns, h) ==
  {g \in Hashes \ {h} : payer[g] \in ns /\ Held(payer[g], g)}

\* finalize_melt, after payment of h, looks at nothing; what is spent already
\* stays spent, and the payment made for it is lost
Burn(ns, h) ==
  /\ note' = [i \in Ids |-> IF i \in ns THEN "spent" ELSE note[i]]
  /\ heldFor' = [i \in Ids |-> IF i \in ns THEN NoHash ELSE heldFor[i]]
  /\ stray' = (stray \cup Others(ns, h))
                \ {g \in {h} : payer[g] \in ns /\ note[payer[g]] # "spent"}

\* restore looks at nothing either: whoever holds the notes now loses them
Release(ns, taken) ==
  /\ note' = [i \in Ids |-> IF i \in ns /\ note[i] = "pending" THEN "out" ELSE note[i]]
  /\ heldFor' = [i \in Ids |-> IF i \in ns THEN NoHash ELSE heldFor[i]]
  /\ stray' = stray \cup taken

\* a registration that outlives the handler whose record_melt failed
MeltNote_KeepsEntry(i, h) ==
  /\ note[i] = "out" /\ payer[h] = NoId
  /\ note' = [note EXCEPT ![i] = "pending"]
  /\ heldFor' = [heldFor EXCEPT ![i] = h]
  /\ tasks' = tasks \cup {h}
  /\ \/ /\ payer' = [payer EXCEPT ![h] = i]
        /\ due' = [due EXCEPT ![h] = amount[i]]
        /\ payment' = [payment EXCEPT ![h] = "open"]
        /\ reused' = (reused \/ h = at)
     \/ UNCHANGED <<payer, due, payment, reused>>
  /\ UNCHANGED <<amount, burns, mints, memory, source, snapshot, at, stray>>

\* the invoice is for the note's value and no melt has used it: mark_pending
\* commits, then record_melt does and the payment is scheduled; or that second
\* commit fails, or the process stops before it
MeltNote(i, h) ==
  /\ note[i] = "out" /\ payer[h] = NoId
  /\ note' = [note EXCEPT ![i] = "pending"]
  /\ heldFor' = [heldFor EXCEPT ![i] = h]
  /\ \/ /\ payer' = [payer EXCEPT ![h] = i]
        /\ due' = [due EXCEPT ![h] = amount[i]]
        /\ tasks' = tasks \cup {h}
        /\ payment' = [payment EXCEPT ![h] = "open"]
        /\ reused' = (reused \/ h = at)
     \/ UNCHANGED <<payer, due, tasks, payment, reused>>
  /\ UNCHANGED <<amount, burns, mints, memory, source, snapshot, at, stray>>

\* the payment goes out, whatever its note is by now, or has failed for good;
\* routing costs are left out
PaymentEnds(h) ==
  /\ payment[h] = "open"
  /\ \/ payment' = [payment EXCEPT ![h] = "sent"] /\ funds' = funds - due[h]
     \/ payment' = [payment EXCEPT ![h] = "failed"] /\ UNCHANGED funds
  /\ UNCHANGED <<table, mints, memory, price, paid, heldFor, payer, due, stray,
                 tasks, round>>

\* _melt_pay is told that the payment went out, or that it did not
TaskResolves(h) ==
  /\ h \in tasks /\ tasks' = tasks \ {h}
  /\ \/ payment[h] = "sent" /\ Burn({payer[h]}, h)
     \/ payment[h] = "failed" /\ Release({payer[h]}, Others({payer[h]}, h))
  /\ UNCHANGED <<amount, burns, mints, memory, source, payer, due, payment, round>>

\* no answer after all retries, or its commit fails: the note stays reserved
TaskLeaves(h) ==
  /\ h \in tasks /\ tasks' = tasks \ {h}
  /\ UNCHANGED <<table, mints, memory, source, reservations, round>>

NoRound == snapshot' = {} /\ at' = NoHash /\ reused' = FALSE

\* a round that does not look for live melts
Advance_NoSkip(rest) ==
  \/ rest = {} /\ NoRound
  \/ \E h \in {e[1] : e \in rest} : snapshot' = rest /\ at' = h /\ reused' = FALSE

\* on to the next invoice with no live melt, past some that have one: the
\* rows come in SQLite's order
Advance(rest) ==
  \/ (\A e \in rest : e[1] \in tasks) /\ NoRound
  \/ \E h \in {e[1] : e \in rest} \ tasks, skipped \in SUBSET tasks :
       /\ snapshot' = {e \in rest : e[1] \notin skipped}
       /\ at' = h /\ reused' = FALSE

\* reconcile_pending_melts: pending_melts is read once, before the first wait
StartRound ==
  /\ at = NoHash
  /\ LET found == {e \in Hashes \X Ids : Held(e[2], e[1])}
     IN found # {} /\ Advance(found)
  /\ UNCHANGED <<table, mints, memory, source, reservations, tasks>>

Entry == {i \in Ids : <<at, i>> \in snapshot}
Later == {e \in snapshot : e[1] # at}

\* The answer is what held when it was given, while the round waited: an
\* invoice that was melted into since was unpaid before, and a payment whose
\* call has not landed yet is one the funding source does not know.
AnswersUnpaid ==
  \/ payment[at] \in {"none", "failed"}
  \/ payment[at] = "open" /\ at \in tasks
  \/ reused

\* the notes of the entry, as they were read, are burned or released; if the
\* commit that follows a burn fails the round is over
RoundResolves ==
  /\ at # NoHash
  /\ \/ /\ payment[at] = "sent"
        /\ Burn(Entry, at)
        /\ Advance(Later) \/ NoRound
     \/ /\ AnswersUnpaid
        /\ Release(Entry, Others(Entry, IF reused THEN NoHash ELSE at))
        /\ Advance(Later)
  /\ UNCHANGED <<amount, burns, mints, memory, source, payer, due, payment, tasks>>

\* no answer: the entry is left for the next round; or a commit fails
RoundLeaves ==
  /\ at # NoHash
  /\ Advance(Later) \/ NoRound
  /\ UNCHANGED <<table, mints, memory, source, reservations, tasks>>

-----------------------------------------------------------------------------
\* the process stops, its requests are lost, the operator edits the settings
Restart ==
  /\ invoicing' = [p \in Payments |-> NoId]
  /\ call' = [c \in Calls |-> NoCall]
  /\ baseFee' \in BaseFees /\ sunset' \in BOOLEAN
  /\ tasks' = {} /\ NoRound
  /\ UNCHANGED <<table, mints, source, reservations>>

Minting(p) ==
  \/ \E i \in Ids, gross \in Amounts : RequestInvoice(p, i, gross)
  \/ CreateMint(p) \/ PayInvoice(p) \/ Settle(p)

Swapping ==
  /\ \E i, p1 \in Ids :
       \/ Rotate(i, p1)
       \/ \E j \in Ids : Merge(i, j, p1)
       \/ \E p2 \in Ids, split \in Amounts :
            \/ Split(i, <<p1, p2>>, split)
            \/ \E j \in Ids : MergeSplit(i, j, <<p1, p2>>, split)
  /\ UNCHANGED <<mints, memory, source, melting>>

Waiting(c) ==
  \/ \E i, j, p1 \in Ids :
       \/ AwaitNote(c, i, j, <<p1>>, 0)
       \/ \E p2 \in Ids, split \in Amounts : AwaitNote(c, i, j, <<p1, p2>>, split)
  \/ NoteArrives(c) \/ Refuse(c)

Melting(h) ==
  \/ \E i \in Ids : MeltNote(i, h)
  \/ PaymentEnds(h) \/ TaskResolves(h) \/ TaskLeaves(h)

Reconciling == StartRound \/ RoundResolves \/ RoundLeaves

Next ==
  \/ \E p \in Payments : Minting(p)
  \/ Swapping
  \/ \E c \in Calls : Waiting(c)
  \/ \E h \in Hashes : Melting(h)
  \/ Reconciling
  \/ Restart

Spec == Init /\ [][Next]_vars

-----------------------------------------------------------------------------
(* Properties.                                                             *)

Outstanding == {i \in Ids : note[i] \in {"out", "pending"}}
Liability == MapThenSumSet(LAMBDA i : amount[i], Outstanding)

\* A payment is never taken for a note that cannot be made: as long as an
\* invoice may still settle, its id names no note, and no other mint's.  A
\* note planted under that id while the invoice is created, or by a swap,
\* would make settle_mint fail for ever.
MintNeverBricked ==
  \A p \in Payments : mint[p] = "unpaid" =>
    /\ note[mintId[p]] = "none"
    /\ \A q \in Payments \ {p} : mintId[q] # mintId[p]

\* No note is burned twice, whatever requests read before they waited: the
\* burns on record name different notes, each of them spent, and what each
\* burn claims to have made is on file at that value, for a retry to be told.
BurnedOnce ==
  /\ \A b, d \in burns : b # d => b.ids \cap d.ids = {}
  /\ \A b \in burns :
       /\ \A i \in b.ids : note[i] = "spent"
       /\ \A j \in DOMAIN b.outs :
            note[b.outs[j]] # "none" /\ amount[b.outs[j]] = b.amounts[j]

\* What a bearer holds is his until he spends it: whatever settles, swaps or
\* melts, and however late, no note leaves the file or changes in value, no
\* spent note comes back, and the record of a burn, which answers retries,
\* stays.
BearersKeep ==
  [][/\ burns \subseteq burns'
     /\ \A i \in Ids : note[i] # "none" =>
          /\ note'[i] # "none" /\ amount'[i] = amount[i]
          /\ note[i] = "spent" => note'[i] = "spent"]_vars

\* Payments that went out and whose note is not burned for them: it is still
\* reserved, or a round that acted on what it had read earlier took it away.
Gone == {h \in Hashes : payment[h] = "sent" /\ (h \in stray \/ Held(payer[h], h))}

\* the funds, and what the notes of these payments will not be paid again, or
\* what was lost with them
Backing == funds + MapThenSumSet(LAMBDA h : due[h], Gone)

\* The mint can pay every note out and still has the base fee of each: what a
\* merge refunds was collected by a mint or a split before it, and a melt pays
\* out no more than the note it burns.  It loses the payments, and no more
\* than the payments, whose notes a stale round released before they settled.
Covered ==
  Backing >= Liability + baseFee * Cardinality(Outstanding)

\* Payments the mint has taken and not yet turned into a note.
PaidOpen == {p \in Payments : mint[p] = "unpaid" /\ paid[p]}

\* What Covered rests on: a payment that was taken and has no note yet is in
\* the funds as well, and pays for its note and for the base fee of it.  As
\* long as nobody raises the base fee, every request keeps this.
Solvent ==
  /\ IsFiniteSet(Outstanding) /\ IsFiniteSet(PaidOpen) /\ IsFiniteSet(Gone)
  /\ \A p \in Payments : mint[p] = "unpaid" => price[p] >= net[p] + baseFee
  /\ Backing >= Liability + baseFee * Cardinality(Outstanding)
                + MapThenSumSet(LAMBDA p : price[p], PaidOpen)

\* the operator may lower the base fee of a mint that has notes out
FeeNeverRaised == [][baseFee' <= baseFee]_vars

\* The comment on a merge's refund: it "gives back every base fee already
\* collected", so no sequence of requests owes more than was ever received.
RefundWasCollected == Backing >= Liability

-----------------------------------------------------------------------------
(* What type correctness and the properties rest on.                       *)

\* A note for nothing is made of nothing: only an invoice makes one, when the
\* operator's minimum is 0, or a rotate or merge of such notes; no split's
\* change and no merge of notes that are worth something is one.
NotesWorth ==
  /\ MinMint > 0 => \A i \in Ids : note[i] # "none" => amount[i] > 0
  /\ \A b \in burns : \A j \in DOMAIN b.outs : b.amounts[j] = 0 =>
       Len(b.outs) = 1 /\ \A i \in b.ids : amount[i] = 0

\* an open invoice credits a note of at least the floor, and one that the node
\* is creating will: the settings it was priced by do not change meanwhile
MintsWorth ==
  \A p \in Payments :
    /\ mint[p] = "unpaid" => mintId[p] \in Ids /\ net[p] >= MinMint
    /\ invoicing[p] # NoId => price[p] > 0 /\ NetOf(price[p], Fee) >= MinMint

\* an invoice is priced, then created and put on file, then paid: once each
MintsOnce ==
  \A p \in Payments :
    /\ price[p] = 0 => mint[p] = "none"
    /\ invoicing[p] # NoId => mint[p] = "none"
    /\ mint[p] = "none" => ~paid[p]

\* the value a waiting request read is still its first note's, who ever has
\* burned that note by now
ReadsStand ==
  \A c \in Calls : call[c] # NoCall =>
    /\ Len(call[c].k1) = 2
    /\ Len(call[c].outs) = (IF call[c].split > 0 THEN 2 ELSE 1)
    /\ note[call[c].k1[1]] # "none" /\ amount[call[c].k1[1]] = call[c].value

\* Reservations and payments: a payment that is open or went out has its note
\* reserved, or burned once it was out, unless a stale round came between; a
\* round names notes on file, and knows when its invoice is a live melt's.
MeltsHeld ==
  /\ \A i \in Ids : note[i] = "pending" <=> heldFor[i] # NoHash
  /\ \A h \in Hashes :
       /\ payer[h] = NoId => payment[h] = "none"
       /\ payer[h] # NoId => note[payer[h]] # "none" /\ due[h] = amount[payer[h]]
       /\ payment[h] \in {"open", "sent"} /\ h \notin stray =>
            \/ Held(payer[h], h)
            \/ payment[h] = "sent" /\ note[payer[h]] = "spent"
  /\ \A e \in snapshot : note[e[2]] # "none"
  /\ at \in tasks => reused

IndInv ==
  /\ TypeOK /\ MintNeverBricked /\ BurnedOnce
  /\ NotesWorth /\ MintsWorth /\ MintsOnce /\ ReadsStand /\ MeltsHeld

=============================================================================
