----------------------------- MODULE SettlePoll -----------------------------
(***************************************************************************)
(* The settlement poll.  An invoice for a registered Lightning Address     *)
(* names no note until it settles, so no lookup can notice its payment:    *)
(* the mint asks the funding source every few seconds, and then publishes  *)
(* the Nostr receipts of settled zaps.  LUD-21 verify may settle the same  *)
(* invoice at the same time.                                               *)
(*                                                                         *)
(* Coroutines are cut where they await: the funding source, a relay.  Each *)
(* NoteStore call is one transaction.                                      *)
(***************************************************************************)
EXTENDS Naturals, SequencesExt

CONSTANTS Mints,     \* payment hashes of invoices for a registered address
          Zaps,      \* those of them that are bound to a zap request
          Fees,      \* payment hashes of address fee invoices
          Names, NoName,    \* addresses
          Shares, NoShare,  \* the shares that hold them
          Backends,  \* funding sources looked at
          Limit,     \* _ZAP_POLL_LIMIT
          MaxVerifying  \* bound: verify requests that wait at the same time

ASSUME SettlePollAssumption ==
  /\ Zaps \subseteq Mints /\ Mints \cap Fees = {}
  /\ NoShare \notin Shares /\ NoName \notin Names
  /\ Limit \in Nat \ {0}

VARIABLES
  \* settings, and whether the funding source answers
  backend, nostrKey, reachable,
  \* the database: the share of each registered name, the rows of mints and
  \* address_fees in the order of created_at, the name a mint is for, the rows
  \* older than the poll's window, the `minted` and `paid` columns, the share
  \* whose note a mint became, and zap_receipt
  holder, issued, forName, aged, settled, credited, published,
  \* the poll's coroutine: its phase, the rest of the rows it fetched, and
  \* whether it waits for the funding source about the first of them
  poll, work, asking,
  \* verify requests that wait for the funding source
  verifying,
  \* the world: what became of the invoices, receipts that a relay took, and
  \* how often a mint was logged
  invoice, relayed, logged

database == <<holder, issued, forName, aged, settled, credited, published>>
coroutines == <<poll, work, asking, verifying>>
settings == <<backend, nostrKey>>
world == <<invoice, relayed, logged>>
vars == <<reachable, settings, database, coroutines, world>>

Invoices == Mints \cup Fees

TypeOK ==
  /\ reachable \in BOOLEAN
  /\ backend \in Backends /\ nostrKey \in BOOLEAN
  /\ holder \in [Names -> Shares \cup {NoShare}]
  /\ issued \in Seq(Invoices)
  /\ forName \in [Mints -> Names \cup {NoName}]
  /\ aged \in SUBSET Invoices /\ settled \in SUBSET Invoices
  /\ credited \in [Mints -> Shares \cup {NoShare}]
  /\ published \in SUBSET Zaps
  /\ poll \in {"sleeping", "mints", "fees", "receipts", "marking"}
  /\ work \in Seq(Invoices)
  /\ poll \in {"mints", "fees"} => Len(work) <= Limit
  /\ asking \in BOOLEAN
  /\ verifying \in SUBSET Invoices
  /\ invoice \in [Invoices -> {"none", "open", "paid"}]
  /\ relayed \in SUBSET Zaps
  /\ logged \in [Mints -> Nat]

Init ==
  /\ reachable \in BOOLEAN
  /\ backend \in Backends /\ nostrKey \in BOOLEAN
  /\ holder = [n \in Names |-> NoShare]
  /\ issued = <<>>
  /\ forName = [m \in Mints |-> NoName]
  /\ aged = {} /\ settled = {}
  /\ credited = [m \in Mints |-> NoShare]
  /\ published = {}
  /\ poll = "sleeping" /\ work = <<>> /\ asking = FALSE
  /\ verifying = {}
  /\ invoice = [i \in Invoices |-> "none"]
  /\ relayed = {}
  /\ logged = [m \in Mints |-> 0]

\* _zaps_offered
ZapsOffered == nostrKey /\ backend \in {"lnd", "cln"}

-----------------------------------------------------------------------------
(* The funding source's side of an invoice.                                *)

\* spark cannot bind an invoice to the hash of a zap request
CreatesInvoice(i) == reachable /\ (backend = "spark" => i \notin Zaps)

\* create_invoice, then create_mint (hold_username for a fee)
Issue(i) ==
  /\ CreatesInvoice(i)
  /\ invoice[i] = "none"
  /\ i \in Zaps => ZapsOffered
  /\ \/ i \in Fees /\ UNCHANGED forName
     \/ \E n \in Names : /\ i \in Mints /\ holder[n] # NoShare
                        /\ forName' = [forName EXCEPT ![i] = n]
  /\ invoice' = [invoice EXCEPT ![i] = "open"]
  /\ issued' = Append(issued, i)
  /\ UNCHANGED <<reachable, settings, holder, aged, settled, credited,
                 published, coroutines, relayed, logged>>

InvoicePaid(i) ==
  /\ invoice[i] = "open"
  /\ invoice' = [invoice EXCEPT ![i] = "paid"]
  /\ UNCHANGED <<reachable, settings, database, coroutines, relayed, logged>>

\* is_invoice_settled
LndSettled(i) == invoice[i] = "paid"

ClnSettled(i) ==
  LET invoices == {invoice[i]} \ {"none"}
  IN invoices # {} /\ "paid" \in invoices

SparkSettled(i) == \E payment \in {invoice[i]} : payment = "paid"

SourceSettled(i) ==
  \/ backend = "lnd" /\ LndSettled(i)
  \/ backend = "cln" /\ ClnSettled(i)
  \/ backend = "spark" /\ SparkSettled(i)

-----------------------------------------------------------------------------
(* Settling one invoice, by whoever saw it paid.                           *)

\* Mutant: the row is committed as minted before its note is picked
SettleMint_NoRollback(m) ==
  IF m \in settled
    THEN UNCHANGED <<settled, credited, logged>>
    ELSE /\ settled' = settled \cup {m}
         /\ credited' = [credited EXCEPT ![m] = holder[forName[m]]]
         /\ logged' = [logged EXCEPT ![m] = @ + 1]

\* settle_mint and the log line of the call that made the transition: a mint
\* for a name that nobody has now raises, and nothing of it is committed
SettleMint(m) ==
  IF m \in settled
    THEN UNCHANGED <<settled, credited, logged>>
    ELSE /\ holder[forName[m]] # NoShare
         /\ settled' = settled \cup {m}
         /\ credited' = [credited EXCEPT ![m] = holder[forName[m]]]
         /\ logged' = [logged EXCEPT ![m] = @ + 1]

\* settle_address_fee: what it registers is module Addresses' subject
SettleFee(f) == settled' = settled \cup {f} /\ UNCHANGED <<credited, logged>>

Settle(i) == IF i \in Mints THEN SettleMint(i) ELSE SettleFee(i)

\* settle_mint raises "unknown user"
Unsettleable(i) == i \in Mints \ settled /\ holder[forName[i]] = NoShare

-----------------------------------------------------------------------------
(* settle_polled_mints and publish_zap_receipts, round by round.           *)

\* WHERE payment_hash is one of `rows`, ORDER BY created_at
RowsOf(rows) ==
  FoldLeft(LAMBDA found, i : IF i \in rows THEN Append(found, i) ELSE found,
           <<>>, issued)

\* Mutant: one row more than the limit
Newest_OneMore(rows) ==
  LET queue == Reverse(RowsOf(rows \ (aged \cup settled)))
  IN SubSeq(queue, 1, IF Len(queue) <= Limit THEN Len(queue) ELSE Limit + 1)

\* unsettled rows of a table in the poll's window, the newest Limit, newest first
Newest(rows) ==
  LET queue == Reverse(RowsOf(rows \ (aged \cup settled)))
  IN SubSeq(queue, 1, IF Len(queue) < Limit THEN Len(queue) ELSE Limit)

PendingPolledMints == Newest(Mints)
HeldAddressFees == Newest(Fees)

\* Mutant: the poll's window applies to receipts as well
UnpublishedZaps_InWindow == RowsOf((Zaps \cap settled) \ (published \cup aged))

UnpublishedZaps == RowsOf((Zaps \cap settled) \ published)

PollWakes ==
  /\ poll = "sleeping"
  /\ poll' = "mints"
  /\ work' = PendingPolledMints
  /\ asking' = FALSE
  /\ UNCHANGED <<reachable, settings, database, verifying, world>>

EndRound == poll' = "sleeping" /\ work' = <<>> /\ asking' = FALSE
NextRow == UNCHANGED poll /\ work' = Tail(work) /\ asking' = FALSE

\* a row that was settled since the snapshot costs no question
PollAsks ==
  /\ poll \in {"mints", "fees"} /\ work # <<>> /\ ~asking
  /\ IF Head(work) \in settled
       THEN NextRow
       ELSE asking' = TRUE /\ UNCHANGED <<poll, work>>
  /\ UNCHANGED <<reachable, settings, database, verifying, world>>

PollSettles ==
  /\ asking /\ reachable
  /\ SourceSettled(Head(work))
  /\ Settle(Head(work))
  /\ NextRow
  /\ UNCHANGED <<reachable, settings, holder, issued, forName, aged, published,
                 verifying, invoice, relayed>>

\* Mutant: the first unpaid row ends the round
PollFindsUnpaid_EndsRound ==
  /\ asking /\ reachable
  /\ ~SourceSettled(Head(work))
  /\ EndRound
  /\ UNCHANGED <<reachable, settings, database, verifying, world>>

PollFindsUnpaid ==
  /\ asking /\ reachable
  /\ ~SourceSettled(Head(work))
  /\ NextRow
  /\ UNCHANGED <<reachable, settings, database, verifying, world>>

\* the funding source does not answer, or settle_mint raises: nothing in the
\* round catches it, the loop does
PollRaises ==
  /\ asking
  /\ ~reachable \/ (SourceSettled(Head(work)) /\ Unsettleable(Head(work)))
  /\ EndRound
  /\ UNCHANGED <<reachable, settings, database, verifying, world>>

\* the mints are done, then the fees; only the zap loop goes on to receipts
PollTurns ==
  /\ poll \in {"mints", "fees", "receipts"} /\ work = <<>>
  /\ \/ poll = "mints" /\ poll' = "fees" /\ work' = HeldAddressFees
     \/ /\ poll = "fees" /\ ZapsOffered
        /\ poll' = "receipts" /\ work' = UnpublishedZaps
     \/ /\ poll = "receipts" \/ (poll = "fees" /\ ~ZapsOffered)
        /\ poll' = "sleeping" /\ work' = <<>>
  /\ asking' = FALSE
  /\ UNCHANGED <<reachable, settings, database, verifying, world>>

\* Mutant: a relay that does not say OK counts
ReceiptTaken_AnyAnswer ==
  /\ poll = "receipts" /\ work # <<>>
  /\ relayed' \in {relayed, relayed \cup {Head(work)}}
  /\ poll' = "marking"
  /\ UNCHANGED <<reachable, settings, database, work, asking, verifying,
                 invoice, logged>>

\* a relay answers OK: publish returns it
ReceiptTaken ==
  /\ poll = "receipts" /\ work # <<>>
  /\ relayed' = relayed \cup {Head(work)}
  /\ poll' = "marking"
  /\ UNCHANGED <<reachable, settings, database, work, asking, verifying,
                 invoice, logged>>

\* every relay is down, slow or refuses, or its OK is lost: tried again in
\* the next round
ReceiptNotTaken ==
  /\ poll = "receipts" /\ work # <<>>
  /\ relayed' \in {relayed, relayed \cup {Head(work)}}
  /\ NextRow
  /\ UNCHANGED <<reachable, settings, database, verifying, invoice, logged>>

\* mark_zap_published
ReceiptMarked ==
  /\ poll = "marking"
  /\ published' = published \cup {Head(work)}
  /\ poll' = "receipts" /\ work' = Tail(work)
  /\ UNCHANGED <<reachable, settings, holder, issued, forName, aged, settled, credited,
                 asking, verifying, world>>

-----------------------------------------------------------------------------
(* LUD-21 verify of an invoice that is not settled on file.                *)

VerifyAsks(i) ==
  /\ i \notin verifying \cup settled /\ invoice[i] # "none"
  /\ Cardinality(verifying) < MaxVerifying
  /\ verifying' = verifying \cup {i}
  /\ UNCHANGED <<reachable, settings, database, poll, work, asking, world>>

VerifySettles(i) ==
  /\ i \in verifying /\ reachable
  /\ SourceSettled(i)
  /\ Settle(i)
  /\ verifying' = verifying \ {i}
  /\ UNCHANGED <<reachable, settings, holder, issued, forName, aged, published, poll,
                 work, asking, invoice, relayed>>

\* not paid, no answer, or nobody has the name
VerifyLeaves(i) ==
  /\ i \in verifying
  /\ ~reachable \/ ~SourceSettled(i) \/ Unsettleable(i)
  /\ verifying' = verifying \ {i}
  /\ UNCHANGED <<reachable, settings, database, poll, work, asking, world>>

-----------------------------------------------------------------------------
\* a name is freed, or taken by a share that holds no other
Delete(n) ==
  /\ holder[n] # NoShare
  /\ holder' = [holder EXCEPT ![n] = NoShare]
  /\ UNCHANGED <<reachable, settings, issued, forName, aged, settled, credited,
                 published, coroutines, world>>

Register(n, s) ==
  /\ holder[n] = NoShare
  /\ \A k \in Names : holder[k] # s
  /\ holder' = [holder EXCEPT ![n] = s]
  /\ UNCHANGED <<reachable, settings, issued, forName, aged, settled, credited,
                 published, coroutines, world>>

\* an hour passes since the oldest row in the window was created
Ages ==
  /\ \E k \in DOMAIN issued :
       /\ issued[k] \notin aged
       /\ \A j \in 1..(k - 1) : issued[j] \in aged
       /\ aged' = aged \cup {issued[k]}
  /\ UNCHANGED <<reachable, settings, holder, issued, forName, settled, credited,
                 published, coroutines, world>>

Restart ==
  /\ EndRound
  /\ verifying' = {}
  /\ UNCHANGED <<reachable, settings, database, world>>

SourceFlips ==
  /\ reachable' = ~reachable
  /\ UNCHANGED <<settings, database, coroutines, world>>

Poll ==
  \/ PollWakes \/ PollAsks \/ PollSettles \/ PollFindsUnpaid \/ PollRaises
  \/ PollTurns \/ ReceiptTaken \/ ReceiptNotTaken \/ ReceiptMarked

Verify(i) == VerifyAsks(i) \/ VerifySettles(i) \/ VerifyLeaves(i)

Naming == \E n \in Names : Delete(n) \/ \E s \in Shares : Register(n, s)

Next ==
  \/ Poll \/ Naming \/ Ages \/ Restart \/ SourceFlips
  \/ \E i \in Invoices : Issue(i) \/ InvoicePaid(i) \/ Verify(i)

Spec == Init /\ [][Next]_vars

-----------------------------------------------------------------------------
(* Safety.                                                                 *)

\* An invoice becomes a note exactly once, of a share that had the name when
\* it settled, is logged exactly once, and only if it was paid - though the
\* poll and verify requests settle it concurrently, and though settle_mint
\* has written `minted` by the time it finds that nobody has the name.
MintedOnce ==
  \A m \in Mints :
    /\ m \in settled <=> credited[m] # NoShare
    /\ logged[m] = (IF m \in settled THEN 1 ELSE 0)
    /\ m \in settled => invoice[m] = "paid"

\* A zap is marked as receipted only when a relay took its receipt, and a
\* receipt only ever tells of a zap whose note exists: a stop between the
\* relay's OK and the mark repeats the receipt, it never loses it.
ReceiptsHonest == published \subseteq relayed /\ relayed \subseteq settled

-----------------------------------------------------------------------------
(* What the properties above rest on.                                      *)

\* an invoice that was issued for an address names it
IssuedNamed == \A m \in Mints : invoice[m] # "none" => forName[m] \in Names

\* the await about a row is part of a round that has it
AskedHasRow == asking => poll \in {"mints", "fees"} /\ work # <<>>

\* receipts are published of settled zaps, and marked when a relay took them
ReceiptRows ==
  /\ poll \in {"receipts", "marking"} =>
       \A k \in DOMAIN work : work[k] \in Zaps \cap settled
  /\ poll = "marking" => work # <<>> /\ Head(work) \in relayed

IndInv ==
  /\ TypeOK /\ MintedOnce /\ ReceiptsHonest
  /\ IssuedNamed /\ AskedHasRow /\ ReceiptRows

-----------------------------------------------------------------------------
(* Liveness.  Coroutines that are ready run, a relay that is asked again   *)
(* and again takes the receipt in the end.                                 *)

Fairness ==
  /\ WF_vars(Poll)
  /\ SF_vars(ReceiptTaken)

FairSpec == Spec /\ Fairness

Calm == <>[][~Restart]_vars /\ <>[]reachable

\* paid and in the poll's window, not settled yet, and its name has an owner
Recent(i) ==
  i \notin aged \cup settled /\ invoice[i] = "paid" /\ ~Unsettleable(i)

\* a paid invoice for a name that nobody has now
Poison(i) == i \notin aged \cup settled /\ invoice[i] = "paid" /\ Unsettleable(i)

\* no row before the k-th ends the round
Clear(rows, k) == \A j \in 1..(k - 1) : ~Poison(rows[j])

\* among the newest Limit, with nothing before it that ends the round
Pollable(i) ==
  /\ Recent(i)
  /\ LET rows == Newest(IF i \in Mints THEN Mints ELSE Fees)
         mints == PendingPolledMints
     IN \E k \in DOMAIN rows :
          /\ rows[k] = i
          /\ i \in Mints => Clear(rows, k)
          /\ i \in Fees => Clear(mints, Len(mints) + 1)

\* A paid invoice that the poll gets to is settled: once the process stays up
\* and the funding source answers, none stays pollable and unsettled for ever.
PollReaches == Calm => \A i \in Invoices : []<>~Pollable(i)

\* The receipt of a settled zap is published in the end, unless rounds keep
\* ending before they come to the receipts.
ReceiptsArrive ==
  Calm => \A z \in Zaps :
    []<>(z \in settled \ published =>
           ~Clear(PendingPolledMints, Len(PendingPolledMints) + 1))

\* settle_polled_mints: "Settle every recently issued invoice only a poll can
\* settle" (the address mints; their name has an owner).
SettlesEveryRecent == Calm => \A m \in Mints : []<>~Recent(m)

=============================================================================
