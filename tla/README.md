# A verification of lnurl-mint

lnurl-mint issues bearer notes over Lightning (LUD-25, LUD-26): a payment to
the mint becomes a note, a note is rotated, split or merged into other notes,
and is melted when the mint pays an invoice of another node for its holder.
The modules here model the parts that keep that honest: the TLC runs check
them on small instances; the proof modules prove every safety property that holds
for any number of notes, invoices, names and shares and any settings, and that
the detailed modules implement the two abstract ones, `BearerNote` and
`Funding`. All paths below
are relative to `lnurl_mint/`, but for the repository's README.

## The system

One asyncio process serves HTTP requests, runs background tasks (melt
payments) and loops (funding-source monitor, settlement poll, zap receipts),
and keeps its durable state in one SQLite file behind `db.NoteStore`. A
Lightning node or a spark wallet is its funding source, over the network.

| component | state it keeps | operations | what is hard | what makes it correct |
|---|---|---|---|---|
| melt (`router.get_withdraw_callback` with `pr`, `_melt_pay`, `reconcile_pending_melts`) | `notes.pending/spent/pending_payment_hash`, table `melts`, memory `_in_flight_melts`, tasks | reserve, record, schedule, pay, confirm with retries, finalize or restore, reconcile at boot and on each healthy tick | crash between commits, lost answers, a payment that outlives its caller, a round working from a snapshot | no note freed while its payment lives; none burned unpaid; no invoice paid twice; no reservation for ever |
| ledger (`db.NoteStore`, `get_withdraw_callback`, `_pay_callback`) | tables `notes`, `mints`, `burns`, `melts` | issue and settle a mint, rotate, split, merge; reserve, burn, release for a melt | a request that waits between its notes, ids chosen by wallets, fees given back, edited settings, burns and releases that come late | paid mints become notes; nothing burned twice; what is owed is covered |
| fees and limits (`_mint_fee_msat`, `_min_sendable_msat`, `max_mintable_msat`) | settings | advertise, check an amount | rounding | what is advertised is honoured |
| addresses (`usernames`, `accepted_keys`, `address_fees`, mints by name) | those tables, requests that wait for an invoice | register, hold, settle a fee, melt into it, update, delete, credit, transfer | waiting registrations, lapsing holds, late payments, rolled back claims | a name is promised once; a proof applies once; no gap in a share's notes |
| settlement poll, zap receipts (`settle_polled_mints`, `publish_zap_receipts`, the loops of `server.py`) | `mints.minted`, `address_fees.paid`, `zap_receipt` | rounds over the newest unpaid invoices: fetch, ask, settle, publish, mark | one failing invoice, the window and the limit, verify requests in between, a lost OK of a relay | a paid invoice becomes one note, its receipt is published and true |
| LUD-21 verify (`verify_invoice`) | reads all of the above | settle on demand, report | cached flags, records that lag | never reports what did not happen |
| funding sources (`node.py`, `spark.py`) | none for lnd and cln; memory `_prepare_rejected` for spark | pay, confirm, look up an invoice | timeouts, ambiguous statuses, rows that appear late, a bounded registry | a verdict is the truth and stays it; a payment goes out once |
| lifecycle (`server.py`) | loops and tasks, the monitor's `healthy` | boot check, monitor ticks, stop | what is lost at a stop; an outage | everything is resumed, an outage is logged |
| spends, derivation, signatures, encodings, logs, models, frontend | none, or append-only | pure functions, presentation | | not modelled |

They interact through the tables (a melt reserves rows that a swap reads; a
mint's id may not be a swap's output; an address fee invoice is paid by
burning notes), through `_in_flight_melts` (written by the callback and the
task, read by the reconcile round) and through the funding source.

`PROJECT.json` lists every component, the hazards at their lines, and the
source lines of every definition.

## Modelling choices

* A coroutine runs undisturbed between two awaits, so an action is what runs
  between two awaits. It is cut further only where two commits follow each
  other (`mark_pending`/`record_melt`, `finalize_melt`/`mark_melt_settled`),
  because the process can stop, or the second commit fail, in between;
  `LoopFree` then keeps every other coroutine out.
* A NoteStore method is one transaction, hence part of one action.
* Crashes and stops are one action: memory is lost, the tables stay. Settings
  change only between two runs of the process.
* A task's question to the funding source and its reaction are one step: the
  answers it acts on are terminal and cannot change. The reconcile round keeps
  the two apart, since the note may change in between.
* Signatures, scripts and encodings are left out: any request may arrive that
  they would accept. Note ids, payment hashes, names and shares are model
  values; amounts are msat where a property is about them.
* `Melt` assumes of a funding source what its callers rely on: a payment that
  is in flight or has succeeded is not paid again under its hash, one that
  failed may be; a verdict is the truth and stays it. `Funding` states this
  contract, and `Backends` shows that the code for lnd, cln and spark keeps it.
* What the nodes and the spark SDK themselves do is external, modelled from how
  the code uses them and what its comments say of them: lnd and cln record a
  payment when they take it, and a request whose client call failed is not
  delivered later; the SDK's row appears some time after the payment is on its
  way, and only `InsufficientFunds` before the send proves it never left.

## Modules

**`Melt.tla`** One melt per task (of one note: the callback refuses `pr` with
more), from the reservation to the last commit. `spent`, `pending`,
`pendingHash` are columns of `notes`; `melts` and `settled` the rows and the
flag of table `melts`; `taskPc`, `attempts` where `_melt_pay` is; `inFlight` is
`_in_flight_melts`; `todo`, `snapshot`, `confirming`, `answer` the loop of
`reconcile_pending_melts`; `reservingNote`, `reservingHash` the handler between
its two commits; `payment` the truth at the funding source. `payer`,
`burnedBy`, `staleFreed` are history: what a payment is to be covered by, what
burned a note, and which notes a round released or burned with an entry that
was no longer current. The actions follow the code in order: `Reserve`,
`Schedule`/`RecordFails`, `PayLands`, `PaySucceeds`/`PayRaises`,
`ConfirmPaid`/`ConfirmUnpaid`/`ConfirmRaises`, `TaskMarks`/`TaskStoreFails`;
`StartRound`, `RoundAnswer`, `RoundLeaves`, `RoundRestores`, `RoundFinalizes`,
`RoundMarks`, `RoundStoreFails`; `Serve`, `Crash`, `Boot`. `Swap` is the rest
of the callback, as far as one note goes. Invoices of the mint itself never get
here (they are refused, or settled by `MeltIntoFee` in `Addresses`).

**`Fees.tla`** The fee functions in msat, with no state. **`PayRange.tla`** A
payer reads the advertised range and asks for an amount inside it. `WalkStart`,
`WalkSteps` and `WalkEnds` are the walk of `_min_sendable_msat`, which gives up
after `WalkBound` steps and makes the address an error.

**`NoteStore.tla`** The ledger. A note is out, pending or spent; a mint row
names the id it will credit; `burns` is the table retries are answered from.
A request suspends only in `_verified_note`, and only for a note whose mint is
still unpaid on file, so `AwaitNote`/`NoteArrives` is a merge that waits for
its second note while everything else is one step. `RequestInvoice` and
`CreateMint` are the two sides of the await in `_pay_callback`. `funds` is what
came in over Lightning less what melts paid out; what a payment costs to route
is left out (`_melt_fee_limit_msat` caps it, the mint fee is there to pay it).
Melts are here as far as money goes, with the payment apart from the burn:
`MeltNote` reserves the note and records the invoice (`heldFor`; `payer`, `due`:
the note and the amount of each `melts` row), `PaymentEnds` takes the money out
of the funds, and a task (`TaskResolves`, `TaskLeaves`) or a round (`StartRound`,
`RoundResolves`, `RoundLeaves`) burns or releases the note. `Burn` and `Release`
are unconditional, as `finalize_melt` and `restore` are: a round that acts on a
stale entry releases a note whose payment runs, a swap may then spend it, and
the payment is lost. `stray` is history: the payments this happened to. Of the
retries, the second commit of a task and what a crash in between leaves, `Melt`
has the detail.

**`Addresses.tla`** Names, shares, holds, fee invoices and crediting. `age`
stands for the clock: `fresh` before `expires_at`, `expired` after it, `old`
outside the window of the poll. Both last an hour, and the row is created
after its invoice, so the window never ends before the expiry. A fee or an
address invoice that is paid may be settled at any time, by the poll, a lookup
or verify. `used` abstracts the ids on file: a planted note or comment only
matters for being in the way of an index.

**`SettlePoll.tla`** The poll's coroutine, cut at its awaits. `PollWakes` and
`PollTurns` take the snapshots of `pending_polled_mints`, `held_address_fees`
and `unpublished_zaps` in turn (the invoices: the newest `Limit` inside the
window); `PollAsks` starts the await about one row, `PollSettles`,
`PollFindsUnpaid` and `PollRaises` are its ends, the last of which ends the
round. `settle_mint` writes `minted`, then picks the note, and raises if nobody
has the name, so that nothing is written. `VerifyAsks`, `VerifySettles` and
`VerifyLeaves` are the requests that settle the same invoice meanwhile. Then
the receipts: `ReceiptTaken`, `ReceiptNotTaken` (a relay that took it and whose
OK was lost among them), and `ReceiptMarked`. `LndSettled`, `ClnSettled`, `SparkSettled` are what each backend's
answer about an incoming payment must carry to count as settled.

**`Backends.tla`** One payment per hash on one of the three sources. `call` is
where `pay_invoice` is, `payment` the truth on the network, `row` what the
source has on record, `registry` is `_prepare_rejected`, `check` where
`_is_payment_complete_spark` is between its two scans and its probe. `LndPays`,
`ClnPays` and the spark actions return, raise `PaymentFailed` or raise anything
else for each status an answer can carry; `told` is the verdict the melt then
acts on, `shown` what `/verify` reported of it meanwhile.

**`Server.tla`** `lifespan`'s boot check and `_monitor_funding_source`, with a
source that comes and goes. **`Reconcile.tla`** composes the two: rounds ask
about every melt without a verdict while the source answers, tasks ask besides,
and the process restarts.

**`Funding.tla`**, **`BearerNote.tla`** The abstract specifications: what the
mint asks of a funding source, and what it promises the holder of a note.

`MCMelt`, `MCNoteStore` and `MCAddresses` add the symmetry of the model values.
`MeltProofs`, `MeltRefinement`, `BackendsProofs`, `NoteStoreProofs`,
`PayRangeProofs`, `AddressesProofs` and `SettlePollProofs` hold the proofs;
**`Lemmas.tla`** what several of them need of sums over finite sets and of
least elements.

`Melt` composes with `Backends` through `Funding`: the melt's `Reports` and
`PayLands` are the contract's `Tell` and `Start`. `Melt` and `NoteStore` meet in
the notes table: both have a melt and a swap, `Melt` the steps of the melt and
`NoteStore` the amounts and the swaps.

## What the runs show

| run | bounds | result |
|---|---|---|
| `MeltSafety` | 2 notes, 3 invoices, 2 confirmation attempts | the registry is exact, no invoice is paid twice, nothing is burned unpaid, a paid note is kept; every step is one of `BearerNote`; the invariants of the proofs hold |
| `MeltLiveness` | 2 notes, 2 invoices, 1 attempt | every reservation ends once crashes do |
| `MeltStaleRound` | 2 notes, 3 invoices | **violated**: with a second entry to wait behind, a round restores a note that is being paid for |
| `MeltUnrecorded` | 2 notes, 1 invoice | **violated**: a stop between two commits lets one payment burn two notes |
| `NoteLedger` | 4 ids, 2 invoices, 2 melts, 1 waiting request, base fee 1000 msat, amounts 1000 and 3000 (a payment of 1000 mints a note for nothing, splitting 1000 off 2000 leaves no change), minimum 0, constraints `Room` and `Worthwhile` | no mint is bricked, no note burned twice, a bearer's note stays his, a note for nothing comes of nothing, the funds cover all notes, their base fees and what was paid in without a note yet, but for the payments whose note is not burned for them; the invariant of the proofs holds |
| `NoteRefund` | 3 ids, 2 invoices, 1 melt, base fee 0 or 1000 | **violated**: a merge refunds fees nobody paid |
| `PayRange` | 800 settings, 10 amounts and the ends of the range, a walk of 8 steps | the advertised range is honoured in whole sats and starts where it must, and is found where the rate's bound promises it; the ceiling on show is less than a sat off |
| `AddressBook` | 2 names, 2 shares, 2 fee invoices, 2 address invoices, 2 indexes | a name is promised once, a proof applies once, a fee is kept only after its hold lapsed, no unused index below the next one; the invariant of the proofs holds |
| `AddressPaidTwice` | 1 name, 2 shares, 2 fee invoices | **violated**: a fee that is paid burns notes all the same |
| `Reconcile` | 2 payments on each of lnd, cln, spark; a registry of 1 | every backend keeps the contract of `Funding`, the registry and `/verify` tell the truth; every melt is answered in the end but a stranded spark payment; the monitor's log follows the source |
| `SettlePoll` | 1 mint, 1 zap, 1 fee, one row per round, 1 verify request, 3 backends | one note and one log line per paid invoice, receipts true and published, what the poll gets to is settled; the invariant of the proofs holds |
| `SettlePollPoison` | 2 mints for 2 names | **violated**: a paid invoice whose name was deleted keeps the poll from every older one |

Why the bounds are enough. In `Melt` two notes make an invoice contested and
let a stale entry wait behind a live one; three hashes let a note be reserved,
released, and reserved again while the old entry is still in a round. Two
attempts show a retry and a last attempt; further retries repeat the first.
In `NoteStore` two mints and two outputs are the smallest merge that splits,
and four ids leave a rotate or a planted id beside it; two hashes let a note
be reserved, released, and reserved for another payment while a round still has
its first entry, which is how a payment is lost (it takes 19 steps, and the run
reaches it). Two constraints keep `NoteLedger` finite in minutes: `Worthwhile`
drops waiting requests whose outputs are in use when they begin, which can only
be refused because an id in use stays in use; `Room` lets a request wait during
a round only while two ids are free. The theorems have neither. In `Addresses` two
names, shares and fees make holds and registrations compete for either; two
invoices settle in any order. `LastIndex` bounds what a share derives: with two
notes an unused one can stay behind a used one. `PayRange` takes
its values at the boundaries of whole sats and of the rounding, with the
largest rate the settings allow; its `WalkBound` is 8, not the 100_000 of the
code, so that some settings make the walk give up within TLC's 32-bit integers
(the proofs are for any bound). In `Reconcile` the registry holds one of two
hashes (`RegistryMax`), so that an eviction takes the other's proof; two
payments share nothing else. In `SettlePoll` a `Limit` of 1 lets a newer unpaid
invoice push a paid one out of the round, and a zap is a mint, so that
receipts, mints and fees all queue in one round; `MaxVerifying` bounds the
verify requests that wait at once: one is enough to settle a row the poll is
asking about. `SettlePollPoison` fetches both rows, so that it is not the limit
that keeps the older one out.

Deadlock is checked everywhere but in `PayRange`, where a payer stops after
one answer.

**Fairness.** asyncio runs ready callbacks first come, first served, so every
coroutine that is ready runs. Each liveness property says itself that restarts
end, and that the source stays reachable where it needs that.

* `MeltLiveness`: a task or a round that is ready again and again runs (`SF`,
  because the loop is busy between two commits). Lightning payments resolve
  within their timelocks. A source that is asked about a hash again and again
  answers, and a commit that is tried again and again succeeds: without either
  the mint stays stuck, and means to (`_melt_pay` leaves a note pending rather
  than guess).
* `Reconcile`: the monitor's loop runs, `pay_invoice` ends (the clients have
  timeouts), a payment resolves and the source's record catches up, and a round
  asks about every melt it finds (`SF`: rounds come and go). `Answered` then is
  what `MeltLiveness` takes for granted; it holds for lnd and cln, and for
  spark but for `Stranded`: a payment that was never sent and whose entry in
  the registry was evicted or lost in a restart. Such a note stays pending,
  which `spark.py` says and accepts.
* `SettlePoll`: the poll runs (`WF`), and a relay that is asked again and again
  takes the receipt (`SF`). Nothing makes invoices paid or requests come.

## What is proved

Every proof holds for all values of the constants. The only assumptions are
those the modules declare: sentinels are no members of their sets, there is at
least one attempt, limits, registry and walk bounds are positive, and settings
are what `config.py` lets pass, the rate at most a tenth among them, and
`MinMint` 0 or more. Each safety property of a passing run is the
subject of a theorem, and its proof starts from an inductive invariant that the
same run checks (`RangeInv` of `PayRange` is only in its proof module).

**`MeltProofs`**: `MeltInvariant`, and from it `PaidNoteIsKept`,
`NoInvoicePaidTwice`, `NothingBurnedUnpaid`, `RegistryIsExact` (and
`TypeCorrect`). `PaidNoteKept` is not inductive. `IndInv` adds what the code
relies on without saying so: a hash without a `melts` row has never been paid
(`UnrecordedUntouched`), which is why a fresh hash may be paid; the task that
runs holds its note (`TaskHoldsNote`), which needs the round to touch only
entries no task works on (`RoundEntryDead`), which needs the registry to be
exact; an "unpaid" answer stays true until it is acted on, because nobody pays
a recorded hash again; and an entry of a note that was reserved but never
recorded stays as it was until its round comes (`UnrecordedEntryHeld`,
`ReservingNotInEntry`), because a hash without a row may be reserved again.
Every part excepts the notes in `staleFreed`, which is where `MeltStaleRound`
shows the invariant to fail. There is one lemma per action, `StepIndInv` puts
them together, and each theorem follows by `PTL`.

**`MeltRefinement`**: `MeltKeepsPromise`, that `Melt` implements `BearerNote`
under the mapping `noteState`, `notePurpose` (the columns of a note read as one
state), step by step; a note that a stale round acted on maps to `stray`. It
needs `PromiseInvariant` besides: pending notes are unspent, and what an entry
of a round holds under another note's payment waits for that entry.

**`BackendsProofs`**: `BackendsKeepContract`, that `Backends` implements
`Funding` with the same variables, and `RoundsArePayments`, that the
composition with the monitor adds no step. Its `IndInv` relates the truth, the
record and the call: a row never tells more than the truth (`RowsTrue`), a rest
node has a row of whatever went out (`NodeRecords`), nothing happened before
the call (`BeforeTheCall`), a verdict is never given while something may still
go out (`VerdictsLate`), so it stays true (`VerdictsFinal`). From it
`RejectedWasNeverSent`, `RegistryBounded`, `VerifyTellsTheTruth`.

**`NoteStoreProofs`**: `LedgerIndInv`, and from it `LedgerTyped`,
`NotesAlwaysWorth`, `PaidMintBecomesNote`, `NoNoteBurnedTwice`, and the action
property `NotesAreBearers`. The last three rest on what `SwapAccepts` and
`CreateMint` look at in the transaction that commits, and on nothing that a
request read before it waited. What notes are worth does rest on such a read:
a merge adds up values, and the value of the first note, read before the wait,
must be its value still when the second arrives (`ReadsStand`). It is, even if
that note was spent meanwhile, because no statement ever changes an amount; the
swap's own check then refuses the spent note. `MintsWorth` says the same of the
other await: an invoice on its way nets at least the floor under the settings
it was priced by, which cannot change before the process stops. `MeltsHeld` is
what is left to say of melts when a burn or a release looks at nothing: a
payment that is open or went out has its note reserved for it, or burned once
it was out, or is in `stray`; and a round knows when its invoice has become a
live melt's.

`LedgerSolvent` and `NotesAlwaysCovered` are about money. `Backing` is the
funds and the payments that went out and whose note is not burned for them
(`Gone`): those still reserved, whose note will not be paid again, and the
stray ones, which the mint has lost. `Covered` says that `Backing` pays every
note and its base fee; `Solvent` adds the payments that were taken and have no
note yet, each of which pays for its note and for the base fee of it. A rotate
moves a note's value; a split takes one base fee off it, which the new note
needs; a merge of two gives one back, which its one note no longer needs; a
merge that splits leaves two notes for two and takes a base fee that the mint
keeps. A payment that goes out moves from the funds to `Gone`, and its burn
takes it out of `Gone` together with a note of its amount; a burn of what a swap
has spent takes out neither.

There are thus two ways in which the code comes to owe more than it holds.
One is in the statement: what a stale round loses (`MeltStaleRound` shows the
round, `Backing` bounds the loss by the payments it came between). The other is
a hypothesis of both theorems, `FeeNeverRaised`, a property of what the operator
does (`Restart` may set any fee), not of the code; it cannot be dropped:
`NoteRefund` shows a mint that owes more than it received after the fee went
up. A fee that is lowered does no harm, which the theorem covers and no passing
run reaches. The sums are folds of the community modules, recursive functions
on the subsets of a finite set. Induction over these is out of reach, so
`Lemmas` proves what is needed of them (`TotalRemoves`, `TotalAdds`,
`TotalReads`, `TotalNat`; `OwedShrinks` beside the ledger's proofs) by looking at a smallest subset for which it fails.

**`PayRangeProofs`**: `AdvertisedRangeHonoured`, `AdvertisedMinimumIsLeast`,
`WalkFindsMinimum`, `CeilingHonest`, for whatever an operator may set and any
amount. All of them come down to `FeeGrows`: from one amount to a larger one
the fee grows by less than the difference and a sat, and by no more than the
difference when that is whole sats. So a net value may fall, by less than a
sat, but never from one amount of the walk to a later one (`NetGrows`).

**`AddressesProofs`**: `AddressBookInvariant`, and from it `NamePromisedOnce`,
`ProofNeverReplayed`, `FeeKeptOnlyIfLapsed`, `NoIndexSkipped`,
`AddressBookTyped`. `IndInv` adds that a share on a name was accepted
(`UsesAccepted`), that the share of an unpaid fee was accepted for it and is on
no name yet (`HoldsAccepted`), that no two unpaid fees hold one share
(`HoldsApart`), and states `OneClaim` without counting (`NoRival`). That a
claim skips no unused index needs the existence of a least element, which the
library has from well-founded induction.

**`SettlePollProofs`**: `PollIndInv`, and from it `PollTyped`,
`EveryMintSettlesOnce` and `EveryReceiptIsHonest`. Whatever row a round works
on, `settle_mint` looks again, so the rounds do not matter for
`EveryMintSettlesOnce`. They do for the receipts: the snapshot a round works
through must hold settled zaps only, also after others were settled, and the
mark must follow the relay's answer about the same row (`ReceiptRows`). That a
snapshot holds nothing but rows that were asked for (`RowsOfFinds`) is about a
fold again, and proved as for the ledger's sums.

Only model-checked: the properties with fairness (`PendingResolves`,
`Answered`, `MonitorTells`, `PollReaches`, `ReceiptsArrive`), because the
provers have no `ENABLED`. What the five runs that expect a violation check is
false, and their counterexamples are the findings below.

## Where the code and its words disagree

1. A reconcile round works from a snapshot; see `MeltStaleRound`.
2. The reservation and the row that blocks reuse are two commits; see
   `MeltUnrecorded`.
3. The merge refund is taken at today's base fee; see `NoteRefund`.
4. A melt into a fee does not ask whether it was paid; see `AddressPaidTwice`.
5. One paid invoice whose name is gone ends every round of the poll before the
   older ones; see `SettlePollPoison`.

`PROJECT.json` quotes the lines. Noticed beside these, without a run:

* The comment of `_min_sendable_msat` (`router.py:484`) has the bound of the rate
  guarantee that the walk ends. The base fee and the floor have no upper bound:
  a base fee near 90_000 sats makes the walk give up and the address an error.
  `WalkTerminates` says within which bounds it cannot.
* With `MIN_MINT_MSAT=0` (`config.py:108` allows it) a payment of exactly the
  fee mints a note of 0, which the split branch (`router.py:1726-1730`) calls
  never valid, and a rotate makes another of it. `NoteLedger` sets the minimum
  to 0; `NotesWorth` says where such notes can come from.
* The repository's README (346) calls `maxWithdrawable` the bound a minted note
  falls into, but a payment below `maxSendable` can net up to a sat less one
  msat more, because the fee is rounded; `CeilingWithinASat` bounds the gap.
* A merge on a sunsetting mint gives base fees back and so raises the
  outstanding total, which the README (118-119) and the comment at
  `router.py:1565` rule out.
* `router.py:979` and `db.py:761` say that an expired hold whose fee was paid
  still settles when its name is looked up; `held_address_fee` (`db.py:778`)
  only returns holds that have not expired.
* An lnd stream that ends after an IN_FLIGHT event raises `PaymentFailed`,
  though the comment at `node.py:301` calls a stream without a terminal event
  ambiguous. No harm comes of it: every melt confirms before it restores.
* A prepare of spark that fails to build the SDK, or a prepared payment of an
  unexpected kind, was never sent either but enters no registry: its note stays
  pending.
* A receipt is published at least once: a stop between the relay's OK and the
  mark signs and sends it again, under another event id.
* `config.py:166-171` says that with registration off the npubs on file still
  resolve; `router.py:946` answers none then.
* With registration and zaps both off no settle loop runs at all
  (`server.py:175`), and what was issued before settles by verify only.
  `SettlePoll` assumes that one of the loops runs.

## Order of the work

Done, in this order: `Melt` with its proofs (the only part where money can be
lost to a race); `NoteStore`; `Fees` and `PayRange`; `Addresses`; `SettlePoll`;
`Funding`, `Backends`, `Server` and `Reconcile`; `BearerNote` and the
refinement; the proofs of the ledger, the address book and the poll; the sums of
the ledger, its solvency, and the fees.

Left: `NoteStore` as a second implementation of `BearerNote` (a merge burns
several notes for one, which `BearerNote` has as one `Swap` each); one module
over one set of ids for `NoteStore` and `Addresses`, whose only common rule is
that an index in use is skipped, and which TLC cannot finish with the waiting
requests of both.

## Not modelled

The routing cost of a payment. Hazards
without a property, each with its reason in `PROJECT.json`: the flag that stays
down after a burn (`router.py:187`), a fee paid so late that nobody ever asks
(`router.py:834`), a paid invoice that newer ones push out of every poll
(`router.py:541`), and a call to the node that is delivered after it failed
(`node.py:331`), which the models assume away.

Cryptography, encodings, logs, response models and the one-pager, which keep
no state the mint decides by. Of the funding sources: request signing, node
info, the wire formats and the construction of the spark SDK. Of the settings:
loading and validating those no modelled handler reads. Of zaps: the checks of
a request and the event that is signed. Of verify: the preimage of a mint. The
scripts beside the package drive real networks and are tests, not the program.
