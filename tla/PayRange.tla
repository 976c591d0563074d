------------------------------ MODULE PayRange ------------------------------
(***************************************************************************)
(* A payer discovers the mint's range of amounts, then asks for an invoice *)
(* inside it: what the discovery response promises, against what the       *)
(* callback does with every amount it may be asked for.                    *)
(***************************************************************************)
EXTENDS Fees

CONSTANTS BaseFees, Ppms, MintFloors, Floors, Ceilings,  \* what operators set
          Amounts,                                     \* what payers ask for
          WalkBound                                    \* 100_000 in the code

ASSUME PayRangeAssumption ==
  /\ BaseFees \subseteq Nat /\ Ppms \subseteq {n \in Nat : 10 * n <= Million}
  /\ MintFloors \subseteq Nat
  /\ Floors \subseteq Nat \ {0} /\ Ceilings \subseteq Nat \ {0}
  /\ Amounts \subseteq Nat \ {0}
  /\ WalkBound \in Nat \ {0}

VARIABLES s,        \* the settings, fixed while the process runs
          shown,    \* the advertised range
          asked,    \* the amount an invoice was asked for
          answer,   \* "invoice" or "refused"
          credited  \* the value of the note the invoice mints

vars == <<s, shown, asked, answer, credited>>

\* the settings model validates that the bounds are in order
Settings ==
  {r \in [baseFee : BaseFees, feePpm : Ppms, minSendable : Floors,
          maxSendable : Ceilings, minMint : MintFloors] :
     r.minSendable <= r.maxSendable}

-----------------------------------------------------------------------------
(* _min_sendable_msat.                                                     *)

\* the walk for a payable minimum: whole sats up from the higher floor
WalkStart(r) == Max({r.minSendable, r.minMint})

Clears(k, r) == NetOf(WalkStart(r) + k * Sat, r) >= r.minMint

\* it gives up with an error after WalkBound steps
WalkEnds(r) == \E k \in 0..(WalkBound - 1) : Clears(k, r)

WalkSteps(r) ==
  CHOOSE k \in 0..(WalkBound - 1) :
    Clears(k, r) /\ \A j \in 0..(k - 1) : ~Clears(j, r)

\* Mutant: advertising the configured floor, as if no fee were withheld
MinSendable_Raw(r) == WalkStart(r)

\* Mutant: a walk that stops one sat late
MinSendable_OneMore(r) == WalkStart(r) + (WalkSteps(r) + 1) * Sat

\* minSendable as advertised
MinSendable(r) == WalkStart(r) + WalkSteps(r) * Sat

-----------------------------------------------------------------------------

Nothing == [min |-> 0, max |-> 0, ceiling |-> 0]

Init ==
  /\ s \in Settings
  /\ shown = Nothing
  /\ asked = 0 /\ answer = "none" /\ credited = 0

\* get_lnaddress: the payRequest, and the mint limits on show; fees for which
\* the walk gives up make it an error
Discover ==
  /\ shown = Nothing
  /\ IF WalkEnds(s)
       THEN shown' = [min |-> MinSendable(s), max |-> s.maxSendable,
                      ceiling |-> MaxMintable(s)]
       ELSE UNCHANGED shown
  /\ UNCHANGED <<s, asked, answer, credited>>

\* _pay_callback, and what settle_mint makes of the invoice
Ask(amount) ==
  /\ shown # Nothing /\ asked = 0
  /\ amount \in shown.min..shown.max
  /\ asked' = amount
  /\ IF Accepted(amount, s)
       THEN answer' = "invoice" /\ credited' = NetOf(amount, s)
       ELSE answer' = "refused" /\ UNCHANGED credited
  /\ UNCHANGED <<s, shown>>

\* the amounts a wallet tries, the ends of the range among them
Tried == Amounts \cup {shown.min, shown.max}

Next == Discover \/ \E amount \in Tried : Ask(amount)

Spec == Init /\ [][Next]_vars

-----------------------------------------------------------------------------
\* A payer who stays in the advertised range and pays whole sats above its
\* minimum is never refused: the walk that finds the minimum stops where the
\* fee's rounding can no longer take the note below the floor.
RangeHonoured ==
  (asked - shown.min) % Sat = 0 => answer # "refused"

\* The advertised minimum is the least of its whole-sat walk that pays: no
\* wallet is turned away from an amount the callback would have taken.
MinimumIsLeast ==
  shown # Nothing =>
    \A k \in 1..((shown.min - WalkStart(s)) \div Sat) :
      ~Accepted(shown.min - k * Sat, s)

\* What the rate's bound guarantees of the walk: unless the base fee and the
\* floor of a note come near its whole length, it finds a minimum to advertise.
WalkTerminates ==
  10 * (s.baseFee + Sat) + s.minMint <= 9 * (WalkBound - 1) * Sat => WalkEnds(s)

\* What max_mintable_msat shows as the largest value of a note is off by less
\* than a sat: the fee's rounding lets a payment below maxSendable net more
\* than maxSendable itself does, but never by as much as one rounding step.
CeilingWithinASat == answer = "invoice" => credited < shown.ceiling + Sat

=============================================================================
