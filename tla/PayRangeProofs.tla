--------------------------- MODULE PayRangeProofs ---------------------------
(***************************************************************************)
(* The advertised range, for whatever an operator may set and any amount   *)
(* in it: a payer who stays inside is served.  All of it comes down to how *)
(* fast the fee grows: by no more than the amount does, and by a sat more  *)
(* at most where it is rounded up.                                         *)
(***************************************************************************)
EXTENDS PayRange, Lemmas

\* the settings that the settings model lets pass
Sane ==
  {r \in [baseFee : Nat, feePpm : Nat, minSendable : Nat \ {0},
          maxSendable : Nat \ {0}, minMint : Nat] : 10 * r.feePpm <= Million}

LEMMA SettingsSane == ASSUME NEW r \in Settings PROVE r \in Sane
<1>1. \A p \in Ppms : p \in Nat /\ 10 * p <= Million
  BY PayRangeAssumption
<1>2. /\ r \in [baseFee : BaseFees, feePpm : Ppms, minSendable : Floors,
                maxSendable : Ceilings, minMint : MintFloors]
      /\ r.feePpm \in Ppms
  BY DEF Settings
<1>3. r \in [baseFee : Nat, feePpm : Nat, minSendable : Nat \ {0},
            maxSendable : Nat \ {0}, minMint : Nat]
  BY <1>1, <1>2, PayRangeAssumption
<1> QED BY <1>1, <1>2, <1>3 DEF Sane

-----------------------------------------------------------------------------
(* How the fee grows.                                                      *)

\* the part of the fee that is parts per million, before it is rounded
Portion(amount, r) == (amount * r.feePpm) \div Million

LEMMA PortionGrows ==
  ASSUME NEW r \in Sane, NEW a \in Nat, NEW d \in Nat
  PROVE  /\ Portion(a, r) \in Nat /\ Portion(a + d, r) \in Nat
         /\ Portion(a, r) <= Portion(a + d, r)
         /\ Portion(a + d, r) <= Portion(a, r) + d
         /\ Portion(a, r) <= a \div 10
<1> DEFINE p == r.feePpm
           x == a * p
           y == d * p
<1>1. p \in Nat /\ p <= 100000
  BY SMT DEF Sane, Million
<1> HIDE DEF p
<1>2. x \in Nat /\ y \in Nat /\ (a + d) * p = x + y
  BY <1>1, SMT
<1>3. \A n \in Nat : n * p <= n * 100000
  <2>1. \A n \in Nat : n * (100000 - p) >= 0 /\ n * 100000 = n * p + n * (100000 - p)
    BY <1>1, SMT
  <2>2. \A n \in Nat : n * p \in Nat /\ n * (100000 - p) \in Nat
    BY <1>1, SMT
  <2> QED BY <2>1, <2>2, SMT
<1>4. x <= a * 100000 /\ y <= d * 100000
  BY <1>3, SMT
<1> HIDE DEF x, y
<1>5. /\ x \div 1000000 \in Nat /\ (x + y) \div 1000000 \in Nat
      /\ x \div 1000000 <= (x + y) \div 1000000
      /\ (x + y) \div 1000000 <= x \div 1000000 + d
      /\ x \div 1000000 <= a \div 10
  BY <1>2, <1>4, SMT
<1>6. Portion(a, r) = x \div 1000000 /\ Portion(a + d, r) = (x + y) \div 1000000
  BY <1>2, SMT DEF Portion, Million, x, p
<1> QED BY <1>5, <1>6, SMT

LEMMA RoundsUp ==
  ASSUME NEW fee \in Nat, NEW d \in Nat, NEW more \in Nat,
         fee <= more, more <= fee + d
  PROVE  LET up(f) == ((f + 1000 - 1) \div 1000) * 1000
         IN /\ up(fee) \in Nat /\ up(more) \in Nat
            /\ up(fee) >= fee /\ up(fee) < fee + 1000
            /\ up(fee) <= up(more) /\ up(more) < up(fee) + d + 1000
            /\ \A k \in Nat : d = k * 1000 => up(more) <= up(fee) + d
  BY SMT

LEMMA FeeGrows ==
  ASSUME NEW r \in Sane, NEW a \in Nat, NEW d \in Nat
  PROVE  /\ MintFee(a, r) \in Nat /\ MintFee(a + d, r) \in Nat
         /\ MintFee(a, r) <= r.baseFee + a \div 10 + Sat
         /\ MintFee(a + d, r) < MintFee(a, r) + d + Sat
         /\ \A k \in Nat : d = k * Sat => MintFee(a + d, r) <= MintFee(a, r) + d
<1> DEFINE small == Portion(a, r)
           large == Portion(a + d, r)
           base == r.baseFee
           tenth == a \div 10
           fee == base + small
           more == base + large
           up(f) == ((f + 1000 - 1) \div 1000) * 1000
<1>1. /\ small \in Nat /\ large \in Nat /\ small <= large
      /\ large <= small + d /\ small <= tenth
  BY PortionGrows
<1>2. base \in Nat /\ tenth \in Nat
  BY SMT DEF Sane
<1>3. MintFee(a, r) = up(fee) /\ MintFee(a + d, r) = up(more)
  BY DEF MintFee, Portion, Sat
<1> HIDE DEF small, large, base, tenth
<1>4. fee \in Nat /\ more \in Nat /\ fee <= more /\ more <= fee + d /\ fee <= base + tenth
  BY <1>1, <1>2, SMT
<1> HIDE DEF fee, more
<1>5. /\ up(fee) \in Nat /\ up(more) \in Nat /\ up(fee) < fee + 1000
      /\ up(more) < up(fee) + d + 1000
      /\ \A k \in Nat : d = k * 1000 => up(more) <= up(fee) + d
  BY <1>4, RoundsUp
<1> HIDE DEF up
<1>6. /\ up(fee) \in Nat /\ up(more) \in Nat /\ up(fee) <= base + tenth + 1000
      /\ up(more) < up(fee) + d + 1000
      /\ \A k \in Nat : d = k * 1000 => up(more) <= up(fee) + d
  BY <1>2, <1>4, <1>5, SMT
<1> QED BY <1>3, <1>6 DEF Sat, base, tenth

\* a note is worth nine tenths of its payment, less the base fee and a sat
LEMMA NetAtLeast ==
  ASSUME NEW r \in Sane, NEW a \in Nat
  PROVE  NetOf(a, r) \in Int /\ NetOf(a, r) >= (a - a \div 10) - (r.baseFee + Sat)
<1> DEFINE fee == MintFee(a, r)
           tenth == a \div 10
           base == r.baseFee
<1>1. 0 \in Nat /\ base \in Nat /\ tenth \in Nat
  BY SMT DEF Sane
<1>2. fee \in Nat /\ fee <= base + tenth + Sat
  BY <1>1, FeeGrows
<1>3. NetOf(a, r) = a - fee
  BY DEF NetOf
<1> HIDE DEF fee, tenth, base
<1>4. a - fee \in Int /\ a - fee >= (a - tenth) - (base + Sat)
  BY <1>1, <1>2, SMT DEF Sat
<1> QED BY <1>3, <1>4 DEF tenth, base

\* a larger payment nets less only by what rounding costs, below a sat, and
\* whole sats more never net less
LEMMA NetGrows ==
  ASSUME NEW r \in Sane, NEW a \in Nat, NEW d \in Nat
  PROVE  /\ NetOf(a, r) \in Int /\ NetOf(a + d, r) \in Int
         /\ NetOf(a, r) < NetOf(a + d, r) + Sat
         /\ \A k \in Nat : d = k * Sat => NetOf(a, r) <= NetOf(a + d, r)
<1> DEFINE fee == MintFee(a, r)
           more == MintFee(a + d, r)
<1>1. /\ fee \in Nat /\ more \in Nat /\ more < fee + d + Sat
      /\ \A k \in Nat : d = k * Sat => more <= fee + d
  BY FeeGrows
<1> HIDE DEF fee, more
<1>2. /\ a - fee \in Int /\ (a + d) - more \in Int
      /\ a - fee < (a + d) - more + Sat
      /\ \A k \in Nat : d = k * Sat => a - fee <= (a + d) - more
  BY <1>1, SMT DEF Sat
<1>3. NetOf(a, r) = a - fee /\ NetOf(a + d, r) = (a + d) - more
  BY DEF NetOf, fee, more
<1> QED BY <1>2, <1>3

-----------------------------------------------------------------------------
(* The walk for the minimum.                                               *)

LEMMA StartIsFloor ==
  ASSUME NEW r \in Sane
  PROVE  /\ WalkStart(r) \in Nat
         /\ WalkStart(r) >= r.minSendable /\ WalkStart(r) >= r.minMint
<1>1. r.minSendable \in Nat /\ r.minMint \in Nat
  BY SMT DEF Sane
<1>2. PICK x \in {r.minSendable, r.minMint} :
        \A y \in {r.minSendable, r.minMint} : x >= y
  BY <1>1, SMT
<1> QED BY <1>1, <1>2, SMT DEF WalkStart, Max

LEMMA WithinBound ==
  \A k : k \in 0..(WalkBound - 1) <=> k \in Nat /\ k < WalkBound
<1>1. \A n \in Nat : \A k : k \in 0..(n - 1) <=> k \in Nat /\ k < n
  BY SMT
<1> QED BY <1>1, PayRangeAssumption

LEMMA StepsAreLeast ==
  ASSUME NEW r, WalkEnds(r)
  PROVE  /\ WalkSteps(r) \in Nat /\ Clears(WalkSteps(r), r)
         /\ \A j \in 0..(WalkSteps(r) - 1) : ~Clears(j, r)
<1> DEFINE Ends == {k \in 0..(WalkBound - 1) : Clears(k, r)}
<1>1. Ends \in SUBSET Nat /\ Ends # {}
  BY WithinBound DEF WalkEnds
<1>2. PICK k \in Ends : \A j \in Ends : k <= j
  <2> HIDE DEF Ends
  <2> QED BY <1>1, MinIsLeast
<1>3. k \in 0..(WalkBound - 1) /\ k \in Nat /\ k < WalkBound /\ Clears(k, r)
  BY WithinBound
<1>4. ASSUME NEW j \in 0..(k - 1), Clears(j, r) PROVE FALSE
  <2>1. j \in Nat /\ j < WalkBound /\ ~(k <= j)
    BY <1>3, PayRangeAssumption, SMT
  <2>2. j \in Ends
    BY <2>1, <1>4, WithinBound
  <2> QED BY <1>2, <2>1, <2>2
<1>5. \E n \in 0..(WalkBound - 1) : Clears(n, r) /\ \A j \in 0..(n - 1) : ~Clears(j, r)
  BY <1>3, <1>4
<1> DEFINE steps == WalkSteps(r)
<1>6. /\ steps \in 0..(WalkBound - 1) /\ Clears(steps, r)
      /\ \A j \in 0..(steps - 1) : ~Clears(j, r)
  BY <1>5 DEF WalkSteps
<1> QED BY <1>6, WithinBound

LEMMA MinimumPays ==
  ASSUME NEW r \in Sane, WalkEnds(r)
  PROVE  /\ MinSendable(r) \in Nat
         /\ MinSendable(r) >= r.minSendable /\ MinSendable(r) >= WalkStart(r)
         /\ NetOf(MinSendable(r), r) >= r.minMint
<1>1. WalkStart(r) \in Nat /\ WalkStart(r) >= r.minSendable
  BY StartIsFloor
<1>2. WalkSteps(r) \in Nat /\ Clears(WalkSteps(r), r)
  BY StepsAreLeast
<1>3. NetOf(MinSendable(r), r) >= r.minMint
  BY <1>2 DEF Clears, MinSendable
<1>4. r.minSendable \in Nat
  BY SMT DEF Sane
<1> DEFINE start == WalkStart(r)
           steps == WalkSteps(r)
<1> HIDE DEF start, steps
<1>5. ASSUME start \in Nat, steps \in Nat, start >= r.minSendable
      PROVE  /\ start + steps * Sat \in Nat
             /\ start + steps * Sat >= r.minSendable /\ start + steps * Sat >= start
  BY <1>4, <1>5, SMT DEF Sat
<1> QED BY <1>1, <1>2, <1>3, <1>5 DEF MinSendable, start, steps

LEMMA WalkLongEnough ==
  ASSUME NEW r \in Sane,
         10 * (r.baseFee + Sat) + r.minMint <= 9 * (WalkBound - 1) * Sat
  PROVE  WalkEnds(r)
<1> DEFINE start == WalkStart(r)
           last == WalkBound - 1
           a == start + last * Sat
           value == NetOf(a, r)
           base == r.baseFee
           floor == r.minMint
<1>1. start \in Nat /\ start >= floor
  BY StartIsFloor
<1>2. last \in Nat /\ last \in 0..(WalkBound - 1)
  BY PayRangeAssumption, SMT
<1>3. base \in Nat /\ floor \in Nat
  BY SMT DEF Sane
<1>4. 10 * (base + 1000) + floor <= 9 * last * 1000
  BY DEF Sat
<1> HIDE DEF start, last, base, floor
<1>5. a = start + last * 1000 /\ a \in Nat
  BY <1>1, <1>2, SMT DEF Sat
<1> HIDE DEF a
<1>6. value \in Int /\ value >= (a - a \div 10) - (base + Sat)
  BY <1>5, NetAtLeast DEF base
<1> HIDE DEF value
<1>7. value >= floor
  BY <1>1, <1>2, <1>3, <1>4, <1>5, <1>6, SMT DEF Sat
<1> QED BY <1>2, <1>7 DEF WalkEnds, Clears, value, a, start, last, floor

-----------------------------------------------------------------------------
(* The payer's two requests.                                               *)

\* what a payer may have been shown and answered
RangeInv ==
  /\ s \in Settings
  /\ shown = Nothing => asked = 0
  /\ shown # Nothing =>
       /\ WalkEnds(s)
       /\ shown = [min |-> MinSendable(s), max |-> s.maxSendable,
                   ceiling |-> MaxMintable(s)]
  /\ asked = 0 => answer = "none"
  /\ asked # 0 =>
       /\ asked \in shown.min..shown.max
       /\ \/ answer = "invoice" /\ Accepted(asked, s) /\ credited = NetOf(asked, s)
          \/ answer = "refused" /\ ~Accepted(asked, s)

LEMMA RangeInvariant == Spec => []RangeInv
<1>1. Init => RangeInv
  BY DEF Init, RangeInv
<1>2. RangeInv /\ [Next]_vars => RangeInv'
  <2> SUFFICES ASSUME RangeInv, [Next]_vars PROVE RangeInv'
    OBVIOUS
  <2>1. CASE Discover
    <3>1. s' = s /\ asked' = asked /\ answer' = answer /\ asked = 0
      BY <2>1 DEF Discover, RangeInv
    <3>2. \/ shown' = shown
          \/ /\ WalkEnds(s)
             /\ shown' = [min |-> MinSendable(s), max |-> s.maxSendable,
                          ceiling |-> MaxMintable(s)]
      BY <2>1 DEF Discover
    <3>3. CASE shown' = shown
      BY <3>1, <3>3 DEF RangeInv, WalkEnds, Clears, WalkStart, NetOf, MintFee,
           MinSendable, MaxMintable, WalkSteps
    <3>4. CASE /\ WalkEnds(s)
               /\ shown' = [min |-> MinSendable(s), max |-> s.maxSendable,
                            ceiling |-> MaxMintable(s)]
      BY <3>1, <3>4 DEF RangeInv
    <3> QED BY <3>2, <3>3, <3>4
  <2>2. ASSUME NEW amount \in Tried, Ask(amount) PROVE RangeInv'
    <3>1. s' = s /\ shown' = shown /\ shown # Nothing /\ asked' = amount
      BY <2>2 DEF Ask
    <3>2. s \in Sane /\ WalkEnds(s) /\ shown.min = MinSendable(s)
      BY <3>1, SettingsSane DEF RangeInv
    <3>3. MinSendable(s) \in Nat /\ MinSendable(s) >= s.minSendable
      BY <3>2, MinimumPays
    <3>4. s.minSendable \in Nat \ {0}
      BY <3>2 DEF Sane
    <3>5. ASSUME NEW n, n \in shown.min..shown.max PROVE n # 0
      BY <3>2, <3>3, <3>4, <3>5, SMT
    <3>6. amount # 0 /\ amount \in shown.min..shown.max
      BY <2>2, <3>5 DEF Ask
    <3>7. \/ answer' = "invoice" /\ Accepted(amount, s) /\ credited' = NetOf(amount, s)
          \/ answer' = "refused" /\ ~Accepted(amount, s)
      BY <2>2 DEF Ask
    <3> QED BY <3>1, <3>6, <3>7 DEF RangeInv
  <2>3. CASE UNCHANGED vars
    BY <2>3 DEF vars, RangeInv
  <2> QED BY <2>1, <2>2, <2>3 DEF Next
<1> QED BY <1>1, <1>2, PTL DEF Spec

\* A payer who stays in the advertised range and pays whole sats above its
\* minimum is never refused (router.py, _pay_callback against
\* _min_sendable_msat).
THEOREM AdvertisedRangeHonoured == Spec => []RangeHonoured
<1>1. RangeInv => RangeHonoured
  <2> SUFFICES ASSUME RangeInv, (asked - shown.min) % Sat = 0, answer = "refused"
               PROVE  FALSE
    BY DEF RangeHonoured
  <2>1. /\ s \in Sane /\ WalkEnds(s)
        /\ shown.min = MinSendable(s) /\ shown.max = s.maxSendable
        /\ asked \in shown.min..shown.max /\ ~Accepted(asked, s)
    BY SettingsSane DEF RangeInv
  <2> DEFINE min == MinSendable(s)
             d == asked - min
             k == d \div Sat
             net == NetOf(asked, s)
             least == NetOf(min, s)
  <2>2. min \in Nat /\ min >= s.minSendable /\ least >= s.minMint
    BY <2>1, MinimumPays
  <2>3. s.minSendable \in Nat /\ s.maxSendable \in Nat /\ s.minMint \in Nat
    BY <2>1 DEF Sane
  <2> HIDE DEF min
  <2>4. /\ d \in Nat /\ asked = min + d
        /\ asked >= s.minSendable /\ asked <= s.maxSendable
    BY <2>1, <2>2, <2>3, SMT DEF min
  <2>5. k \in Nat /\ d = k * Sat
    <3>1. d % Sat = 0
      BY <2>1 DEF min
    <3> HIDE DEF d
    <3> QED BY <2>4, <3>1, SMT DEF Sat
  <2> HIDE DEF d, k
  <2>6. net \in Int /\ least \in Int /\ least <= net
    BY <2>1, <2>2, <2>4, <2>5, NetGrows
  <2> HIDE DEF net, least
  <2>7. net >= s.minMint
    BY <2>2, <2>3, <2>6, SMT
  <2> QED BY <2>1, <2>4, <2>7 DEF Accepted, net
<1> QED BY <1>1, RangeInvariant, PTL

\* The advertised minimum is the least of its whole-sat walk that pays: the
\* callback refuses every amount a whole number of sats below it, down to where
\* the walk began (router.py, _min_sendable_msat).
THEOREM AdvertisedMinimumIsLeast == Spec => []MinimumIsLeast
<1>1. RangeInv => MinimumIsLeast
  <2> SUFFICES ASSUME RangeInv, shown # Nothing,
                      NEW k \in 1..((shown.min - WalkStart(s)) \div Sat)
               PROVE  ~Accepted(shown.min - k * Sat, s)
    BY DEF MinimumIsLeast
  <2>1. s \in Sane /\ WalkEnds(s) /\ shown.min = MinSendable(s)
    BY SettingsSane DEF RangeInv
  <2> DEFINE start == WalkStart(s)
             steps == WalkSteps(s)
             j == steps - k
  <2>2. start \in Nat
    BY <2>1, StartIsFloor
  <2>3. steps \in Nat /\ \A i \in 0..(steps - 1) : ~Clears(i, s)
    BY <2>1, StepsAreLeast
  <2>4. shown.min = start + steps * Sat /\ k \in 1..((shown.min - start) \div Sat)
    BY <2>1 DEF MinSendable
  <2> HIDE DEF start, steps
  <2>5. (shown.min - start) \div Sat = steps
    BY <2>2, <2>3, <2>4, SMT DEF Sat
  <2>6. j \in 0..(steps - 1) /\ shown.min - k * Sat = start + j * Sat
    BY <2>2, <2>3, <2>4, <2>5, SMT DEF Sat
  <2> HIDE DEF j
  <2> QED BY <2>3, <2>6 DEF Clears, Accepted, start
<1> QED BY <1>1, RangeInvariant, PTL

\* The rate is validated to stay within a tenth, so the walk for the minimum
\* gives up only if the base fee and the floor of a note come near its length,
\* 100_000 sats: no other settings make the address an error (router.py,
\* _min_sendable_msat, whose comment argues from the rate alone).
THEOREM WalkFindsMinimum == Spec => []WalkTerminates
<1>1. RangeInv => WalkTerminates
  BY SettingsSane, WalkLongEnough DEF RangeInv, WalkTerminates
<1> QED BY <1>1, RangeInvariant, PTL

\* No payment in the range nets as much as a sat more than what
\* max_mintable_msat shows (router.py, get_lnaddress and settle_mint).
THEOREM CeilingHonest == Spec => []CeilingWithinASat
<1>1. RangeInv => CeilingWithinASat
  <2> SUFFICES ASSUME RangeInv, answer = "invoice"
               PROVE  credited < shown.ceiling + Sat
    BY DEF CeilingWithinASat
  <2>1. /\ s \in Sane /\ WalkEnds(s)
        /\ shown.min = MinSendable(s) /\ shown.max = s.maxSendable
        /\ shown.ceiling = MaxMintable(s)
        /\ asked \in shown.min..shown.max /\ credited = NetOf(asked, s)
    BY SettingsSane DEF RangeInv
  <2> DEFINE d == s.maxSendable - asked
  <2>2. MinSendable(s) \in Nat
    BY <2>1, MinimumPays
  <2>3. s.maxSendable \in Nat
    BY <2>1 DEF Sane
  <2>4. asked \in Nat /\ d \in Nat /\ s.maxSendable = asked + d
    BY <2>1, <2>2, <2>3, SMT
  <2> HIDE DEF d
  <2>5. NetOf(asked, s) < NetOf(asked + d, s) + Sat
    BY <2>1, <2>4, NetGrows
  <2> QED BY <2>1, <2>4, <2>5 DEF MaxMintable
<1> QED BY <1>1, RangeInvariant, PTL

=============================================================================
