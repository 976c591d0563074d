-------------------------------- MODULE Fees --------------------------------
(***************************************************************************)
(* What the mint charges and advertises, in msat, as functions of an       *)
(* operator's settings: s.baseFee, s.feePpm, s.minSendable, s.maxSendable  *)
(* and s.minMint.                                                          *)
(***************************************************************************)
EXTENDS Integers, FiniteSetsExt

Sat == 1000
Million == 1000000

\* the rate taken for parts per hundred thousand
MintFee_Scaled(amount, s) ==
  LET fee == s.baseFee + (amount * s.feePpm) \div (Million \div 10)
  IN ((fee + Sat - 1) \div Sat) * Sat

\* the mint fee of an invoice for `amount`: rounded up to a whole sat
MintFee(amount, s) ==
  LET fee == s.baseFee + (amount * s.feePpm) \div Million
  IN ((fee + Sat - 1) \div Sat) * Sat

NetOf(amount, s) == amount - MintFee(amount, s)

\* the callback's checks of an amount, in the order of their answers
Accepted(amount, s) ==
  /\ amount >= s.minSendable
  /\ amount <= s.maxSendable
  /\ NetOf(amount, s) >= s.minMint

\* the ceiling with the fee withheld twice
MaxMintable_Twice(s) == NetOf(NetOf(s.maxSendable, s), s)

\* what is shown as the ceiling of a minted note's value
MaxMintable(s) == NetOf(s.maxSendable, s)

=============================================================================
