------------------------------ MODULE OfferMath ------------------------------
(***************************************************************************)
(* The integer arithmetic of offers (dex.rs): how a decimal price becomes  *)
(* the fraction that is signed, and which liabilities an offer will have   *)
(* on the ledger.                                                          *)
(*                                                                         *)
(* Integers are mathematical ones; the bounds of the code's types are      *)
(* parameters.                                                             *)
(***************************************************************************)
EXTENDS Naturals

CONSTANTS
    Int32Max,   \* the largest numerator and denominator
    Int64Max,   \* the largest amount
    Scale       \* STROOPS_PER_XLM, the denominator of a decimal

BoundsAssumption ==
    Int32Max \in Nat \ {0} /\ Int64Max \in Nat \ {0} /\ Scale \in 1..Int32Max

Smaller(a, b) == IF a < b THEN a ELSE b
Price(n, d) == [n |-> n, d |-> d]
Prices == [n: 1..Int32Max, d: 1..Int32Max]

-----------------------------------------------------------------------------
(***************************************************************************)
(* stellar_price: continued fractions.  A state of the loop has the rest   *)
(* of the fraction, the last two convergents and the best one so far.      *)
(***************************************************************************)
Start(p) ==
    [num |-> p, den |-> Scale, previous |-> Price(0, 1), current |-> Price(1, 0), best |-> Price(1, 0), go |-> TRUE]

\* Mutant: the limit itself is refused.
NextStepStrict(s) ==
    LET a == s.num \div s.den
        next == Price(a * s.current.n + s.previous.n, a * s.current.d + s.previous.d)
    IN  IF s.num >= s.den * Int32Max \/ next.n >= Int32Max \/ next.d >= Int32Max THEN [s EXCEPT !.go = FALSE]
        ELSE [num |-> s.den, den |-> s.num % s.den, previous |-> s.current, current |-> next,
              best |-> next, go |-> s.num % s.den /= 0]

NextStep(s) ==
    LET a == s.num \div s.den
        next == Price(a * s.current.n + s.previous.n, a * s.current.d + s.previous.d)
    IN  IF s.num > s.den * Int32Max \/ next.n > Int32Max \/ next.d > Int32Max THEN [s EXCEPT !.go = FALSE]
        ELSE [num |-> s.den, den |-> s.num % s.den, previous |-> s.current, current |-> next,
              best |-> next, go |-> s.num % s.den /= 0]

\* Every step more than halves the rest in two: as many as the scale are enough.
Convergent(p) ==
    LET step[k \in 0..2 * Scale] ==
            IF k = 0 THEN Start(p)
            ELSE LET s == step[k - 1] IN IF s.go THEN NextStep(s) ELSE s
    IN  step[2 * Scale]

\* What is tried if no convergent is within the bounds: the largest multiple that is.
Recovered(s) ==
    LET bound(c, v) == IF c > 0 THEN (Int32Max - v) \div c ELSE Int32Max
        k == Smaller(Int32Max, Smaller(bound(s.current.n, s.previous.n), bound(s.current.d, s.previous.d)))
        r == Price(k * s.current.n + s.previous.n, k * s.current.d + s.previous.d)
    IN  IF k >= 1 /\ r \in Prices THEN r ELSE s.best

\* Mutant: a price that can only be approximated is rounded to a whole one.
StellarPriceWhole(p) ==
    LET s == Convergent(p)
    IN  IF s.best \in Prices /\ p * s.best.d = s.best.n * Scale THEN s.best
        ELSE Price(IF p < Scale THEN 1 ELSE Smaller(Int32Max, p \div Scale), 1)

StellarPrice(p) ==
    LET s == Convergent(p) IN IF s.best \in Prices THEN s.best ELSE Recovered(s)

\* requested_price_if_approximated
Approximated(p, price) == p * price.d /= price.n * Scale

-----------------------------------------------------------------------------
(***************************************************************************)
(* Liabilities (offer_liabilities): the exchange of the ledger, for an     *)
(* offer that sells wheat for sheep.                                       *)
(***************************************************************************)
CeilDiv(a, b) == (a + b - 1) \div b

\* Mutant: what is sold is rounded down as well.
ExchangeRoundedDown(n, d, maxWheatSend, maxSheepReceive) ==
    LET wheatValue == Smaller(maxWheatSend * n, maxSheepReceive * d)
        wheat == IF n > d THEN wheatValue \div n ELSE ((wheatValue \div d) * d) \div n
    IN  [selling |-> wheat, buying |-> IF n > d THEN (wheat * n) \div d ELSE wheatValue \div d]

\* exchange_v10_normal_liabilities
Exchange(n, d, maxWheatSend, maxSheepReceive) ==
    LET wheatValue == Smaller(maxWheatSend * n, maxSheepReceive * d)
        sheepValue == Int64Max * Smaller(n, d)
        wheatStays == wheatValue > sheepValue
        byWheat(w, sheep) == [selling |-> w, buying |-> sheep]
    IN  IF n > d
          THEN LET w == Smaller(wheatValue, sheepValue) \div n
               IN  byWheat(w, IF wheatStays THEN CeilDiv(w * n, d) ELSE (w * n) \div d)
          ELSE LET s == Smaller(wheatValue, sheepValue) \div d
               IN  byWheat(IF wheatStays THEN (s * d) \div n ELSE CeilDiv(s * d, n), s)

OfferLiabilities(side, amount, price) ==
    IF side = "sell" THEN Exchange(price.n, price.d, amount, Int64Max)
    ELSE Exchange(price.d, price.n, Int64Max, amount)

Representable(l) == l.selling <= Int64Max /\ l.buying <= Int64Max
=============================================================================
