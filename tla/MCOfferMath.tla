----------------------------- MODULE MCOfferMath -----------------------------
(***************************************************************************)
(* Every price and amount of small types against their definitions.        *)
(***************************************************************************)
EXTENDS OfferMath, FiniteSets

CONSTANTS Requested, Amounts, MaxTerm

\* A requested price is positive, an amount one of the ledger's.
QuestionsAssumption ==
    Requested \subseteq Nat \ {0} /\ Amounts \subseteq 0..Int64Max /\ MaxTerm \in Nat

VARIABLE question

None == [ask |-> "none"]

Init == question = None

AskPrice == question' \in [ask: {"price"}, requested: Requested]
AskLiabilities ==
    question' \in [ask: {"liabilities"}, side: {"buy", "sell"}, amount: Amounts,
                   price: [n: 1..MaxTerm, d: 1..MaxTerm]]

Next == question = None /\ (AskPrice \/ AskLiabilities)

Spec == Init /\ [][Next]_question

Signed == StellarPrice(question.requested)
Distance(p, price) == IF p * price.d > price.n * Scale THEN p * price.d - price.n * Scale
                      ELSE price.n * Scale - p * price.d

\* Whether one fraction is closer to the requested decimal than another.
Closer(p, a, b) == Distance(p, a) * b.d < Distance(p, b) * a.d

\* The price that is signed can be encoded, and it is the requested one whenever that
\* can be encoded; a review that names no requested price is about that very price.
PriceIsExact ==
    question.ask = "price" =>
        LET p == question.requested
            exact == {q \in Prices : p * q.d = q.n * Scale}
        IN  /\ Signed \in Prices
            /\ exact /= {} => Signed \in exact
            /\ ~Approximated(p, Signed) => Signed \in exact

\* A price that can only be approximated is off by less than the smallest step of a
\* fraction with its denominator, and by no more than the larger of requested price
\* and one, in parts of the bound.
PriceIsClose ==
    (question.ask = "price" /\ question.requested <= Scale * Int32Max) =>
        LET p == question.requested IN
        Distance(p, Signed) * Int32Max <= IF p > Scale THEN p ELSE Scale

\* sdex.md: the best positive rational approximation within the bounds.
PriceIsBest ==
    question.ask = "price" =>
        \A q \in Prices : ~Closer(question.requested, q, Signed)

\* What an offer buys is the most its price allows for what it may sell (or asks to
\* buy), and what it sells is the least that buys this; at the end of the range of
\* amounts both are what still fits.
LiabilitiesAreThoseOfTheLedger ==
    question.ask = "liabilities" =>
        LET n == question.price.n
            d == question.price.d
            amount == question.amount
            got == OfferLiabilities(question.side, amount, question.price)
            \* sold units at n/d bought units each
            pays(s, b) == IF question.side = "sell" THEN b * d <= s * n ELSE b * n <= s * d
            inRange == amount * n <= Int64Max * d
        IN  /\ Representable(got)
            /\ inRange =>
                 /\ pays(got.selling, got.buying)
                 /\ got.selling > 0 => ~pays(got.selling - 1, got.buying)
                 /\ question.side = "sell" => got.selling <= amount /\ ~pays(amount, got.buying + 1)
                 /\ question.side = "buy" => got.buying <= amount /\ (n >= d => got.buying = amount)
=============================================================================
