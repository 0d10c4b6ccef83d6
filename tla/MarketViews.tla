----------------------------- MODULE MarketViews -----------------------------
(***************************************************************************)
(* What is shown of a market (dex.rs): levels of the order book, trades,   *)
(* and the fills of an account, compressed from its trades.                *)
(*                                                                         *)
(* Numbers that are shown are in units of the last decimal; Tiny is the    *)
(* mark of a positive price below them ("<0.0000001").                     *)
(***************************************************************************)
EXTENDS OfferMath, Sequences

CONSTANTS
    Address,        \* the account whose fills are shown
    NoId            \* a field the record lacks

MarketAssumption == Address /= NoId

Tiny == [mark |-> "tiny", units |-> 0]
Units(x) == [mark |-> "number", units |-> x]

\* round_ratio
RoundRatio(n, d) == n \div d + (IF 2 * (n % d) >= d THEN 1 ELSE 0)

\* Mutant: less than a quarter of a unit is tiny, and the rest below one half is zero.
ShownPriceLate(n, d) == IF n * Scale * 4 < d THEN Tiny ELSE Units(RoundRatio(n * Scale, d))

\* format_price_ratio, and the price of a trade that comes without one
ShownPrice(n, d) == IF n * Scale * 2 < d THEN Tiny ELSE Units(RoundRatio(n * Scale, d))

\* format_price_product
ShownTotal(amount, p) == Units(RoundRatio(amount * p.n, p.d))

\* Horizon gives the amount of a bid in the counter asset.
Bid(row) == [amount |-> Units(RoundRatio(row.amount * row.price.d, row.price.n)), price |-> ShownPrice(row.price.n, row.price.d)]
Ask(row) == [amount |-> Units(row.amount), price |-> ShownPrice(row.price.n, row.price.d)]

\* pair_trade_from_horizon: the amounts serve if the price of the record does not.
Trade(r) ==
    LET stated == r.price.n > 0 /\ r.price.d > 0 IN
    [price |-> IF stated THEN ShownPrice(r.price.n, r.price.d) ELSE ShownPrice(r.counterAmount, r.baseAmount),
     side |-> IF r.baseIsSeller THEN "sell" ELSE "buy"]
TradeShown(r) == (r.price.n > 0 /\ r.price.d > 0) \/ r.baseAmount > 0

-----------------------------------------------------------------------------
(***************************************************************************)
(* Fills: consecutive trades of one offer at one price are one segment.    *)
(***************************************************************************)
Side(r) ==
    IF r.baseAccount = Address THEN "sell"
    ELSE IF r.counterAccount = Address THEN "buy"
    ELSE IF r.baseIsSeller THEN "sell" ELSE "buy"

OfferOf(r) ==
    IF r.baseAccount = Address THEN r.baseOffer
    ELSE IF r.counterAccount = Address THEN r.counterOffer ELSE NoId

Segment(r) ==
    [pair |-> r.pair, side |-> Side(r), price |-> r.price, offer |-> OfferOf(r), base |-> r.baseAmount,
     counter |-> r.counterAmount, count |-> 1, first |-> r.id, last |-> r.id]

\* Mutant: an offer is filled at one price only.
KeyWithoutPrice(s) == <<s.pair, s.side, s.offer>>

Key(s) == <<s.pair, s.side, s.price, s.offer>>

\* Mutant: two unknown offers are the same offer.
CanMergeUnknown(segments, s) == segments /= <<>> /\ Key(segments[Len(segments)]) = Key(s)

CanMerge(segments, s) ==
    /\ segments /= <<>> /\ s.offer /= NoId
    /\ Key(segments[Len(segments)]) = Key(s)

Merged(a, s) ==
    [a EXCEPT !.base = @ + s.base, !.counter = @ + s.counter, !.count = @ + 1, !.last = s.last]

Add(segments, r) ==
    LET s == Segment(r) IN
    IF CanMerge(segments, s) THEN [segments EXCEPT ![Len(segments)] = Merged(@, s)] ELSE Append(segments, s)

\* compress_account_trades
Compress(records) ==
    LET upTo[k \in 0..Len(records)] == IF k = 0 THEN <<>> ELSE Add(upTo[k - 1], records[k])
    IN  upTo[Len(records)]
=============================================================================
