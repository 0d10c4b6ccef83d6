---------------------------- MODULE MCMarketViews ----------------------------
(***************************************************************************)
(* Levels and trades over small numbers, and sequences of an account's     *)
(* trades that arrive one by one.                                          *)
(***************************************************************************)
EXTENDS MarketViews, FiniteSets

CONSTANTS Amounts, MaxTerm, MaxTrades

ViewsAssumption == Amounts \subseteq Nat /\ MaxTerm \in Nat /\ MaxTrades \in Nat

VARIABLES
    level,      \* a row of the book or a trade of a pair
    records     \* the trades of the account so far

vars == <<level, records>>

None == [kind |-> "none"]
Terms == [n: 1..MaxTerm, d: 1..MaxTerm]
Stated == Terms \cup {Price(0, 0)}

Init == level = None /\ records = <<>>

ShowLevel ==
    /\ level = None /\ records = <<>>
    /\ level' \in [kind: {"bid", "ask", "total"}, amount: Amounts \ {0}, price: Terms]
    /\ UNCHANGED records

ShowTrade ==
    /\ level = None /\ records = <<>>
    /\ level' \in {t \in [kind: {"trade"}, price: Stated, baseAmount: Amounts, counterAmount: Amounts, baseIsSeller: BOOLEAN] :
                    TradeShown(t)}
    /\ UNCHANGED records

\* The account is on one side of each trade, except those of a claimed balance.
Accounts == {<<Address, "other">>, <<"other", Address>>, <<"other", NoId>>}

AddTrade ==
    /\ level = None /\ Len(records) < MaxTrades
    /\ \E pair \in {"p", "q"}, price \in {Price(1, 1), Price(1, 2)}, accounts \in Accounts,
          offer \in {"1", "2", NoId}, amount \in 1..2 :
         records' = Append(records,
            [id |-> Len(records) + 1, pair |-> pair, price |-> price, baseAccount |-> accounts[1], counterAccount |-> accounts[2],
             baseOffer |-> offer, counterOffer |-> IF offer = "1" THEN "2" ELSE offer, baseAmount |-> amount, counterAmount |-> 2 * amount,
             baseIsSeller |-> amount = 1])
    /\ UNCHANGED level

Next == ShowLevel \/ ShowTrade \/ AddTrade

Spec == Init /\ [][Next]_vars

-----------------------------------------------------------------------------
Shown ==
    CASE level.kind = "bid" -> Bid(level)
      [] level.kind = "ask" -> Ask(level)
      [] level.kind = "trade" -> Trade(level)
      [] level.kind = "total" -> [amount |-> ShownTotal(level.amount, level.price)]

\* A price that is positive is never shown as zero, and one that is shown as a number is
\* off by half a unit at most (format_price_ratio, trade_price_parts).
PricesAreNotZero ==
    level.kind \in {"bid", "ask", "trade"} =>
        LET n == IF level.price.n > 0 THEN level.price.n ELSE level.counterAmount
            d == IF level.price.n > 0 THEN level.price.d ELSE level.baseAmount
            p == Shown.price
            off == IF n * Scale > p.units * d THEN n * Scale - p.units * d ELSE p.units * d - n * Scale
        IN  /\ (n > 0 /\ p.mark = "number") => p.units > 0
            /\ p.mark = "number" => 2 * off <= d
            /\ p.mark = "tiny" => 2 * n * Scale < d

\* sdex.md: no positive amount is shown as zero (order_book_bid, and the total of a
\* reviewed offer by format_price_product).
AmountsAreNotZero ==
    level.kind \in {"bid", "ask", "total"} => Shown.amount.units > 0

\* The segments are the trades cut into runs: the records a segment stands for are
\* consecutive ones of one known offer with one pair, side and price, its amounts are
\* their sums, its ends are theirs; a trade of an unknown offer stands alone; and two
\* runs of the same offer side by side would be one (compress_account_trades).
FillsAreRuns ==
    LET segments == Compress(records)
        base[i \in 0..Len(records)] == IF i = 0 THEN 0 ELSE base[i - 1] + records[i].baseAmount
        counter[i \in 0..Len(records)] == IF i = 0 THEN 0 ELSE counter[i - 1] + records[i].counterAmount
        same(a, b) == a.pair = b.pair /\ a.price = b.price /\ Side(a) = Side(b) /\ OfferOf(a) = OfferOf(b)
        alike(a, b) == same(a, b) /\ OfferOf(a) /= NoId
    IN  /\ records /= <<>> => segments /= <<>> /\ segments[1].first = 1 /\ segments[Len(segments)].last = Len(records)
        /\ \A k \in 1..Len(segments) :
             LET s == segments[k] IN
             /\ k > 1 => s.first = segments[k - 1].last + 1
             /\ s.count = s.last - s.first + 1
             /\ \A i \in s.first..s.last - 1 : alike(records[i], records[i + 1])
             /\ \A i \in s.first..s.last : records[i].price = s.price /\ Side(records[i]) = s.side
             /\ k > 1 => ~alike(records[s.first - 1], records[s.first])
             /\ s.base = base[s.last] - base[s.first - 1] /\ s.counter = counter[s.last] - counter[s.first - 1]
=============================================================================
