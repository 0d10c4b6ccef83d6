--------------------------- MODULE MCClassicWrites ---------------------------
(***************************************************************************)
(* Values of the constants of ClassicWrites for TLC: small ledgers around  *)
(* every boundary, with a reserve and a fee of 1.                          *)
(***************************************************************************)
EXTENDS Naturals

Price(n, d) == [n |-> n, d |-> d]

NoOffer == [owner |-> "nobody", side |-> "sell", selling |-> "usd", buying |-> "native", amount |-> 0, price |-> Price(1, 1)]
OfferOf(owner, selling, buying, amount, price) ==
    [owner |-> owner, side |-> "sell", selling |-> selling, buying |-> buying, amount |-> amount, price |-> price]
Line(balance, limit, auth, clawback) == [balance |-> balance, limit |-> limit, auth |-> auth, clawback |-> clawback]
NoLine == Line(0, 0, "none", FALSE)

Offers == {NoOffer, OfferOf("other", "usd", "native", 2, Price(1, 1)),
           OfferOf("wallet", "usd", "native", 2, Price(2, 1)), OfferOf("wallet", "native", "usd", 2, Price(1, 2)),
           OfferOf("wallet", "own", "usd", 2, Price(1, 1))}
Lines == {NoLine} \cup {Line(b, l, "full", FALSE) : b \in {0, 2, 4}, l \in {4, 5}} \cup {Line(2, 4, "maintain", TRUE), Line(0, 4, "none", FALSE)}
Destinations ==
    {[exists |-> FALSE, xlm |-> 0, balance |-> 0, limit |-> 0, auth |-> "none", memoRequired |-> FALSE]} \cup
    {[exists |-> TRUE, xlm |-> 2, balance |-> b, limit |-> l, auth |-> x, memoRequired |-> m] :
        b \in {0, 2}, l \in {0, 3}, x \in {"full", "maintain"}, m \in BOOLEAN}
PlainDest == [exists |-> TRUE, xlm |-> 2, balance |-> 0, limit |-> 3, auth |-> "full", memoRequired |-> FALSE]
\* Int64Max is 1000.
FullDests == {[PlainDest EXCEPT !.xlm = x] : x \in 996..1000}
Plain == [exists |-> TRUE, required |-> FALSE, clawback |-> FALSE, memoRequired |-> FALSE]
Asking == [Plain EXCEPT !.memoRequired = TRUE]

World(x, n, l, o, d, i, p) == [xlm |-> x, others |-> n, line |-> l, offer |-> o, dest |-> d, issuer |-> i, pool |-> p]

Strict == [Plain EXCEPT !.required = TRUE, !.clawback = TRUE]
Gone == [Plain EXCEPT !.exists = FALSE]

\* Destinations matter to payments, issuers to lines and to payments back to them: not all
\* of both at once.
MCWorlds ==
    {World(x, 0, l, o, d, Plain, FALSE) :
        x \in {4, 6, 9}, l \in Lines, o \in {NoOffer, OfferOf("wallet", "native", "usd", 2, Price(1, 2))}, d \in Destinations}
      \cup {World(x, 0, l, o, PlainDest, i, FALSE) : x \in 3..9, l \in Lines, o \in Offers, i \in {Plain, Strict, Gone}}
      \cup {World(9, 0, l, NoOffer, d, i, FALSE) : l \in {NoLine, Line(4, 5, "full", FALSE)}, d \in FullDests, i \in {Plain, Asking}}
      \cup {World(7, n, l, o, PlainDest, Plain, TRUE) : n \in 0..1, l \in Lines, o \in Offers}
      \cup {World(x, 0, Line(4, 5, "full", FALSE), o, PlainDest, Plain, FALSE) : x \in 994..1000, o \in Offers}

Payments ==
    [kind: {"pay"}, to: {"account", "issuer"}, muxed: BOOLEAN, asset: {"native", "usd", "own"}, amount: {1, 2, 4},
     memo: {"none", "text", "id", "other_id"}]
MCPayments == {r \in Payments : (r.to = "issuer" => r.asset = "usd") /\ (~r.muxed => r.memo \in {"none", "text"})}
Lineages == [kind: {"add", "limit"}, limit: {2, 4, 5}] \cup [kind: {"remove", "cancel"}]
OfferRequests ==
    [kind: {"sell_or_buy", "update"}, side: {"sell", "buy"}, selling: {"native", "usd", "own"}, buying: {"native", "usd", "own"},
     amount: {2, 4}, price: {Price(1, 1), Price(2, 1), Price(1, 2)}, allow: BOOLEAN]
MCOfferRequests == {r \in OfferRequests : (r.kind = "update" => r.allow) /\ (r.selling = r.buying => r.amount = 2 /\ r.side = "sell")}
MCRequests == MCPayments \cup Lineages \cup MCOfferRequests

\* Wallets with an offer that others work on, around the reads of an update.
MCRaced ==
    {World(x, 0, Line(b, l, "full", FALSE), OfferOf("wallet", s, IF s = "usd" THEN "native" ELSE "usd", 4, p), PlainDest, Plain, FALSE) :
        x \in {4, 9, 12}, b \in {0, 2, 4}, l \in {9, 12}, s \in {"usd", "native"}, p \in {Price(1, 1), Price(2, 1), Price(1, 2)}}
MCUpdates ==
    {r \in [kind: {"update"}, side: {"sell", "buy"}, selling: {"usd", "native"}, buying: {"usd", "native"}, amount: {1, 2, 4, 6, 8},
            price: {Price(1, 1), Price(2, 1), Price(1, 2)}, allow: {TRUE}] : r.selling /= r.buying}
      \cup [kind: {"cancel"}]
=============================================================================
