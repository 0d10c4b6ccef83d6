---------------------------- MODULE ClassicWrites ----------------------------
(***************************************************************************)
(* What is checked before a payment, a trustline change or an offer is     *)
(* shown for review (payment.rs, trustline.rs, dex.rs): the reads of the   *)
(* ledger in their order, and the arithmetic of reserves, fees,            *)
(* liabilities and limits, next to what the ledger does with the           *)
(* transaction.                                                            *)
(*                                                                         *)
(* The wallet holds lumens, perhaps a line of "usd", perhaps an offer, and *)
(* is itself the issuer of "own".  A payment is never to the wallet        *)
(* itself: it is to the issuer of what is sent, or to another account.     *)
(* A refusal between two reads is made after the last one.                 *)
(***************************************************************************)
EXTENDS OfferMath, Integers, Sequences, FiniteSets

CONSTANTS
    Worlds,         \* ledgers to begin with
    Requests,       \* calls of the product
    Reserve, Fee,   \* base reserve and base fee
    DefaultLimit,   \* DEFAULT_TRUSTLINE_LIMIT
    MaxChanges      \* changes of the ledger during one call

Assets == {"native", "usd", "own"}

\* A stored offer sells; DEFAULT_TRUSTLINE_LIMIT, limits and amounts are positive.
\* What the offers of the destination buy is counted among what it has.
Offers ==
    [owner: {"nobody", "other"}, side: {"sell"}, selling: Assets, buying: Assets, amount: 0..Int64Max, price: Prices]
    \cup {o \in [owner: {"wallet"}, side: {"sell"}, selling: Assets, buying: Assets, amount: 1..Int64Max, price: Prices] :
            o.selling /= o.buying}
Authorizations == {"none", "maintain", "full"}
Ledgers ==
    [xlm: Nat, others: Nat, pool: BOOLEAN, offer: Offers,
     line: [balance: Nat, limit: Nat, auth: Authorizations, clawback: BOOLEAN],
     dest: [exists: BOOLEAN, xlm: Nat, balance: Nat, limit: Nat, auth: Authorizations, memoRequired: BOOLEAN],
     issuer: [exists: BOOLEAN, required: BOOLEAN, clawback: BOOLEAN, memoRequired: BOOLEAN]]
\* PaymentMemo: nothing, a text or a hash, the id that a muxed address embeds, another id.
Memos == {"none", "text", "id", "other_id"}
Calls ==
    [kind: {"pay"}, to: {"account"}, muxed: BOOLEAN, asset: Assets, amount: 1..Int64Max, memo: Memos]
    \cup [kind: {"pay"}, to: {"issuer"}, muxed: BOOLEAN, asset: {"usd"}, amount: 1..Int64Max, memo: Memos]
    \cup [kind: {"add", "limit"}, limit: 1..Int64Max] \cup [kind: {"remove", "cancel"}]
    \cup [kind: {"sell_or_buy", "update"}, side: {"sell", "buy"}, selling: Assets, buying: Assets,
          amount: 1..Int64Max, price: Prices, allow: BOOLEAN]

LedgerAssumption ==
    /\ Reserve \in Nat /\ Fee \in Nat /\ DefaultLimit \in Nat \ {0} /\ MaxChanges \in Nat
    /\ Worlds \subseteq Ledgers /\ Requests \subseteq Calls

VARIABLES
    ledger,     \* the ledger: account, line, offer, destination, issuer, pool
    since,      \* the ledgers there were since the call began
    request,    \* the call
    reads,      \* what it has still to read
    seen,       \* the ledger as it was when each part was read
    outcome,    \* "none", "refused" or "prepared"
    prepared    \* the transaction and what its review says of the line

vars == <<ledger, since, request, reads, seen, outcome, prepared>>

Minus(x, y) == IF x > y THEN x - y ELSE 0

-----------------------------------------------------------------------------
(***************************************************************************)
(* The account as Horizon shows it.                                        *)
(***************************************************************************)
NoLine == [balance |-> 0, limit |-> 0, auth |-> "none", clawback |-> FALSE]
HasLine(w) == w.line.limit > 0
HasOffer(w) == w.offer.owner = "wallet"

Liabilities(w) ==
    IF HasOffer(w) THEN OfferLiabilities(w.offer.side, w.offer.amount, w.offer.price)
    ELSE [selling |-> 0, buying |-> 0]
Selling(w, asset) == IF HasOffer(w) /\ w.offer.selling = asset THEN Liabilities(w).selling ELSE 0
Buying(w, asset) == IF HasOffer(w) /\ w.offer.buying = asset THEN Liabilities(w).buying ELSE 0

\* minimum_balance_stroops
MinimumOf(w) ==
    (2 + w.others + (IF HasLine(w) THEN 1 ELSE 0) + (IF HasOffer(w) THEN 1 ELSE 0)) * Reserve

Balance(w, asset) == IF asset = "native" THEN w.xlm ELSE IF asset = "usd" THEN w.line.balance ELSE 0

-----------------------------------------------------------------------------
(***************************************************************************)
(* The ledger: a transaction pays its fee and leaves a legal ledger, or it *)
(* fails.                                                                  *)
(***************************************************************************)
Legal(w) ==
    /\ w.xlm >= Selling(w, "native") + MinimumOf(w)
    /\ w.xlm + Buying(w, "native") <= Int64Max
    /\ w.line.balance >= Selling(w, "usd")
    /\ w.line.balance + Buying(w, "usd") <= w.line.limit
    /\ w.dest.balance <= w.dest.limit
    /\ w.dest.xlm <= Int64Max

NewLine(w, limit) ==
    [balance |-> 0, limit |-> limit, auth |-> IF w.issuer.required THEN "none" ELSE "full", clawback |-> w.issuer.clawback]

Full(w, asset) == asset = "usd" => HasLine(w) /\ w.line.auth = "full"

\* Whether the operations may be applied at all: what is sent back to its issuer is burnt,
\* whether or not the issuer's account is still there.
Allowed(w, tx) ==
    CASE tx.op = "payment" ->
            /\ Full(w, tx.asset)
            /\ tx.to /= "issuer" => w.dest.exists
            /\ (tx.to /= "issuer" /\ tx.asset /= "native") => w.dest.limit > 0 /\ w.dest.auth = "full"
      [] tx.op = "create" -> ~w.dest.exists /\ tx.amount >= 2 * Reserve
      [] tx.op = "trust" ->
            /\ tx.limit > 0 => w.issuer.exists
            /\ tx.limit = 0 => HasLine(w) /\ w.line.balance = 0 /\ Buying(w, "usd") = 0 /\ ~w.pool
      [] tx.op = "offer" ->
            /\ tx.addsLine => w.issuer.exists /\ ~HasLine(w)
            /\ tx.id = 1 => HasOffer(w)
            /\ tx.amount > 0 => /\ Full(w, tx.selling)
                                /\ ~tx.addsLine => Full(w, tx.buying)
                                /\ tx.addsLine => ~w.issuer.required

FeeOf(tx) == IF tx.op = "offer" /\ tx.addsLine THEN 2 * Fee ELSE Fee

After(w, tx) ==
    LET paid == [w EXCEPT !.xlm = @ - FeeOf(tx)] IN
    CASE tx.op = "payment" ->
            LET sent == IF tx.asset = "native" THEN [paid EXCEPT !.xlm = @ - tx.amount]
                        ELSE IF tx.asset = "usd" THEN [paid EXCEPT !.line.balance = @ - tx.amount] ELSE paid
            IN  IF tx.to = "issuer" THEN sent
                ELSE IF tx.asset = "native" THEN [sent EXCEPT !.dest.xlm = @ + tx.amount]
                ELSE [sent EXCEPT !.dest.balance = @ + tx.amount]
      [] tx.op = "create" -> [paid EXCEPT !.xlm = @ - tx.amount, !.dest.exists = TRUE, !.dest.xlm = tx.amount]
      [] tx.op = "trust" ->
            IF tx.limit = 0 THEN [paid EXCEPT !.line = NoLine]
            ELSE IF HasLine(w) THEN [paid EXCEPT !.line.limit = tx.limit]
            ELSE [paid EXCEPT !.line = NewLine(w, tx.limit)]
      [] tx.op = "offer" ->
            LET lined == IF tx.addsLine THEN [paid EXCEPT !.line = NewLine(w, DefaultLimit)] ELSE paid
            IN  [lined EXCEPT !.offer = [owner |-> IF tx.amount = 0 THEN "nobody" ELSE "wallet", side |-> tx.side,
                    selling |-> tx.selling, buying |-> tx.buying, amount |-> tx.amount, price |-> tx.price]]

\* An offer that is created beside another one adds to its liabilities.
LedgerAccepts(w, tx) ==
    /\ w.xlm - FeeOf(tx) >= Selling(w, "native") + MinimumOf(w)
    /\ Allowed(w, tx)
    /\ IF tx.op = "offer" /\ tx.id = 0 /\ HasOffer(w)
         THEN LET a == After(w, tx) IN
              /\ a.xlm >= Selling(a, "native") + Selling(w, "native") + MinimumOf(a) + Reserve
              /\ a.xlm + Buying(a, "native") + Buying(w, "native") <= Int64Max
              /\ a.line.balance >= Selling(a, "usd") + Selling(w, "usd")
              /\ a.line.balance + Buying(a, "usd") + Buying(w, "usd") <= a.line.limit
         ELSE Legal(After(w, tx))

-----------------------------------------------------------------------------
(***************************************************************************)
(* The checks of the client.  a is the account that was read.              *)
(***************************************************************************)
Free(a) == Minus(a.xlm, Selling(a, "native") + MinimumOf(a))

\* ensure_payment_fee_capacity, ensure_native_capacity, ensure_offer_fee_capacity
HasCapacity(a, required) == Free(a) >= required

\* available_balance, receiving_capacity
AvailableBalance(a, asset) == Minus(Balance(a, asset), Selling(a, asset))

ReceivingCapacity(a, asset, new) ==
    CASE asset = "own" -> Int64Max
      [] asset = "native" -> Minus(Int64Max, a.xlm + Buying(a, "native"))
      [] asset = "usd" -> IF HasLine(a) THEN Minus(a.line.limit, a.line.balance + Buying(a, "usd")) ELSE new

ValidTransfer(a, asset, amount) ==
    CASE asset = "own" -> HasCapacity(a, Fee)
      [] asset = "native" -> amount <= Minus(Free(a), Fee)
      [] asset = "usd" -> /\ HasLine(a) /\ a.line.auth = "full"
                          /\ HasCapacity(a, Fee)
                          /\ amount <= AvailableBalance(a, "usd")

\* get_account_optional of the destination
IsThere(w, to) == IF to = "issuer" THEN w.issuer.exists ELSE w.dest.exists
MemoRequired(w, to) == IF to = "issuer" THEN w.issuer.memoRequired ELSE w.dest.memoRequired

ValidReceive(to, d, asset, amount) ==
    to /= "issuer" =>
        IF asset = "native" THEN amount <= Minus(Int64Max, d.xlm)
        ELSE d.limit > 0 /\ d.auth = "full" /\ amount <= Minus(d.limit, d.balance)

\* SEP-29: only a plain address can need a memo.  A muxed one has its id.
ValidMemo(muxed, required, memo) ==
    /\ muxed => memo /= "other_id"
    /\ (~muxed /\ memo = "none") => ~required

PreflightCreate(a, r, addsLine) ==
    LET need == OfferLiabilities(r.side, r.amount, r.price)
        future == MinimumOf(a) + (IF addsLine THEN 2 ELSE 1) * Reserve
        fee == (IF addsLine THEN 2 ELSE 1) * Fee
        native == AvailableBalance(a, "native")
    IN  /\ IF r.selling = "native" THEN need.selling + future + fee <= native
           ELSE /\ r.selling /= "own" => need.selling <= AvailableBalance(a, r.selling)
                /\ future + fee <= native
        /\ need.buying <= ReceivingCapacity(a, r.buying, IF addsLine THEN DefaultLimit ELSE 0)

\* Mutant: the reserve can be sold.
PreflightUpdateReserve(a, old, r) ==
    LET need == OfferLiabilities(r.side, r.amount, r.price)
        released == OfferLiabilities("sell", old.amount, old.price)
    IN  /\ HasCapacity(a, Fee)
        /\ r.selling /= "own" => need.selling <= AvailableBalance(a, r.selling) + released.selling
        /\ r.buying /= "own" => need.buying <= ReceivingCapacity(a, r.buying, 0) + released.buying

\* Mutant: the old offer is not released.
PreflightUpdateBeside(a, old, r) ==
    LET need == OfferLiabilities(r.side, r.amount, r.price)
        available == AvailableBalance(a, r.selling)
    IN  /\ HasCapacity(a, Fee)
        /\ IF r.selling = "native" THEN need.selling + MinimumOf(a) + Fee <= available
           ELSE r.selling /= "own" => need.selling <= available
        /\ r.buying /= "own" => need.buying <= ReceivingCapacity(a, r.buying, 0)

PreflightUpdate(a, old, r) ==
    LET need == OfferLiabilities(r.side, r.amount, r.price)
        released == OfferLiabilities("sell", old.amount, old.price)
        available == AvailableBalance(a, r.selling) + released.selling
    IN  /\ HasCapacity(a, Fee)
        /\ IF r.selling = "native" THEN need.selling + MinimumOf(a) + Fee <= available
           ELSE r.selling /= "own" => need.selling <= available
        /\ r.buying /= "own" => need.buying <= ReceivingCapacity(a, r.buying, 0) + released.buying

\* ensure_full_offer_authorization
OfferAuthorized(a, asset) == asset = "usd" => HasLine(a) /\ a.line.auth = "full"
CanHold(a, asset) == asset = "usd" => HasLine(a)

-----------------------------------------------------------------------------
(***************************************************************************)
(* The calls.                                                              *)
(***************************************************************************)
NotPrepared == [tx |-> [op |-> "none"], line |-> NoLine]
Nothing == [kind |-> "none"]

ReadsOf(r) ==
    CASE r.kind = "pay" -> <<"account", "destination">>
      [] r.kind \in {"add", "limit", "sell_or_buy"} -> <<"account", "issuer">>
      [] r.kind = "remove" -> <<"account", "pool">>
      [] r.kind \in {"update", "cancel"} -> <<"offer", "account">>

Init ==
    /\ ledger \in Worlds /\ Legal(ledger)
    /\ since = {ledger}
    /\ request = Nothing /\ reads = <<>> /\ seen = <<>>
    /\ outcome = "none" /\ prepared = NotPrepared

Begin ==
    /\ request = Nothing
    /\ request' \in Requests
    /\ reads' = ReadsOf(request')
    /\ UNCHANGED <<ledger, since, seen, outcome, prepared>>

Read ==
    /\ reads /= <<>>
    /\ seen' = Append(seen, ledger)
    /\ reads' = Tail(reads)
    /\ UNCHANGED <<ledger, since, request, outcome, prepared>>

Ready(kind) == request.kind = kind /\ reads = <<>> /\ outcome = "none"
Refuse == outcome' = "refused" /\ UNCHANGED prepared
Review(tx, line) == outcome' = "prepared" /\ prepared' = [tx |-> tx, line |-> line]
Unmoved == UNCHANGED <<ledger, since, request, reads, seen>>

\* prepare_payment_with_wallet
PreparePayment ==
    /\ Ready("pay")
    /\ LET a == seen[1]
           d == seen[2]
           there == IsThere(d, request.to)
           ok == /\ ~there => ~request.muxed /\ request.asset = "native" /\ request.amount >= 2 * Reserve
                 /\ ValidTransfer(a, request.asset, request.amount)
                 /\ there => /\ ValidReceive(request.to, d.dest, request.asset, request.amount)
                             /\ ValidMemo(request.muxed, MemoRequired(d, request.to), request.memo)
       IN  IF ok THEN Review([op |-> IF there THEN "payment" ELSE "create", to |-> request.to, asset |-> request.asset,
                              amount |-> request.amount], NoLine)
           ELSE Refuse
    /\ Unmoved

\* initial_trustline_state
\* Mutant: the issuer's requirement is overlooked.
InitialLineFull(i, limit) == [balance |-> 0, limit |-> limit, auth |-> "full", clawback |-> i.clawback]

InitialLine(i, limit) ==
    [balance |-> 0, limit |-> limit, auth |-> IF i.required THEN "none" ELSE "full", clawback |-> i.clawback]

\* prepare_trustline
Trust(limit) == [op |-> "trust", limit |-> limit]

AddTrustline ==
    /\ Ready("add")
    /\ LET a == seen[1]
           i == seen[2].issuer
       IN  IF ~HasLine(a) /\ i.exists /\ HasCapacity(a, Fee + Reserve)
             THEN Review(Trust(request.limit), InitialLine(i, request.limit))
             ELSE Refuse
    /\ Unmoved

LimitHolds(a, limit) == limit >= a.line.balance + Buying(a, "usd")

SetLimit ==
    /\ Ready("limit")
    /\ LET a == seen[1] IN
       IF HasLine(a) /\ LimitHolds(a, request.limit) /\ seen[2].issuer.exists /\ HasCapacity(a, Fee)
         THEN Review(Trust(request.limit), [a.line EXCEPT !.limit = request.limit])
         ELSE Refuse
    /\ Unmoved

RemoveTrustline ==
    /\ Ready("remove")
    /\ LET a == seen[1]
           free == a.line.balance = 0 /\ Selling(a, "usd") = 0 /\ Buying(a, "usd") = 0 /\ ~seen[2].pool
       IN  IF HasLine(a) /\ free /\ HasCapacity(a, Fee) THEN Review(Trust(0), NoLine) ELSE Refuse
    /\ Unmoved

Offer(id, r, addsLine) ==
    [op |-> "offer", id |-> id, side |-> r.side, selling |-> r.selling, buying |-> r.buying, amount |-> r.amount,
     price |-> r.price, addsLine |-> addsLine]

\* prepare_offer_create
CreateOffer ==
    /\ Ready("sell_or_buy")
    /\ LET a == seen[1]
           addsLine == ~CanHold(a, request.buying)
           ok == /\ request.selling /= request.buying
                 /\ OfferAuthorized(a, request.selling)
                 /\ ~addsLine => OfferAuthorized(a, request.buying)
                 /\ addsLine => request.allow /\ seen[2].issuer.exists /\ ~seen[2].issuer.required
                 /\ PreflightCreate(a, request, addsLine)
       IN  IF ok THEN Review(Offer(0, request, addsLine), IF addsLine THEN InitialLine(seen[2].issuer, DefaultLimit) ELSE a.line)
           ELSE Refuse
    /\ Unmoved

\* prepare_offer_update: infer_side keeps the orientation of the stored offer.
UpdateOffer ==
    /\ Ready("update")
    /\ LET old == seen[1].offer
           a == seen[2]
           ok == /\ old.owner = "wallet"
                 /\ old.selling = request.selling /\ old.buying = request.buying
                 /\ OfferAuthorized(a, request.selling) /\ OfferAuthorized(a, request.buying)
                 /\ PreflightUpdate(a, old, request)
       IN  IF ok THEN Review(Offer(1, request, FALSE), a.line) ELSE Refuse
    /\ Unmoved

\* prepare_offer_cancel
CancelOffer ==
    /\ Ready("cancel")
    /\ LET old == seen[1].offer
           a == seen[2]
       IN  IF old.owner = "wallet" /\ HasCapacity(a, Fee)
             THEN Review(Offer(1, [old EXCEPT !.amount = 0, !.side = "sell"], FALSE), a.line)
             ELSE Refuse
    /\ Unmoved

-----------------------------------------------------------------------------
(***************************************************************************)
(* Meanwhile on the ledger: another device of the wallet reduces the       *)
(* offer, somebody takes a part of it, somebody pays.                      *)
(***************************************************************************)
Moves(w) ==
    /\ reads /= <<>> /\ w /= ledger /\ Legal(w)
    /\ Cardinality(since) <= MaxChanges
    /\ ledger' = w /\ since' = since \cup {w}
    /\ UNCHANGED <<request, reads, seen, outcome, prepared>>

ReduceOffer ==
    /\ HasOffer(ledger)
    /\ \E left \in 1..ledger.offer.amount - 1 : Moves([ledger EXCEPT !.offer.amount = left])

\* A part of the offer that the price divides: the ledger leaves no other.
Gains(w, asset, x) ==
    CASE asset = "native" -> [w EXCEPT !.xlm = @ + x]
      [] asset = "usd" -> [w EXCEPT !.line.balance = @ + x]
      [] asset = "own" -> w

TakeOffer ==
    /\ HasOffer(ledger)
    /\ \E wheat \in 1..ledger.offer.amount - 1 :
         LET o == ledger.offer
             sheep == (wheat * o.price.n) \div o.price.d
         IN  /\ sheep * o.price.d = wheat * o.price.n
             /\ Moves(Gains(Gains([ledger EXCEPT !.offer.amount = o.amount - wheat], o.buying, sheep), o.selling, 0 - wheat))

BePaid == \E asset \in {"native", "usd"} : (asset = "usd" => HasLine(ledger)) /\ Moves(Gains(ledger, asset, 1))

Next ==
    \/ Begin \/ Read
    \/ PreparePayment \/ AddTrustline \/ SetLimit \/ RemoveTrustline
    \/ CreateOffer \/ UpdateOffer \/ CancelOffer
    \/ TakeOffer

Spec == Init /\ [][Next]_vars

\* With another device, and payers.
SharedSpec == Init /\ [][Next \/ ReduceOffer \/ BePaid]_vars

-----------------------------------------------------------------------------
Quiet == Cardinality(since) = 1
Tx == prepared.tx

\* What a request asks of a ledger, whether the client's rules allow it, and whether
\* the ledger would take it.
Right(r, w) ==
    CASE r.kind = "pay" ->
            LET there == r.to = "issuer" \/ w.dest.exists
            IN  /\ there => IF r.muxed THEN r.memo /= "other_id" ELSE r.memo = "none" => ~MemoRequired(w, r.to)
                /\ ~there => ~r.muxed /\ r.asset = "native"
                /\ LedgerAccepts(w, [op |-> IF there THEN "payment" ELSE "create", to |-> r.to, asset |-> r.asset, amount |-> r.amount])
      [] r.kind = "add" -> ~HasLine(w) /\ LedgerAccepts(w, Trust(r.limit))
      [] r.kind = "limit" -> HasLine(w) /\ LedgerAccepts(w, Trust(r.limit))
      [] r.kind = "remove" -> LedgerAccepts(w, Trust(0))
      [] r.kind = "sell_or_buy" ->
            /\ r.selling /= r.buying
            /\ ~CanHold(w, r.buying) => r.allow
            /\ LedgerAccepts(w, Offer(0, r, ~CanHold(w, r.buying)))
      [] r.kind = "update" ->
            /\ w.offer.selling = r.selling /\ w.offer.buying = r.buying
            /\ LedgerAccepts(w, Offer(1, r, FALSE))
      [] r.kind = "cancel" -> LedgerAccepts(w, Offer(1, [w.offer EXCEPT !.amount = 0], FALSE))

\* At the end of the range of amounts the ledger has the fee as room for what an offer buys.
LumensFit(r, w) ==
    (r.kind \in {"sell_or_buy", "update"} /\ r.buying = "native") =>
        w.xlm + OfferLiabilities(r.side, r.amount, r.price).buying
            + (IF r.kind = "update" THEN 0 ELSE Buying(w, "native")) <= Int64Max

\* What is sent to its issuer is refused when the issuer's account is no more, though the
\* ledger would take it back.
IssuerIsThere(r, w) == (r.kind = "pay" /\ r.to = "issuer") => w.issuer.exists

\* If nothing changes meanwhile, what is shown for review the rules allow and the ledger
\* takes, and what both do is shown: the checks of reserves, fees, liabilities, limits,
\* authorizations and of the entry to be created let nothing through that will fail, and
\* refuse nothing that is possible but for the last fee below the end of the range and
\* what is sent back to an issuer that has no account (validate_transfer, preflight_create,
\* preflight_update, ensure_native_capacity and the rest).
PreflightIsExact ==
    (outcome /= "none" /\ Quiet) =>
        /\ outcome = "prepared" => Right(request, ledger)
        /\ Right(request, ledger) /\ LumensFit(request, ledger) /\ IssuerIsThere(request, ledger) =>
               outcome = "prepared"

\* The line that the review of a trustline or of an offer shows is the line there
\* will be, with its authorization and clawback (initial_trustline_state,
\* existing_trustline_state).
ReviewedLine ==
    (outcome = "prepared" /\ Quiet /\ Tx.op \in {"trust", "offer"}) => After(ledger, Tx).line = prepared.line

\* sdex.md: the liabilities of the offer that is replaced are released once.  An update
\* that passes would have been accepted at some moment of the call, its fee aside, which
\* was there at one, though the offer is read before the account (prepare_offer_update).
OldLiabilitiesCountedOnce ==
    (outcome = "prepared" /\ request.kind = "update") =>
        /\ \E w \in since : HasCapacity(w, Fee)
        /\ \E w \in since : LedgerAccepts([w EXCEPT !.xlm = @ + Fee], Tx)
=============================================================================
