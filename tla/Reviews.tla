------------------------------ MODULE Reviews ------------------------------
(***************************************************************************)
(* What a product shows for review before it is signed: a guided contract  *)
(* call (ContractInvoke, extended), token transfers that the wallet sends  *)
(* or that another party submits, prices and liabilities, and payments,    *)
(* trustlines and offers.                                                  *)
(* The components share no state; "part" says which one is looked at.      *)
(***************************************************************************)
EXTENDS ContractInvoke

CONSTANTS
    Definitions, InputTypes, Depth, MaxDepth,                           \* arguments
    GuidedCalls, AddressNames, Spelling,
    ReadText(_, _), ReadJson(_, _), Fits(_, _), Show(_, _), Ordered(_, _),
    TokenCodes, AssetToken, TokenCalls, TokenAmounts, MaxRaw,           \* tokens
    Networks, Addresses, Wallets, Contracts, Base,                      \* detached
    Int32Max, Int64Max, Scale, Reserve, Fee, DefaultLimit,              \* writes
    Worlds, Requests, RacedWorlds, Updates, MaxChanges,
    TermBound, AmountBound, PriceScale, Requested, OfferAmounts, MaxTerm,  \* math
    ViewScale, Trader, NoId, ViewAmounts, ViewTerm, MaxTrades          \* views

VARIABLES
    part,
    call,                                                        \* arguments
    running, left, transfer, at, snapshot, answers, raw, shown,  \* tokens
    prepared, requested, signatures,                             \* detached
    question,                                                    \* math
    level, records,                                              \* views
    ledger, since, request, reads, seen, outcome, write          \* writes

invokeVars == vars
tokenVars == <<running, left, transfer, at, snapshot, answers, raw, shown>>
detachedVars == <<prepared, requested, signatures>>
viewVars == <<level, records>>
writeVars == <<ledger, since, request, reads, seen, outcome, write>>

-----------------------------------------------------------------------------
Argument == INSTANCE ContractArguments WITH
    Calls <- GuidedCalls, FromText <- ReadText, ParseJson <- ReadJson, Conforms <- Fits, ToJson <- Show,
    InOrder <- Ordered

Tokens == INSTANCE TokenTransfers WITH
    Codes <- TokenCodes, AssetCode <- AssetToken, Calls <- TokenCalls, Amounts <- TokenAmounts,
    call <- transfer, pc <- at, reads <- answers, outcome <- shown

Detached == INSTANCE DetachedTransfer

Math == INSTANCE MCOfferMath WITH
    Int32Max <- TermBound, Int64Max <- AmountBound, Scale <- PriceScale, Amounts <- OfferAmounts

View == INSTANCE MCMarketViews WITH
    Int32Max <- TermBound, Int64Max <- AmountBound, Scale <- ViewScale, Amounts <- ViewAmounts,
    MaxTerm <- ViewTerm, Address <- Trader

Write == INSTANCE ClassicWrites WITH MaxChanges <- 0, prepared <- write

Raced == INSTANCE ClassicWrites WITH
    Worlds <- RacedWorlds, Requests <- Updates, prepared <- write

ASSUME ArgumentAssumption == Argument!FormsAssumption /\ Argument!CallsAssumption
ASSUME TokensAssumption == Tokens!TokenAssumption
ASSUME DetachedAssumption == Detached!WalletsAssumption /\ Detached!BaseAssumption
ASSUME MathAssumption == Math!BoundsAssumption /\ Math!QuestionsAssumption
ASSUME ViewAssumption == View!BoundsAssumption /\ View!MarketAssumption /\ View!ViewsAssumption
ASSUME WritesAssumption == Write!BoundsAssumption /\ Write!LedgerAssumption /\ Raced!LedgerAssumption

-----------------------------------------------------------------------------
\* A guided call (contract.rs): the code that is shown is the one that was simulated, a call
\* shown as a read has no effect, what the interface advertises for an input is what a call
\* accepts, and every argument given is taken by one input as what it means.
GuidedCallIsHonest ==
    /\ part = "call" => ReviewedCodeIsPrepared /\ ReadsHaveNoEffect
    /\ part = "arguments" => Argument!FormIsHonest /\ Argument!ArgumentsAreTaken

\* The review of an argument whose maps are in order, given back as JSON, is the value that is
\* signed (contract.rs contract_argument_review).
ReviewIsExact == part = "arguments" => Argument!ReviewIsExact

\* The transfer that is executed is the requested one: prepared in the decimals of the code it
\* was prepared for (token.rs), and, when signed detached, no other one, by a key of its
\* network (soroban.rs).
TransferIsRequested ==
    /\ part = "token" => Tokens!TransferIsScaled
    /\ part = "detached" => Detached!SignedIsRequested /\ Detached!KeyOfTheNetwork

\* A price that can be encoded is signed as it was requested, any other is off by less than one
\* step of its denominator (dex.rs stellar_price), and the liabilities are the most and the
\* least that the ledger's exchange allows (dex.rs offer_liabilities).
OfferIsExact ==
    part = "math" => Math!PriceIsExact /\ Math!PriceIsClose /\ Math!LiabilitiesAreThoseOfTheLedger

\* A positive price is never shown as zero (dex.rs format_price_ratio), and fills are runs of
\* trades of one offer (dex.rs compress_account_trades).
MarketIsShown == part = "view" => View!PricesAreNotZero /\ View!FillsAreRuns

\* What is shown for review is what the ledger takes, with the trustline there will be, and
\* nothing it takes is refused but for a last fee and what goes back to an issuer without an
\* account (payment.rs, trustline.rs, dex.rs).
PreflightIsExact == part = "write" => Write!PreflightIsExact /\ Write!ReviewedLine

\* An update that passes would have passed at some moment of the call (dex.rs
\* prepare_offer_update).
OldLiabilitiesCountedOnce == part = "raced" => Raced!OldLiabilitiesCountedOnce
=============================================================================
