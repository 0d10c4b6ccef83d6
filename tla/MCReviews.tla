----------------------------- MODULE MCReviews -----------------------------
(***************************************************************************)
(* Everything a product shows for review before it is signed, and what it  *)
(* shows of a market: components that share no state, each explored alone. *)
(* "part" says which; the others rest.                                     *)
(*   "call"      a guided contract call under upgrades (ContractInvoke)    *)
(*   "arguments" one argument of every type, and several by name and       *)
(*               position (ContractArguments)                              *)
(*   "token"     token balances and transfers (TokenTransfers)             *)
(*   "detached"  a transfer that another party submits (DetachedTransfer)  *)
(*   "math"      prices and liabilities (OfferMath)                        *)
(*   "write"     payments, trustlines, offers (ClassicWrites)              *)
(*   "raced"     an offer that is taken while it is updated                *)
(*   "view"      order books, trades, fills (MarketViews)                  *)
(***************************************************************************)
EXTENDS Reviews, TLC

allVars == <<part, invokeVars, call, tokenVars, detachedVars, question, writeVars, viewVars>>

-----------------------------------------------------------------------------
(***************************************************************************)
(* Contracts.                                                              *)
(***************************************************************************)
\* Three codes, the second with another function; simulations with each effect alone.
None == [restore |-> FALSE, writes |-> 0, archived |-> 0, events |-> 0, authorizations |-> 0]
Effects == {None, [None EXCEPT !.restore = TRUE], [None EXCEPT !.writes = 1],
            [None EXCEPT !.archived = 1], [None EXCEPT !.events = 1], [None EXCEPT !.authorizations = 1]}
Reports == [failed: {FALSE}, results: {1}, effects: Effects]
           \union [failed: {TRUE}, results: {0}, effects: {None}]
           \union [failed: {FALSE}, results: {0}, effects: {None}]

MCBehaviours == [c \in Codes |-> Reports]
MCFunctions == [c \in Codes |-> IF c = "w2" THEN {"transfer", "new"} ELSE {"transfer"}]

Given == INSTANCE MCContractArguments
MCDefinitions == Given!MCDefinitions
MCTypes == Given!MCTypes
MCDepth == Given!MCDepth
MCGuidedCalls == Given!MCCalls
MCAddressNames == Given!MCAddressNames
MCSpelling == Given!MCSpelling
MCReadText(j, T) == Given!FromJson(MCDefinitions, {"G1", "G2"}, j, T)
MCReadJson(j, T) == Given!ParseJson(MCDefinitions, {"G1", "G2"}, j, T)
MCFits(v, T) == Given!Conforms(MCDefinitions, v, T)
MCShow(v, T) == Given!ToJson(MCDefinitions, v, T)
MCSorted(v, T) == Given!InOrder(MCDefinitions, v, T)

\* Codes that differ in decimals, interface and effects.
TokenCode(name, decimals, sep41, writes, sends) ==
    [name |-> name, decimals |-> decimals, sep41 |-> sep41, writes |-> writes, sends |-> sends]
MCTokenCodes ==
    {TokenCode("two", 2, TRUE, FALSE, TRUE), TokenCode("three", 3, TRUE, FALSE, TRUE),
     TokenCode("whole", 0, TRUE, FALSE, TRUE), TokenCode("other", 2, FALSE, FALSE, TRUE),
     TokenCode("counting", 2, TRUE, TRUE, TRUE), TokenCode("idle", 3, TRUE, FALSE, FALSE)}
MCAssetToken == TokenCode("asset", 2, TRUE, FALSE, TRUE)

MCTokenAmounts == [mantissa: {0, 1, 15, 307}, places: 0..3]

\* Two networks, two accounts, one of them watched on one network.
MCWallets ==
    {[network |-> "public", address |-> "A", signing |-> TRUE],
     [network |-> "test", address |-> "A", signing |-> FALSE],
     [network |-> "test", address |-> "B", signing |-> TRUE]}

-----------------------------------------------------------------------------
(***************************************************************************)
(* Markets.                                                                *)
(***************************************************************************)
Markets == INSTANCE MCClassicWrites
MCWorlds == Markets!MCWorlds
MCRequests == Markets!MCRequests
MCRaced == Markets!MCRaced
MCUpdates == Markets!MCUpdates

MCRequested == 1..300
MCOfferAmounts == 0..40

-----------------------------------------------------------------------------
ContractsRest == Init /\ instance = Asset /\ tags = [t \in Tags |-> "w1"]
TokensRest == Tokens!Init /\ running = MCAssetToken
WritesRest == Raced!Init /\ ledger = CHOOSE w \in MCRaced : Raced!Legal(w)

MCInit ==
    /\ Argument!Init /\ Detached!Init /\ Math!Init /\ View!Init
    /\ \/ part = "call" /\ Init /\ TokensRest /\ WritesRest
       \/ part = "token" /\ ContractsRest /\ Tokens!Init /\ WritesRest
       \/ part = "write" /\ ContractsRest /\ TokensRest /\ Write!Init
       \/ part = "raced" /\ ContractsRest /\ TokensRest /\ Raced!Init
       \/ part \in {"arguments", "detached", "math", "view"} /\ ContractsRest /\ TokensRest /\ WritesRest

MCNext ==
    /\ UNCHANGED part
    /\ \/ /\ part = "call" /\ Next
          /\ UNCHANGED <<call, tokenVars, detachedVars, question, writeVars, viewVars>>
       \/ /\ part = "arguments" /\ Argument!Next
          /\ UNCHANGED <<invokeVars, tokenVars, detachedVars, question, writeVars, viewVars>>
       \/ /\ part = "token" /\ Tokens!Next
          /\ UNCHANGED <<invokeVars, call, detachedVars, question, writeVars, viewVars>>
       \/ /\ part = "detached" /\ Detached!Next
          /\ UNCHANGED <<invokeVars, call, tokenVars, question, writeVars, viewVars>>
       \/ /\ part = "math" /\ Math!Next
          /\ UNCHANGED <<invokeVars, call, tokenVars, detachedVars, writeVars, viewVars>>
       \/ /\ \/ part = "write" /\ Write!Next
             \/ part = "raced" /\ Raced!Next
          /\ UNCHANGED <<invokeVars, call, tokenVars, detachedVars, question, viewVars>>
       \/ /\ part = "view" /\ View!Next
          /\ UNCHANGED <<invokeVars, call, tokenVars, detachedVars, question, writeVars>>

MCSpec == MCInit /\ [][MCNext]_allVars

=============================================================================
