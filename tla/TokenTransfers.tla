--------------------------- MODULE TokenTransfers ----------------------------
(***************************************************************************)
(* Balances and transfers of SEP-41 tokens (token.rs).  An amount is a     *)
(* decimal for the user and an integer for the contract; the number of     *)
(* decimals is asked of the contract by a call of its own, while the       *)
(* contract may be upgraded.                                               *)
(*                                                                         *)
(* A call reads the interface, then simulates; a transfer is compared with *)
(* the code once more (ContractInvoke has that in detail).  The contract   *)
(* of a Stellar asset is part of the ledger and is not upgraded; other     *)
(* contracts are upgraded to code that they have not run before.           *)
(***************************************************************************)
EXTENDS Naturals, FiniteSets

CONSTANTS
    Codes,          \* what a contract can run: its decimals, interface and effects
    AssetCode,      \* the contract of a Stellar asset
    Amounts,        \* amounts of the user: mantissa and places, without trailing zeros
    Calls,          \* subset of {"balance", "transfer"}
    MaxRaw          \* i128::MAX

STELLAR_ASSET_TOKEN_DECIMALS == AssetCode.decimals

TokenAssumption ==
    /\ AssetCode \notin Codes /\ MaxRaw \in Nat
    /\ \A code \in Codes \cup {AssetCode} : code.decimals \in Nat
    /\ Amounts \subseteq [mantissa: Nat, places: Nat]

VARIABLES
    running,    \* the code of the contract
    left,       \* codes it has not run yet
    call,       \* what the user asked for
    pc,         \* where the call is
    snapshot,   \* the code whose interface was read last
    reads,      \* results of the reads so far, with the executable they report
    raw,        \* the integer amount
    outcome     \* "none", "refused", "shown" or "prepared", and for the last what runs

vars == <<running, left, call, pc, snapshot, reads, raw, outcome>>

Power[n \in Nat] == IF n = 0 THEN 1 ELSE 10 * Power[n - 1]
NoCode == [name |-> "none"]
NoCall == [op |-> "none"]
NoOutcome == [is |-> "none", code |-> NoCode, amount |-> 0]

-----------------------------------------------------------------------------
\* parse_token_amount: no digit is lost, and nothing is sent.
Parses(amount, decimals) ==
    /\ amount.places <= decimals /\ amount.mantissa > 0
    /\ amount.mantissa * Power[decimals - amount.places] <= MaxRaw
ParseTokenAmount(amount, decimals) == amount.mantissa * Power[decimals - amount.places]

\* Mutant: contracts of one kind count as the same.
SameKind(first, second) == (first = AssetCode) = (second = AssetCode)

\* ensure_same_executable
SameExecutable(first, second) == first = second

-----------------------------------------------------------------------------
Init ==
    /\ running \in Codes \cup {AssetCode}
    /\ left = Codes \ {running}
    /\ call = NoCall /\ pc = "idle" /\ snapshot = NoCode /\ reads = [f \in {} |-> 0] /\ raw = 0 /\ outcome = NoOutcome

\* An asset is resolved to its contract; a contract is taken as it is given.
Start ==
    /\ pc = "idle"
    /\ \E op \in Calls, a \in Amounts :
         /\ call' = [op |-> op, amount |-> a, source |-> IF running = AssetCode THEN "asset" ELSE "contract"]
         /\ pc' = IF op = "balance" THEN "balance" ELSE IF running = AssetCode THEN "amount" ELSE "decimals"
    /\ UNCHANGED <<running, left, snapshot, reads, raw, outcome>>

Refuse == pc' = "done" /\ outcome' = [NoOutcome EXCEPT !.is = "refused"] /\ UNCHANGED <<snapshot, reads, raw>>

\* The interface is looked up for each call.
ReadInterface ==
    /\ pc \in {"balance", "decimals", "transfer"} /\ snapshot = NoCode
    /\ snapshot' = running
    /\ UNCHANGED <<running, left, call, pc, reads, raw, outcome>>

\* token_read: the simulation runs the code of the moment; the result names the code of
\* the interface.  A read must not need a transaction.
TokenRead(function, next) ==
    /\ pc = function /\ snapshot /= NoCode
    /\ IF ~running.writes /\ snapshot.sep41
         THEN /\ reads' = [f \in DOMAIN reads \cup {function} |->
                             IF f = function THEN [executable |-> snapshot, by |-> running] ELSE reads[f]]
              /\ pc' = next /\ snapshot' = NoCode
              /\ UNCHANGED <<raw, outcome>>
         ELSE Refuse
    /\ UNCHANGED <<running, left, call>>

ReadBalance == TokenRead("balance", IF call.source = "asset" THEN "show" ELSE "decimals")
ReadDecimals == TokenRead("decimals", IF call.op = "balance" THEN "show" ELSE "amount")

Decimals == IF call.source = "asset" THEN STELLAR_ASSET_TOKEN_DECIMALS ELSE reads["decimals"].by.decimals

\* token_balance
ShowBalance ==
    /\ pc = "show"
    /\ IF call.source = "contract" => SameExecutable(reads["balance"].executable, reads["decimals"].executable)
         THEN /\ pc' = "done"
              /\ outcome' = [is |-> "shown", code |-> reads["balance"].by, amount |-> Decimals]
              /\ UNCHANGED <<snapshot, reads, raw>>
         ELSE Refuse
    /\ UNCHANGED <<running, left, call>>

\* prepare_token_transfer
ScaleAmount ==
    /\ pc = "amount"
    /\ IF Parses(call.amount, Decimals)
         THEN raw' = ParseTokenAmount(call.amount, Decimals) /\ pc' = "transfer" /\ UNCHANGED <<snapshot, reads, outcome>>
         ELSE Refuse
    /\ UNCHANGED <<running, left, call>>

\* What prepare_contract_invoke_outcome leaves: the code that was simulated is the one
\* of the interface, and is looked up again.
Prepare ==
    /\ pc = "transfer" /\ snapshot /= NoCode
    /\ IF /\ running.sends /\ snapshot = running
          /\ snapshot.sep41
          /\ call.source = "contract" => SameExecutable(reads["decimals"].executable, snapshot)
         THEN /\ pc' = "done"
              /\ outcome' = [is |-> "prepared", code |-> running, amount |-> raw]
              /\ UNCHANGED <<snapshot, reads, raw>>
         ELSE Refuse
    /\ UNCHANGED <<running, left, call>>

Upgrade ==
    /\ running /= AssetCode
    /\ \E code \in left : running' = code /\ left' = left \ {code}
    /\ UNCHANGED <<call, pc, snapshot, reads, raw, outcome>>

Next == Start \/ ReadInterface \/ ReadBalance \/ ReadDecimals \/ ShowBalance \/ ScaleAmount \/ Prepare \/ Upgrade

Spec == Init /\ [][Next]_vars

-----------------------------------------------------------------------------
\* The amount of a prepared transfer is the user's amount in the decimals of the code
\* that the transaction was prepared for, to the last digit, even if the contract is
\* upgraded between the question for its decimals and the transfer
\* (prepare_token_transfer).
TransferIsScaled ==
    outcome.is = "prepared" =>
        /\ call.amount.mantissa * Power[outcome.code.decimals] = outcome.amount * Power[call.amount.places]
        /\ outcome.amount \in 1..MaxRaw
        /\ outcome.code.sep41

\* A balance is shown in the decimals of the code that answered it: an executable that
\* changed during the operation is reported (ensure_same_executable).
BalanceIsScaled == outcome.is = "shown" => outcome.amount = outcome.code.decimals
=============================================================================
