--------------------------- MODULE ContractInvoke ---------------------------
(***************************************************************************)
(* One guided contract call (contract.rs): the interface of the deployed   *)
(* code is read, the arguments are resolved with it, the call is simulated *)
(* and prepared, and the code is looked up again, in separate requests     *)
(* (rpc_gateway.rs) between which its owner may upgrade the contract.      *)
(***************************************************************************)
EXTENDS Naturals, FiniteSets

CONSTANTS
    Hashes,     \* Wasm codes
    Tags,       \* references to a code another contract owns
    Behaviours, \* what a simulation may report, for each code
    Functions,  \* functions the interface of a code knows
    MaxUpgrades

ASSUME UpgradesAssumption == MaxUpgrades \in Nat

Asset == [kind |-> "asset"]
Wasm(h) == [kind |-> "wasm", hash |-> h]
ExternalRef(t) == [kind |-> "external", tag |-> t]
Instances == {Asset} \union {Wasm(h) : h \in Hashes} \union {ExternalRef(t) : t \in Tags}
Codes == Hashes \union {"asset code"}

\* What a simulation reports; its effects are counted.
Effect == [restore: BOOLEAN, writes: Nat, archived: Nat, events: Nat, authorizations: Nat]
ASSUME BehavioursAssumption ==
    \A c \in Codes : Behaviours[c] \subseteq [failed: BOOLEAN, results: Nat, effects: Effect]

VARIABLES
    instance,   \* what the contract runs
    tags,       \* the code each tag stands for
    history,    \* the instances and the codes the contract has had
    upgrades,
    job,        \* the call in progress
    result

world == <<instance, tags, history, upgrades>>
vars == <<world, job, result>>

CodeOf(i, ts) ==
    CASE i.kind = "asset" -> "asset code" [] i.kind = "wasm" -> i.hash [] i.kind = "external" -> ts[i.tag]

Running == CodeOf(instance, tags)

-----------------------------------------------------------------------------
(***************************************************************************)
(* The ledger.  While a call is prepared, an upgrade leads to code that    *)
(* the contract has not run before, and a contract that refers to code of  *)
(* another one keeps its reference or gives it up for good.                *)
(***************************************************************************)
Moved(i, ts) ==
    /\ upgrades < MaxUpgrades
    /\ instance' = i /\ tags' = ts
    /\ history' = [instances |-> history.instances \union {i}, codes |-> history.codes \union {CodeOf(i, ts)}]
    /\ upgrades' = upgrades + 1
    /\ UNCHANGED <<job, result>>

Upgrade ==
    \E i \in Instances \ history.instances :
        /\ i.kind = "external" => \A j \in history.instances : j.kind /= "external"
        /\ CodeOf(i, tags) \notin history.codes \ {Running}
        /\ Moved(i, tags)

Retag == \E t \in Tags, h \in Hashes \ history.codes : h /= tags[t] /\ Moved(instance, [tags EXCEPT ![t] = h])

-----------------------------------------------------------------------------
(***************************************************************************)
(* Simulations.                                                            *)
(***************************************************************************)
\* Mutant: events are not looked at.
RequiresSendButEvents(effects) ==
    effects.restore \/ effects.writes > 0 \/ effects.archived > 0 \/ effects.authorizations > 0

\* ContractSimulationEffects::requires_send
RequiresSend(effects) ==
    \/ effects.restore \/ effects.writes > 0 \/ effects.archived > 0
    \/ effects.events > 0 \/ effects.authorizations > 0

\* validate_contract_simulation_preview
Previewable(simulation) == ~simulation.failed /\ simulation.results = 1

\* validate_soroban_simulation
Preparable(simulation) == ~simulation.failed /\ ~simulation.effects.restore /\ simulation.results = 1

NoResult == [kind |-> "none"]
NoJob == [pc |-> "done"]

Goto(pc) == job' = [job EXCEPT !.pc = pc] /\ UNCHANGED <<world, result>>
Fail == job' = NoJob /\ result' = NoResult /\ UNCHANGED world

\* A request that the RPC server does not answer, or answers with what cannot be read.
Refused == job.pc /= "done" /\ Fail

Start ==
    /\ job.pc = "done"
    /\ \E purpose \in {"simulate", "prepare", "outcome"}, f \in UNION {Functions[c] : c \in Codes} :
         job' = [pc |-> "instance", purpose |-> purpose, function |-> f]
    /\ result' = NoResult
    /\ UNCHANGED world

\* contract_executable
ReadInstance ==
    /\ job.pc = "instance"
    /\ job' = [pc |-> "resolve", purpose |-> job.purpose, function |-> job.function, read |-> instance]
    /\ UNCHANGED <<world, result>>

Observation(read, ts) == [kind |-> read.kind, code |-> CodeOf(read, ts)]

\* resolve_contract_executable, contract_wasm_interface and resolve: a tag is looked up
\* by a request of its own.  Code never changes, and the interface comes with it.
Resolve ==
    /\ job.pc = "resolve"
    /\ LET seen == Observation(job.read, tags) IN
       IF job.function \notin Functions[seen.code] THEN Fail
       ELSE /\ job' = [pc |-> IF job.purpose = "prepare" THEN "prepare" ELSE "simulate",
                       purpose |-> job.purpose, function |-> job.function,
                       snapshot |-> seen, arguments |-> seen.code]
            /\ UNCHANGED <<world, result>>

\* simulate_soroban_invoke, with simulate_contract_invoke and the first half of
\* prepare_contract_invoke_outcome.
Simulate ==
    /\ job.pc = "simulate"
    /\ \E s \in Behaviours[Running] :
         IF job.purpose = "simulate"
           THEN IF ~Previewable(s) THEN Fail
                ELSE /\ result' = [kind |-> "simulation", executable |-> job.snapshot, arguments |-> job.arguments,
                                   sends |-> RequiresSend(s.effects), simulation |-> s]
                     /\ job' = NoJob /\ UNCHANGED world
           ELSE IF ~Preparable(s) THEN Fail
                ELSE IF RequiresSend(s.effects) THEN Goto("prepare")
                ELSE /\ result' = [kind |-> "read", executable |-> job.snapshot, arguments |-> job.arguments,
                                   sends |-> FALSE, simulation |-> s]
                     /\ job' = NoJob /\ UNCHANGED world

\* prepare_soroban_invoke: the wallet's sequence, the inclusion fee and a simulation
\* that is kept in the transaction.
Prepare ==
    /\ job.pc = "prepare"
    /\ \E s \in Behaviours[Running] :
         IF ~Preparable(s) THEN Fail
         ELSE /\ job' = [pc |-> "observe", purpose |-> job.purpose, snapshot |-> job.snapshot,
                         arguments |-> job.arguments, simulation |-> s, ran |-> Running]
              /\ UNCHANGED <<world, result>>

\* contract_executable_observation
Observe ==
    /\ job.pc = "observe"
    /\ job' = [pc |-> "compare", purpose |-> job.purpose, snapshot |-> job.snapshot,
               arguments |-> job.arguments, simulation |-> job.simulation, ran |-> job.ran, read |-> instance]
    /\ UNCHANGED <<world, result>>

\* Mutant: any code of the same kind will do.
UnchangedKind(before, after) == before.kind = after.kind

\* ensure_contract_executable_unchanged
Unchanged(before, after) == before = after

Compare ==
    /\ job.pc = "compare"
    /\ LET seen == Observation(job.read, tags) IN
       IF ~Unchanged(job.snapshot, seen) THEN Fail
       ELSE /\ result' = [kind |-> "transaction", executable |-> seen, arguments |-> job.arguments,
                          ran |-> job.ran, simulation |-> job.simulation]
            /\ job' = NoJob /\ UNCHANGED world

Init ==
    /\ instance \in Instances
    /\ tags \in [Tags -> Hashes]
    /\ history = [instances |-> {instance}, codes |-> {CodeOf(instance, tags)}]
    /\ upgrades = 0
    /\ job = NoJob /\ result = NoResult

Next ==
    \/ Upgrade \/ Retag
    \/ Start \/ Refused \/ ReadInstance \/ Resolve \/ Simulate \/ Prepare \/ Observe \/ Compare

Spec == Init /\ [][Next]_vars

-----------------------------------------------------------------------------
(***************************************************************************)
(* Properties.                                                             *)
(***************************************************************************)
\* The code a review shows is the one its arguments were encoded for and the one whose
\* simulation fixed the transaction's footprint, fee and authorizations.
ReviewedCodeIsPrepared ==
    result.kind = "transaction" =>
        result.executable.code = result.ran /\ result.arguments = result.ran

\* A call is reported as a mere read only if nothing the network would do for it is lost
\* by not sending it: no entry written or restored, no event, no authorization used.
ReadsHaveNoEffect ==
    (result.kind \in {"read", "simulation"} /\ ~result.sends) =>
        /\ result.simulation.results = 1 /\ ~result.simulation.failed
        /\ result.simulation.effects =
             [restore |-> FALSE, writes |-> 0, archived |-> 0, events |-> 0, authorizations |-> 0]
=============================================================================
