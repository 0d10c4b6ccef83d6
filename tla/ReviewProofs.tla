----------------------------- MODULE ReviewProofs -----------------------------
(***************************************************************************)
(* Proofs about what is shown for review.                                  *)
(*                                                                         *)
(* Contracts and tokens.  The code shown to the user for a contract call   *)
(* is the code the prepared transaction was simulated with, for any codes, *)
(* tags and upgrades: the second look at the executable                    *)
(* (ensure_contract_executable_unchanged) closes the window between the    *)
(* separate requests.  A call shown as a read has no effect.  Then the     *)
(* amounts of token transfers, for any codes, decimals and upgrades, and   *)
(* transfers signed for another party.  Then the arguments of a call, for  *)
(* any contract spec: what is advertised for a type is what is accepted,   *)
(* and every argument has one input that takes it as what it means.        *)
(*                                                                         *)
(* Payments, trustlines and offers, for any ledger, reserve, fee and       *)
(* limits: while nothing changes, what is shown for review is what the     *)
(* ledger takes, with the trustline there will be; while somebody takes    *)
(* parts of an offer, an update of it releases no more than the offer      *)
(* held.  The second rests on the rounding of liabilities: a part that the *)
(* price divides takes its own amounts off both of them and no more.       *)
(*                                                                         *)
(* Prices and liabilities, for any bounds and scale: what the loop of      *)
(* continued fractions keeps, why it does not stop before a price that can *)
(* be encoded, how far off the others are, and that liabilities are the    *)
(* most and the least the exchange of the ledger allows.                   *)
(*                                                                         *)
(* Prices and fills as they are shown, for any scale, amounts and number   *)
(* of trades: the segments are built one trade after the other, so what    *)
(* they are is an induction over the trades, on the sums as well.          *)
(***************************************************************************)
EXTENDS Reviews, Sequences, FiniteSetTheorems, WellFoundedInduction, TLAPS

Snapshots == [kind : {"asset", "wasm", "external"}, code : Codes]
Purposes == {"simulate", "prepare", "outcome"}
AllFunctions == UNION {Functions[c] : c \in Codes}
AllBehaviours == UNION {Behaviours[c] : c \in Codes}

Asked == [pc : {"instance"}, purpose : Purposes, function : AllFunctions]
Read == [pc : {"resolve"}, purpose : Purposes, function : AllFunctions, read : Instances]
Resolved == [pc : {"simulate", "prepare"}, purpose : Purposes, function : AllFunctions,
             snapshot : Snapshots, arguments : Codes]

\* Job states; of those after the simulation only the fields the argument needs are typed.
JobTypes ==
    \/ job = NoJob
    \/ job \in Asked
    \/ job \in Read
    \/ job \in Resolved
    \/ job.pc = "observe" /\ job.snapshot \in Snapshots
    \/ job.pc = "compare" /\ job.snapshot \in Snapshots /\ job.read \in Instances

Types ==
    /\ instance \in Instances
    /\ tags \in [Tags -> Hashes]
    /\ JobTypes

\* The ledger remembers what it has run.
HistoryIsKept ==
    /\ instance \in history.instances
    /\ Running \in history.codes
    /\ \A i, j \in history.instances : i.kind = "external" /\ j.kind = "external" => i = j

\* The contract runs what the snapshot says, ...
Stands(shot) == Observation(instance, tags) = shot

\* ... or has left it, and will not come back to it.
Left(shot) ==
    \/ shot.kind = "asset" /\ Asset \in history.instances /\ instance # Asset
    \/ /\ shot.kind = "wasm" /\ Wasm(shot.code) \in history.instances
       /\ instance # Wasm(shot.code)
    \/ /\ shot.kind = "external" /\ instance.kind # "external"
       /\ \E i \in history.instances : i.kind = "external"
    \/ /\ shot.kind = "external" /\ instance.kind = "external"
       /\ shot.code \in history.codes /\ tags[instance.tag] # shot.code

\* An instance that was read shows something else than the snapshot, now and later.
Differs(read, shot) ==
    \/ read.kind # shot.kind
    \/ read.kind = "wasm" /\ read.hash # shot.code
    \/ /\ read.kind = "external" /\ shot.code \in history.codes
       /\ tags[read.tag] # shot.code

JobIsTracked ==
    /\ job.pc = "resolve" => job.read \in history.instances
    /\ job.pc \in {"simulate", "prepare"} => Stands(job.snapshot) \/ Left(job.snapshot)
    /\ job.pc = "observe" => job.ran = job.snapshot.code \/ Left(job.snapshot)
    /\ job.pc = "compare" => job.ran = job.snapshot.code \/ Differs(job.read, job.snapshot)
    /\ job.pc \in {"simulate", "prepare", "observe", "compare"} =>
          job.arguments = job.snapshot.code

IInv ==
    /\ Types
    /\ HistoryIsKept
    /\ JobIsTracked
    /\ ReviewedCodeIsPrepared

----------------------------------------------------------------------------
\* What an instance of each kind is.
LEMMA InstanceForms ==
    ASSUME NEW i \in Instances
    PROVE  /\ i.kind \in {"asset", "wasm", "external"}
           /\ i.kind = "asset" => i = Asset
           /\ i.kind = "wasm" => i = Wasm(i.hash) /\ i.hash \in Hashes
           /\ i.kind = "external" => i = ExternalRef(i.tag) /\ i.tag \in Tags
BY DEF Instances, Asset, Wasm, ExternalRef

\* What is observed of an instance.
LEMMA ObservationForms ==
    ASSUME NEW i \in Instances, NEW ts \in [Tags -> Hashes]
    PROVE  /\ Observation(i, ts) \in Snapshots
           /\ Observation(i, ts).kind = i.kind
           /\ Observation(i, ts).code = CodeOf(i, ts)
           /\ CodeOf(i, ts) \in Codes
           /\ i.kind = "asset" => CodeOf(i, ts) = "asset code"
           /\ i.kind = "wasm" => CodeOf(i, ts) = i.hash
           /\ i.kind = "external" => CodeOf(i, ts) = ts[i.tag]
<1>1. CodeOf(i, ts) \in Codes
  BY InstanceForms DEF CodeOf, Codes
<1>2. /\ i.kind = "asset" => CodeOf(i, ts) = "asset code"
      /\ i.kind = "wasm" => CodeOf(i, ts) = i.hash
      /\ i.kind = "external" => CodeOf(i, ts) = ts[i.tag]
  BY DEF CodeOf
<1> QED
  BY <1>1, <1>2, InstanceForms DEF Observation, Snapshots

\* An upgrade and a new meaning of a tag keep the types and the history.
LEMMA WorldStep ==
    ASSUME Types, HistoryIsKept, Upgrade \/ Retag
    PROVE  Types' /\ HistoryIsKept' /\ UNCHANGED <<job, result>>
<1> USE DEF Types, HistoryIsKept, Running
<1>1. CASE Upgrade
  <2>1. PICK i \in Instances \ history.instances :
            /\ i.kind = "external" => \A j \in history.instances : j.kind # "external"
            /\ Moved(i, tags)
    BY <1>1 DEF Upgrade
  <2>2. /\ instance' = i /\ tags' = tags /\ UNCHANGED <<job, result>>
        /\ history'.instances = history.instances \cup {i}
        /\ history'.codes = history.codes \cup {CodeOf(i, tags)}
    BY <2>1 DEF Moved
  <2>3. JobTypes'
    BY <2>2 DEF JobTypes
  <2> QED
    BY <2>1, <2>2, <2>3
<1>2. CASE Retag
  <2>1. PICK t \in Tags, h \in Hashes \ history.codes : Moved(instance, [tags EXCEPT ![t] = h])
    BY <1>2 DEF Retag
  <2>2. /\ instance' = instance /\ tags' = [tags EXCEPT ![t] = h] /\ UNCHANGED <<job, result>>
        /\ history'.instances = history.instances \cup {instance}
        /\ history'.codes = history.codes \cup {CodeOf(instance, tags')}
    BY <2>1 DEF Moved
  <2>3. JobTypes'
    BY <2>2 DEF JobTypes
  <2> QED
    BY <2>1, <2>2, <2>3
<1> QED
  BY <1>1, <1>2

\* A contract that moves on does not come back to what a snapshot shows.
LEMMA SnapshotStep ==
    ASSUME Types, HistoryIsKept, Upgrade \/ Retag, NEW shot \in Snapshots
    PROVE  /\ Stands(shot) => Stands(shot)' \/ Left(shot)'
           /\ Left(shot) => Left(shot)'
           /\ \A read \in Instances : Differs(read, shot) => Differs(read, shot)'
<1> USE DEF Types, HistoryIsKept, Running
<1>0. /\ Observation(instance, tags).kind = instance.kind
      /\ Observation(instance, tags).code = CodeOf(instance, tags)
      /\ instance.kind \in {"asset", "wasm", "external"}
      /\ instance.kind = "asset" => instance = Asset
      /\ instance.kind = "wasm" => instance = Wasm(instance.hash) /\ CodeOf(instance, tags) = instance.hash
      /\ instance.kind = "external" => CodeOf(instance, tags) = tags[instance.tag] /\ instance.tag \in Tags
  BY InstanceForms, ObservationForms
<1>1. CASE Upgrade
  <2>1. PICK i \in Instances \ history.instances :
            /\ i.kind = "external" => \A j \in history.instances : j.kind # "external"
            /\ Moved(i, tags)
    BY <1>1 DEF Upgrade
  <2>2. /\ instance' = i /\ tags' = tags
        /\ history'.instances = history.instances \cup {i}
        /\ history'.codes = history.codes \cup {CodeOf(i, tags)}
    BY <2>1 DEF Moved
  <2>3. Stands(shot) => Left(shot)'
    BY <1>0, <2>1, <2>2 DEF Stands, Left
  <2>4. Left(shot) => Left(shot)'
    BY <1>0, <2>1, <2>2 DEF Left
  <2>5. \A read \in Instances : Differs(read, shot) => Differs(read, shot)'
    BY <2>2 DEF Differs
  <2> QED
    BY <2>3, <2>4, <2>5
<1>2. CASE Retag
  <2>1. PICK t \in Tags, h \in Hashes \ history.codes :
            h # tags[t] /\ Moved(instance, [tags EXCEPT ![t] = h])
    BY <1>2 DEF Retag
  <2>2. /\ instance' = instance /\ tags' = [tags EXCEPT ![t] = h]
        /\ history'.instances = history.instances \cup {instance}
        /\ history'.codes = history.codes \cup {CodeOf(instance, tags')}
    BY <2>1 DEF Moved
  <2>3. tags' \in [Tags -> Hashes] /\ \A u \in Tags : tags'[u] = IF u = t THEN h ELSE tags[u]
    BY <2>2
  <2>4. /\ Observation(instance, tags').kind = instance.kind
        /\ Observation(instance, tags').code = CodeOf(instance, tags')
        /\ instance.kind = "asset" => CodeOf(instance, tags') = CodeOf(instance, tags)
        /\ instance.kind = "wasm" => CodeOf(instance, tags') = instance.hash
        /\ instance.kind = "external" => CodeOf(instance, tags') = tags'[instance.tag]
    <3>1. CASE instance.kind = "asset"
      BY <2>3, <3>1, ObservationForms
    <3>2. CASE instance.kind = "wasm"
      BY <2>3, <3>2, ObservationForms
    <3>3. CASE instance.kind = "external"
      BY <2>3, <3>3, ObservationForms
    <3> QED
      BY <1>0, <3>1, <3>2, <3>3
  <2>5. Stands(shot) => Stands(shot)' \/ Left(shot)'
    <3>1. CASE instance.kind = "external" /\ instance.tag = t
      <4>1. tags'[t] = h /\ h \notin history.codes
        BY <2>3
      <4> SUFFICES ASSUME Stands(shot) PROVE Left(shot)'
        OBVIOUS
      <4>2. shot.kind = "external" /\ shot.code = tags[t] /\ tags[t] \in history.codes
        BY <1>0, <3>1 DEF Stands
      <4>3. shot.code \in history'.codes /\ tags'[instance'.tag] # shot.code
        BY <2>2, <3>1, <4>1, <4>2
      <4> QED
        BY <2>2, <3>1, <4>2, <4>3 DEF Left
    <3>2. CASE ~(instance.kind = "external" /\ instance.tag = t)
      <4>1. CodeOf(instance, tags') = CodeOf(instance, tags)
        BY <1>0, <2>3, <2>4, <3>2
      <4> QED
        BY <2>2, <4>1 DEF Stands, Observation
    <3> QED
      BY <3>1, <3>2
  <2>6. Left(shot) => Left(shot)'
    BY <1>0, <2>1, <2>2, <2>3 DEF Left
  <2>7. \A read \in Instances : Differs(read, shot) => Differs(read, shot)'
    <3> SUFFICES ASSUME NEW read \in Instances, Differs(read, shot)
                 PROVE  Differs(read, shot)'
      OBVIOUS
    <3>1. CASE read.kind = "external" /\ shot.code \in history.codes /\ tags[read.tag] # shot.code
      <4>1. read.tag \in Tags
        BY <3>1, InstanceForms
      <4>2. tags'[read.tag] # shot.code
        BY <2>1, <2>3, <3>1, <4>1
      <4> QED
        BY <2>2, <3>1, <4>2 DEF Differs
    <3> QED
      BY <3>1 DEF Differs
  <2> QED
    BY <2>5, <2>6, <2>7
<1> QED
  BY <1>1, <1>2

\* The answer and the job after a step of the call keep the types.
LEMMA TypesStep ==
    ASSUME Types, HistoryIsKept, [Next]_vars
    PROVE  Types'
<1> USE DEF Types, world
<1>1. CASE Start
  <2>1. PICK purpose \in Purposes, f \in AllFunctions :
            job' = [pc |-> "instance", purpose |-> purpose, function |-> f]
    BY <1>1 DEF Start, Purposes, AllFunctions
  <2> QED
    BY <1>1, <2>1 DEF Start, JobTypes, Asked
<1>2. CASE Refused
  BY <1>2 DEF Refused, Fail, JobTypes
<1>3. CASE ReadInstance
  <2>1. job \in Asked
    BY <1>3 DEF ReadInstance, JobTypes, NoJob, Read, Resolved
  <2> QED
    BY <1>3, <2>1 DEF ReadInstance, JobTypes, Asked, Read
<1>4. CASE Resolve
  <2>1. job \in Read
    BY <1>4 DEF Resolve, JobTypes, NoJob, Asked, Resolved
  <2>2. Observation(job.read, tags) \in Snapshots /\ Observation(job.read, tags).code \in Codes
    BY <2>1, ObservationForms DEF Read
  <2> QED
    BY <1>4, <2>1, <2>2 DEF Resolve, Fail, JobTypes, Read, Resolved
<1>5. CASE Simulate
  <2>1. job \in Resolved
    BY <1>5 DEF Simulate, JobTypes, NoJob, Asked, Read
  <2> QED
    BY <1>5, <2>1 DEF Simulate, Fail, Goto, JobTypes, Resolved
<1>6. CASE Prepare
  <2>1. job \in Resolved
    BY <1>6 DEF Prepare, JobTypes, NoJob, Asked, Read
  <2> QED
    BY <1>6, <2>1 DEF Prepare, Fail, JobTypes, Resolved
<1>7. CASE Observe
  <2>1. job.snapshot \in Snapshots
    BY <1>7 DEF Observe, JobTypes, NoJob, Asked, Read, Resolved
  <2> QED
    BY <1>7, <2>1 DEF Observe, JobTypes
<1>8. CASE Compare
  BY <1>8 DEF Compare, Fail, JobTypes
<1>9. CASE UNCHANGED vars
  BY <1>9 DEF vars, JobTypes
<1> QED
  BY <1>1, <1>2, <1>3, <1>4, <1>5, <1>6, <1>7, <1>8, <1>9, WorldStep DEF Next

\* An unchanged ledger keeps what is known of a snapshot.
LEMMA WorldKept ==
    ASSUME UNCHANGED world
    PROVE  /\ HistoryIsKept => HistoryIsKept'
           /\ \A shot : Stands(shot) => Stands(shot)'
           /\ \A shot : Left(shot) => Left(shot)'
BY DEF world, HistoryIsKept, Running, Stands, Left

\* Every step keeps the invariant.
LEMMA Step ==
    ASSUME IInv, [Next]_vars
    PROVE  IInv'
<1> USE DEF IInv
<1>0. Types'
  BY TypesStep
<1> USE DEF JobIsTracked, ReviewedCodeIsPrepared
<1>1. CASE Upgrade \/ Retag
  <2>1. Types' /\ HistoryIsKept' /\ job' = job /\ result' = result
    BY <1>1, WorldStep
  <2>2. job.pc = "resolve" => job.read \in history'.instances
    <3>1. \E i \in Instances : history'.instances = history.instances \cup {i}
      <4>1. CASE Upgrade
        BY <4>1 DEF Upgrade, Moved
      <4>2. CASE Retag
        BY <4>2 DEF Retag, Moved, Types
      <4> QED
        BY <1>1, <4>1, <4>2
    <3> QED
      BY <3>1
  <2>3. job.pc \in {"simulate", "prepare", "observe", "compare"} => job.snapshot \in Snapshots
    BY DEF Types, JobTypes, NoJob, Asked, Read, Resolved
  <2>4. job.pc = "compare" => job.read \in Instances
    BY DEF Types, JobTypes, NoJob, Asked, Read, Resolved
  <2>5. job.pc \in {"simulate", "prepare"} => Stands(job.snapshot)' \/ Left(job.snapshot)'
    BY <1>1, <2>1, <2>3, SnapshotStep
  <2>6. job.pc = "observe" => job.ran = job.snapshot.code \/ Left(job.snapshot)'
    BY <1>1, <2>1, <2>3, SnapshotStep
  <2>7. job.pc = "compare" => job.ran = job.snapshot.code \/ Differs(job.read, job.snapshot)'
    BY <1>1, <2>1, <2>3, <2>4, SnapshotStep
  <2> QED
    BY <2>1, <2>2, <2>5, <2>6, <2>7
<1>2. CASE Start
  BY <1>0, <1>2, WorldKept DEF Start, NoResult
<1>3. CASE Refused
  BY <1>0, <1>3, WorldKept DEF Refused, Fail, NoJob, NoResult
<1>4. CASE ReadInstance
  <2>1. /\ UNCHANGED world /\ result' = result
        /\ job'.pc = "resolve" /\ job'.read = instance
    BY <1>4 DEF ReadInstance
  <2>2. instance \in history'.instances
    BY <2>1 DEF world, HistoryIsKept
  <2> QED
    BY <1>0, <2>1, <2>2, WorldKept
<1>5. CASE Resolve
  <2>1. job \in Read
    BY <1>5 DEF Resolve, Types, JobTypes, NoJob, Asked, Resolved
  <2> DEFINE observed == Observation(job.read, tags)
  <2>2. job.read \in Instances /\ job.read \in history.instances
    BY <1>5, <2>1 DEF Resolve, Read
  <2>3. Stands(observed) \/ Left(observed)
    <3>1. CASE instance = job.read
      BY <3>1 DEF Stands
    <3>2. CASE instance # job.read
      <4>1. /\ observed.kind = job.read.kind /\ observed.code = CodeOf(job.read, tags)
            /\ job.read.kind \in {"asset", "wasm", "external"}
            /\ job.read.kind = "asset" => job.read = Asset
            /\ job.read.kind = "wasm" => job.read = Wasm(observed.code)
        <5>1. /\ job.read.kind \in {"asset", "wasm", "external"}
              /\ job.read.kind = "asset" => job.read = Asset
              /\ job.read.kind = "wasm" => job.read = Wasm(job.read.hash)
          BY <2>2, InstanceForms
        <5>2. /\ observed.kind = job.read.kind /\ observed.code = CodeOf(job.read, tags)
              /\ job.read.kind = "wasm" => CodeOf(job.read, tags) = job.read.hash
          BY <2>2, ObservationForms DEF Types
        <5> HIDE DEF observed
        <5> QED
          BY <5>1, <5>2
      <4>2. instance.kind # "external" \/ job.read.kind # "external"
        BY <2>2, <3>2 DEF HistoryIsKept
      <4> HIDE DEF observed
      <4> QED
        <5>1. CASE job.read.kind = "asset"
          BY <2>2, <3>2, <4>1, <5>1 DEF Left
        <5>2. CASE job.read.kind = "wasm"
          BY <2>2, <3>2, <4>1, <5>2 DEF Left
        <5>3. CASE job.read.kind = "external"
          BY <2>2, <4>1, <4>2, <5>3 DEF Left
        <5> QED
          BY <4>1, <5>1, <5>2, <5>3
    <3> QED
      BY <3>1, <3>2
  <2>4. CASE job' = NoJob
    BY <1>0, <1>5, <2>4, WorldKept DEF Resolve, Fail, NoJob, NoResult
  <2>5. CASE job' # NoJob
    <3>1. /\ job'.pc \in {"simulate", "prepare"} /\ job'.snapshot = observed
          /\ job'.arguments = observed.code /\ UNCHANGED world /\ result' = result
      BY <1>5, <2>5 DEF Resolve, Fail
    <3> HIDE DEF observed
    <3> QED
      BY <1>0, <2>3, <3>1, WorldKept
  <2> QED
    BY <2>4, <2>5
<1>6. CASE Simulate
  <2>1. job \in Resolved
    BY <1>6 DEF Simulate, Types, JobTypes, NoJob, Asked, Read
  <2>2. UNCHANGED world
    BY <1>6 DEF Simulate, Fail, Goto
  <2>3. result' = result \/ result'.kind \in {"none", "simulation", "read"}
    BY <1>6 DEF Simulate, Fail, Goto, NoResult
  <2>4. job' = NoJob \/ job' = [job EXCEPT !.pc = "prepare"]
    BY <1>6 DEF Simulate, Fail, Goto
  <2>5. \/ job'.pc = "done"
        \/ job'.pc = "prepare" /\ job'.snapshot = job.snapshot /\ job'.arguments = job.arguments
    BY <2>1, <2>4 DEF Resolved, NoJob
  <2> QED
    BY <1>0, <1>6, <2>2, <2>3, <2>5, WorldKept DEF Simulate
<1>7. CASE Prepare
  <2>1. UNCHANGED world /\ (result' = result \/ result' = NoResult)
    BY <1>7 DEF Prepare, Fail
  <2>2. \/ job' = NoJob
        \/ /\ job'.pc = "observe" /\ job'.snapshot = job.snapshot
           /\ job'.arguments = job.arguments /\ job'.ran = Running
    BY <1>7 DEF Prepare, Fail
  <2>3. Stands(job.snapshot) => Running = job.snapshot.code
    BY ObservationForms DEF Stands, Running, Types
  <2> QED
    BY <1>0, <1>7, <2>1, <2>2, <2>3, WorldKept DEF Prepare, NoJob, NoResult
<1>8. CASE Observe
  <2>1. /\ UNCHANGED world /\ result' = result /\ job'.pc = "compare"
        /\ job'.snapshot = job.snapshot /\ job'.arguments = job.arguments
        /\ job'.ran = job.ran /\ job'.read = instance
    BY <1>8 DEF Observe
  <2>2. job.snapshot \in Snapshots
    BY <1>8 DEF Observe, Types, JobTypes, NoJob, Asked, Read, Resolved
  <2>3. Left(job.snapshot) => Differs(instance, job.snapshot)
    BY <2>2, InstanceForms DEF Left, Differs, Types, Asset, Wasm
  <2>4. Differs(instance, job.snapshot) => Differs(instance, job.snapshot)'
    BY <2>1 DEF Differs, world
  <2> QED
    BY <1>0, <1>8, <2>1, <2>3, <2>4, WorldKept DEF Observe, Differs, world
<1>9. CASE Compare
  <2>1. UNCHANGED world /\ job' = NoJob
    BY <1>9 DEF Compare, Fail
  <2>2. CASE result' = NoResult
    BY <1>0, <2>1, <2>2, WorldKept DEF NoJob, NoResult
  <2>3. CASE result' # NoResult
    <3>1. /\ job.snapshot = Observation(job.read, tags)
          /\ result'.executable = job.snapshot /\ result'.arguments = job.arguments
          /\ result'.ran = job.ran
      BY <1>9, <2>3 DEF Compare, Unchanged, Fail
    <3>2. job.read \in Instances
      BY <1>9 DEF Compare, Types, JobTypes, NoJob, Asked, Read, Resolved
    <3>3. ~Differs(job.read, job.snapshot)
      <4>1. /\ job.snapshot.kind = job.read.kind
            /\ job.snapshot.code = CodeOf(job.read, tags)
            /\ job.read.kind = "wasm" => CodeOf(job.read, tags) = job.read.hash
            /\ job.read.kind = "external" => CodeOf(job.read, tags) = tags[job.read.tag]
        BY <3>1, <3>2, ObservationForms DEF Types
      <4> QED
        BY <4>1 DEF Differs
    <3> QED
      BY <1>0, <1>9, <2>1, <3>1, <3>3, WorldKept DEF Compare, NoJob
  <2> QED
    BY <2>2, <2>3
<1>10. CASE UNCHANGED vars
  <2>1. UNCHANGED world /\ job' = job /\ result' = result
    BY <1>10 DEF vars
  <2> QED
    BY <1>0, <2>1, WorldKept DEF Differs, world
<1> QED
  BY <1>1, <1>2, <1>3, <1>4, <1>5, <1>6, <1>7, <1>8, <1>9, <1>10 DEF Next

LEMMA InvokeInit == Init => IInv
<1> SUFFICES ASSUME Init PROVE IInv
  OBVIOUS
<1>1. Types /\ HistoryIsKept
  BY DEF Init, Types, JobTypes, HistoryIsKept, Running
<1>2. JobIsTracked /\ ReviewedCodeIsPrepared
  BY DEF Init, NoJob, NoResult, JobIsTracked, ReviewedCodeIsPrepared
<1> QED
  BY <1>1, <1>2 DEF IInv

\* The code a prepared call was reviewed and encoded with is the code its simulation ran, however
\* often the contract is upgraded between the requests (prepare_contract_invoke_outcome).
THEOREM ReviewedCode == Spec => []ReviewedCodeIsPrepared
<1>1. Init => IInv
  BY InvokeInit
<1>2. IInv /\ [Next]_vars => IInv'
  BY Step
<1>3. IInv => ReviewedCodeIsPrepared
  BY DEF IInv
<1> QED
  BY <1>1, <1>2, <1>3, PTL DEF Spec

-----------------------------------------------------------------------------
\* What a call without an effect reports.
LEMMA NoEffect ==
    ASSUME NEW c \in Codes, NEW s \in Behaviours[c], ~RequiresSend(s.effects)
    PROVE  s.effects = [restore |-> FALSE, writes |-> 0, archived |-> 0, events |-> 0,
                        authorizations |-> 0]
<1>1. s.effects \in Effect
  BY BehavioursAssumption
<1>2. /\ s.effects.restore = FALSE
      /\ s.effects.writes = 0 /\ s.effects.archived = 0
      /\ s.effects.events = 0 /\ s.effects.authorizations = 0
  BY <1>1 DEF RequiresSend, Effect
<1> QED
  BY <1>1, <1>2 DEF Effect

\* contract.rs: a result that is not to be sent comes from a simulation that succeeded and would
\* change nothing, whatever codes report and however often the contract is upgraded.
THEOREM ReadsAreReads == Spec => []ReadsHaveNoEffect
<1>1. Init => IInv /\ ReadsHaveNoEffect
  <2>1. Init => ReadsHaveNoEffect
    BY DEF Init, NoResult, ReadsHaveNoEffect
  <2> QED
    BY <2>1, InvokeInit
<1>2. IInv /\ ReadsHaveNoEffect /\ [Next]_vars => ReadsHaveNoEffect'
  <2> SUFFICES ASSUME IInv, ReadsHaveNoEffect, [Next]_vars PROVE ReadsHaveNoEffect'
    OBVIOUS
  <2>1. CASE result' = result
    BY <2>1 DEF ReadsHaveNoEffect
  <2>2. CASE result' = NoResult
    BY <2>2 DEF NoResult, ReadsHaveNoEffect
  <2>3. CASE Compare
    <3>1. result' = NoResult \/ result'.kind = "transaction"
      BY <2>3 DEF Compare, Fail
    <3> QED
      BY <3>1, <2>2 DEF ReadsHaveNoEffect
  <2>4. CASE Simulate
    <3>1. Running \in Codes
      BY InstanceForms, ObservationForms DEF IInv, Types, Running
    <3>2. PICK s \in Behaviours[Running] :
            \/ /\ Previewable(s)
               /\ result' = [kind |-> "simulation", executable |-> job.snapshot,
                             arguments |-> job.arguments, sends |-> RequiresSend(s.effects),
                             simulation |-> s]
            \/ /\ Preparable(s) /\ ~RequiresSend(s.effects)
               /\ result' = [kind |-> "read", executable |-> job.snapshot,
                             arguments |-> job.arguments, sends |-> FALSE, simulation |-> s]
            \/ result' \in {result, NoResult}
      BY <2>4 DEF Simulate, Fail, Goto
    <3>3. (~s.failed /\ s.results = 1) \/ result' \in {result, NoResult}
      BY <3>2 DEF Previewable, Preparable
    <3>4. \/ result'.sends = RequiresSend(s.effects) /\ result'.simulation = s
          \/ ~RequiresSend(s.effects) /\ result'.simulation = s
          \/ result' \in {result, NoResult}
      BY <3>2
    <3> QED
      BY <2>1, <2>2, <3>1, <3>3, <3>4, NoEffect DEF ReadsHaveNoEffect
  <2> QED
    BY <2>1, <2>2, <2>3, <2>4 DEF Next, vars, Upgrade, Retag, Moved, Start, Refused, Fail,
       ReadInstance, Resolve, Prepare, Observe
<1>3. IInv /\ [Next]_vars => IInv'
  BY Step
<1> QED
  BY <1>1, <1>2, <1>3, PTL DEF Spec

-----------------------------------------------------------------------------
(***************************************************************************)
(* A transfer that another party submits.                                  *)
(***************************************************************************)
ShownReviews ==
    [network: Networks, authorizer: Addresses, contract: Contracts, destination: Addresses, amount: Int]

\* What is prepared is what the request means, on the request's network.  The product may have
\* assigned to the review.
PreparedIsRequested ==
    \/ prepared = Detached!None
    \/ /\ prepared \in [requested: {TRUE}, review: ShownReviews, preimage: Detached!Preimages]
       /\ Detached!OneTransfer(requested.request, prepared.preimage)
       /\ requested.request.amount > 0
       /\ prepared.preimage.network = requested.request.wallet.network

DetachedInv ==
    /\ PreparedIsRequested
    /\ Detached!SignedIsRequested
    /\ Detached!KeyOfTheNetwork

\* MayPrepare
LEMMA PreparedForm ==
    ASSUME NEW r \in Detached!TransferRequests, NEW p \in Detached!Preimages, Detached!Prepare(r, p)
    PROVE  PreparedIsRequested'
<1>1. /\ prepared' = [requested |-> TRUE, review |-> Detached!Review(r, p), preimage |-> p]
      /\ requested'.request = r
      /\ Detached!OneTransfer(r, p) /\ r.amount > 0
      /\ Detached!EntryPreimage(p, r.wallet.network) = p
  BY DEF Detached!Prepare, Detached!MayPrepare
<1>2. p.network = r.wallet.network
  BY <1>1 DEF Detached!EntryPreimage, Detached!Preimages
<1>3. r.wallet \in [network: Networks, address: Addresses, signing: BOOLEAN]
  BY DetachedAssumption DEF Detached!WalletsAssumption, Detached!TransferRequests
<1>4. Detached!I128(p.amount) \in Int
  <2>1. p.amount.hi \in Int /\ p.amount.lo \in Int
    <3>1. p.amount \in Detached!Halves
      BY DEF Detached!Preimages
    <3>2. p.amount.hi \in -1 .. 1 /\ p.amount.lo \in 0 .. Base - 1
      BY <3>1 DEF Detached!Halves
    <3> QED
      BY <3>2, DetachedAssumption DEF Detached!BaseAssumption
  <2> QED
    BY <2>1, DetachedAssumption DEF Detached!BaseAssumption, Detached!I128
<1>5. Detached!Review(r, p) \in ShownReviews
  BY <1>3, <1>4 DEF Detached!Review, Detached!Preimages, ShownReviews
<1>6. prepared' \in [requested: {TRUE}, review: ShownReviews, preimage: Detached!Preimages]
  BY <1>1, <1>5
<1> QED
  BY <1>1, <1>2, <1>6 DEF PreparedIsRequested

LEMMA DetachedStep ==
    ASSUME DetachedInv, [Detached!Next]_detachedVars
    PROVE  DetachedInv'
<1>1. CASE UNCHANGED detachedVars
  BY <1>1 DEF detachedVars, DetachedInv, PreparedIsRequested, Detached!SignedIsRequested,
     Detached!KeyOfTheNetwork
<1>2. ASSUME NEW r \in Detached!TransferRequests, NEW p \in Detached!Preimages, Detached!Prepare(r, p)
      PROVE  DetachedInv'
  <2>1. signatures' = signatures
    BY <1>2 DEF Detached!Prepare
  <2> QED
    BY <1>2, <2>1, PreparedForm DEF DetachedInv, Detached!SignedIsRequested, Detached!KeyOfTheNetwork
<1>3. ASSUME NEW n \in Networks, NEW a \in Addresses, Detached!AssignReview(n, a)
      PROVE  DetachedInv'
  <2>1. /\ prepared # Detached!None
        /\ prepared' = [prepared EXCEPT !.review.network = n, !.review.authorizer = a]
        /\ requested' = requested /\ signatures' = signatures
    BY <1>3 DEF Detached!AssignReview
  <2>2. prepared \in [requested: {TRUE}, review: ShownReviews, preimage: Detached!Preimages]
    BY <2>1 DEF DetachedInv, PreparedIsRequested
  <2>3. /\ prepared' \in [requested: {TRUE}, review: ShownReviews, preimage: Detached!Preimages]
        /\ prepared'.preimage = prepared.preimage
    BY <2>1, <2>2 DEF ShownReviews
  <2> QED
    BY <2>1, <2>3 DEF DetachedInv, PreparedIsRequested, Detached!SignedIsRequested,
       Detached!KeyOfTheNetwork
<1>4. ASSUME NEW provider, NEW opens, Detached!SignDetached(provider, opens)
      PROVE  DetachedInv'
  <2> DEFINE over == Detached!EntryPreimage(prepared.preimage, prepared.review.network)
  <2>1. /\ prepared # Detached!None /\ over = prepared.preimage
        /\ prepared' = prepared /\ requested' = requested
    BY <1>4 DEF Detached!SignDetached, Detached!Bound
  <2>2. PICK w \in Detached!Signer :
          signatures' = signatures \union {[key |-> w, over |-> over, request |-> requested.request]}
    BY <1>4 DEF Detached!SignDetached
  <2>3. /\ prepared.preimage \in Detached!Preimages
        /\ Detached!OneTransfer(requested.request, prepared.preimage)
        /\ requested.request.amount > 0
        /\ prepared.preimage.network = requested.request.wallet.network
    BY <2>1 DEF DetachedInv, PreparedIsRequested
  <2>4. over.network = prepared.review.network
    BY <2>3 DEF Detached!EntryPreimage, Detached!Preimages
  <2>5. w \in Wallets /\ w.signing /\ w.network = over.network
    BY <2>4 DEF Detached!Signer
  <2> DEFINE s == [key |-> w, over |-> over, request |-> requested.request]
  <2>6. s.key = w /\ s.over = prepared.preimage /\ s.request = requested.request
    BY <2>1
  <2>7. signatures' = signatures \union {s}
    BY <2>2
  <2>8. /\ s.over.contract = s.request.contract /\ s.over.function = "transfer"
        /\ s.over.from = s.request.wallet.address
        /\ s.over.destination = s.request.destination
        /\ s.over.amount.hi * Base + s.over.amount.lo = s.request.amount /\ s.request.amount > 0
        /\ s.over.network = s.request.wallet.network
        /\ ~s.over.sub
    BY <2>3, <2>6 DEF Detached!OneTransfer, Detached!I128
  <2>9. s.key \in Wallets /\ s.key.signing /\ s.key.network = s.over.network
    BY <2>1, <2>5, <2>6
  <2> HIDE DEF s
  <2>10. Detached!SignedIsRequested' /\ Detached!KeyOfTheNetwork'
    BY <2>7, <2>8, <2>9 DEF DetachedInv, Detached!SignedIsRequested, Detached!KeyOfTheNetwork
  <2> QED
    BY <2>1, <2>10 DEF DetachedInv, PreparedIsRequested
<1>5. CASE Detached!Discard
  BY <1>5 DEF Detached!Discard, DetachedInv, PreparedIsRequested, Detached!SignedIsRequested,
     Detached!KeyOfTheNetwork
<1> QED
  BY <1>1, <1>2, <1>3, <1>4, <1>5 DEF Detached!Next

-----------------------------------------------------------------------------
(***************************************************************************)
(* Powers of ten.  The recursion of the definition has one solution: it is *)
(* put together from the partial ones, of which none is missing by the     *)
(* least counterexample.                                                   *)
(***************************************************************************)
LEMMA LeastNat ==
    ASSUME NEW T, T \subseteq Nat, T # {}
    PROVE  \E x \in T : \A y \in T : x <= y
<1>1. IsWellFoundedOn(OpToRel(<, Nat), Nat)
  BY NatLessThanWellFounded
<1>2. PICK x \in T : \A y \in T : ~(<<y, x>> \in OpToRel(<, Nat))
  BY <1>1, WFMin
<1>3. \A y \in T : ~(y < x)
  BY <1>2 DEF OpToRel
<1> QED
  BY <1>3

Recursion(f, n) == f[n] = IF n = 0 THEN 1 ELSE 10 * f[n - 1]
Partial(f, m) == f \in [0 .. m -> Nat] /\ \A n \in 0 .. m : Recursion(f, n)

LEMMA PartialExists == \A m \in Nat : \E f : Partial(f, m)
<1> DEFINE T == {m \in Nat : ~\E f : Partial(f, m)}
<1> SUFFICES ASSUME T # {} PROVE FALSE
  OBVIOUS
<1>1. PICK x \in T : \A y \in T : x <= y
  <2> HIDE DEF T
  <2>1. T \subseteq Nat
    BY DEF T
  <2> QED
    BY <2>1, LeastNat
<1>2. CASE x = 0
  <2> DEFINE f == [n \in 0 .. 0 |-> 1]
  <2>1. Partial(f, 0)
    BY DEF Partial, Recursion
  <2> QED
    BY <1>2, <2>1
<1>3. CASE x # 0
  <2>1. x \in Nat /\ x - 1 \in Nat /\ x - 1 \notin T
    BY <1>1, <1>3
  <2>2. PICK f : Partial(f, x - 1)
    BY <2>1
  <2> DEFINE g == [n \in 0 .. x |-> IF n = x THEN 10 * f[x - 1] ELSE f[n]]
  <2>3. \A n \in 0 .. x : n # x => n \in 0 .. x - 1
    BY <2>1
  <2>4. f[x - 1] \in Nat /\ \A n \in 0 .. x - 1 : f[n] \in Nat
    BY <2>1, <2>2 DEF Partial
  <2>5. g \in [0 .. x -> Nat]
    BY <2>3, <2>4
  <2>6. ASSUME NEW n \in 0 .. x PROVE Recursion(g, n)
    <3>1. CASE n = x
      <4>1. g[n] = 10 * f[x - 1] /\ g[x - 1] = f[x - 1]
        BY <2>1, <3>1
      <4> QED
        BY <1>3, <3>1, <4>1 DEF Recursion
    <3>2. CASE n # x
      <4>1. n \in 0 .. x - 1 /\ g[n] = f[n]
        BY <2>3, <3>2
      <4>2. n # 0 => n - 1 \in 0 .. x /\ n - 1 # x /\ g[n - 1] = f[n - 1]
        BY <2>1, <4>1
      <4>3. Recursion(f, n)
        BY <2>2, <4>1 DEF Partial
      <4> HIDE DEF g
      <4> QED
        BY <4>1, <4>2, <4>3 DEF Recursion
    <3> QED
      BY <3>1, <3>2
  <2>7. Partial(g, x)
    BY <2>5, <2>6 DEF Partial
  <2> QED
    BY <2>7
<1> QED
  BY <1>2, <1>3

LEMMA PartialsAgree ==
    ASSUME NEW m \in Nat, NEW k \in Nat, NEW f, NEW g, Partial(f, m), Partial(g, k),
           NEW n \in Nat, n <= m, n <= k
    PROVE  f[n] = g[n]
<1> DEFINE T == {i \in Nat : i <= m /\ i <= k /\ f[i] # g[i]}
<1> SUFFICES ASSUME T # {} PROVE FALSE
  OBVIOUS
<1>1. PICK x \in T : \A y \in T : x <= y
  <2> HIDE DEF T
  <2>1. T \subseteq Nat
    BY DEF T
  <2> QED
    BY <2>1, LeastNat
<1>2. Recursion(f, x) /\ Recursion(g, x)
  BY DEF Partial
<1>3. x # 0 => x - 1 \in Nat /\ x - 1 \notin T
  BY <1>1
<1>4. x # 0 => f[x - 1] = g[x - 1]
  BY <1>3
<1> QED
  BY <1>2, <1>4 DEF Recursion

Whole == CHOOSE f : f = [n \in Nat |-> IF n = 0 THEN 1 ELSE 10 * f[n - 1]]

LEMMA PowerRecursion ==
    /\ Tokens!Power = [n \in Nat |-> IF n = 0 THEN 1 ELSE 10 * Tokens!Power[n - 1]]
<1> DEFINE h(n) == CHOOSE f : Partial(f, n)
           F == [n \in Nat |-> h(n)[n]]
<1>1. \A n \in Nat : Partial(h(n), n)
  BY PartialExists
<1>2. ASSUME NEW n \in Nat PROVE h(n)[n] = IF n = 0 THEN 1 ELSE 10 * F[n - 1]
  <2> HIDE DEF h
  <2>1. Recursion(h(n), n)
    <3>1. Partial(h(n), n) /\ n \in 0 .. n
      BY <1>1
    <3> QED
      BY <3>1 DEF Partial
  <2>2. CASE n = 0
    BY <2>1, <2>2 DEF Recursion
  <2>3. CASE n # 0
    <3>1. n - 1 \in Nat /\ n - 1 <= n
      BY <2>3
    <3>2. h(n)[n - 1] = h(n - 1)[n - 1]
      BY <1>1, <3>1, PartialsAgree
    <3> QED
      BY <2>1, <2>3, <3>1, <3>2 DEF Recursion
  <2> QED
    BY <2>2, <2>3
<1>3. F = [n \in Nat |-> IF n = 0 THEN 1 ELSE 10 * F[n - 1]]
  <2> HIDE DEF h
  <2> QED
    BY <1>2
<1> HIDE DEF F
<1>4. Whole = [n \in Nat |-> IF n = 0 THEN 1 ELSE 10 * Whole[n - 1]]
  BY <1>3 DEF Whole
<1> QED
  BY <1>4 DEF Tokens!Power, Whole

LEMMA PowerIsPositive == \A n \in Nat : Tokens!Power[n] \in Nat \ {0}
<1> DEFINE T == {n \in Nat : Tokens!Power[n] \notin Nat \ {0}}
<1> SUFFICES ASSUME T # {} PROVE FALSE
  OBVIOUS
<1>1. PICK x \in T : \A y \in T : x <= y
  <2> HIDE DEF T
  <2>1. T \subseteq Nat
    BY DEF T
  <2> QED
    BY <2>1, LeastNat
<1>2. Tokens!Power[x] = IF x = 0 THEN 1 ELSE 10 * Tokens!Power[x - 1]
  BY PowerRecursion
<1>3. x # 0 => x - 1 \in Nat /\ x - 1 \notin T
  BY <1>1
<1> QED
  BY <1>2, <1>3

LEMMA PowersMultiply ==
    ASSUME NEW a \in Nat, NEW b \in Nat
    PROVE  Tokens!Power[a + b] = Tokens!Power[a] * Tokens!Power[b]
<1> DEFINE T == {n \in Nat : Tokens!Power[a + n] # Tokens!Power[a] * Tokens!Power[n]}
<1> SUFFICES ASSUME T # {} PROVE FALSE
  OBVIOUS
<1>1. PICK x \in T : \A y \in T : x <= y
  <2> HIDE DEF T
  <2>1. T \subseteq Nat
    BY DEF T
  <2> QED
    BY <2>1, LeastNat
<1>2. \A n \in Nat : Tokens!Power[n] = IF n = 0 THEN 1 ELSE 10 * Tokens!Power[n - 1]
  BY PowerRecursion
<1>3. CASE x = 0
  <2>1. Tokens!Power[a] \in Nat /\ Tokens!Power[0] = 1 /\ a + x = a
    BY <1>2, <1>3, PowerIsPositive
  <2> QED
    BY <1>3, <2>1
<1>4. CASE x # 0
  <2>1. /\ x - 1 \in Nat /\ x - 1 \notin T
        /\ a + x \in Nat /\ a + x # 0 /\ a + x - 1 = a + (x - 1)
    BY <1>1, <1>4
  <2>2. Tokens!Power[a + (x - 1)] = Tokens!Power[a] * Tokens!Power[x - 1]
    BY <2>1
  <2>3. /\ Tokens!Power[a + x] = 10 * Tokens!Power[a + (x - 1)]
        /\ Tokens!Power[x] = 10 * Tokens!Power[x - 1]
    BY <1>2, <1>4, <2>1
  <2>4. \A u, v \in Nat : 10 * (u * v) = u * (10 * v)
    OBVIOUS
  <2>5. Tokens!Power[a] \in Nat /\ Tokens!Power[x - 1] \in Nat
    BY <2>1, PowerIsPositive
  <2>6. Tokens!Power[a + x] = Tokens!Power[a] * Tokens!Power[x]
    BY <2>2, <2>3, <2>4, <2>5
  <2> QED
    BY <2>6
<1> QED
  BY <1>3, <1>4

-----------------------------------------------------------------------------
(***************************************************************************)
(* Token transfers.  A contract does not come back to a code it has left:  *)
(* a code that answered in the place of another one proves that the other  *)
(* one is gone, which the last comparison finds out.                       *)
(***************************************************************************)
TokenCode == TokenCodes \cup {AssetToken}

\* Codes that have run.
HasRun(code) == code \in TokenCode /\ code \notin left

\* A read: if the code that answered is not that of the interface, that one is gone.
ReadIsMarked(answer) ==
    /\ HasRun(answer.executable) /\ HasRun(answer.by)
    /\ answer.by # answer.executable => answer.executable # running

Underway == at \in {"balance", "decimals", "show", "amount", "transfer"}

CallTypes ==
    /\ transfer.amount \in TokenAmounts
    /\ transfer.source \in {"asset", "contract"}
    /\ transfer.source = "asset" => running = AssetToken

DecimalsAreKnown ==
    transfer.source = "contract" =>
        "decimals" \in DOMAIN answers /\ ReadIsMarked(answers["decimals"])

TokenInv ==
    /\ left \subseteq TokenCodes /\ HasRun(running)
    /\ at \in {"idle", "done"} \/ Underway
    /\ Underway => CallTypes
    /\ snapshot # Tokens!NoCode => HasRun(snapshot)
    /\ at \in {"amount", "transfer"} => DecimalsAreKnown
    /\ at = "transfer" =>
         /\ Tokens!Parses(transfer.amount, Tokens!Decimals)
         /\ raw = Tokens!ParseTokenAmount(transfer.amount, Tokens!Decimals)
    /\ at # "done" => shown.is # "prepared"
    /\ Tokens!TransferIsScaled

\* ParseTokenAmount: the product it leaves is the user's amount in those decimals.
LEMMA AmountIsScaled ==
    ASSUME NEW a \in TokenAmounts, NEW d \in Nat, Tokens!Parses(a, d)
    PROVE  /\ a.mantissa * Tokens!Power[d] = Tokens!ParseTokenAmount(a, d) * Tokens!Power[a.places]
           /\ Tokens!ParseTokenAmount(a, d) \in 1..MaxRaw
<1>1. a.mantissa \in Nat /\ a.places \in Nat /\ MaxRaw \in Nat
  BY TokensAssumption DEF Tokens!TokenAssumption
<1>2. a.mantissa > 0 /\ a.places <= d /\ a.mantissa * Tokens!Power[d - a.places] <= MaxRaw
  BY DEF Tokens!Parses
<1> DEFINE m == a.mantissa
           p == Tokens!Power[d - a.places]
           q == Tokens!Power[a.places]
<1>3. d - a.places \in Nat /\ d = (d - a.places) + a.places
  BY <1>1, <1>2
<1>4. p \in Nat \ {0} /\ q \in Nat \ {0}
  BY <1>1, <1>3, PowerIsPositive
<1>5. Tokens!Power[d] = p * q
  <2>1. Tokens!Power[(d - a.places) + a.places] = p * q
    BY <1>1, <1>3, PowersMultiply
  <2> QED
    BY <1>3, <2>1
<1>6. Tokens!ParseTokenAmount(a, d) = m * p
  BY DEF Tokens!ParseTokenAmount
<1>7. m * p <= MaxRaw /\ m \in Nat /\ m > 0
  BY <1>1, <1>2
<1> HIDE DEF m, p, q
<1>8. m * (p * q) = (m * p) * q
  BY <1>4, <1>7
<1>9. m * p \in Nat /\ m * p > 0
  BY <1>4, <1>7
<1>10. m * p \in 1..MaxRaw
  BY <1>1, <1>7, <1>9
<1>11. a.mantissa * Tokens!Power[d] = m * (p * q)
  BY <1>5 DEF m
<1>12. Tokens!ParseTokenAmount(a, d) * Tokens!Power[a.places] = (m * p) * q
  BY <1>6 DEF q
<1> QED
  BY <1>6, <1>8, <1>10, <1>11, <1>12

LEMMA TokenInit == Tokens!Init => TokenInv
BY TokensAssumption DEF Tokens!Init, TokenInv, HasRun, TokenCode, Underway, Tokens!TransferIsScaled,
   Tokens!NoOutcome, Tokens!TokenAssumption

LEMMA DecimalsAreNumbers ==
    ASSUME TokenInv, at \in {"amount", "transfer"}
    PROVE  Tokens!Decimals \in Nat
<1>1. \A code \in TokenCode : code.decimals \in Nat
  BY TokensAssumption DEF Tokens!TokenAssumption, TokenCode
<1>2. AssetToken \in TokenCode
  BY DEF TokenCode
<1>3. transfer.source # "asset" => answers["decimals"].by \in TokenCode
  BY DEF TokenInv, Underway, CallTypes, DecimalsAreKnown, ReadIsMarked, HasRun
<1> QED
  BY <1>1, <1>2, <1>3 DEF Tokens!Decimals, Tokens!STELLAR_ASSET_TOKEN_DECIMALS

\* The only step that changes the code: what was true of codes that have run stays true.
LEMMA UpgradeStep == TokenInv /\ Tokens!Upgrade => TokenInv'
<1> SUFFICES ASSUME TokenInv, Tokens!Upgrade PROVE TokenInv'
  OBVIOUS
<1>1. PICK code \in left : running' = code /\ left' = left \ {code}
  BY DEF Tokens!Upgrade
<1>2. /\ running # AssetToken
      /\ UNCHANGED <<transfer, at, snapshot, answers, raw, shown>>
  BY DEF Tokens!Upgrade
<1>3. code \in TokenCode /\ left' \subseteq TokenCodes
  BY <1>1 DEF TokenInv, TokenCode
<1>4. HasRun(running)'
  BY <1>1, <1>3 DEF HasRun
<1>5. \A known : HasRun(known) => HasRun(known)' /\ known # running'
  BY <1>1 DEF HasRun
<1>6. \A answer : ReadIsMarked(answer) => ReadIsMarked(answer)'
  BY <1>5 DEF ReadIsMarked
<1>7. (Underway <=> Underway') /\ (Underway => CallTypes')
  BY <1>2 DEF TokenInv, Underway, CallTypes
<1>8. snapshot' # Tokens!NoCode => HasRun(snapshot)'
  <2>1. snapshot # Tokens!NoCode => HasRun(snapshot)
    BY DEF TokenInv
  <2>2. HasRun(snapshot) => snapshot \notin left'
    BY <1>1 DEF HasRun
  <2> QED
    BY <1>2, <1>7, <2>1, <2>2 DEF HasRun, TokenCode
<1>9. DecimalsAreKnown => DecimalsAreKnown'
  <2>1. ReadIsMarked(answers["decimals"]) => ReadIsMarked(answers["decimals"])'
    <3>1. answers' = answers
      BY <1>2
    <3> QED
      BY <1>1, <1>5, <3>1 DEF ReadIsMarked, HasRun
  <2> QED
    BY <1>2, <2>1 DEF DecimalsAreKnown
<1>10. Tokens!Decimals' = Tokens!Decimals
  BY <1>2 DEF Tokens!Decimals
<1>11. /\ Tokens!Parses(transfer.amount, Tokens!Decimals) =>
            Tokens!Parses(transfer.amount, Tokens!Decimals)'
       /\ Tokens!ParseTokenAmount(transfer.amount, Tokens!Decimals)' =
            Tokens!ParseTokenAmount(transfer.amount, Tokens!Decimals)
  BY <1>2, <1>10 DEF Tokens!Parses, Tokens!ParseTokenAmount
<1>12. Tokens!TransferIsScaled'
  BY <1>2 DEF TokenInv, Tokens!TransferIsScaled
<1> QED
  BY <1>2, <1>3, <1>4, <1>7, <1>8, <1>9, <1>11, <1>12 DEF TokenInv

LEMMA ReadStep ==
    ASSUME TokenInv, NEW function, NEW next, Tokens!TokenRead(function, next),
           function \in {"balance", "decimals"},
           next \in {"show", "decimals", "amount"},
           next = "amount" => function = "decimals"
    PROVE  TokenInv'
<1>1. /\ at = function /\ snapshot # Tokens!NoCode
      /\ UNCHANGED <<running, left, transfer>>
      /\ UNCHANGED <<raw, shown>> \/ shown' = [Tokens!NoOutcome EXCEPT !.is = "refused"]
  BY DEF Tokens!TokenRead, Tokens!Refuse
<1>2. Underway /\ CallTypes /\ CallTypes' /\ HasRun(snapshot) /\ HasRun(running) /\ HasRun(running)'
  BY <1>1 DEF TokenInv, Underway, CallTypes, HasRun
<1>3. CASE at' = "done"
  <2>1. shown'.is = "refused" /\ snapshot' = snapshot
    BY <1>3 DEF Tokens!TokenRead, Tokens!Refuse, Tokens!NoOutcome
  <2>2. snapshot' # Tokens!NoCode => HasRun(snapshot)'
    BY <1>1, <2>1 DEF TokenInv, HasRun
  <2> QED
    BY <1>1, <1>2, <1>3, <2>1, <2>2 DEF TokenInv, Underway, Tokens!TransferIsScaled
<1>4. CASE at' # "done"
  <2>1. /\ at' = next /\ snapshot' = Tokens!NoCode /\ shown' = shown
        /\ answers' = [f \in DOMAIN answers \cup {function} |->
                         IF f = function THEN [executable |-> snapshot, by |-> running] ELSE answers[f]]
    BY <1>4 DEF Tokens!TokenRead, Tokens!Refuse
  <2>2. answers'[function] = [executable |-> snapshot, by |-> running] /\ function \in DOMAIN answers'
    BY <2>1
  <2>3. ReadIsMarked(answers[function])'
    BY <1>1, <1>2, <2>2 DEF ReadIsMarked, HasRun
  <2>4. at' \in {"amount", "transfer"} => DecimalsAreKnown'
    BY <2>1, <2>2, <2>3 DEF DecimalsAreKnown
  <2>5. shown'.is # "prepared"
    BY <1>1, <2>1 DEF TokenInv
  <2>6. Tokens!TransferIsScaled'
    BY <2>5 DEF Tokens!TransferIsScaled
  <2> QED
    BY <1>1, <1>2, <2>1, <2>4, <2>5, <2>6 DEF TokenInv, Underway
<1> QED
  BY <1>3, <1>4

LEMMA TokenStep == TokenInv /\ [Tokens!Next]_tokenVars => TokenInv'
<1> SUFFICES ASSUME TokenInv, [Tokens!Next]_tokenVars PROVE TokenInv'
  OBVIOUS
<1>1. CASE Tokens!Start
  <2>1. /\ transfer'.amount \in TokenAmounts
        /\ transfer'.source = IF running = AssetToken THEN "asset" ELSE "contract"
        /\ at' \in {"balance", "amount", "decimals"}
        /\ at' = "amount" => running = AssetToken
        /\ UNCHANGED <<running, left, snapshot, answers, raw, shown>> /\ at = "idle"
    BY <1>1 DEF Tokens!Start
  <2> QED
    BY <2>1 DEF TokenInv, Underway, CallTypes, DecimalsAreKnown, HasRun, Tokens!TransferIsScaled
<1>2. CASE Tokens!ReadInterface
  <2>1. /\ at \in {"balance", "decimals", "transfer"} /\ snapshot' = running
        /\ UNCHANGED <<running, left, transfer, at, answers, raw, shown>>
    BY <1>2 DEF Tokens!ReadInterface
  <2>2. HasRun(snapshot)'
    BY <2>1 DEF TokenInv, HasRun
  <2>3. DecimalsAreKnown => DecimalsAreKnown'
    BY <2>1 DEF DecimalsAreKnown, ReadIsMarked, HasRun
  <2>4. Tokens!Decimals' = Tokens!Decimals
    BY <2>1 DEF Tokens!Decimals
  <2> QED
    BY <2>1, <2>2, <2>3, <2>4 DEF TokenInv, Underway, CallTypes, HasRun, Tokens!TransferIsScaled,
       Tokens!Parses, Tokens!ParseTokenAmount
<1>3. CASE Tokens!ReadBalance
  <2>1. Tokens!TokenRead("balance", IF transfer.source = "asset" THEN "show" ELSE "decimals")
    BY <1>3 DEF Tokens!ReadBalance
  <2> QED
    BY <2>1, ReadStep
<1>4. CASE Tokens!ReadDecimals
  <2>1. Tokens!TokenRead("decimals", IF transfer.op = "balance" THEN "show" ELSE "amount")
    BY <1>4 DEF Tokens!ReadDecimals
  <2> QED
    BY <2>1, ReadStep
<1>5. CASE Tokens!ShowBalance
  <2>1. /\ at' = "done" /\ shown'.is \in {"shown", "refused"}
        /\ UNCHANGED <<running, left, transfer, snapshot>>
    BY <1>5 DEF Tokens!ShowBalance, Tokens!Refuse, Tokens!NoOutcome
  <2> QED
    BY <2>1 DEF TokenInv, Underway, HasRun, Tokens!TransferIsScaled
<1>6. CASE Tokens!ScaleAmount
  <2>1. /\ at = "amount" /\ UNCHANGED <<running, left, transfer, snapshot, answers>>
    BY <1>6 DEF Tokens!ScaleAmount, Tokens!Refuse
  <2>2. CASE at' = "done"
    <3>1. shown'.is = "refused" /\ snapshot' = snapshot
      BY <1>6, <2>2 DEF Tokens!ScaleAmount, Tokens!Refuse, Tokens!NoOutcome
    <3> QED
      BY <2>1, <2>2, <3>1 DEF TokenInv, Underway, HasRun, Tokens!TransferIsScaled
  <2>3. CASE at' # "done"
    <3>1. /\ Tokens!Parses(transfer.amount, Tokens!Decimals)
          /\ raw' = Tokens!ParseTokenAmount(transfer.amount, Tokens!Decimals)
          /\ at' = "transfer" /\ shown' = shown
      BY <1>6, <2>3 DEF Tokens!ScaleAmount, Tokens!Refuse
    <3>2. Tokens!Decimals' = Tokens!Decimals
      BY <2>1 DEF Tokens!Decimals
    <3>3. /\ Tokens!Parses(transfer.amount, Tokens!Decimals)'
          /\ raw' = Tokens!ParseTokenAmount(transfer.amount, Tokens!Decimals)'
      BY <2>1, <3>1, <3>2 DEF Tokens!Parses, Tokens!ParseTokenAmount
    <3>4. DecimalsAreKnown'
      BY <2>1 DEF TokenInv, DecimalsAreKnown, ReadIsMarked, HasRun
    <3>5. Tokens!TransferIsScaled' /\ shown'.is # "prepared"
      BY <2>1, <3>1 DEF TokenInv, Tokens!TransferIsScaled
    <3> QED
      BY <2>1, <3>1, <3>3, <3>4, <3>5 DEF TokenInv, Underway, CallTypes, HasRun
  <2> QED
    BY <2>2, <2>3
<1>7. CASE Tokens!Prepare
  <2>1. /\ at = "transfer" /\ at' = "done" /\ UNCHANGED <<running, left, transfer, snapshot>>
    BY <1>7 DEF Tokens!Prepare, Tokens!Refuse
  <2>2. CASE shown'.is = "refused"
    BY <2>1, <2>2 DEF TokenInv, Underway, HasRun, Tokens!TransferIsScaled
  <2>3. CASE shown'.is # "refused"
    <3>1. /\ snapshot = running /\ snapshot.sep41
          /\ transfer.source = "contract" => answers["decimals"].executable = snapshot
          /\ shown' = [is |-> "prepared", code |-> running, amount |-> raw]
      BY <1>7, <2>3 DEF Tokens!Prepare, Tokens!Refuse, Tokens!NoOutcome, Tokens!SameExecutable
    <3>2. Tokens!Decimals = running.decimals
      <4>1. CallTypes /\ DecimalsAreKnown
        BY <2>1 DEF TokenInv, Underway
      <4>2. CASE transfer.source = "asset"
        BY <4>1, <4>2 DEF CallTypes, Tokens!Decimals, Tokens!STELLAR_ASSET_TOKEN_DECIMALS
      <4>3. CASE transfer.source = "contract"
        BY <3>1, <4>1, <4>3 DEF DecimalsAreKnown, ReadIsMarked, Tokens!Decimals
      <4> QED
        BY <4>1, <4>2, <4>3 DEF CallTypes
    <3>3. transfer.amount \in TokenAmounts /\ Tokens!Decimals \in Nat
      BY <2>1, DecimalsAreNumbers DEF TokenInv, Underway, CallTypes
    <3>4. /\ Tokens!Parses(transfer.amount, running.decimals)
          /\ raw = Tokens!ParseTokenAmount(transfer.amount, running.decimals)
      BY <2>1, <3>2 DEF TokenInv
    <3>5. /\ transfer.amount.mantissa * Tokens!Power[running.decimals] =
               raw * Tokens!Power[transfer.amount.places]
          /\ raw \in 1..MaxRaw
      BY <3>2, <3>3, <3>4, AmountIsScaled
    <3>6. /\ transfer' = transfer /\ shown'.code = running /\ shown'.amount = raw
      BY <2>1, <3>1
    <3>7. Tokens!TransferIsScaled'
      BY <3>1, <3>5, <3>6 DEF Tokens!TransferIsScaled
    <3> QED
      BY <2>1, <3>7 DEF TokenInv, Underway, HasRun
  <2> QED
    BY <2>2, <2>3
<1>8. CASE Tokens!Upgrade
  BY <1>8, UpgradeStep
<1>9. CASE UNCHANGED tokenVars
  BY <1>9 DEF tokenVars, TokenInv, Underway, CallTypes, DecimalsAreKnown, ReadIsMarked, HasRun,
     Tokens!TransferIsScaled, Tokens!Decimals, Tokens!Parses, Tokens!ParseTokenAmount
<1> QED
  BY <1>1, <1>2, <1>3, <1>4, <1>5, <1>6, <1>7, <1>8, <1>9 DEF Tokens!Next

-----------------------------------------------------------------------------
\* The transfer that is executed is the requested one, for any tokens, decimals, upgrades,
\* wallets and preimages (prepare_token_transfer, prepare_detached): every behaviour of the
\* composition is one of each of its components.
THEOREM TransfersAreRequested == Tokens!Spec /\ Detached!Spec => []TransferIsRequested
<1>1. Tokens!Spec => []TokenInv
  <2>1. TokenInv /\ [Tokens!Next]_Tokens!vars => TokenInv'
    BY TokenStep DEF Tokens!vars, tokenVars
  <2> QED
    BY TokenInit, <2>1, PTL DEF Tokens!Spec
<1>2. Detached!Spec => []DetachedInv
  <2>1. Detached!Init => DetachedInv
    BY DEF Detached!Init, DetachedInv, PreparedIsRequested, Detached!SignedIsRequested,
       Detached!KeyOfTheNetwork, Detached!None
  <2>2. DetachedInv /\ [Detached!Next]_Detached!vars => DetachedInv'
    BY DetachedStep DEF Detached!vars, detachedVars
  <2> QED
    BY <2>1, <2>2, PTL DEF Detached!Spec
<1>3. TokenInv /\ DetachedInv => TransferIsRequested
  BY DEF TokenInv, DetachedInv, TransferIsRequested
<1> QED
  BY <1>1, <1>2, <1>3, PTL

-----------------------------------------------------------------------------
(***************************************************************************)
(* The two walks through a type.  Each step goes inside a type or enters   *)
(* another definition, so there is one function of each recursion, built   *)
(* up by rank.  Both walks refuse the same types: by the least rank of a   *)
(* type they differ on.                                                    *)
(***************************************************************************)
Unentered(p) == DOMAIN Definitions \ p[2]
Rank(p) == Cardinality(Unentered(p)) * (MaxDepth + 1) + Depth[p[1]]
InsideOf(p) == Argument!Inside(p[1], p[2])

LEMMA InputFacts ==
    /\ MaxDepth \in Nat /\ Depth \in [InputTypes -> 0..MaxDepth]
    /\ IsFiniteSet(DOMAIN Definitions)
    /\ \A n \in DOMAIN Definitions : Argument!Mentioned(Definitions[n]) \subseteq InputTypes
    /\ \A T \in InputTypes :
         /\ T.t \in {"prim", "option", "result", "vec", "map", "tuple", "udt"}
         /\ \A U \in Argument!Parts(T) : U \in InputTypes /\ Depth[U] < Depth[T]
<1>1. Argument!FormsAssumption
  BY ArgumentAssumption
<1>2. Argument!IsFiniteSet(DOMAIN Definitions) <=> IsFiniteSet(DOMAIN Definitions)
  BY DEF Argument!IsFiniteSet, IsFiniteSet
<1> QED
  BY <1>1, <1>2 DEF Argument!FormsAssumption

LEMMA UnenteredCount ==
    \A p \in Argument!Visits : IsFiniteSet(Unentered(p)) /\ Cardinality(Unentered(p)) \in Nat
<1> SUFFICES ASSUME NEW p \in Argument!Visits
             PROVE  IsFiniteSet(Unentered(p)) /\ Cardinality(Unentered(p)) \in Nat
  OBVIOUS
<1>1. Unentered(p) \subseteq DOMAIN Definitions
  BY DEF Unentered
<1>2. IsFiniteSet(Unentered(p))
  BY <1>1, InputFacts, FS_Subset
<1> QED
  BY <1>2, FS_CardinalityType

LEMMA RankIsNatural == \A p \in Argument!Visits : Rank(p) \in Nat
<1> SUFFICES ASSUME NEW p \in Argument!Visits PROVE Rank(p) \in Nat
  OBVIOUS
<1>1. Depth[p[1]] \in Nat /\ MaxDepth + 1 \in Nat
  BY InputFacts DEF Argument!Visits
<1>2. Cardinality(Unentered(p)) * (MaxDepth + 1) \in Nat
  BY <1>1, UnenteredCount
<1> QED
  BY <1>1, <1>2 DEF Rank

LEMMA InsideIsLower ==
    \A p \in Argument!Visits : \A q \in InsideOf(p) : q \in Argument!Visits /\ Rank(q) < Rank(p)
<1> SUFFICES ASSUME NEW p \in Argument!Visits, NEW q \in InsideOf(p)
             PROVE  q \in Argument!Visits /\ Rank(q) < Rank(p)
  OBVIOUS
<1> DEFINE T == p[1]
           visited == p[2]
<1>1. T \in InputTypes /\ visited \subseteq DOMAIN Definitions /\ p = <<T, visited>>
  BY DEF Argument!Visits
<1>2. CASE T.t # "udt"
  <2>1. PICK U \in Argument!Parts(T) : q = <<U, visited>>
    BY <1>2 DEF InsideOf, Argument!Inside
  <2>2. U \in InputTypes /\ Depth[U] < Depth[T] /\ Depth[U] \in Nat /\ Depth[T] \in Nat
    BY <1>1, InputFacts
  <2>3. Unentered(q) = Unentered(p) /\ q[1] = U
    BY <2>1 DEF Unentered
  <2>4. Cardinality(Unentered(p)) * (MaxDepth + 1) \in Nat
    BY UnenteredCount, InputFacts
  <2>5. Rank(q) < Rank(p)
    BY <2>2, <2>3, <2>4 DEF Rank
  <2> QED
    BY <1>1, <2>1, <2>2, <2>5 DEF Argument!Visits
<1>3. CASE T.t = "udt"
  <2>1. T.name \notin visited /\ T.name \in DOMAIN Definitions
    BY <1>3 DEF InsideOf, Argument!Inside
  <2>2. PICK U \in Argument!Mentioned(Definitions[T.name]) : q = <<U, visited \union {T.name}>>
    BY <1>3, <2>1 DEF InsideOf, Argument!Inside
  <2>3. U \in InputTypes /\ Depth[U] \in 0..MaxDepth /\ Depth[T] \in Nat
    BY <1>1, <2>1, InputFacts
  <2>4. q \in Argument!Visits
    BY <1>1, <2>1, <2>2, <2>3 DEF Argument!Visits
  <2>5. Unentered(q) = Unentered(p) \ {T.name} /\ T.name \in Unentered(p)
    BY <2>1, <2>2 DEF Unentered
  <2>6. Cardinality(Unentered(q)) = Cardinality(Unentered(p)) - 1
    <3>1. IsFiniteSet(Unentered(p))
      BY UnenteredCount
    <3>2. \A S, x : IsFiniteSet(S) /\ x \in S => Cardinality(S \ {x}) = Cardinality(S) - 1
      BY FS_RemoveElement
    <3> QED
      BY ONLY <2>5, <3>1, <3>2
  <2>7. Cardinality(Unentered(p)) \in Nat /\ Cardinality(Unentered(q)) \in Nat
    BY <2>4, UnenteredCount
  <2>8. \A c, M, d, e \in Nat : c - 1 \in Nat /\ d <= M => (c - 1) * (M + 1) + d < c * (M + 1) + e
    <3> SUFFICES ASSUME NEW c \in Nat, NEW M \in Nat, NEW d \in Nat, NEW e \in Nat, c - 1 \in Nat, d <= M
                 PROVE  (c - 1) * (M + 1) + d < c * (M + 1) + e
      OBVIOUS
    <3>1. (c - 1) * (M + 1) = c * (M + 1) - (M + 1)
      OBVIOUS
    <3>2. c * (M + 1) \in Nat
      OBVIOUS
    <3> QED
      BY <3>1, <3>2
  <2>9. q[1] = U /\ MaxDepth \in Nat
    BY <2>2, InputFacts
  <2>10. Rank(q) = (Cardinality(Unentered(p)) - 1) * (MaxDepth + 1) + Depth[U]
    BY <2>6, <2>9 DEF Rank
  <2>11. Rank(p) = Cardinality(Unentered(p)) * (MaxDepth + 1) + Depth[T]
    BY DEF Rank
  <2>12. Rank(q) < Rank(p)
    <3> HIDE DEF T
    <3> QED
      BY <2>3, <2>6, <2>7, <2>8, <2>9, <2>10, <2>11
  <2> QED
    BY <2>4, <2>12
<1> QED
  BY <1>2, <1>3

\* The definitions of the two functions at a type.
FormAt(f, p) ==
    LET T == p[1]
        inside == Argument!Merge({f[q] : q \in Argument!Inside(T, p[2])})
    IN  CASE T.t = "prim" ->
               (CASE T.prim = "val" -> "dynamic" [] T.prim = "error" -> "unsupported" [] OTHER -> "json")
          [] T.t = "result" -> IF inside = "unsupported" THEN "unsupported" ELSE "xdr"
          [] T.t \in {"option", "vec", "map", "tuple"} -> inside
          [] T.t = "udt" /\ T.name \in p[2] -> "json"
          [] T.t = "udt" /\ T.name \notin p[2] ->
               IF \/ T.name \notin DOMAIN Definitions
                  \/ Definitions[T.name].kind = "error_enum"
                  \/ Definitions[T.name].kind = "struct" /\ ~Argument!CanonicalStruct(Definitions[T.name])
                 THEN "unsupported" ELSE inside

SafeAt(f, p) ==
    LET T == p[1]
        inside == \A q \in Argument!Inside(T, p[2]) : f[q]
    IN  CASE T.t = "prim" -> T.prim /= "error"
          [] T.t \in {"option", "result", "vec", "map", "tuple"} -> inside
          [] T.t = "udt" ->
               \/ T.name \in p[2]
               \/ /\ T.name \in DOMAIN Definitions
                  /\ Definitions[T.name].kind /= "error_enum"
                  /\ Definitions[T.name].kind = "struct" => Argument!CanonicalStruct(Definitions[T.name])
                  /\ inside

At(walk, f, p) == IF walk = "form" THEN FormAt(f, p) ELSE SafeAt(f, p)

LEMMA AtDependsOnInside ==
    ASSUME NEW walk, NEW f, NEW g, NEW p, \A q \in InsideOf(p) : f[q] = g[q]
    PROVE  At(walk, f, p) = At(walk, g, p)
<1>1. {f[q] : q \in Argument!Inside(p[1], p[2])} = {g[q] : q \in Argument!Inside(p[1], p[2])}
  BY DEF InsideOf
<1>2. (\A q \in Argument!Inside(p[1], p[2]) : f[q]) <=> (\A q \in Argument!Inside(p[1], p[2]) : g[q])
  BY DEF InsideOf
<1>3. FormAt(f, p) = FormAt(g, p)
  BY ONLY <1>1 DEF FormAt
<1>4. SafeAt(f, p) = SafeAt(g, p)
  BY ONLY <1>2 DEF SafeAt
<1> QED
  BY <1>3, <1>4 DEF At

\* The part of a walk's function below a rank.
Below(m) == {p \in Argument!Visits : Rank(p) < m}
WalkBelow(f, walk, m) == f = [p \in Below(m) |-> At(walk, f, p)]

LEMMA InsideOfBelow ==
    ASSUME NEW m \in Nat, NEW p \in Below(m)
    PROVE  \A q \in InsideOf(p) : q \in Below(m) /\ q \in Below(Rank(p))
<1> SUFFICES ASSUME NEW q \in InsideOf(p) PROVE q \in Below(m) /\ q \in Below(Rank(p))
  OBVIOUS
<1>1. p \in Argument!Visits /\ Rank(p) < m
  BY DEF Below
<1>2. q \in Argument!Visits /\ Rank(q) < Rank(p)
  BY <1>1, InsideIsLower
<1>3. Rank(q) \in Nat /\ Rank(p) \in Nat
  BY <1>1, <1>2, RankIsNatural
<1> QED
  BY <1>1, <1>2, <1>3 DEF Below

LEMMA WalkBelowExists == \A walk : \A m \in Nat : \E f : WalkBelow(f, walk, m)
<1> SUFFICES ASSUME NEW walk PROVE \A m \in Nat : \E f : WalkBelow(f, walk, m)
  OBVIOUS
<1> DEFINE Failing == {m \in Nat : ~\E f : WalkBelow(f, walk, m)}
<1> SUFFICES ASSUME Failing # {} PROVE FALSE
  OBVIOUS
<1>1. PICK m \in Failing : \A y \in Failing : m <= y
  <2> HIDE DEF Failing
  <2>1. Failing \subseteq Nat
    BY DEF Failing
  <2> QED
    BY <2>1, LeastNat
<1>2. m # 0
  <2> SUFFICES ASSUME m = 0 PROVE FALSE
    OBVIOUS
  <2>1. Below(0) = {}
    BY RankIsNatural DEF Below
  <2> DEFINE f == [p \in {} |-> At(walk, <<>>, p)]
  <2>2. f = [p \in Below(0) |-> At(walk, f, p)]
    BY <2>1
  <2> HIDE DEF f
  <2> QED
    BY <2>2 DEF WalkBelow
<1>3. m \in Nat /\ m - 1 \in Nat /\ m - 1 \notin Failing
  BY <1>1, <1>2
<1>4. PICK f : WalkBelow(f, walk, m - 1)
  BY <1>3
<1> DEFINE g == [p \in Below(m) |-> At(walk, f, p)]
<1> HIDE DEF Failing
<1>5. ASSUME NEW p \in Below(m) PROVE g[p] = At(walk, g, p)
  <2>1. ASSUME NEW q \in InsideOf(p) PROVE f[q] = g[q]
    <3>1. q \in Below(m) /\ Rank(q) < Rank(p) /\ q \in Argument!Visits
      BY <1>3, InsideOfBelow, InsideIsLower DEF Below
    <3>2. Rank(q) \in Nat /\ Rank(p) \in Nat /\ Rank(p) < m
      BY <3>1, RankIsNatural DEF Below
    <3>3. q \in Below(m - 1)
      BY <1>3, <3>1, <3>2 DEF Below
    <3> QED
      BY <1>4, <3>1, <3>3 DEF WalkBelow
  <2>2. At(walk, f, p) = At(walk, g, p)
    <3> HIDE DEF g
    <3> QED
      BY <2>1, AtDependsOnInside
  <2> QED
    BY <2>2
<1>6. g = [p \in Below(m) |-> g[p]]
  OBVIOUS
<1> HIDE DEF g
<1>7. g = [p \in Below(m) |-> At(walk, g, p)]
  BY <1>5, <1>6
<1> QED
  BY <1>1, <1>7 DEF WalkBelow, Failing

LEMMA WalksAgree ==
    ASSUME NEW walk, NEW m \in Nat, NEW k \in Nat, NEW f, NEW g, WalkBelow(f, walk, m), WalkBelow(g, walk, k)
    PROVE  \A p \in Argument!Visits : Rank(p) < m /\ Rank(p) < k => f[p] = g[p]
<1> DEFINE Differing == {p \in Argument!Visits : Rank(p) < m /\ Rank(p) < k /\ f[p] # g[p]}
           Ranks == {Rank(p) : p \in Differing}
<1> SUFFICES ASSUME Differing # {} PROVE FALSE
  OBVIOUS
<1>1. Ranks \subseteq Nat /\ Ranks # {}
  BY RankIsNatural
<1>2. PICK r \in Ranks : \A y \in Ranks : r <= y
  <2> HIDE DEF Ranks
  <2> QED
    BY <1>1, LeastNat
<1>3. PICK p \in Differing : r = Rank(p)
  BY <1>2
<1>4. p \in Argument!Visits /\ p \in Below(m) /\ p \in Below(k) /\ f[p] # g[p]
  BY DEF Below
<1>5. ASSUME NEW q \in InsideOf(p) PROVE f[q] = g[q]
  <2>1. q \in Argument!Visits /\ Rank(q) < Rank(p)
    BY <1>4, InsideIsLower
  <2>2. Rank(q) \in Nat /\ Rank(p) \in Nat /\ Rank(p) < m /\ Rank(p) < k
    BY <1>4, <2>1, RankIsNatural DEF Below
  <2>3. q \notin Differing
    BY <1>2, <1>3, <2>1, <2>2
  <2> QED
    BY <2>1, <2>2, <2>3
<1>6. f[p] = At(walk, f, p) /\ g[p] = At(walk, g, p)
  BY <1>4 DEF WalkBelow
<1>7. At(walk, f, p) = At(walk, g, p)
  BY <1>5, AtDependsOnInside
<1> QED
  BY <1>4, <1>6, <1>7

LEMMA WalkExists == \A walk : \E f : f = [p \in Argument!Visits |-> At(walk, f, p)]
<1> SUFFICES ASSUME NEW walk PROVE \E f : f = [p \in Argument!Visits |-> At(walk, f, p)]
  OBVIOUS
<1> DEFINE upTo(m) == CHOOSE f : WalkBelow(f, walk, m)
           F == [p \in Argument!Visits |-> upTo(Rank(p) + 1)[p]]
<1>1. \A m \in Nat : WalkBelow(upTo(m), walk, m)
  BY WalkBelowExists
<1> HIDE DEF upTo
<1>2. ASSUME NEW p \in Argument!Visits PROVE F[p] = At(walk, F, p)
  <2> DEFINE g == upTo(Rank(p) + 1)
  <2>1. Rank(p) \in Nat /\ Rank(p) + 1 \in Nat /\ p \in Below(Rank(p) + 1)
    BY RankIsNatural DEF Below
  <2>2. WalkBelow(g, walk, Rank(p) + 1)
    BY <1>1, <2>1
  <2>3. g[p] = At(walk, g, p)
    BY <2>1, <2>2 DEF WalkBelow
  <2>4. ASSUME NEW q \in InsideOf(p) PROVE g[q] = F[q]
    <3>1. q \in Argument!Visits /\ Rank(q) < Rank(p)
      BY InsideIsLower
    <3>2. Rank(q) \in Nat /\ Rank(q) + 1 \in Nat /\ Rank(q) < Rank(q) + 1 /\ Rank(q) < Rank(p) + 1
      BY <2>1, <3>1, RankIsNatural
    <3>3. WalkBelow(upTo(Rank(q) + 1), walk, Rank(q) + 1)
      BY <1>1, <3>2
    <3> HIDE DEF g
    <3>4. g[q] = upTo(Rank(q) + 1)[q]
      BY <2>1, <2>2, <3>1, <3>2, <3>3, WalksAgree
    <3> QED
      BY <3>1, <3>4
  <2>5. At(walk, g, p) = At(walk, F, p)
    <3> HIDE DEF g, F
    <3> QED
      BY <2>4, AtDependsOnInside
  <2> QED
    BY <2>3, <2>5
<1>3. F = [p \in Argument!Visits |-> F[p]]
  OBVIOUS
<1> HIDE DEF F
<1>4. F = [p \in Argument!Visits |-> At(walk, F, p)]
  BY <1>2, <1>3
<1> QED
  BY <1>4

FormWalk == CHOOSE f : f = [p \in Argument!Visits |-> FormAt(f, p)]
SafeWalk == CHOOSE f : f = [p \in Argument!Visits |-> SafeAt(f, p)]

LEMMA Walks ==
    /\ \A p \in Argument!Visits : Argument!composition[p] = FormAt(Argument!composition, p)
    /\ \A p \in Argument!Visits : Argument!normalizable[p] = SafeAt(Argument!normalizable, p)
<1>1. Argument!composition = FormWalk
  BY DEF Argument!composition, FormWalk, FormAt
<1>2. Argument!normalizable = SafeWalk
  BY DEF Argument!normalizable, SafeWalk, SafeAt
<1>3. \E f : f = [p \in Argument!Visits |-> FormAt(f, p)]
  <2>1. PICK f : f = [p \in Argument!Visits |-> At("form", f, p)]
    BY WalkExists
  <2> QED
    BY <2>1 DEF At
<1>4. \E f : f = [p \in Argument!Visits |-> SafeAt(f, p)]
  <2>1. PICK f : f = [p \in Argument!Visits |-> At("safe", f, p)]
    BY WalkExists
  <2> QED
    BY <2>1 DEF At
<1>5. FormWalk = [p \in Argument!Visits |-> FormAt(FormWalk, p)]
  BY <1>3 DEF FormWalk
<1>6. SafeWalk = [p \in Argument!Visits |-> SafeAt(SafeWalk, p)]
  BY <1>4 DEF SafeWalk
<1> QED
  BY <1>1, <1>2, <1>5, <1>6

AllForms == {"unsupported", "xdr", "dynamic", "json"}

LEMMA MergeFacts ==
    ASSUME NEW S, S \subseteq AllForms
    PROVE  Argument!Merge(S) \in AllForms /\ (Argument!Merge(S) = "unsupported" <=> "unsupported" \in S)
<1>1. /\ Argument!Strength("unsupported") = 1 /\ Argument!Strength("xdr") = 2
      /\ Argument!Strength("dynamic") = 3 /\ Argument!Strength("json") = 4
  BY DEF Argument!Strength, Argument!Compositions
<1>2. CASE S = {}
  BY <1>2 DEF Argument!Merge, AllForms
<1>3. CASE S # {}
  <2> DEFINE least(c) == \A d \in S : Argument!Strength(c) <= Argument!Strength(d)
  <2>1. \E c \in S : least(c)
    <3> DEFINE first(c, rest) == c \in S /\ S \cap rest = {} => least(c)
    <3>1. first("unsupported", {}) /\ first("xdr", {"unsupported"})
      BY <1>1 DEF AllForms
    <3>2. first("dynamic", {"unsupported", "xdr"}) /\ first("json", {"unsupported", "xdr", "dynamic"})
      BY <1>1 DEF AllForms
    <3>3. "unsupported" \in S \/ "xdr" \in S \/ "dynamic" \in S \/ "json" \in S
      BY <1>3 DEF AllForms
    <3> HIDE DEF least
    <3> QED
      BY <3>1, <3>2, <3>3
  <2>2. Argument!Merge(S) \in S /\ least(Argument!Merge(S))
    <3>1. Argument!Merge(S) = CHOOSE c \in S : least(c)
      BY <1>3 DEF Argument!Merge
    <3> HIDE DEF least
    <3> QED
      BY <2>1, <3>1
  <2>3. ASSUME "unsupported" \in S PROVE Argument!Merge(S) = "unsupported"
    <3>1. Argument!Strength(Argument!Merge(S)) <= 1
      BY <1>1, <2>2, <2>3
    <3>2. Argument!Merge(S) \in AllForms
      BY <2>2
    <3> HIDE DEF least
    <3> QED
      BY <1>1, <3>1, <3>2 DEF AllForms
  <2> HIDE DEF least
  <2> QED
    BY <2>2, <2>3
<1> QED
  BY <1>2, <1>3

\* A type is advertised as unsupported if and only if a value of it is refused.
THEOREM FormsAndReviewsAgree ==
    \A p \in Argument!Visits :
      /\ Argument!composition[p] \in AllForms
      /\ Argument!composition[p] = "unsupported" <=> ~Argument!normalizable[p]
<1> DEFINE f == Argument!composition
           g == Argument!normalizable
           Agree(p) == f[p] \in AllForms /\ (f[p] = "unsupported" <=> ~g[p])
           Differing == {p \in Argument!Visits : ~Agree(p)}
           Ranks == {Rank(p) : p \in Differing}
<1> HIDE DEF f, g
<1> SUFFICES ASSUME Differing # {} PROVE FALSE
  BY DEF f, g
<1>1. Ranks \subseteq Nat /\ Ranks # {}
  BY RankIsNatural
<1>2. PICK r \in Ranks : \A y \in Ranks : r <= y
  <2> HIDE DEF Ranks
  <2> QED
    BY <1>1, LeastNat
<1>3. PICK p \in Differing : r = Rank(p)
  BY <1>2
<1>4. p \in Argument!Visits /\ ~Agree(p)
  OBVIOUS
<1>5. ASSUME NEW q \in InsideOf(p) PROVE Agree(q)
  <2>1. q \in Argument!Visits /\ Rank(q) < Rank(p)
    BY <1>4, InsideIsLower
  <2>2. Rank(q) \in Nat /\ Rank(p) \in Nat
    BY <1>4, <2>1, RankIsNatural
  <2>3. q \notin Differing
    BY <1>2, <1>3, <2>1, <2>2
  <2> QED
    BY <2>1, <2>3
<1> DEFINE S == {f[q] : q \in Argument!Inside(p[1], p[2])}
<1>6. S \subseteq AllForms
  BY <1>5 DEF InsideOf
<1>7. Argument!Merge(S) \in AllForms /\ (Argument!Merge(S) = "unsupported" <=> "unsupported" \in S)
  <2> HIDE DEF S
  <2> QED
    BY <1>6, MergeFacts
<1>8. "unsupported" \in S <=> ~\A q \in Argument!Inside(p[1], p[2]) : g[q]
  BY <1>5 DEF InsideOf
<1>9. f[p] = FormAt(f, p) /\ g[p] = SafeAt(g, p)
  BY <1>4, Walks DEF f, g
<1>10. p[1].t \in {"prim", "option", "result", "vec", "map", "tuple", "udt"}
  BY <1>4, InputFacts DEF Argument!Visits
<1>11. FormAt(f, p) \in AllForms /\ (FormAt(f, p) = "unsupported" <=> ~SafeAt(g, p))
  <2>1. FormAt(f, p) \in AllForms /\ (FormAt(f, p) = "unsupported" <=> ~SafeAt(g, p))
    BY <1>7, <1>8, <1>10 DEF FormAt, SafeAt, AllForms
  <2> QED
    BY <2>1
<1> QED
  BY <1>4, <1>9, <1>11

-----------------------------------------------------------------------------
(***************************************************************************)
(* Arguments by name.  The inputs take theirs one after the other; what    *)
(* the first ones leave is again a recursion that has to be solved first.  *)
(***************************************************************************)
LeaveAt(f, inputs, given, i) ==
    IF i = 0 THEN DOMAIN given ELSE f[i - 1] \ Argument!Removed(f[i - 1], given, inputs[i].name)
LeavesUpTo(f, inputs, given, m) == f = [i \in 0..m |-> LeaveAt(f, inputs, given, i)]

LEMMA LeavesExist == \A inputs, given : \A m \in Nat : \E f : LeavesUpTo(f, inputs, given, m)
<1> SUFFICES ASSUME NEW inputs, NEW given PROVE \A m \in Nat : \E f : LeavesUpTo(f, inputs, given, m)
  OBVIOUS
<1> DEFINE T == {m \in Nat : ~\E f : LeavesUpTo(f, inputs, given, m)}
<1> SUFFICES ASSUME T # {} PROVE FALSE
  OBVIOUS
<1>1. PICK x \in T : \A y \in T : x <= y
  <2> HIDE DEF T
  <2>1. T \subseteq Nat
    BY DEF T
  <2> QED
    BY <2>1, LeastNat
<1>2. CASE x = 0
  <2> DEFINE f == [n \in 0..0 |-> DOMAIN given]
  <2>1. LeavesUpTo(f, inputs, given, 0)
    BY DEF LeavesUpTo, LeaveAt
  <2> QED
    BY <1>2, <2>1
<1>3. CASE x # 0
  <2>1. x \in Nat /\ x - 1 \in Nat /\ x - 1 \notin T
    BY <1>1, <1>3
  <2>2. PICK f : LeavesUpTo(f, inputs, given, x - 1)
    BY <2>1
  <2> DEFINE g == [n \in 0..x |-> IF n = x THEN LeaveAt(f, inputs, given, x) ELSE f[n]]
  <2>3. \A n \in 0..x : n # x => n \in 0..x - 1
    BY <2>1
  <2>4. ASSUME NEW n \in 0..x PROVE g[n] = LeaveAt(g, inputs, given, n)
    <3>1. n # 0 => n - 1 \in 0..x /\ n - 1 # x /\ g[n - 1] = f[n - 1]
      BY <2>1, <2>3
    <3>2. LeaveAt(g, inputs, given, n) = LeaveAt(f, inputs, given, n)
      <4> HIDE DEF g
      <4> QED
        BY <3>1 DEF LeaveAt
    <3>3. n # x => f[n] = LeaveAt(f, inputs, given, n)
      BY <2>2, <2>3 DEF LeavesUpTo
    <3>4. g[n] = IF n = x THEN LeaveAt(f, inputs, given, x) ELSE f[n]
      OBVIOUS
    <3> HIDE DEF g
    <3> QED
      BY <3>2, <3>3, <3>4
  <2>5. g = [n \in 0..x |-> g[n]]
    OBVIOUS
  <2> HIDE DEF g
  <2>6. LeavesUpTo(g, inputs, given, x)
    BY <2>4, <2>5 DEF LeavesUpTo
  <2> QED
    BY <2>6
<1> QED
  BY <1>2, <1>3

LEMMA LeftSteps ==
    ASSUME NEW inputs, NEW given, Len(inputs) \in Nat
    PROVE  LET remaining == Argument!Left(inputs, given) IN
           /\ remaining[0] = DOMAIN given
           /\ \A i \in 1..Len(inputs) :
                remaining[i] = remaining[i - 1] \ Argument!Removed(remaining[i - 1], given, inputs[i].name)
<1> DEFINE remaining == Argument!Left(inputs, given)
<1>1. remaining = CHOOSE f : LeavesUpTo(f, inputs, given, Len(inputs))
  BY DEF Argument!Left, LeavesUpTo, LeaveAt
<1>2. \E f : LeavesUpTo(f, inputs, given, Len(inputs))
  BY LeavesExist
<1> HIDE DEF remaining
<1>3. LeavesUpTo(remaining, inputs, given, Len(inputs))
  BY <1>1, <1>2
<1>4. 0 \in 0..Len(inputs) /\ \A i \in 1..Len(inputs) : i \in 0..Len(inputs) /\ i # 0
  OBVIOUS
<1>5. remaining[0] = DOMAIN given
  BY <1>3, <1>4 DEF LeavesUpTo, LeaveAt
<1>6. ASSUME NEW i \in 1..Len(inputs)
      PROVE  remaining[i] = remaining[i - 1] \ Argument!Removed(remaining[i - 1], given, inputs[i].name)
  BY <1>3, <1>4 DEF LeavesUpTo, LeaveAt
<1> QED
  BY <1>5, <1>6 DEF remaining

LEMMA RemovedFacts ==
    ASSUME NEW rest, NEW given, NEW name, rest \subseteq DOMAIN given, Argument!NoDuplicates(given)
    PROVE  LET removed == Argument!Removed(rest, given, name) IN
           /\ removed \subseteq rest
           /\ \A k, m \in removed : k = m
           /\ \A k \in removed : given[k].name \in {name, Spelling[name]}
           /\ \A k \in rest : given[k].name = name => removed = {k}
           /\ (\A k \in rest : given[k].name \notin {name, Spelling[name]}) => removed = {}
<1> DEFINE as(n) == {k \in rest : given[k].name = n}
           removed == Argument!Removed(rest, given, name)
<1>1. removed = IF as(name) # {} THEN as(name) ELSE as(Spelling[name])
  BY DEF Argument!Removed
<1>2. \A n : \A k, m \in as(n) : k = m
  BY DEF Argument!NoDuplicates
<1> HIDE DEF removed
<1>3. \A k \in rest : given[k].name = name => removed = {k}
  <2> SUFFICES ASSUME NEW k \in rest, given[k].name = name PROVE removed = {k}
    OBVIOUS
  <2>1. k \in as(name)
    OBVIOUS
  <2> QED
    BY <1>1, <1>2, <2>1
<1>4. removed \subseteq rest /\ \A k \in removed : given[k].name \in {name, Spelling[name]}
  BY <1>1
<1>5. \A k, m \in removed : k = m
  BY <1>1, <1>2
<1>6. (\A k \in rest : given[k].name \notin {name, Spelling[name]}) => removed = {}
  BY <1>1
<1> QED
  BY <1>3, <1>4, <1>5, <1>6 DEF removed

LEMMA LeftShrinks ==
    ASSUME NEW inputs, NEW given, Len(inputs) \in Nat, NEW i \in 0..Len(inputs)
    PROVE  \A j \in 0..Len(inputs) :
             i <= j => Argument!Left(inputs, given)[j] \subseteq Argument!Left(inputs, given)[i]
<1> DEFINE remaining == Argument!Left(inputs, given)
           T == {j \in 0..Len(inputs) : i <= j /\ ~(remaining[j] \subseteq remaining[i])}
<1> SUFFICES ASSUME T # {} PROVE FALSE
  OBVIOUS
<1>1. PICK x \in T : \A y \in T : x <= y
  <2>1. T \subseteq Nat
    OBVIOUS
  <2> HIDE DEF T
  <2> QED
    BY <2>1, LeastNat
<1> HIDE DEF remaining
<1>2. x # i
  OBVIOUS
<1>3. x \in 1..Len(inputs) /\ x - 1 \in 0..Len(inputs) /\ i <= x - 1 /\ x - 1 \notin T
  BY <1>1, <1>2
<1>4. remaining[x] \subseteq remaining[x - 1]
  BY <1>3, LeftSteps DEF remaining
<1> QED
  BY <1>3, <1>4

LEMMA LeftIsGiven ==
    ASSUME NEW inputs, NEW given, Len(inputs) \in Nat
    PROVE  \A i \in 0..Len(inputs) : Argument!Left(inputs, given)[i] \subseteq DOMAIN given
<1>1. 0 \in 0..Len(inputs) /\ \A i \in 0..Len(inputs) : 0 <= i
  OBVIOUS
<1>2. Argument!Left(inputs, given)[0] = DOMAIN given
  BY LeftSteps
<1> QED
  BY <1>1, <1>2, LeftShrinks

LEMMA TakenOnce ==
    ASSUME NEW inputs, NEW given, Len(inputs) \in Nat, Argument!NoDuplicates(given), NEW k,
           NEW i \in 1..Len(inputs), NEW j \in 1..Len(inputs),
           k \in Argument!Removed(Argument!Left(inputs, given)[i - 1], given, inputs[i].name),
           k \in Argument!Removed(Argument!Left(inputs, given)[j - 1], given, inputs[j].name)
    PROVE  i = j
<1> DEFINE remaining == Argument!Left(inputs, given)
           removed(n) == Argument!Removed(remaining[n - 1], given, inputs[n].name)
<1>1. ASSUME NEW m \in 1..Len(inputs), NEW n \in 1..Len(inputs), k \in removed(m), k \in removed(n), m < n
      PROVE  FALSE
  <2>1. n - 1 \in 0..Len(inputs) /\ m \in 0..Len(inputs) /\ m <= n - 1
    BY <1>1
  <2>2. k \notin remaining[m]
    BY <1>1, LeftSteps
  <2>3. remaining[n - 1] \subseteq DOMAIN given
    BY <2>1, LeftIsGiven
  <2>4. k \in remaining[n - 1]
    BY <1>1, <2>3, RemovedFacts
  <2> QED
    BY <2>1, <2>2, <2>4, LeftShrinks
<1> HIDE DEF remaining
<1>2. i < j \/ j < i \/ i = j
  OBVIOUS
<1> QED
  BY <1>1, <1>2 DEF remaining

\* What is no longer left was taken by one of the inputs before.
LEMMA TakenBefore ==
    ASSUME NEW inputs, NEW given, Len(inputs) \in Nat, NEW i \in 0..Len(inputs),
           NEW k \in DOMAIN given, k \notin Argument!Left(inputs, given)[i]
    PROVE  \E m \in 1..i : /\ k \in Argument!Left(inputs, given)[m - 1]
                            /\ k \in Argument!Removed(Argument!Left(inputs, given)[m - 1], given, inputs[m].name)
                            /\ k \notin Argument!Left(inputs, given)[m]
<1> DEFINE remaining == Argument!Left(inputs, given)
           T == {j \in 0..Len(inputs) : k \notin remaining[j]}
<1>1. PICK x \in T : \A y \in T : x <= y
  <2>1. T \subseteq Nat /\ T # {}
    OBVIOUS
  <2> HIDE DEF T
  <2> QED
    BY <2>1, LeastNat
<1> HIDE DEF remaining
<1>2. remaining[0] = DOMAIN given
  BY LeftSteps DEF remaining
<1>3. x <= i /\ x # 0 /\ x \in 1..Len(inputs) /\ x - 1 \in 0..Len(inputs) /\ x - 1 \notin T
  BY <1>1, <1>2 DEF remaining
<1>4. k \in remaining[x - 1] /\ k \notin remaining[x]
  BY <1>1, <1>3
<1>5. k \in Argument!Removed(remaining[x - 1], given, inputs[x].name)
  BY <1>3, <1>4, LeftSteps DEF remaining
<1>6. x \in 1..i
  BY <1>3
<1> QED
  BY <1>4, <1>5, <1>6 DEF remaining

-----------------------------------------------------------------------------
(***************************************************************************)
(* A call: either it is refused, or every input has a value.               *)
(***************************************************************************)
Sources(inputs, r, i) == {r.given[k].source : k \in Argument!Taken(inputs, r)[i]}
ValueAt(inputs, r, i) == Argument!ValueOf(Sources(inputs, r, i), inputs[i].type)

WellFormed(inputs, r) ==
    IF r.positional
      THEN /\ Len(r.given) <= Len(inputs)
           /\ \A i \in DOMAIN r.given : r.given[i].source.s = "text"
      ELSE Argument!NoDuplicates(r.given) /\ Argument!AllKnown(inputs, r.given)

LEMMA CallFacts ==
    ASSUME NEW c \in GuidedCalls
    PROVE  /\ Len(c.inputs) \in Nat /\ DOMAIN c.inputs = 1..Len(c.inputs)
           /\ \A i \in DOMAIN c.inputs :
                /\ c.inputs[i].name \in DOMAIN Spelling /\ c.inputs[i].type \in InputTypes
                /\ Spelling[c.inputs[i].name] \in DOMAIN Spelling
                /\ Spelling[Spelling[c.inputs[i].name]] = Spelling[c.inputs[i].name]
           /\ c.request.positional \in BOOLEAN
           /\ Len(c.request.given) \in Nat /\ DOMAIN c.request.given = 1..Len(c.request.given)
           /\ \A k \in DOMAIN c.request.given :
                LET source == c.request.given[k].source IN
                /\ source.s \in {"text", "json", "xdr"}
                /\ source.s = "xdr" => source.value # Argument!NoValue
                /\ source.s = "json" => \A i \in DOMAIN c.inputs :
                     c.inputs[i].type.t = "result" => ReadJson(source.json, c.inputs[i].type) = Argument!NoValue
                /\ source.s = "xdr" => \A i \in DOMAIN c.inputs :
                     LET T == c.inputs[i].type IN
                     Fits(source.value, T) /\ Argument!Normalizable(T) /\ Ordered(source.value, T) =>
                         Show(source.value, T) # Argument!NoJson
<1>1. Argument!CallsAssumption
  BY ArgumentAssumption
<1>2. c.inputs \in Seq([name: DOMAIN Spelling, type: InputTypes])
  BY <1>1 DEF Argument!CallsAssumption
<1>3. c.request.given \in Seq(Argument!Elements(c.request.given)) /\ c.request.positional \in BOOLEAN
  BY <1>1 DEF Argument!CallsAssumption
<1>4. \A k \in DOMAIN c.request.given :
        LET source == c.request.given[k].source IN
        /\ source.s \in {"text", "json", "xdr"}
        /\ source.s = "xdr" => source.value # Argument!NoValue
        /\ source.s = "json" => \A i \in DOMAIN c.inputs :
             c.inputs[i].type.t = "result" => ReadJson(source.json, c.inputs[i].type) = Argument!NoValue
        /\ source.s = "xdr" => \A i \in DOMAIN c.inputs :
             LET T == c.inputs[i].type IN
             Fits(source.value, T) /\ Argument!Normalizable(T) /\ Ordered(source.value, T) =>
                 Show(source.value, T) # Argument!NoJson
  BY <1>1 DEF Argument!CallsAssumption
<1>5. Len(c.inputs) \in Nat /\ DOMAIN c.inputs = 1..Len(c.inputs)
  BY <1>2
<1>6. ASSUME NEW i \in DOMAIN c.inputs PROVE c.inputs[i].name \in DOMAIN Spelling /\ c.inputs[i].type \in InputTypes
  <2>1. \A S : \A s \in Seq(S) : \A k \in 1..Len(s) : s[k] \in S
    OBVIOUS
  <2>2. c.inputs[i] \in [name: DOMAIN Spelling, type: InputTypes]
    BY <1>2, <1>5, <2>1
  <2> QED
    BY <2>2
<1>7. \A n \in DOMAIN Spelling : Spelling[n] \in DOMAIN Spelling /\ Spelling[Spelling[n]] = Spelling[n]
  BY <1>1 DEF Argument!CallsAssumption
<1>8. Len(c.request.given) \in Nat /\ DOMAIN c.request.given = 1..Len(c.request.given)
  BY <1>3
<1> QED
  BY <1>3, <1>4, <1>5, <1>6, <1>7, <1>8

LEMMA ResolveFacts ==
    ASSUME NEW inputs, NEW r, Len(inputs) \in Nat, DOMAIN inputs = 1..Len(inputs)
    PROVE  LET values == Argument!Resolve(inputs, r) IN
           /\ values = Argument!Refusal <=>
                ~WellFormed(inputs, r) \/ \E i \in DOMAIN inputs : ValueAt(inputs, r, i) = Argument!NoValue
           /\ values # Argument!Refusal => values = [i \in DOMAIN inputs |-> ValueAt(inputs, r, i)]
<1> DEFINE all == [i \in DOMAIN inputs |-> ValueAt(inputs, r, i)]
<1>1. Argument!Resolve(inputs, r) =
        IF ~WellFormed(inputs, r) \/ Argument!NoValue \in Argument!Elements(all) THEN Argument!Refusal ELSE all
  BY DEF Argument!Resolve, WellFormed, ValueAt, Sources
<1>2. Argument!NoValue \in Argument!Elements(all) <=> \E i \in DOMAIN inputs : ValueAt(inputs, r, i) = Argument!NoValue
  BY DEF Argument!Elements
<1>3. all = Argument!Refusal => 1 \in DOMAIN inputs /\ ValueAt(inputs, r, 1) = Argument!NoValue
  <2> SUFFICES ASSUME all = Argument!Refusal PROVE 1 \in DOMAIN inputs /\ ValueAt(inputs, r, 1) = Argument!NoValue
    OBVIOUS
  <2>1. DOMAIN all = {1} /\ all[1] = Argument!NoValue
    <3>1. DOMAIN Argument!Refusal = {1} /\ Argument!Refusal[1] = Argument!NoValue
      BY DEF Argument!Refusal
    <3> HIDE DEF all
    <3> QED
      BY <3>1
  <2> QED
    BY <2>1
<1> HIDE DEF all
<1>4. all = Argument!Refusal => Argument!NoValue \in Argument!Elements(all)
  BY <1>2, <1>3
<1>5. (Argument!Resolve(inputs, r) = Argument!Refusal <=>
         ~WellFormed(inputs, r) \/ \E i \in DOMAIN inputs : ValueAt(inputs, r, i) = Argument!NoValue)
      /\ (Argument!Resolve(inputs, r) # Argument!Refusal => Argument!Resolve(inputs, r) = all)
  BY <1>1, <1>2, <1>4
<1> QED
  BY <1>5 DEF all

LEMMA ValueFacts ==
    ASSUME NEW S, NEW T
    PROVE  /\ S = {} /\ Argument!ValueOf(S, T) # Argument!NoValue =>
                T.t = "option" /\ Argument!ValueOf(S, T) = Argument!VoidValue
           /\ \A s : S = {s} => Argument!ValueOf(S, T) \in {Argument!NoValue, Argument!Argument(s, T)}
           /\ \A s : S = {s} /\ Argument!Argument(s, T) # Argument!NoValue
                      /\ Argument!Reviewable(Argument!Argument(s, T), T) =>
                Argument!ValueOf(S, T) = Argument!Argument(s, T)
           /\ ~Argument!Normalizable(T) => Argument!ValueOf(S, T) = Argument!NoValue
<1>1. \A s : S = {s} => S # {} /\ (CHOOSE x \in S : TRUE) = s
  OBVIOUS
<1>2. S = {} /\ Argument!ValueOf(S, T) # Argument!NoValue =>
        T.t = "option" /\ Argument!ValueOf(S, T) = Argument!VoidValue
  <2> SUFFICES ASSUME S = {}, Argument!ValueOf(S, T) # Argument!NoValue
               PROVE  T.t = "option" /\ Argument!ValueOf(S, T) = Argument!VoidValue
    OBVIOUS
  <2> DEFINE v == IF T.t = "option" THEN Argument!VoidValue ELSE Argument!NoValue
  <2>1. Argument!ValueOf(S, T) = IF v # Argument!NoValue /\ Argument!Reviewable(v, T) THEN v ELSE Argument!NoValue
    BY DEF Argument!ValueOf
  <2>2. Argument!ValueOf(S, T) = v /\ v # Argument!NoValue
    <3> HIDE DEF v
    <3> QED
      BY <2>1
  <2> QED
    BY <2>2
<1>3. \A s : S = {s} => Argument!ValueOf(S, T) \in {Argument!NoValue, Argument!Argument(s, T)}
  BY <1>1 DEF Argument!ValueOf
<1>4. \A s : S = {s} /\ Argument!Argument(s, T) # Argument!NoValue
                      /\ Argument!Reviewable(Argument!Argument(s, T), T) =>
                Argument!ValueOf(S, T) = Argument!Argument(s, T)
  BY <1>1 DEF Argument!ValueOf
<1>5. ~Argument!Normalizable(T) => Argument!ValueOf(S, T) = Argument!NoValue
  BY DEF Argument!ValueOf, Argument!Reviewable
<1> QED
  BY <1>2, <1>3, <1>4, <1>5

LEMMA FormOfType ==
    \A T \in InputTypes : Argument!Form(T) = "unsupported" <=> ~Argument!Normalizable(T)
<1> SUFFICES ASSUME NEW T \in InputTypes PROVE Argument!Form(T) = "unsupported" <=> ~Argument!Normalizable(T)
  OBVIOUS
<1>1. <<T, {}>> \in Argument!Visits
  BY DEF Argument!Visits
<1> QED
  BY <1>1, FormsAndReviewsAgree DEF Argument!Form, Argument!Normalizable

\* An input whose type cannot be shown is refused, given or not.
LEMMA UnsupportedIsRefused ==
    ASSUME NEW c \in GuidedCalls, NEW i \in DOMAIN c.inputs, Argument!Form(c.inputs[i].type) = "unsupported"
    PROVE  Argument!Resolve(c.inputs, c.request) = Argument!Refusal
<1>1. Len(c.inputs) \in Nat /\ DOMAIN c.inputs = 1..Len(c.inputs) /\ c.inputs[i].type \in InputTypes
  BY CallFacts
<1>2. ~Argument!Normalizable(c.inputs[i].type)
  BY <1>1, FormOfType
<1>3. ValueAt(c.inputs, c.request, i) = Argument!NoValue
  BY <1>2, ValueFacts DEF ValueAt
<1> QED
  BY <1>1, <1>3, ResolveFacts

LEMMA TakenByName ==
    ASSUME NEW inputs, NEW r, ~r.positional, NEW i \in DOMAIN inputs
    PROVE  Argument!Taken(inputs, r)[i] =
             Argument!Removed(Argument!Left(inputs, r.given)[i - 1], r.given, inputs[i].name)
BY DEF Argument!Taken

\* JSON under the name of a result: either that input takes it, or another input with
\* this name as its other spelling did and nothing is left for it.
LEMMA ResultIsNoJson ==
    ASSUME NEW c \in GuidedCalls, NEW i \in DOMAIN c.inputs, NEW k \in DOMAIN c.request.given,
           c.request.given[k].name = c.inputs[i].name, c.inputs[i].type.t = "result",
           c.request.given[k].source.s = "json",
           \A m \in DOMAIN c.inputs : c.inputs[m].name = c.inputs[i].name => m = i
    PROVE  Argument!Resolve(c.inputs, c.request) = Argument!Refusal
<1> DEFINE inputs == c.inputs
           r == c.request
           given == r.given
           T == inputs[i].type
           remaining == Argument!Left(inputs, given)
<1>1. Len(inputs) \in Nat /\ DOMAIN inputs = 1..Len(inputs) /\ r.positional \in BOOLEAN
  BY CallFacts
<1>2. CASE ~WellFormed(inputs, r)
  BY <1>1, <1>2, ResolveFacts
<1>3. CASE r.positional
  <2>1. given[k].source.s # "text"
    OBVIOUS
  <2>2. ~WellFormed(inputs, r)
    BY <1>3, <2>1 DEF WellFormed
  <2> QED
    BY <1>2, <2>2
<1>4. CASE WellFormed(inputs, r) /\ ~r.positional
  <2>1. Argument!NoDuplicates(given)
    BY <1>4 DEF WellFormed
  <2>2. i - 1 \in 0..Len(inputs) /\ remaining[i - 1] \subseteq DOMAIN given
    BY <1>1, LeftIsGiven
  <2>3. Argument!Taken(inputs, r)[i] = Argument!Removed(remaining[i - 1], given, inputs[i].name)
    BY <1>4, TakenByName
  <2>4. CASE k \in remaining[i - 1]
    <3>1. Argument!Taken(inputs, r)[i] = {k}
      BY <2>1, <2>2, <2>3, <2>4, RemovedFacts
    <3>2. Sources(inputs, r, i) = {given[k].source}
      BY <3>1 DEF Sources
    <3>3. ReadJson(given[k].source.json, T) = Argument!NoValue
      BY CallFacts
    <3>4. Argument!Argument(given[k].source, T) = Argument!NoValue
      BY <3>3 DEF Argument!Argument
    <3>5. ValueAt(inputs, r, i) = Argument!NoValue
      BY <3>2, <3>4, ValueFacts DEF ValueAt
    <3> QED
      BY <1>1, <3>5, ResolveFacts
  <2>5. CASE k \notin remaining[i - 1]
    <3>1. PICK m \in 1..(i - 1) : /\ k \in remaining[m - 1]
                                  /\ k \in Argument!Removed(remaining[m - 1], given, inputs[m].name)
      <4>1. k \in DOMAIN given
        OBVIOUS
      <4> HIDE DEF inputs, given
      <4>2. \E m \in 1..(i - 1) :
              /\ k \in Argument!Left(inputs, given)[m - 1]
              /\ k \in Argument!Removed(Argument!Left(inputs, given)[m - 1], given, inputs[m].name)
        BY <1>1, <2>2, <2>5, <4>1, TakenBefore
      <4> QED
        BY <4>2
    <3>2. m \in DOMAIN inputs /\ m # i /\ m - 1 \in 0..Len(inputs) /\ remaining[m - 1] \subseteq DOMAIN given
      BY <1>1, LeftIsGiven
    <3>3. given[k].name \in {inputs[m].name, Spelling[inputs[m].name]}
      BY <2>1, <3>1, <3>2, RemovedFacts
    <3>4. inputs[i].name = Spelling[inputs[m].name] /\ Spelling[inputs[i].name] = inputs[i].name
      BY <3>2, <3>3, CallFacts
    <3>5. \A x \in remaining[i - 1] : given[x].name \notin {inputs[i].name, Spelling[inputs[i].name]}
      BY <2>1, <2>2, <2>5, <3>4 DEF Argument!NoDuplicates
    <3>6. Argument!Taken(inputs, r)[i] = {}
      BY <2>1, <2>2, <2>3, <3>5, RemovedFacts
    <3>7. Sources(inputs, r, i) = {} /\ T.t # "option"
      BY <3>6 DEF Sources
    <3>8. ValueAt(inputs, r, i) = Argument!NoValue
      BY <3>7, ValueFacts DEF ValueAt
    <3> QED
      BY <1>1, <3>8, ResolveFacts
  <2> QED
    BY <2>4, <2>5
<1> QED
  BY <1>2, <1>3, <1>4

\* With an encoded argument for every input, each under its name and no other, the first
\* inputs leave the arguments of the others.
LEMMA NamedAreLeft ==
    ASSUME NEW inputs, NEW given, Len(inputs) \in Nat, DOMAIN inputs = 1..Len(inputs),
           Argument!NoDuplicates(given), Argument!NoDuplicates(inputs),
           \A i \in DOMAIN inputs : \E k \in DOMAIN given : given[k].name = inputs[i].name
    PROVE  \A i \in 0..Len(inputs) : Argument!Left(inputs, given)[i] =
             {k \in DOMAIN given : \A m \in 1..i : given[k].name # inputs[m].name}
<1> DEFINE remaining == Argument!Left(inputs, given)
           rest(i) == {k \in DOMAIN given : \A m \in 1..i : given[k].name # inputs[m].name}
           T == {i \in 0..Len(inputs) : remaining[i] # rest(i)}
<1> SUFFICES ASSUME T # {} PROVE FALSE
  OBVIOUS
<1>1. PICK x \in T : \A y \in T : x <= y
  <2>1. T \subseteq Nat
    OBVIOUS
  <2> HIDE DEF T
  <2> QED
    BY <2>1, LeastNat
<1> HIDE DEF remaining
<1>2. remaining[0] = rest(0)
  BY LeftSteps DEF remaining
<1>3. x # 0 /\ x \in 1..Len(inputs) /\ x - 1 \in 0..Len(inputs) /\ x - 1 \notin T
  BY <1>1, <1>2
<1>4. remaining[x - 1] = rest(x - 1)
  BY <1>3
<1>5. remaining[x] = remaining[x - 1] \ Argument!Removed(remaining[x - 1], given, inputs[x].name)
  BY <1>3, LeftSteps DEF remaining
<1>6. PICK k \in DOMAIN given : given[k].name = inputs[x].name
  BY <1>3
<1>7. k \in rest(x - 1)
  <2> SUFFICES ASSUME NEW m \in 1..(x - 1) PROVE given[k].name # inputs[m].name
    OBVIOUS
  <2>1. m \in DOMAIN inputs /\ x \in DOMAIN inputs /\ m # x
    BY <1>3
  <2> QED
    BY <1>6, <2>1 DEF Argument!NoDuplicates
<1>8. Argument!Removed(remaining[x - 1], given, inputs[x].name) = {k}
  <2>1. remaining[x - 1] \subseteq DOMAIN given /\ k \in remaining[x - 1]
    BY <1>4, <1>7
  <2> QED
    BY <1>6, <2>1, RemovedFacts
<1>9. rest(x) = rest(x - 1) \ {k}
  <2>1. \A m : m \in 1..x <=> m \in 1..(x - 1) \/ m = x
    BY <1>3
  <2>2. \A n \in DOMAIN given : given[n].name = inputs[x].name <=> n = k
    BY <1>6 DEF Argument!NoDuplicates
  <2> QED
    BY <2>1, <2>2
<1> QED
  BY <1>1, <1>4, <1>5, <1>8, <1>9

LEMMA EncodedIsAccepted ==
    ASSUME NEW c \in GuidedCalls, ~c.request.positional,
           Argument!NoDuplicates(c.request.given), Argument!NoDuplicates(c.inputs),
           \A k \in DOMAIN c.request.given : \E i \in DOMAIN c.inputs : c.request.given[k].name = c.inputs[i].name,
           \A i \in DOMAIN c.inputs :
             /\ Argument!Form(c.inputs[i].type) # "unsupported"
             /\ \E k \in DOMAIN c.request.given :
                  /\ c.request.given[k].name = c.inputs[i].name
                  /\ c.request.given[k].source.s = "xdr"
                  /\ Fits(c.request.given[k].source.value, c.inputs[i].type)
                  /\ Ordered(c.request.given[k].source.value, c.inputs[i].type)
    PROVE  LET values == Argument!Resolve(c.inputs, c.request) IN
           /\ values # Argument!Refusal
           /\ \A i \in DOMAIN c.inputs, k \in DOMAIN c.request.given :
                c.request.given[k].name = c.inputs[i].name => values[i] = c.request.given[k].source.value
<1> DEFINE inputs == c.inputs
           r == c.request
           given == r.given
           remaining == Argument!Left(inputs, given)
<1>1. Len(inputs) \in Nat /\ DOMAIN inputs = 1..Len(inputs)
  BY CallFacts
<1>2. \A i \in 0..Len(inputs) :
        remaining[i] = {k \in DOMAIN given : \A m \in 1..i : given[k].name # inputs[m].name}
  <2>1. \A i \in DOMAIN inputs : \E k \in DOMAIN given : given[k].name = inputs[i].name
    OBVIOUS
  <2>2. Argument!NoDuplicates(given) /\ Argument!NoDuplicates(inputs)
    OBVIOUS
  <2> HIDE DEF inputs, given
  <2> QED
    BY <1>1, <2>1, <2>2, NamedAreLeft
<1>3. Argument!AllKnown(inputs, given)
  <2>1. Len(inputs) \in 0..Len(inputs)
    BY <1>1
  <2>2. remaining[Len(inputs)] = {}
    BY <1>1, <1>2, <2>1
  <2> QED
    BY <2>2 DEF Argument!AllKnown
<1>4. WellFormed(inputs, r)
  BY <1>3 DEF WellFormed
<1>5. ASSUME NEW i \in DOMAIN inputs, NEW k \in DOMAIN given, given[k].name = inputs[i].name
      PROVE  ValueAt(inputs, r, i) = given[k].source.value /\ given[k].source.value # Argument!NoValue
  <2> DEFINE T == inputs[i].type
             source == given[k].source
  <2>1. source.s = "xdr" /\ Fits(source.value, T) /\ Ordered(source.value, T)
    <3>1. PICK n \in DOMAIN given : /\ given[n].name = inputs[i].name
                                    /\ given[n].source.s = "xdr" /\ Fits(given[n].source.value, T)
                                    /\ Ordered(given[n].source.value, T)
      OBVIOUS
    <3>2. n = k
      BY <1>5, <3>1 DEF Argument!NoDuplicates
    <3> QED
      BY <3>1, <3>2
  <2>2. i - 1 \in 0..Len(inputs) /\ \A m \in 1..(i - 1) : m \in DOMAIN inputs /\ m # i
    BY <1>1
  <2>3. remaining[i - 1] \subseteq DOMAIN given /\ k \in remaining[i - 1]
    <3>1. \A m \in 1..(i - 1) : given[k].name # inputs[m].name
      BY <1>5, <2>2 DEF Argument!NoDuplicates
    <3> QED
      BY <1>2, <2>2, <3>1
  <2>4. Argument!Taken(inputs, r)[i] = {k}
    <3>1. Argument!Removed(remaining[i - 1], given, inputs[i].name) = {k}
      BY <1>5, <2>3, RemovedFacts
    <3>2. ~r.positional
      OBVIOUS
    <3> HIDE DEF inputs, r
    <3> QED
      BY <3>1, <3>2, TakenByName
  <2>5. Sources(inputs, r, i) = {source}
    BY <2>4 DEF Sources
  <2>6. Argument!Argument(source, T) = source.value
    BY <2>1 DEF Argument!Argument
  <2>7. source.value # Argument!NoValue
    BY <2>1, CallFacts
  <2>8. Argument!Normalizable(T)
    BY CallFacts, FormOfType
  <2>9. Argument!Reviewable(source.value, T)
    BY <2>1, <2>8, CallFacts DEF Argument!Reviewable
  <2> HIDE DEF source, T
  <2>10. ValueAt(inputs, r, i) = source.value
    BY <2>5, <2>6, <2>7, <2>9, ValueFacts DEF ValueAt, T
  <2> QED
    BY <2>7, <2>10 DEF source
<1>6. \A i \in DOMAIN inputs : ValueAt(inputs, r, i) # Argument!NoValue
  <2> SUFFICES ASSUME NEW i \in DOMAIN inputs PROVE ValueAt(inputs, r, i) # Argument!NoValue
    OBVIOUS
  <2>1. PICK k \in DOMAIN given : given[k].name = inputs[i].name
    OBVIOUS
  <2> QED
    BY <1>5, <2>1
<1>7. /\ Argument!Resolve(inputs, r) # Argument!Refusal
      /\ Argument!Resolve(inputs, r) = [i \in DOMAIN inputs |-> ValueAt(inputs, r, i)]
  BY <1>1, <1>4, <1>6, ResolveFacts
<1>8. ASSUME NEW i \in DOMAIN inputs, NEW k \in DOMAIN given, given[k].name = inputs[i].name
      PROVE  Argument!Resolve(inputs, r)[i] = given[k].source.value
  BY <1>5, <1>7, <1>8
<1> QED
  BY <1>7, <1>8

-----------------------------------------------------------------------------
\* What an accepted input stands for.
LEMMA ArgumentMeans ==
    ASSUME NEW source, NEW T, source.s \in {"text", "json", "xdr"}
    PROVE  Argument!Means(source, T, Argument!Argument(source, T))
BY DEF Argument!Means, Argument!Argument, Argument!TextArgument

\* The inputs of an accepted call: with one argument that is its value, or with none.
LEMMA AcceptedInputs ==
    ASSUME NEW c \in GuidedCalls, Argument!Resolve(c.inputs, c.request) # Argument!Refusal, NEW i \in DOMAIN c.inputs
    PROVE  LET value == Argument!Resolve(c.inputs, c.request)[i]
               taken == Argument!Taken(c.inputs, c.request)[i]
           IN  /\ \A k \in DOMAIN c.request.given : taken = {k} =>
                    Argument!Means(c.request.given[k].source, c.inputs[i].type, value)
               /\ taken = {} => c.inputs[i].type.t = "option" /\ value = Argument!VoidValue
<1> DEFINE T == c.inputs[i].type
           value == ValueAt(c.inputs, c.request, i)
           S == Sources(c.inputs, c.request, i)
           taken == Argument!Taken(c.inputs, c.request)[i]
<1>1. Len(c.inputs) \in Nat /\ DOMAIN c.inputs = 1..Len(c.inputs)
  BY CallFacts
<1>2. value # Argument!NoValue /\ Argument!Resolve(c.inputs, c.request)[i] = value
  BY <1>1, ResolveFacts
<1>3. ASSUME NEW k \in DOMAIN c.request.given, taken = {k}
      PROVE  Argument!Means(c.request.given[k].source, T, value)
  <2>1. S = {c.request.given[k].source}
    BY <1>3 DEF Sources
  <2>2. value = Argument!Argument(c.request.given[k].source, T)
    BY <1>2, <2>1, ValueFacts DEF ValueAt
  <2>3. c.request.given[k].source.s \in {"text", "json", "xdr"}
    BY CallFacts
  <2> QED
    BY <2>2, <2>3, ArgumentMeans
<1>4. ASSUME taken = {} PROVE T.t = "option" /\ value = Argument!VoidValue
  <2>1. S = {}
    BY <1>4 DEF Sources
  <2> QED
    BY <1>2, <2>1, ValueFacts DEF ValueAt
<1> QED
  BY <1>2, <1>3, <1>4

\* An accepted call has a place for every argument that was given.
LEMMA PlacesExist ==
    ASSUME NEW c \in GuidedCalls, Argument!Resolve(c.inputs, c.request) # Argument!Refusal
    PROVE  \E place \in [DOMAIN c.request.given -> DOMAIN c.inputs] :
             /\ \A k, m \in DOMAIN c.request.given : place[k] = place[m] => k = m
             /\ \A k \in DOMAIN c.request.given : Argument!Taken(c.inputs, c.request)[place[k]] = {k}
             /\ \A k \in DOMAIN c.request.given :
                  IF c.request.positional THEN place[k] = k
                  ELSE c.request.given[k].name \in {c.inputs[place[k]].name, Spelling[c.inputs[place[k]].name]}
             /\ \A i \in DOMAIN c.inputs \ {place[k] : k \in DOMAIN c.request.given} :
                  Argument!Taken(c.inputs, c.request)[i] = {}
<1> DEFINE inputs == c.inputs
           r == c.request
           given == r.given
           remaining == Argument!Left(inputs, given)
           taken == Argument!Taken(inputs, r)
           takes(i, k) == IF r.positional THEN i = k ELSE given[k].name \in {inputs[i].name, Spelling[inputs[i].name]}
<1>1. Len(inputs) \in Nat /\ DOMAIN inputs = 1..Len(inputs) /\ r.positional \in BOOLEAN
      /\ Len(given) \in Nat /\ DOMAIN given = 1..Len(given)
  BY CallFacts
<1>2. WellFormed(inputs, r)
  BY <1>1, ResolveFacts
<1>3. ASSUME NEW k \in DOMAIN given
      PROVE  \E i \in DOMAIN inputs : taken[i] = {k} /\ takes(i, k)
  <2>1. CASE r.positional
    <3>1. k \in DOMAIN inputs
      BY <1>1, <1>2, <2>1 DEF WellFormed
    <3>2. taken[k] = {k}
      BY <2>1, <3>1 DEF Argument!Taken
    <3> QED
      BY <2>1, <3>1, <3>2
  <2>2. CASE ~r.positional
    <3>1. Argument!NoDuplicates(given) /\ remaining[Len(inputs)] = {}
      BY <1>2, <2>2 DEF WellFormed, Argument!AllKnown
    <3>2. Len(inputs) \in 0..Len(inputs) /\ k \notin remaining[Len(inputs)]
      BY <1>1, <3>1
    <3>3. PICK i \in 1..Len(inputs) : k \in Argument!Removed(remaining[i - 1], given, inputs[i].name)
      <4>1. k \in DOMAIN given
        OBVIOUS
      <4> HIDE DEF inputs, given
      <4> QED
        BY <1>1, <3>2, <4>1, TakenBefore
    <3>4. i \in DOMAIN inputs /\ i - 1 \in 0..Len(inputs)
      BY <1>1
    <3>5. remaining[i - 1] \subseteq DOMAIN given
      BY <1>1, <3>4, LeftIsGiven
    <3>6. /\ \A m \in Argument!Removed(remaining[i - 1], given, inputs[i].name) : m = k
          /\ given[k].name \in {inputs[i].name, Spelling[inputs[i].name]}
      BY <3>1, <3>3, <3>5, RemovedFacts
    <3>7. taken[i] = Argument!Removed(remaining[i - 1], given, inputs[i].name)
      BY <2>2, <3>4 DEF Argument!Taken
    <3>8. taken[i] = {k}
      BY <3>3, <3>6, <3>7
    <3> QED
      BY <2>2, <3>4, <3>6, <3>8
  <2> QED
    BY <2>1, <2>2
<1>4. ASSUME NEW i \in DOMAIN inputs, taken[i] # {}
      PROVE  \E k \in DOMAIN given : taken[i] = {k}
  <2>1. CASE r.positional
    BY <1>4, <2>1 DEF Argument!Taken
  <2>2. CASE ~r.positional
    <3>1. Argument!NoDuplicates(given)
      BY <1>2, <2>2 DEF WellFormed
    <3>2. i - 1 \in 0..Len(inputs) /\ remaining[i - 1] \subseteq DOMAIN given
      BY <1>1, LeftIsGiven
    <3>3. taken[i] = Argument!Removed(remaining[i - 1], given, inputs[i].name)
      BY <2>2 DEF Argument!Taken
    <3>4. taken[i] \subseteq DOMAIN given /\ \A k, m \in taken[i] : k = m
      <4>1. /\ Argument!Removed(remaining[i - 1], given, inputs[i].name) \subseteq remaining[i - 1]
            /\ \A k, m \in Argument!Removed(remaining[i - 1], given, inputs[i].name) : k = m
        BY <3>1, <3>2, RemovedFacts
      <4> QED
        BY <3>2, <3>3, <4>1
    <3> HIDE DEF taken
    <3> QED
      BY <1>4, <3>4
  <2> QED
    BY <2>1, <2>2
<1> DEFINE place == [k \in DOMAIN given |-> CHOOSE i \in DOMAIN inputs : taken[i] = {k} /\ takes(i, k)]
<1> HIDE DEF taken, takes
<1>5. ASSUME NEW i \in DOMAIN inputs, NEW j \in DOMAIN inputs, NEW k \in DOMAIN given, taken[i] = {k}, taken[j] = {k}
      PROVE  i = j
  <2>1. CASE r.positional
    BY <1>5, <2>1 DEF Argument!Taken, taken
  <2>2. CASE ~r.positional
    <3>1. Argument!NoDuplicates(given)
      BY <1>2, <2>2 DEF WellFormed
    <3>2. k \in Argument!Removed(remaining[i - 1], given, inputs[i].name) /\ k \in Argument!Removed(remaining[j - 1], given, inputs[j].name)
      BY <1>5, <2>2, TakenByName DEF taken
    <3>3. i \in 1..Len(inputs) /\ j \in 1..Len(inputs)
      BY <1>1
    <3> HIDE DEF inputs, given
    <3> QED
      BY <1>1, <3>1, <3>2, <3>3, TakenOnce
  <2> QED
    BY <2>1, <2>2
<1>6. \A k \in DOMAIN given : place[k] \in DOMAIN inputs /\ taken[place[k]] = {k} /\ takes(place[k], k)
  BY <1>3
<1>7. place \in [DOMAIN given -> DOMAIN inputs]
  BY <1>6
<1> HIDE DEF place
<1>8. \A k, m \in DOMAIN given : place[k] = place[m] => k = m
  BY <1>6
<1>9. \A i \in DOMAIN inputs \ {place[k] : k \in DOMAIN given} : taken[i] = {}
  <2> SUFFICES ASSUME NEW i \in DOMAIN inputs, taken[i] # {} PROVE \E k \in DOMAIN given : place[k] = i
    OBVIOUS
  <2>1. PICK k \in DOMAIN given : taken[i] = {k}
    BY <1>4
  <2>2. taken[place[k]] = {k} /\ place[k] \in DOMAIN inputs
    BY <1>6
  <2> QED
    BY <1>5, <2>1, <2>2
<1> QED
  BY <1>6, <1>7, <1>8, <1>9 DEF taken, takes

-----------------------------------------------------------------------------
Answered(c) ==
    /\ call.inputs = c.inputs /\ call.request = c.request
    /\ call.values = Argument!Resolve(c.inputs, c.request)

CallInv == call = Argument!NoCall \/ \E c \in GuidedCalls : Answered(c)

LEMMA CallStep == CallInv /\ [Argument!Next]_(Argument!vars) => CallInv'
<1> SUFFICES ASSUME CallInv, [Argument!Next]_(Argument!vars) PROVE CallInv'
  OBVIOUS
<1>1. CASE Argument!Next
  <2>1. PICK c \in GuidedCalls : Argument!Invoke(c.inputs, c.request)
    BY <1>1 DEF Argument!Next
  <2>2. Answered(c)'
    BY <2>1 DEF Argument!Invoke, Answered
  <2> QED
    BY <2>2 DEF CallInv
<1>2. CASE UNCHANGED Argument!vars
  BY <1>2 DEF CallInv, Answered, Argument!vars
<1> QED
  BY <1>1, <1>2

LEMMA FormsAreHonest == ASSUME NEW c \in GuidedCalls, Answered(c) PROVE Argument!FormIsHonest
<1>1. \A i \in DOMAIN call.inputs :
        Argument!Form(call.inputs[i].type) = "unsupported" => call.values = Argument!Refusal
  BY UnsupportedIsRefused DEF Answered
<1>2. \A i \in DOMAIN call.inputs, k \in DOMAIN call.request.given :
        (/\ call.request.given[k].name = call.inputs[i].name
         /\ call.inputs[i].type.t = "result" /\ call.request.given[k].source.s = "json"
         /\ \A m \in DOMAIN call.inputs : call.inputs[m].name = call.inputs[i].name => m = i) =>
        call.values = Argument!Refusal
  BY ResultIsNoJson DEF Answered
<1>3. (/\ ~call.request.positional
       /\ Argument!NoDuplicates(call.request.given) /\ Argument!NoDuplicates(call.inputs)
       /\ \A k \in DOMAIN call.request.given : \E i \in DOMAIN call.inputs :
            call.request.given[k].name = call.inputs[i].name
       /\ \A i \in DOMAIN call.inputs :
            /\ Argument!Form(call.inputs[i].type) # "unsupported"
            /\ \E k \in DOMAIN call.request.given :
                 /\ call.request.given[k].name = call.inputs[i].name
                 /\ call.request.given[k].source.s = "xdr"
                 /\ Fits(call.request.given[k].source.value, call.inputs[i].type)
                 /\ Ordered(call.request.given[k].source.value, call.inputs[i].type)) =>
      /\ call.values # Argument!Refusal
      /\ \A i \in DOMAIN call.inputs, k \in DOMAIN call.request.given :
           call.request.given[k].name = call.inputs[i].name => call.values[i] = call.request.given[k].source.value
  BY EncodedIsAccepted DEF Answered
<1> QED
  BY <1>1, <1>2, <1>3 DEF Argument!FormIsHonest

LEMMA ArgumentsArePlaced == ASSUME NEW c \in GuidedCalls, Answered(c) PROVE Argument!ArgumentsAreTaken
<1> SUFFICES ASSUME call.values # Argument!Refusal PROVE Argument!ArgumentsAreTaken
  BY DEF Argument!ArgumentsAreTaken
<1> DEFINE inputs == c.inputs
           given == c.request.given
<1>1. call.inputs = inputs /\ call.request = c.request /\ call.values = Argument!Resolve(c.inputs, c.request)
  BY DEF Answered
<1>2. PICK place \in [DOMAIN given -> DOMAIN inputs] :
        /\ \A k, m \in DOMAIN given : place[k] = place[m] => k = m
        /\ \A k \in DOMAIN given : Argument!Taken(inputs, c.request)[place[k]] = {k}
        /\ \A k \in DOMAIN given :
             IF c.request.positional THEN place[k] = k
             ELSE given[k].name \in {inputs[place[k]].name, Spelling[inputs[place[k]].name]}
        /\ \A i \in DOMAIN inputs \ {place[k] : k \in DOMAIN given} : Argument!Taken(inputs, c.request)[i] = {}
  BY <1>1, PlacesExist
<1>3. \A k \in DOMAIN given : Argument!Means(given[k].source, inputs[place[k]].type, call.values[place[k]])
  BY <1>1, <1>2, AcceptedInputs
<1>4. \A i \in DOMAIN inputs \ {place[k] : k \in DOMAIN given} :
        inputs[i].type.t = "option" /\ call.values[i] = Argument!VoidValue
  BY <1>1, <1>2, AcceptedInputs
<1> QED
  BY <1>1, <1>2, <1>3, <1>4 DEF Argument!ArgumentsAreTaken

LEMMA NothingGiven == call = Argument!NoCall => Argument!FormIsHonest /\ Argument!ArgumentsAreTaken
<1> SUFFICES ASSUME call = Argument!NoCall PROVE Argument!FormIsHonest /\ Argument!ArgumentsAreTaken
  OBVIOUS
<1>1. /\ call.inputs = <<>> /\ call.request.given = <<>> /\ call.values = <<>>
      /\ DOMAIN call.inputs = {} /\ DOMAIN call.request.given = {}
  BY DEF Argument!NoCall
<1>2. <<>> # Argument!Refusal
  BY DEF Argument!Refusal
<1>3. Argument!FormIsHonest
  BY <1>1, <1>2 DEF Argument!FormIsHonest
<1>4. Argument!ArgumentsAreTaken
  <2> DEFINE place == [k \in {} |-> k]
  <2>1. place \in [DOMAIN call.request.given -> DOMAIN call.inputs]
    BY <1>1
  <2> HIDE DEF place
  <2> QED
    BY <1>1, <2>1 DEF Argument!ArgumentsAreTaken
<1> QED
  BY <1>3, <1>4

\* What the interface advertises for an input is what a call accepts, and an accepted call
\* takes every argument given, each for one input and as what it means
\* (ContractInvokeRequest::resolve, contract_input_composition), for any contract spec, any
\* names of accounts and any conversions of texts and JSON.
THEOREM ArgumentsAreHonest == Argument!Spec => [](Argument!FormIsHonest /\ Argument!ArgumentsAreTaken)
<1>1. Argument!Init => CallInv
  BY DEF Argument!Init, CallInv
<1>2. CallInv => Argument!FormIsHonest /\ Argument!ArgumentsAreTaken
  BY FormsAreHonest, ArgumentsArePlaced, NothingGiven DEF CallInv
<1> QED
  BY <1>1, <1>2, CallStep, PTL DEF Argument!Spec

\* A guided call is honest: the code shown is the one simulated, a call shown as a read has no
\* effect (prepare_contract_invoke), and arguments are as ArgumentsAreHonest has them.
THEOREM GuidedCallsAreHonest == Spec /\ Argument!Spec => []GuidedCallIsHonest
BY ReviewedCode, ReadsAreReads, ArgumentsAreHonest, PTL DEF GuidedCallIsHonest

-----------------------------------------------------------------------------
(***************************************************************************)
(* Payments, trustlines and offers.                                        *)
(***************************************************************************)
Positive == Nat \ {0}

LEMMA Quotient ==
    ASSUME NEW a \in Nat, NEW b \in Positive
    PROVE  /\ (a \div b) \in Nat
           /\ b * (a \div b) <= a /\ a < b * (a \div b) + b
BY DEF Positive

LEMMA QuotientOfSum ==
    ASSUME NEW a \in Nat, NEW b \in Positive, NEW k \in Nat
    PROVE  (a + k * b) \div b = (a \div b) + k
BY DEF Positive

LEMMA QuotientGrows ==
    ASSUME NEW a \in Nat, NEW b \in Positive, NEW c \in Nat, a <= c
    PROVE  (a \div b) <= (c \div b)
BY DEF Positive

LEMMA QuotientBound ==
    ASSUME NEW a \in Nat, NEW b \in Positive, NEW m \in Nat, a <= m * b
    PROVE  (a \div b) <= m
BY DEF Positive

LEMMA ProductGrows ==
    ASSUME NEW a \in Nat, NEW b \in Nat, NEW c \in Nat, a <= b
    PROVE  a * c <= b * c
OBVIOUS

-----------------------------------------------------------------------------
(***************************************************************************)
(* Liabilities.  Amounts are within the range, so the exchange is never    *)
(* limited by it (wheatStays).                                             *)
(***************************************************************************)
Value(n, d, mw, ms) == IF mw * n < ms * d THEN mw * n ELSE ms * d

Normal(n, d, v) ==
    IF n > d THEN [selling |-> v \div n, buying |-> ((v \div n) * n) \div d]
    ELSE [selling |-> (((v \div d) * d) + n - 1) \div n, buying |-> v \div d]

LEMMA ValueBound ==
    ASSUME NEW n \in Positive, NEW d \in Positive, NEW mw \in Nat, NEW ms \in Nat
    PROVE  /\ Value(n, d, mw, ms) \in Nat
           /\ Value(n, d, mw, ms) <= mw * n
           /\ Value(n, d, mw, ms) <= ms * d
BY DEF Value, Positive

LEMMA ExchangeForm ==
    ASSUME NEW n \in Positive, NEW d \in Positive, NEW mw \in 0..Int64Max, NEW ms \in 0..Int64Max,
           Int64Max \in Nat
    PROVE  Write!Exchange(n, d, mw, ms) = Normal(n, d, Value(n, d, mw, ms))
<1> DEFINE v == Value(n, d, mw, ms)
           m == Write!Smaller(n, d)
<1>1. v \in Nat /\ v <= mw * n /\ v <= ms * d
  BY ValueBound
<1>2. mw * n <= Int64Max * n /\ ms * d <= Int64Max * d
  BY ProductGrows DEF Positive
<1>3. m = n \/ m = d
  BY DEF Write!Smaller
<1>4. Int64Max * m \in Nat /\ v <= Int64Max * m
  BY <1>1, <1>2, <1>3 DEF Positive
<1>5. Write!Smaller(mw * n, ms * d) = v
  BY DEF Write!Smaller, Value
<1>6. ~(v > Int64Max * m) /\ Write!Smaller(v, Int64Max * m) = v
  BY <1>1, <1>4 DEF Write!Smaller
<1> HIDE DEF v, m
<1>7. Write!Exchange(n, d, mw, ms) = Normal(n, d, v)
  BY <1>5, <1>6 DEF Write!Exchange, Write!CeilDiv, Normal, m
<1> QED
  BY <1>7 DEF v

\* Neither side of an exchange is more than its bound.
LEMMA NormalBound ==
    ASSUME NEW n \in Positive, NEW d \in Positive, NEW mw \in Nat, NEW ms \in Nat,
           NEW v \in Nat, v <= mw * n, v <= ms * d
    PROVE  /\ Normal(n, d, v).selling \in 0..mw
           /\ Normal(n, d, v).buying \in 0..ms
<1>1. CASE n > d
  <2> DEFINE w == v \div n
  <2>1. w \in Nat /\ n * w <= v /\ w <= mw
    BY Quotient, QuotientBound
  <2> HIDE DEF w
  <2>2. w * n \in Nat /\ w * n <= ms * d
    BY <2>1 DEF Positive
  <2>3. ((w * n) \div d) \in Nat /\ ((w * n) \div d) <= ms
    BY <2>2, Quotient, QuotientBound
  <2>4. Normal(n, d, v) = [selling |-> w, buying |-> (w * n) \div d]
    BY <1>1 DEF Normal, w
  <2> QED
    BY <2>1, <2>3, <2>4
<1>2. CASE ~(n > d)
  <2> DEFINE s == v \div d
  <2>1. s \in Nat /\ d * s <= v /\ s <= ms
    BY Quotient, QuotientBound
  <2> HIDE DEF s
  <2>2. s * d \in Nat /\ s * d <= mw * n
    BY <2>1 DEF Positive
  <2> DEFINE c == ((s * d) + n - 1)
  <2>3. c \in Nat /\ c <= (n - 1) + mw * n /\ n - 1 \in Nat /\ (n - 1) + mw * n \in Nat
    BY <2>2 DEF Positive
  <2>4. ((n - 1) \div n) = 0
    BY DEF Positive
  <2>5. (((n - 1) + mw * n) \div n) = mw
    BY <2>3, <2>4, QuotientOfSum
  <2>6. Normal(n, d, v) = [selling |-> c \div n, buying |-> s]
    BY <1>2 DEF Normal, s
  <2> HIDE DEF c
  <2>7. (c \div n) \in Nat /\ (c \div n) <= mw
    BY <2>3, <2>5, Quotient, QuotientGrows
  <2> QED
    BY <2>1, <2>6, <2>7
<1> QED
  BY <1>1, <1>2

\* Representable, for what can be asked.
LEMMA LiabilitiesBound ==
    ASSUME NEW side \in {"sell", "buy"}, NEW amount \in 0..Int64Max, NEW price \in Write!Prices
    PROVE  /\ Write!OfferLiabilities(side, amount, price).selling \in 0..Int64Max
           /\ Write!OfferLiabilities(side, amount, price).buying \in 0..Int64Max
<1>1. Int64Max \in Nat /\ price.n \in Positive /\ price.d \in Positive
  BY WritesAssumption DEF Write!BoundsAssumption, Write!Prices, Positive
<1>2. ASSUME NEW n \in Positive, NEW d \in Positive, NEW mw \in 0..Int64Max, NEW ms \in 0..Int64Max
      PROVE  /\ Write!Exchange(n, d, mw, ms).selling \in 0..Int64Max
             /\ Write!Exchange(n, d, mw, ms).buying \in 0..Int64Max
  <2> DEFINE v == Value(n, d, mw, ms)
  <2>1. v \in Nat /\ v <= mw * n /\ v <= ms * d
    BY <1>1, ValueBound
  <2>2. Write!Exchange(n, d, mw, ms) = Normal(n, d, v)
    BY <1>1, ExchangeForm
  <2> HIDE DEF v
  <2>3. Normal(n, d, v).selling \in 0..mw /\ Normal(n, d, v).buying \in 0..ms
    BY <1>1, <2>1, NormalBound
  <2> QED
    BY <1>1, <2>2, <2>3
<1> QED
  BY <1>1, <1>2 DEF Write!OfferLiabilities

\* A part that the price divides takes no more off either side than its own amounts.
LEMMA NormalShrinks ==
    ASSUME NEW n \in Positive, NEW d \in Positive, NEW w \in Nat, NEW s \in Nat, s * d = w * n,
           NEW large \in Nat, NEW small \in Nat, small <= large, large <= small + w * n
    PROVE  /\ Normal(n, d, large).selling <= Normal(n, d, small).selling + w
           /\ Normal(n, d, large).buying <= Normal(n, d, small).buying + s
<1>1. CASE n > d
  <2> DEFINE a == large \div n
             b == small \div n
  <2>1. (small + w * n) \div n = b + w
    BY QuotientOfSum
  <2>2. a \in Nat /\ b \in Nat /\ a <= b + w
    BY <2>1, Quotient, QuotientGrows DEF Positive
  <2>3. Normal(n, d, large) = [selling |-> a, buying |-> (a * n) \div d]
    BY <1>1 DEF Normal
  <2>4. Normal(n, d, small) = [selling |-> b, buying |-> (b * n) \div d]
    BY <1>1 DEF Normal
  <2> HIDE DEF a, b
  <2>5. a * n <= (b + w) * n /\ (b + w) * n = b * n + s * d /\ a * n \in Nat /\ b * n \in Nat
    BY <2>2, ProductGrows DEF Positive
  <2>6. (b * n + s * d) \div d = ((b * n) \div d) + s
    BY <2>5, QuotientOfSum
  <2>7. ((a * n) \div d) <= ((b * n) \div d) + s
    BY <2>5, <2>6, QuotientGrows DEF Positive
  <2> QED
    BY <2>2, <2>3, <2>4, <2>7
<1>2. CASE ~(n > d)
  <2> DEFINE a == large \div d
             b == small \div d
  <2>1. (small + s * d) \div d = b + s
    BY QuotientOfSum
  <2>2. a \in Nat /\ b \in Nat /\ a <= b + s
    BY <2>1, Quotient, QuotientGrows DEF Positive
  <2>3. Normal(n, d, large) = [selling |-> ((a * d) + n - 1) \div n, buying |-> a]
    BY <1>2 DEF Normal
  <2>4. Normal(n, d, small) = [selling |-> ((b * d) + n - 1) \div n, buying |-> b]
    BY <1>2 DEF Normal
  <2> HIDE DEF a, b
  <2>5. a * d <= (b + s) * d /\ (b + s) * d = b * d + w * n /\ a * d \in Nat /\ b * d \in Nat
    BY <2>2, ProductGrows DEF Positive
  <2> DEFINE e == (a * d) + n - 1
             f == (b * d) + n - 1
  <2>6. e \in Nat /\ f \in Nat /\ e <= f + w * n /\ w * n \in Nat
    BY <2>5 DEF Positive
  <2> HIDE DEF e, f
  <2>7. (f + w * n) \div n = (f \div n) + w
    BY <2>6, QuotientOfSum
  <2>8. (e \div n) <= (f \div n) + w
    BY <2>6, <2>7, QuotientGrows
  <2> QED
    BY <2>2, <2>3, <2>4, <2>8 DEF e, f
<1> QED
  BY <1>1, <1>2

LEMMA LiabilitiesShrink ==
    ASSUME NEW amount \in 0..Int64Max, NEW price \in Write!Prices,
           NEW w \in 0..amount, NEW s \in Nat, s * price.d = w * price.n
    PROVE  LET before == Write!OfferLiabilities("sell", amount, price)
               after == Write!OfferLiabilities("sell", amount - w, price)
           IN  before.selling <= after.selling + w /\ before.buying <= after.buying + s
<1> DEFINE n == price.n
           d == price.d
           large == Value(n, d, amount, Int64Max)
           small == Value(n, d, amount - w, Int64Max)
<1>1. Int64Max \in Nat /\ n \in Positive /\ d \in Positive
  BY WritesAssumption DEF Write!BoundsAssumption, Write!Prices, Positive
<1>2. w \in Nat /\ amount - w \in 0..Int64Max
  BY <1>1
<1>3. large \in Nat /\ small \in Nat
  <2> HIDE DEF n, d
  <2>1. amount \in Nat /\ amount - w \in Nat
    BY <1>1, <1>2
  <2> QED
    BY <1>1, <2>1, ValueBound
<1>4. (amount - w) * n + w * n = amount * n /\ w * n \in Nat
  BY <1>1, <1>2 DEF Positive
<1>5. (amount - w) * n \in Nat /\ amount * n \in Nat /\ Int64Max * d \in Nat
  BY <1>1, <1>2 DEF Positive
<1>6. small <= large /\ large <= small + w * n
  <2> HIDE DEF n, d
  <2> QED
    BY <1>4, <1>5 DEF Value
<1>7. Write!OfferLiabilities("sell", amount, price) = Normal(n, d, large)
  BY <1>1, ExchangeForm DEF Write!OfferLiabilities
<1>8. Write!OfferLiabilities("sell", amount - w, price) = Normal(n, d, small)
  BY <1>1, <1>2, ExchangeForm DEF Write!OfferLiabilities
<1>9. s * d = w * n
  OBVIOUS
<1> HIDE DEF n, d, large, small
<1>10. /\ Normal(n, d, large).selling <= Normal(n, d, small).selling + w
       /\ Normal(n, d, large).buying <= Normal(n, d, small).buying + s
  BY <1>1, <1>2, <1>3, <1>6, <1>9, NormalShrinks
<1> QED
  BY <1>7, <1>8, <1>10

\* One definition in two instances.
LEMMA SameLiabilities ==
    \A side, amount, price :
        Raced!OfferLiabilities(side, amount, price) = Write!OfferLiabilities(side, amount, price)
BY DEF Raced!OfferLiabilities, Write!OfferLiabilities, Raced!Exchange, Write!Exchange,
   Raced!Smaller, Write!Smaller, Raced!CeilDiv, Write!CeilDiv

-----------------------------------------------------------------------------
(***************************************************************************)
(* What a ledger holds, and how it counts after each of the operations.    *)
(***************************************************************************)
LEMMA Constants ==
    /\ Reserve \in Nat /\ Fee \in Nat /\ DefaultLimit \in Nat /\ DefaultLimit > 0
    /\ Int64Max \in Nat
BY WritesAssumption DEF Write!BoundsAssumption, Write!LedgerAssumption

LEMMA OfferNumbers ==
    ASSUME NEW w, w.offer \in Write!Offers, NEW asset
    PROVE  Write!Selling(w, asset) \in Nat /\ Write!Buying(w, asset) \in Nat
<1>1. CASE Write!HasOffer(w)
  <2>1. w.offer.side = "sell" /\ w.offer.amount \in 0..Int64Max /\ w.offer.price \in Write!Prices
    BY Constants DEF Write!Offers
  <2>2. Write!Liabilities(w) = Write!OfferLiabilities("sell", w.offer.amount, w.offer.price)
    BY <1>1, <2>1 DEF Write!Liabilities
  <2>3. Write!Liabilities(w).selling \in Nat /\ Write!Liabilities(w).buying \in Nat
    BY <2>1, <2>2, LiabilitiesBound, Constants
  <2> QED
    BY <2>3 DEF Write!Selling, Write!Buying
<1>2. CASE ~Write!HasOffer(w)
  BY <1>2 DEF Write!Selling, Write!Buying
<1> QED
  BY <1>1, <1>2

Entries(w) ==
    2 + w.others + (IF Write!HasLine(w) THEN 1 ELSE 0) + (IF Write!HasOffer(w) THEN 1 ELSE 0)

LEMMA Minimum ==
    /\ \A w : Write!MinimumOf(w) = Entries(w) * Reserve
    /\ \A k \in Nat : k * Reserve \in Nat /\ (k + 1) * Reserve = k * Reserve + Reserve
    /\ \A k \in Nat : (k + 2) * Reserve = k * Reserve + 2 * Reserve
BY Constants DEF Write!MinimumOf, Entries

\* The numbers of a ledger, as the arithmetic below needs them.
LEMMA Numbers ==
    ASSUME NEW w \in Write!Ledgers
    PROVE  /\ w.xlm \in Nat /\ w.others \in Nat /\ w.offer \in Write!Offers
           /\ w.line.balance \in Nat /\ w.line.limit \in Nat
           /\ w.dest.balance \in Nat /\ w.dest.limit \in Nat /\ w.dest.xlm \in Nat
           /\ Write!MinimumOf(w) \in Nat /\ Entries(w) \in Nat
           /\ \A asset : Write!Selling(w, asset) \in Nat /\ Write!Buying(w, asset) \in Nat
<1>1. /\ w.xlm \in Nat /\ w.others \in Nat /\ w.offer \in Write!Offers
      /\ w.line.balance \in Nat /\ w.line.limit \in Nat
      /\ w.dest.balance \in Nat /\ w.dest.limit \in Nat /\ w.dest.xlm \in Nat
  BY DEF Write!Ledgers
<1>2. Entries(w) \in Nat
  BY <1>1 DEF Entries
<1> QED
  BY <1>1, <1>2, Minimum, OfferNumbers

\* ensure_native_capacity and its like, on a legal ledger.
LEMMA Capacity ==
    ASSUME NEW w \in Write!Ledgers, Write!Legal(w), NEW x \in Nat
    PROVE  Write!HasCapacity(w, x) <=> w.xlm >= Write!Selling(w, "native") + Write!MinimumOf(w) + x
BY Numbers DEF Write!HasCapacity, Write!Free, Write!Minus, Write!Legal

\* A ledger with the same offer counts the same liabilities, ...
LEMMA SameOffer ==
    ASSUME NEW w, NEW after, after.offer = w.offer
    PROVE  /\ \A asset : Write!Selling(after, asset) = Write!Selling(w, asset)
           /\ \A asset : Write!Buying(after, asset) = Write!Buying(w, asset)
           /\ Write!HasOffer(after) = Write!HasOffer(w)
BY DEF Write!Selling, Write!Buying, Write!HasOffer, Write!Liabilities

\* ... and with the same entries the same minimum.
LEMMA SameEntries ==
    ASSUME NEW w, NEW after, after.offer = w.offer, after.others = w.others,
           Write!HasLine(after) = Write!HasLine(w)
    PROVE  Write!MinimumOf(after) = Write!MinimumOf(w)
BY Minimum, SameOffer DEF Entries

-----------------------------------------------------------------------------
(***************************************************************************)
(* Each kind of request: the checks and the ledger agree.                  *)
(***************************************************************************)
There(r, w) == Write!IsThere(w, r.to)

PaymentPasses(r, w) ==
    /\ ~There(r, w) => ~r.muxed /\ r.asset = "native" /\ r.amount >= 2 * Reserve
    /\ Write!ValidTransfer(w, r.asset, r.amount)
    /\ There(r, w) => /\ Write!ValidReceive(r.to, w.dest, r.asset, r.amount)
                      /\ Write!ValidMemo(r.muxed, Write!MemoRequired(w, r.to), r.memo)

PaymentOf(r, w) ==
    [op |-> IF There(r, w) THEN "payment" ELSE "create", to |-> r.to, asset |-> r.asset, amount |-> r.amount]

Pay == {r \in Write!Calls : r.kind = "pay"}

LEMMA PayTypes ==
    ASSUME NEW r \in Pay
    PROVE  /\ r.to \in {"account", "issuer"} /\ r.asset \in {"native", "usd", "own"}
           /\ r.to = "issuer" => r.asset = "usd"
           /\ r.amount \in Nat /\ r.amount > 0 /\ r.amount <= Int64Max
BY Constants DEF Pay, Write!Calls, Write!Assets

\* What leaves the wallet.
LEMMA TransferFits ==
    ASSUME NEW w \in Write!Ledgers, Write!Legal(w), NEW amount \in Nat, amount > 0
    PROVE  /\ Write!ValidTransfer(w, "own", amount) <=>
                w.xlm - Fee >= Write!Selling(w, "native") + Write!MinimumOf(w)
           /\ Write!ValidTransfer(w, "native", amount) <=>
                w.xlm - Fee - amount >= Write!Selling(w, "native") + Write!MinimumOf(w)
           /\ Write!ValidTransfer(w, "usd", amount) <=>
                /\ Write!HasLine(w) /\ w.line.auth = "full"
                /\ w.xlm - Fee >= Write!Selling(w, "native") + Write!MinimumOf(w)
                /\ w.line.balance - amount >= Write!Selling(w, "usd")
<1> DEFINE s == Write!Selling(w, "native")
           m == Write!MinimumOf(w)
           u == Write!Selling(w, "usd")
<1>1. /\ w.xlm \in Nat /\ w.line.balance \in Nat /\ s \in Nat /\ m \in Nat /\ u \in Nat
      /\ Fee \in Nat /\ w.xlm >= s + m /\ w.line.balance >= u
  BY Numbers, Constants DEF Write!Legal
<1>2. Write!HasCapacity(w, Fee) <=> w.xlm >= s + m + Fee
  BY Capacity, Constants
<1>3. Write!ValidTransfer(w, "own", amount) <=> Write!HasCapacity(w, Fee)
  BY DEF Write!ValidTransfer
<1>4. Write!ValidTransfer(w, "native", amount) <=>
        amount <= Write!Minus(Write!Minus(w.xlm, s + m), Fee)
  BY DEF Write!ValidTransfer, Write!Free
<1>5. Write!ValidTransfer(w, "usd", amount) <=>
        /\ Write!HasLine(w) /\ w.line.auth = "full" /\ Write!HasCapacity(w, Fee)
        /\ amount <= Write!Minus(w.line.balance, u)
  BY DEF Write!ValidTransfer, Write!AvailableBalance, Write!Balance
<1> HIDE DEF s, m, u
<1>6. amount <= Write!Minus(Write!Minus(w.xlm, s + m), Fee) <=> w.xlm - Fee - amount >= s + m
  BY <1>1 DEF Write!Minus
<1>7. amount <= Write!Minus(w.line.balance, u) <=> w.line.balance - amount >= u
  BY <1>1 DEF Write!Minus
<1>8. Write!HasCapacity(w, Fee) <=> w.xlm - Fee >= s + m
  BY <1>1, <1>2
<1> QED
  BY <1>3, <1>4, <1>5, <1>6, <1>7, <1>8 DEF s, m, u

LEMMA Acceptance ==
    ASSUME NEW w, NEW tx, tx.op \in {"payment", "create", "trust"}
    PROVE  Write!LedgerAccepts(w, tx) <=>
             /\ w.xlm - Fee >= Write!Selling(w, "native") + Write!MinimumOf(w)
             /\ Write!Allowed(w, tx)
             /\ Write!Legal(Write!After(w, tx))
BY DEF Write!LedgerAccepts, Write!FeeOf

\* The fields of the ledger after a payment.
LEMMA AfterPayment ==
    ASSUME NEW w \in Write!Ledgers, NEW tx, tx.op = "payment",
           tx.asset \in {"native", "usd", "own"}, tx.amount \in Nat
    PROVE  LET u == Write!After(w, tx)
               arrives == tx.to # "issuer" /\ tx.asset # "native"
               lumens == tx.to # "issuer" /\ tx.asset = "native"
           IN  /\ u.offer = w.offer /\ u.others = w.others
               /\ u.xlm = w.xlm - Fee - (IF tx.asset = "native" THEN tx.amount ELSE 0)
               /\ u.line.limit = w.line.limit
               /\ u.line.balance = w.line.balance - (IF tx.asset = "usd" THEN tx.amount ELSE 0)
               /\ u.dest.limit = w.dest.limit
               /\ u.dest.balance = w.dest.balance + (IF arrives THEN tx.amount ELSE 0)
               /\ u.dest.xlm = w.dest.xlm + (IF lumens THEN tx.amount ELSE 0)
<1> DEFINE paid == [w EXCEPT !.xlm = @ - Fee]
           sent == IF tx.asset = "native" THEN [paid EXCEPT !.xlm = @ - tx.amount]
                   ELSE IF tx.asset = "usd" THEN [paid EXCEPT !.line.balance = @ - tx.amount] ELSE paid
           u == IF tx.to = "issuer" THEN sent
                ELSE IF tx.asset = "native" THEN [sent EXCEPT !.dest.xlm = @ + tx.amount]
                ELSE [sent EXCEPT !.dest.balance = @ + tx.amount]
<1>1. Write!After(w, tx) = u
  BY DEF Write!After, Write!FeeOf
<1>2. /\ w.xlm \in Nat /\ w.line.balance \in Nat /\ w.dest.balance \in Nat /\ w.dest.xlm \in Nat /\ Fee \in Nat
      /\ DOMAIN w = {"xlm", "others", "pool", "offer", "line", "dest", "issuer"}
      /\ DOMAIN w.line = {"balance", "limit", "auth", "clawback"}
      /\ DOMAIN w.dest = {"exists", "xlm", "balance", "limit", "auth", "memoRequired"}
  BY Constants DEF Write!Ledgers
<1>3. /\ sent.offer = w.offer /\ sent.others = w.others /\ sent.dest = w.dest
      /\ sent.xlm = w.xlm - Fee - (IF tx.asset = "native" THEN tx.amount ELSE 0)
      /\ sent.line.limit = w.line.limit
      /\ sent.line.balance = w.line.balance - (IF tx.asset = "usd" THEN tx.amount ELSE 0)
      /\ DOMAIN sent = DOMAIN w
  <2>1. CASE tx.asset = "native"
    BY <1>2, <2>1
  <2>2. CASE tx.asset = "usd"
    BY <1>2, <2>2
  <2>3. CASE tx.asset = "own"
    BY <1>2, <2>3
  <2> QED
    BY <2>1, <2>2, <2>3
<1> HIDE DEF sent
<1>4. CASE tx.to = "issuer"
  <2>1. u = sent
    BY <1>4
  <2> QED
    BY <1>1, <1>2, <1>3, <1>4, <2>1
<1>5. CASE tx.to # "issuer" /\ tx.asset # "native"
  <2>1. /\ u.offer = sent.offer /\ u.others = sent.others /\ u.xlm = sent.xlm /\ u.line = sent.line
        /\ u.dest.limit = w.dest.limit /\ u.dest.balance = w.dest.balance + tx.amount
        /\ u.dest.xlm = w.dest.xlm
    BY <1>2, <1>3, <1>5
  <2> HIDE DEF u
  <2> QED
    BY <1>1, <1>2, <1>3, <1>5, <2>1
<1>6. CASE tx.to # "issuer" /\ tx.asset = "native"
  <2>1. /\ u.offer = sent.offer /\ u.others = sent.others /\ u.xlm = sent.xlm /\ u.line = sent.line
        /\ u.dest.limit = w.dest.limit /\ u.dest.balance = w.dest.balance
        /\ u.dest.xlm = w.dest.xlm + tx.amount
    BY <1>2, <1>3, <1>6
  <2> HIDE DEF u
  <2> QED
    BY <1>1, <1>2, <1>3, <1>6, <2>1
<1> QED
  BY <1>4, <1>5, <1>6

LEMMA AfterCreate ==
    ASSUME NEW w \in Write!Ledgers, NEW tx, tx.op = "create", tx.amount \in Nat
    PROVE  LET u == Write!After(w, tx)
           IN  /\ u.offer = w.offer /\ u.others = w.others /\ u.line = w.line
               /\ u.xlm = w.xlm - Fee - tx.amount
               /\ u.dest.limit = w.dest.limit /\ u.dest.balance = w.dest.balance /\ u.dest.xlm = tx.amount
BY Constants DEF Write!After, Write!FeeOf, Write!Ledgers

\* A payment is legal where nothing gets below what it has to hold or above its limit.
LEMMA PaymentFits ==
    ASSUME NEW w \in Write!Ledgers, Write!Legal(w), NEW r \in Pay, Write!IssuerIsThere(r, w)
    PROVE  PaymentPasses(r, w) <=> Write!Right(r, w)
<1> DEFINE tx == PaymentOf(r, w)
           u == Write!After(w, tx)
           s == Write!Selling(w, "native")
           m == Write!MinimumOf(w)
           MemoFits == IF r.muxed THEN r.memo # "other_id" ELSE r.memo = "none" => ~Write!MemoRequired(w, r.to)
<1>1. /\ r.to \in {"account", "issuer"} /\ r.asset \in {"native", "usd", "own"}
      /\ r.to = "issuer" => r.asset = "usd"
      /\ r.amount \in Nat /\ r.amount > 0 /\ r.amount <= Int64Max
  BY PayTypes
<1>0. There(r, w) <=> (r.to = "issuer" \/ w.dest.exists)
  BY DEF There, Pay, Write!IsThere, Write!IssuerIsThere
<1>2. /\ w.xlm \in Nat /\ w.line.balance \in Nat /\ w.line.limit \in Nat
      /\ w.dest.balance \in Nat /\ w.dest.limit \in Nat /\ w.dest.xlm \in Nat
      /\ s \in Nat /\ m \in Nat /\ Fee \in Nat
      /\ Write!Selling(w, "usd") \in Nat /\ Write!Buying(w, "usd") \in Nat /\ Write!Buying(w, "native") \in Nat
      /\ Int64Max \in Nat
  BY Numbers, Constants
<1>3. /\ w.xlm >= s + m /\ w.xlm + Write!Buying(w, "native") <= Int64Max
      /\ w.line.balance >= Write!Selling(w, "usd")
      /\ w.line.balance + Write!Buying(w, "usd") <= w.line.limit
      /\ w.dest.balance <= w.dest.limit /\ w.dest.xlm <= Int64Max
  BY DEF Write!Legal
<1>4. Write!Right(r, w) <=>
        /\ There(r, w) => MemoFits
        /\ ~There(r, w) => ~r.muxed /\ r.asset = "native"
        /\ w.xlm - Fee >= s + m /\ Write!Allowed(w, tx) /\ Write!Legal(u)
  <2>1. tx.op \in {"payment", "create", "trust"}
    BY DEF PaymentOf
  <2>2. Write!Right(r, w) <=>
        /\ There(r, w) => MemoFits
        /\ ~There(r, w) => ~r.muxed /\ r.asset = "native"
        /\ Write!LedgerAccepts(w, tx)
    BY <1>0 DEF Write!Right, Pay, PaymentOf
  <2> HIDE DEF tx
  <2> QED
    BY <2>1, <2>2, Acceptance
<1>5. CASE There(r, w)
  <2>1. tx = [op |-> "payment", to |-> r.to, asset |-> r.asset, amount |-> r.amount]
    BY <1>5 DEF PaymentOf
  <2> DEFINE arrives == r.to # "issuer" /\ r.asset # "native"
             lumens == r.to # "issuer" /\ r.asset = "native"
  <2>2. /\ u.offer = w.offer /\ u.others = w.others
        /\ u.xlm = w.xlm - Fee - (IF r.asset = "native" THEN r.amount ELSE 0)
        /\ u.line.limit = w.line.limit
        /\ u.line.balance = w.line.balance - (IF r.asset = "usd" THEN r.amount ELSE 0)
        /\ u.dest.limit = w.dest.limit
        /\ u.dest.balance = w.dest.balance + (IF arrives THEN r.amount ELSE 0)
        /\ u.dest.xlm = w.dest.xlm + (IF lumens THEN r.amount ELSE 0)
    <3> HIDE DEF tx
    <3>1. tx.op = "payment" /\ tx.asset = r.asset /\ tx.amount = r.amount /\ tx.to = r.to
      BY <2>1
    <3> QED
      BY <1>1, <3>1, AfterPayment
  <2>3. Write!Allowed(w, tx) <=>
          /\ r.asset = "usd" => Write!HasLine(w) /\ w.line.auth = "full"
          /\ arrives => w.dest.limit > 0 /\ w.dest.auth = "full"
    BY <1>0, <1>5, <2>1 DEF Write!Allowed, Write!Full
  <2> HIDE DEF tx, u
  <2>4. Write!HasLine(u) = Write!HasLine(w)
    BY <2>2 DEF Write!HasLine
  <2>5. Write!MinimumOf(u) = m /\ \A asset : /\ Write!Selling(u, asset) = Write!Selling(w, asset)
                                            /\ Write!Buying(u, asset) = Write!Buying(w, asset)
    BY <2>2, <2>4, SameOffer, SameEntries
  <2>6. Write!Legal(u) <=>
          /\ u.xlm >= s + m
          /\ u.line.balance >= Write!Selling(w, "usd")
          /\ u.dest.balance <= u.dest.limit
          /\ u.dest.xlm <= Int64Max
    BY <1>1, <1>2, <1>3, <2>2, <2>5 DEF Write!Legal
  <2>7. PaymentPasses(r, w) <=>
          /\ Write!ValidTransfer(w, r.asset, r.amount)
          /\ arrives => w.dest.limit > 0 /\ w.dest.auth = "full"
                        /\ r.amount <= Write!Minus(w.dest.limit, w.dest.balance)
          /\ lumens => r.amount <= Write!Minus(Int64Max, w.dest.xlm)
          /\ MemoFits
    BY <1>1, <1>5 DEF PaymentPasses, Write!ValidReceive, Write!ValidMemo
  <2>8. r.amount <= Write!Minus(w.dest.limit, w.dest.balance) <=> w.dest.balance + r.amount <= w.dest.limit
    BY <1>1, <1>2 DEF Write!Minus
  <2>12. r.amount <= Write!Minus(Int64Max, w.dest.xlm) <=> w.dest.xlm + r.amount <= Int64Max
    BY <1>1, <1>2 DEF Write!Minus
  <2> HIDE DEF s, m, arrives, lumens, MemoFits
  <2>9. CASE r.asset = "own"
    BY <1>1, <1>2, <1>3, <1>4, <1>5, <2>2, <2>3, <2>6, <2>7, <2>8, <2>12, <2>9, TransferFits
    DEF s, m, arrives, lumens
  <2>10. CASE r.asset = "native"
    BY <1>1, <1>2, <1>3, <1>4, <1>5, <2>2, <2>3, <2>6, <2>7, <2>8, <2>12, <2>10, TransferFits
    DEF s, m, arrives, lumens
  <2>11. CASE r.asset = "usd"
    BY <1>1, <1>2, <1>3, <1>4, <1>5, <2>2, <2>3, <2>6, <2>7, <2>8, <2>12, <2>11, TransferFits
    DEF s, m, arrives, lumens
  <2> QED
    BY <1>1, <2>9, <2>10, <2>11
<1>6. CASE ~There(r, w)
  <2>1. tx = [op |-> "create", to |-> r.to, asset |-> r.asset, amount |-> r.amount]
    BY <1>6 DEF PaymentOf
  <2>2. /\ u.offer = w.offer /\ u.others = w.others /\ u.line = w.line
        /\ u.xlm = w.xlm - Fee - r.amount
        /\ u.dest.limit = w.dest.limit /\ u.dest.balance = w.dest.balance /\ u.dest.xlm = r.amount
    <3> HIDE DEF tx
    <3>1. tx.op = "create" /\ tx.amount = r.amount
      BY <2>1
    <3> QED
      BY <1>1, <3>1, AfterCreate
  <2>3. Write!Allowed(w, tx) <=> r.amount >= 2 * Reserve
    BY <1>0, <1>6, <2>1 DEF Write!Allowed
  <2> HIDE DEF tx, u
  <2>4. Write!MinimumOf(u) = m /\ \A asset : /\ Write!Selling(u, asset) = Write!Selling(w, asset)
                                            /\ Write!Buying(u, asset) = Write!Buying(w, asset)
    <3>1. Write!HasLine(u) = Write!HasLine(w)
      BY <2>2 DEF Write!HasLine
    <3> QED
      BY <2>2, <3>1, SameOffer, SameEntries
  <2>5. Write!Legal(u) <=> u.xlm >= s + m
    BY <1>1, <1>2, <1>3, <2>2, <2>4 DEF Write!Legal
  <2>6. PaymentPasses(r, w) <=>
          /\ ~r.muxed /\ r.asset = "native" /\ r.amount >= 2 * Reserve
          /\ Write!ValidTransfer(w, r.asset, r.amount)
    BY <1>1, <1>6 DEF PaymentPasses
  <2> HIDE DEF s, m
  <2>7. r.asset = "native" => (Write!ValidTransfer(w, r.asset, r.amount) <=> w.xlm - Fee - r.amount >= s + m)
    BY <1>1, TransferFits DEF s, m
  <2> QED
    BY <1>1, <1>2, <1>4, <1>6, <2>2, <2>3, <2>5, <2>6, <2>7
<1> QED
  BY <1>5, <1>6

\* Back to an issuer without an account nothing is sent.
LEMMA PaymentIsExact ==
    ASSUME NEW w \in Write!Ledgers, Write!Legal(w), NEW r \in Pay
    PROVE  PaymentPasses(r, w) <=> Write!Right(r, w) /\ Write!IssuerIsThere(r, w)
<1>1. CASE Write!IssuerIsThere(r, w)
  BY <1>1, PaymentFits
<1>2. CASE ~Write!IssuerIsThere(r, w)
  <2>1. r.to = "issuer" /\ ~w.issuer.exists
    BY <1>2 DEF Write!IssuerIsThere
  <2>2. ~There(r, w) /\ r.asset # "native"
    BY <2>1, PayTypes DEF There, Write!IsThere
  <2> QED
    BY <1>2, <2>2 DEF PaymentPasses
<1> QED
  BY <1>1, <1>2

Lines == {r \in Write!Calls : r.kind \in {"add", "limit"}}

LEMMA LineTypes ==
    ASSUME NEW r \in Lines
    PROVE  r.limit \in Nat /\ r.limit > 0
BY Constants DEF Lines, Write!Calls

AddPasses(r, w) == ~Write!HasLine(w) /\ w.issuer.exists /\ Write!HasCapacity(w, Fee + Reserve)

LimitPasses(r, w) ==
    Write!HasLine(w) /\ Write!LimitHolds(w, r.limit) /\ w.issuer.exists /\ Write!HasCapacity(w, Fee)

RemovePasses(w) ==
    /\ Write!HasLine(w)
    /\ w.line.balance = 0 /\ Write!Selling(w, "usd") = 0 /\ Write!Buying(w, "usd") = 0 /\ ~w.pool
    /\ Write!HasCapacity(w, Fee)

\* The line and the lumens after a trustline change; the rest stays.
LEMMA AfterTrust ==
    ASSUME NEW w \in Write!Ledgers, NEW limit \in Nat
    PROVE  LET u == Write!After(w, Write!Trust(limit))
           IN  /\ u.offer = w.offer /\ u.others = w.others /\ u.dest = w.dest /\ u.xlm = w.xlm - Fee
               /\ u.line.limit = limit
               /\ u.line.balance = IF limit > 0 /\ Write!HasLine(w) THEN w.line.balance ELSE 0
               /\ u.line = IF limit = 0 THEN Write!NoLine
                           ELSE IF Write!HasLine(w) THEN [w.line EXCEPT !.limit = limit]
                           ELSE Write!NewLine(w, limit)
<1>1. /\ DOMAIN w = {"xlm", "others", "pool", "offer", "line", "dest", "issuer"}
      /\ DOMAIN w.line = {"balance", "limit", "auth", "clawback"}
      /\ w.xlm \in Nat
  BY DEF Write!Ledgers
<1> DEFINE paid == [w EXCEPT !.xlm = @ - Fee]
<1>2. Write!After(w, Write!Trust(limit)) =
        IF limit = 0 THEN [paid EXCEPT !.line = Write!NoLine]
        ELSE IF Write!HasLine(w) THEN [paid EXCEPT !.line.limit = limit]
        ELSE [paid EXCEPT !.line = Write!NewLine(w, limit)]
  BY DEF Write!After, Write!Trust, Write!FeeOf
<1>3. CASE limit = 0
  BY <1>1, <1>2, <1>3 DEF Write!NoLine
<1>4. CASE limit # 0 /\ Write!HasLine(w)
  BY <1>1, <1>2, <1>4
<1>5. CASE limit # 0 /\ ~Write!HasLine(w)
  BY <1>1, <1>2, <1>5 DEF Write!NewLine
<1> QED
  BY <1>3, <1>4, <1>5

\* Whether the ledger takes a trustline change.
LEMMA TrustAccepted ==
    ASSUME NEW w \in Write!Ledgers, Write!Legal(w), NEW limit \in Nat
    PROVE  Write!LedgerAccepts(w, Write!Trust(limit)) <=>
             /\ w.xlm - Fee >= Write!Selling(w, "native") + Write!MinimumOf(w)
             /\ limit > 0 => /\ w.issuer.exists
                             /\ ~Write!HasLine(w) =>
                                  w.xlm - Fee >= Write!Selling(w, "native") + Write!MinimumOf(w) + Reserve
                             /\ Write!HasLine(w) => w.line.balance + Write!Buying(w, "usd") <= limit
             /\ limit = 0 => Write!HasLine(w) /\ w.line.balance = 0 /\ Write!Buying(w, "usd") = 0 /\ ~w.pool
<1> DEFINE tx == Write!Trust(limit)
           u == Write!After(w, tx)
           s == Write!Selling(w, "native")
           m == Write!MinimumOf(w)
<1>1. /\ w.xlm \in Nat /\ w.line.balance \in Nat /\ w.line.limit \in Nat
      /\ s \in Nat /\ m \in Nat /\ Fee \in Nat /\ Reserve \in Nat /\ Entries(w) \in Nat
      /\ Write!Selling(w, "usd") \in Nat /\ Write!Buying(w, "usd") \in Nat /\ Write!Buying(w, "native") \in Nat
      /\ Int64Max \in Nat
  BY Numbers, Constants
<1>2. /\ w.xlm >= s + m /\ w.xlm + Write!Buying(w, "native") <= Int64Max
      /\ w.line.balance >= Write!Selling(w, "usd")
      /\ w.line.balance + Write!Buying(w, "usd") <= w.line.limit
      /\ w.dest.balance <= w.dest.limit /\ w.dest.xlm <= Int64Max
  BY DEF Write!Legal
<1>3. Write!LedgerAccepts(w, tx) <=>
        w.xlm - Fee >= s + m /\ Write!Allowed(w, tx) /\ Write!Legal(u)
  <2>1. tx.op \in {"payment", "create", "trust"}
    BY DEF Write!Trust
  <2> HIDE DEF tx
  <2> QED
    BY <2>1, Acceptance
<1>4. Write!Allowed(w, tx) <=>
        /\ limit > 0 => w.issuer.exists
        /\ limit = 0 => Write!HasLine(w) /\ w.line.balance = 0 /\ Write!Buying(w, "usd") = 0 /\ ~w.pool
  BY DEF Write!Allowed, Write!Trust
<1>5. /\ u.offer = w.offer /\ u.others = w.others /\ u.dest = w.dest /\ u.xlm = w.xlm - Fee
      /\ u.line.limit = limit
      /\ u.line.balance = IF limit > 0 /\ Write!HasLine(w) THEN w.line.balance ELSE 0
  BY AfterTrust
<1> HIDE DEF tx, u
<1>6. \A asset : /\ Write!Selling(u, asset) = Write!Selling(w, asset)
                 /\ Write!Buying(u, asset) = Write!Buying(w, asset)
  BY <1>5, SameOffer
<1>7. Write!HasLine(u) <=> limit > 0
  BY <1>5 DEF Write!HasLine
<1>8. /\ Write!HasLine(w) /\ limit > 0 => Write!MinimumOf(u) = m
      /\ ~Write!HasLine(w) /\ limit > 0 => Write!MinimumOf(u) = m + Reserve
      /\ Write!HasLine(w) /\ limit = 0 => Write!MinimumOf(u) <= m
  <2>1. Write!HasOffer(u) = Write!HasOffer(w)
    BY <1>5, SameOffer
  <2>2. CASE Write!HasLine(w) /\ limit > 0
    <3>1. Write!HasLine(u) = Write!HasLine(w)
      BY <1>5, <2>2 DEF Write!HasLine
    <3>2. u.offer = w.offer /\ u.others = w.others
      BY <1>5
    <3>3. Write!MinimumOf(u) = m
      BY <3>1, <3>2, SameEntries
    <3> QED
      BY <2>2, <3>3
  <2>3. CASE ~Write!HasLine(w) /\ limit > 0
    <3>1. Entries(u) = Entries(w) + 1
      BY <1>5, <1>7, <2>1, <2>3, Numbers DEF Entries
    <3> QED
      BY <1>1, <2>3, <3>1, Minimum
  <2>4. CASE Write!HasLine(w) /\ limit = 0
    <3>1. Entries(w) = Entries(u) + 1 /\ Entries(u) \in Nat
      BY <1>5, <1>7, <2>1, <2>4, Numbers DEF Entries
    <3> QED
      BY <1>1, <2>4, <3>1, Minimum
  <2> QED
    BY <1>1, <2>2, <2>3, <2>4
<1>9. Write!Legal(u) <=>
        /\ w.xlm - Fee >= s + Write!MinimumOf(u)
        /\ u.line.balance >= Write!Selling(w, "usd")
        /\ u.line.balance + Write!Buying(w, "usd") <= limit
  BY <1>1, <1>2, <1>5, <1>6 DEF Write!Legal
<1>10. Write!MinimumOf(u) \in Int
  <2>1. Entries(u) \in Nat
    BY <1>5, Numbers DEF Entries
  <2> QED
    BY <2>1, Minimum
<1>11. ~Write!HasLine(w) => w.line.limit = 0
  BY <1>1 DEF Write!HasLine
<1>12. CASE limit > 0 /\ Write!HasLine(w)
  BY <1>1, <1>2, <1>3, <1>4, <1>5, <1>8, <1>9, <1>12 DEF tx
<1>13. CASE limit > 0 /\ ~Write!HasLine(w)
  BY <1>1, <1>2, <1>3, <1>4, <1>5, <1>8, <1>9, <1>11, <1>13 DEF tx
<1>14. CASE limit = 0
  BY <1>1, <1>2, <1>3, <1>4, <1>5, <1>8, <1>9, <1>10, <1>14 DEF tx
<1> QED
  BY <1>12, <1>13, <1>14

LEMMA AddIsExact ==
    ASSUME NEW w \in Write!Ledgers, Write!Legal(w), NEW r \in Lines, r.kind = "add"
    PROVE  AddPasses(r, w) <=> Write!Right(r, w)
<1>1. r.limit \in Nat /\ r.limit > 0
  BY LineTypes
<1>2. Write!Right(r, w) <=> ~Write!HasLine(w) /\ Write!LedgerAccepts(w, Write!Trust(r.limit))
  BY DEF Write!Right
<1>3. Write!HasCapacity(w, Fee + Reserve) <=>
        w.xlm >= Write!Selling(w, "native") + Write!MinimumOf(w) + (Fee + Reserve)
  BY Capacity, Constants
<1>4. Write!Selling(w, "native") \in Nat /\ Write!MinimumOf(w) \in Nat /\ w.xlm \in Nat /\ Fee \in Nat /\ Reserve \in Nat
  BY Numbers, Constants
<1> QED
  BY <1>1, <1>2, <1>3, <1>4, TrustAccepted DEF AddPasses

LEMMA LimitIsExact ==
    ASSUME NEW w \in Write!Ledgers, Write!Legal(w), NEW r \in Lines, r.kind = "limit"
    PROVE  LimitPasses(r, w) <=> Write!Right(r, w)
<1>1. r.limit \in Nat /\ r.limit > 0
  BY LineTypes
<1>2. Write!Right(r, w) <=> Write!HasLine(w) /\ Write!LedgerAccepts(w, Write!Trust(r.limit))
  BY DEF Write!Right
<1>3. Write!HasCapacity(w, Fee) <=> w.xlm >= Write!Selling(w, "native") + Write!MinimumOf(w) + Fee
  BY Capacity, Constants
<1>4. /\ Write!Selling(w, "native") \in Nat /\ Write!MinimumOf(w) \in Nat /\ w.xlm \in Nat /\ Fee \in Nat
      /\ w.line.balance \in Nat /\ Write!Buying(w, "usd") \in Nat
  BY Numbers, Constants
<1>5. Write!LimitHolds(w, r.limit) <=> w.line.balance + Write!Buying(w, "usd") <= r.limit
  BY <1>1, <1>4 DEF Write!LimitHolds
<1> QED
  BY <1>1, <1>2, <1>3, <1>4, <1>5, TrustAccepted DEF LimitPasses

LEMMA RemoveIsExact ==
    ASSUME NEW w \in Write!Ledgers, Write!Legal(w), NEW r, r.kind = "remove"
    PROVE  RemovePasses(w) <=> Write!Right(r, w)
<1>1. Write!Right(r, w) <=> Write!LedgerAccepts(w, Write!Trust(0))
  BY DEF Write!Right
<1>2. Write!HasCapacity(w, Fee) <=> w.xlm >= Write!Selling(w, "native") + Write!MinimumOf(w) + Fee
  BY Capacity, Constants
<1>3. /\ Write!Selling(w, "native") \in Nat /\ Write!MinimumOf(w) \in Nat /\ w.xlm \in Nat /\ Fee \in Nat
      /\ w.line.balance \in Nat /\ Write!Selling(w, "usd") \in Nat
  BY Numbers, Constants
<1>4. w.line.balance = 0 => Write!Selling(w, "usd") = 0
  BY <1>3 DEF Write!Legal
<1> QED
  BY <1>1, <1>2, <1>3, <1>4, TrustAccepted DEF RemovePasses

-----------------------------------------------------------------------------
(***************************************************************************)
(* Offers.                                                                 *)
(***************************************************************************)
Trades == {r \in Write!Calls : r.kind \in {"sell_or_buy", "update"}}
Need(r) == Write!OfferLiabilities(r.side, r.amount, r.price)

LEMMA TradeTypes ==
    ASSUME NEW r \in Trades
    PROVE  /\ r.side \in {"sell", "buy"} /\ r.price \in Write!Prices
           /\ r.selling \in {"native", "usd", "own"} /\ r.buying \in {"native", "usd", "own"}
           /\ r.amount \in 0..Int64Max /\ r.amount > 0
           /\ Need(r).selling \in 0..Int64Max /\ Need(r).buying \in 0..Int64Max
<1>1. /\ r.side \in {"sell", "buy"} /\ r.price \in Write!Prices
      /\ r.selling \in {"native", "usd", "own"} /\ r.buying \in {"native", "usd", "own"}
      /\ r.amount \in 1..Int64Max
  BY DEF Trades, Write!Calls, Write!Assets
<1>2. r.amount \in 0..Int64Max /\ r.amount > 0
  BY <1>1, Constants
<1> QED
  BY <1>1, <1>2, LiabilitiesBound DEF Need

\* The transaction of an offer; for one that creates a line, two operations.
OfferTx ==
    [op : {"offer"}, id : {0, 1}, side : {"sell", "buy"}, selling : Write!Assets, buying : Write!Assets,
     amount : 0..Int64Max, price : Write!Prices, addsLine : BOOLEAN]
Fees(tx) == IF tx.addsLine THEN 2 * Fee ELSE Fee
Reserves(tx) == IF tx.addsLine THEN 2 * Reserve ELSE Reserve

\* The ledger with the new offer.
AfterOfferRest(w, tx, u) ==
    /\ u.others = w.others /\ u.dest = w.dest /\ u.xlm = w.xlm - Fees(tx)
    /\ u.line = IF tx.addsLine THEN Write!NewLine(w, DefaultLimit) ELSE w.line

LEMMA AfterOffer ==
    ASSUME NEW w \in Write!Ledgers, NEW tx \in OfferTx, NEW u, u = Write!After(w, tx)
    PROVE  /\ AfterOfferRest(w, tx, u)
           /\ u.offer = [owner |-> IF tx.amount = 0 THEN "nobody" ELSE "wallet", side |-> tx.side,
                         selling |-> tx.selling, buying |-> tx.buying, amount |-> tx.amount, price |-> tx.price]
<1>1. DOMAIN w = {"xlm", "others", "pool", "offer", "line", "dest", "issuer"} /\ w.xlm \in Nat
  BY DEF Write!Ledgers
<1> DEFINE fee == Write!FeeOf(tx)
           new == [owner |-> IF tx.amount = 0 THEN "nobody" ELSE "wallet", side |-> tx.side,
                   selling |-> tx.selling, buying |-> tx.buying, amount |-> tx.amount, price |-> tx.price]
<1>2. tx.op = "offer" /\ fee = Fees(tx)
  BY DEF Write!FeeOf, Fees, OfferTx
<1> HIDE DEF new, fee
<1>3. u = IF tx.addsLine THEN [[[w EXCEPT !.xlm = @ - fee] EXCEPT !.line = Write!NewLine(w, DefaultLimit)] EXCEPT !.offer = new]
          ELSE [[w EXCEPT !.xlm = @ - fee] EXCEPT !.offer = new]
  BY <1>2 DEF Write!After, new, fee
<1>4. CASE tx.addsLine
  BY <1>1, <1>2, <1>3, <1>4 DEF new, AfterOfferRest
<1>5. CASE ~tx.addsLine
  BY <1>1, <1>2, <1>3, <1>5 DEF new, AfterOfferRest
<1> QED
  BY <1>4, <1>5

\* What the new offer sells and buys.
LEMMA NewLiabilities ==
    ASSUME NEW w \in Write!Ledgers, NEW tx \in OfferTx, NEW u, u = Write!After(w, tx)
    PROVE  /\ Write!HasOffer(u) <=> tx.amount # 0
           /\ \A asset :
                /\ Write!Selling(u, asset) = IF tx.amount # 0 /\ tx.selling = asset THEN Need(tx).selling ELSE 0
                /\ Write!Buying(u, asset) = IF tx.amount # 0 /\ tx.buying = asset THEN Need(tx).buying ELSE 0
           /\ Need(tx).selling \in 0..Int64Max /\ Need(tx).buying \in 0..Int64Max
<1>1. u.offer = [owner |-> IF tx.amount = 0 THEN "nobody" ELSE "wallet", side |-> tx.side, selling |-> tx.selling,
                 buying |-> tx.buying, amount |-> tx.amount, price |-> tx.price]
  BY AfterOffer
<1>2. Write!HasOffer(u) <=> tx.amount # 0
  BY <1>1 DEF Write!HasOffer
<1>3. Write!HasOffer(u) => Write!Liabilities(u) = Need(tx)
  BY <1>1 DEF Write!Liabilities, Need
<1>4. u.offer.selling = tx.selling /\ u.offer.buying = tx.buying
  BY <1>1
<1>5. Need(tx).selling \in 0..Int64Max /\ Need(tx).buying \in 0..Int64Max
  BY LiabilitiesBound DEF Need, OfferTx
<1> QED
  BY <1>2, <1>3, <1>4, <1>5 DEF Write!Selling, Write!Buying

\* Beside another offer or not, the ledger asks for the same.
LEMMA OfferAccepted ==
    ASSUME NEW w \in Write!Ledgers, Write!Legal(w), NEW tx \in OfferTx, tx.id = 0, tx.amount # 0,
           tx.addsLine => ~Write!HasLine(w),
           NEW u, u = Write!After(w, tx)
    PROVE  Write!LedgerAccepts(w, tx) <=>
             /\ Write!Allowed(w, tx)
             /\ w.xlm - Fees(tx) >= Write!Selling(u, "native") + Write!Selling(w, "native")
                                      + Write!MinimumOf(w) + Reserves(tx)
             /\ w.xlm - Fees(tx) + Write!Buying(u, "native") + Write!Buying(w, "native") <= Int64Max
             /\ u.line.balance >= Write!Selling(u, "usd") + Write!Selling(w, "usd")
             /\ u.line.balance + Write!Buying(u, "usd") + Write!Buying(w, "usd") <= u.line.limit
<1> DEFINE m == Write!MinimumOf(w)
<1>1. /\ u.others = w.others /\ u.dest = w.dest /\ u.xlm = w.xlm - Fees(tx)
      /\ u.line = IF tx.addsLine THEN Write!NewLine(w, DefaultLimit) ELSE w.line
  <2>1. AfterOfferRest(w, tx, u)
    BY AfterOffer
  <2> QED
    BY <2>1 DEF AfterOfferRest
<1>2. /\ Write!HasOffer(u)
      /\ \A asset : Write!Selling(u, asset) \in Nat /\ Write!Buying(u, asset) \in Nat
  BY NewLiabilities, Constants
<1>3. /\ tx.op = "offer" /\ tx.id = 0 /\ Write!FeeOf(tx) = Fees(tx)
  BY DEF OfferTx, Write!FeeOf, Fees
<1>4. /\ w.xlm \in Nat /\ m \in Nat /\ Fees(tx) \in Nat /\ Reserves(tx) \in Nat /\ Reserve \in Nat
      /\ \A asset : Write!Selling(w, asset) \in Nat /\ Write!Buying(w, asset) \in Nat
      /\ \A asset : Write!Selling(u, asset) \in Nat /\ Write!Buying(u, asset) \in Nat
      /\ w.dest.balance <= w.dest.limit /\ w.dest.xlm <= Int64Max /\ Entries(w) \in Nat /\ w.others \in Nat
      /\ Int64Max \in Nat
  BY <1>2, Numbers, Constants DEF Fees, Reserves, Write!Legal
<1>5. Write!HasLine(u) <=> tx.addsLine \/ Write!HasLine(w)
  BY <1>1, Constants DEF Write!HasLine, Write!NewLine
<1>6. /\ Write!HasOffer(w) => Write!MinimumOf(u) + Reserve = m + Reserves(tx)
      /\ ~Write!HasOffer(w) => Write!MinimumOf(u) = m + Reserves(tx)
  <2> DEFINE line(x) == IF Write!HasLine(x) THEN 1 ELSE 0
             offer(x) == IF Write!HasOffer(x) THEN 1 ELSE 0
  <2>1. Entries(u) = 2 + w.others + line(u) + offer(u) /\ Entries(w) = 2 + w.others + line(w) + offer(w)
    BY <1>1 DEF Entries
  <2>2. line(u) = (IF tx.addsLine THEN line(w) + 1 ELSE line(w)) /\ offer(u) = 1
    BY <1>2, <1>5
  <2>3. line(w) \in Nat /\ offer(w) \in {0, 1} /\ (offer(w) = 1 <=> Write!HasOffer(w))
    OBVIOUS
  <2> DEFINE lw == line(w)
             lu == line(u)
             ow == offer(w)
             ou == offer(u)
             k == 2 + w.others
  <2>8. /\ Entries(u) = k + lu + ou /\ Entries(w) = k + lw + ow
        /\ lu = (IF tx.addsLine THEN lw + 1 ELSE lw) /\ ou = 1 /\ k \in Nat /\ lw \in Nat /\ ow \in {0, 1}
        /\ ow = 1 <=> Write!HasOffer(w)
    BY <1>4, <2>1, <2>2, <2>3
  <2> HIDE DEF line, offer, m, lw, lu, ow, ou, k
  <2>4. CASE Write!HasOffer(w) /\ tx.addsLine
    <3>1. lu = lw + 1 /\ Reserves(tx) = 2 * Reserve
      BY <2>4, <2>8 DEF Reserves
    <3>2. ow = 1
      BY <2>4, <2>8
    <3>3. Entries(u) = Entries(w) + 1
      BY <2>8, <3>1, <3>2
    <3>4. Write!MinimumOf(u) = m + Reserve
      BY <1>4, <3>3, Minimum, Constants DEF m
    <3>5. m \in Nat /\ Reserve \in Nat
      BY <1>4
    <3> QED
      BY <2>4, <3>1, <3>4, <3>5
  <2>5. CASE Write!HasOffer(w) /\ ~tx.addsLine
    <3>1. lu = lw /\ Reserves(tx) = Reserve
      BY <2>5, <2>8 DEF Reserves
    <3>2. ow = 1
      BY <2>5, <2>8
    <3>3. Entries(u) = Entries(w)
      BY <2>8, <3>1, <3>2
    <3>4. Write!MinimumOf(u) = m
      BY <1>4, <3>3, Minimum, Constants DEF m
    <3> QED
      BY <1>4, <2>5, <3>1, <3>4, Constants
  <2>6. CASE ~Write!HasOffer(w) /\ tx.addsLine
    <3>1. lu = lw + 1 /\ Reserves(tx) = 2 * Reserve
      BY <2>6, <2>8 DEF Reserves
    <3>2. ow = 0
      BY <2>6, <2>8
    <3>3. Entries(u) = Entries(w) + 2
      BY <2>8, <3>1, <3>2
    <3>4. Write!MinimumOf(u) = m + 2 * Reserve
      BY <1>4, <3>3, Minimum, Constants DEF m
    <3> QED
      BY <1>4, <2>6, <3>1, <3>4, Constants
  <2>7. CASE ~Write!HasOffer(w) /\ ~tx.addsLine
    <3>1. lu = lw /\ Reserves(tx) = Reserve
      BY <2>7, <2>8 DEF Reserves
    <3>2. ow = 0
      BY <2>7, <2>8
    <3>3. Entries(u) = Entries(w) + 1
      BY <2>8, <3>1, <3>2
    <3>4. Write!MinimumOf(u) = m + Reserve
      BY <1>4, <3>3, Minimum, Constants DEF m
    <3> QED
      BY <1>4, <2>7, <3>1, <3>4, Constants
  <2> QED
    BY <2>4, <2>5, <2>6, <2>7
<1>7. Write!MinimumOf(u) \in Int
  <2>1. Entries(u) \in Nat
    BY <1>1, <1>4 DEF Entries
  <2> QED
    BY <2>1, Minimum
<1>8. CASE Write!HasOffer(w)
  <2>1. Write!LedgerAccepts(w, tx) <=>
          /\ w.xlm - Fees(tx) >= Write!Selling(w, "native") + m
          /\ Write!Allowed(w, tx)
          /\ u.xlm >= Write!Selling(u, "native") + Write!Selling(w, "native") + Write!MinimumOf(u) + Reserve
          /\ u.xlm + Write!Buying(u, "native") + Write!Buying(w, "native") <= Int64Max
          /\ u.line.balance >= Write!Selling(u, "usd") + Write!Selling(w, "usd")
          /\ u.line.balance + Write!Buying(u, "usd") + Write!Buying(w, "usd") <= u.line.limit
    BY <1>3, <1>8 DEF Write!LedgerAccepts
  <2> HIDE DEF m
  <2> QED
    BY <1>1, <1>4, <1>6, <1>7, <1>8, <2>1 DEF m
<1>9. CASE ~Write!HasOffer(w)
  <2>1. Write!LedgerAccepts(w, tx) <=>
          w.xlm - Fees(tx) >= Write!Selling(w, "native") + m /\ Write!Allowed(w, tx) /\ Write!Legal(u)
    BY <1>3, <1>9 DEF Write!LedgerAccepts
  <2>2. \A asset : Write!Selling(w, asset) = 0 /\ Write!Buying(w, asset) = 0
    BY <1>9 DEF Write!Selling, Write!Buying
  <2>3. u.line.balance \in Nat /\ u.line.limit \in Nat
    BY <1>1, Numbers, Constants DEF Write!NewLine
  <2> HIDE DEF m
  <2>4. Write!Legal(u) <=>
          /\ u.xlm >= Write!Selling(u, "native") + Write!MinimumOf(u)
          /\ u.xlm + Write!Buying(u, "native") <= Int64Max
          /\ u.line.balance >= Write!Selling(u, "usd")
          /\ u.line.balance + Write!Buying(u, "usd") <= u.line.limit
    BY <1>1, <1>4 DEF Write!Legal
  <2> QED
    BY <1>1, <1>4, <1>6, <1>7, <1>9, <2>1, <2>2, <2>3, <2>4 DEF m
<1> QED
  BY <1>8, <1>9

LEMMA OfferForm ==
    ASSUME NEW r \in Trades, NEW id \in {0, 1}, NEW adds \in BOOLEAN, NEW tx, tx = Write!Offer(id, r, adds)
    PROVE  /\ tx \in OfferTx /\ tx.op = "offer" /\ tx.id = id /\ tx.amount # 0 /\ Need(tx) = Need(r)
           /\ tx.selling = r.selling /\ tx.buying = r.buying /\ tx.amount = r.amount /\ (tx.addsLine <=> adds)
BY TradeTypes DEF Write!Offer, OfferTx, Need, Write!Assets

CreatePasses(r, w) ==
    LET adds == ~Write!CanHold(w, r.buying) IN
    /\ r.selling # r.buying
    /\ Write!OfferAuthorized(w, r.selling)
    /\ ~adds => Write!OfferAuthorized(w, r.buying)
    /\ adds => r.allow /\ w.issuer.exists /\ ~w.issuer.required
    /\ Write!PreflightCreate(w, r, adds)

\* What is sold and what is received fit, in the client's words and in the ledger's.
SoldFits(r, w, tx) ==
    /\ r.selling = "native" => w.xlm - Fees(tx) >= Need(r).selling + Write!Selling(w, "native")
                                                  + Write!MinimumOf(w) + Reserves(tx)
    /\ w.xlm - Fees(tx) >= Write!Selling(w, "native") + Write!MinimumOf(w) + Reserves(tx)
    /\ r.selling = "usd" => w.line.balance >= Need(r).selling + Write!Selling(w, "usd")

BoughtFits(r, w, tx) ==
    r.buying = "usd" =>
        IF tx.addsLine THEN Need(r).buying <= DefaultLimit
        ELSE w.line.balance + Need(r).buying + Write!Buying(w, "usd") <= w.line.limit

LEMMA PreflightCreateFits ==
    ASSUME NEW w \in Write!Ledgers, Write!Legal(w), NEW r \in Trades, NEW adds \in BOOLEAN,
           adds <=> ~Write!CanHold(w, r.buying), NEW tx, tx.addsLine <=> adds
    PROVE  Write!PreflightCreate(w, r, adds) <=>
             /\ SoldFits(r, w, tx) /\ BoughtFits(r, w, tx)
             /\ r.buying = "native" => w.xlm + Need(r).buying + Write!Buying(w, "native") <= Int64Max
<1> DEFINE s == Write!Selling(w, "native")
           m == Write!MinimumOf(w)
           u == Write!Selling(w, "usd")
           bn == Write!Buying(w, "native")
           bu == Write!Buying(w, "usd")
           ns == Need(r).selling
           nb == Need(r).buying
           fee == IF adds THEN 2 * Fee ELSE Fee
           k == (IF adds THEN 2 ELSE 1) * Reserve
<1>1. /\ w.xlm \in Nat /\ w.line.balance \in Nat /\ w.line.limit \in Nat
      /\ s \in Nat /\ m \in Nat /\ u \in Nat /\ bn \in Nat /\ bu \in Nat
      /\ Int64Max \in Nat /\ ns \in 0..Int64Max /\ nb \in 0..Int64Max
      /\ fee \in Nat /\ k \in Nat /\ DefaultLimit \in Nat
  BY Numbers, Constants, TradeTypes
<1>2. /\ w.xlm >= s + m /\ w.xlm + bn <= Int64Max
      /\ w.line.balance >= u /\ w.line.balance + bu <= w.line.limit
  BY DEF Write!Legal
<1>3. fee = Fees(tx) /\ k = Reserves(tx)
  BY Constants DEF Fees, Reserves
<1>4. adds <=> r.buying = "usd" /\ ~Write!HasLine(w)
  BY DEF Write!CanHold
<1>5. r.selling \in {"native", "usd", "own"} /\ r.buying \in {"native", "usd", "own"}
  BY TradeTypes
<1>6. Write!PreflightCreate(w, r, adds) <=>
        /\ IF r.selling = "native" THEN ns + (m + k) + fee <= Write!Minus(w.xlm, s)
           ELSE /\ r.selling # "own" => ns <= Write!AvailableBalance(w, r.selling)
                /\ (m + k) + fee <= Write!Minus(w.xlm, s)
        /\ nb <= Write!ReceivingCapacity(w, r.buying, IF adds THEN DefaultLimit ELSE 0)
  <2>1. Write!AvailableBalance(w, "native") = Write!Minus(w.xlm, s)
    BY DEF Write!AvailableBalance, Write!Balance
  <2>2. fee = (IF adds THEN 2 ELSE 1) * Fee
    BY Constants
  <2> HIDE DEF s, m, fee, k
  <2> QED
    BY <2>1, <2>2 DEF Write!PreflightCreate, Need, k, m
<1>7. r.selling = "usd" => Write!AvailableBalance(w, r.selling) = Write!Minus(w.line.balance, u)
  BY DEF Write!AvailableBalance, Write!Balance
<1>8. Write!ReceivingCapacity(w, r.buying, IF adds THEN DefaultLimit ELSE 0) =
        IF r.buying = "own" THEN Int64Max
        ELSE IF r.buying = "native" THEN Write!Minus(Int64Max, w.xlm + bn)
        ELSE IF adds THEN DefaultLimit
        ELSE Write!Minus(w.line.limit, w.line.balance + bu)
  BY <1>4, <1>5 DEF Write!ReceivingCapacity
<1>9. SoldFits(r, w, tx) <=>
        /\ r.selling = "native" => w.xlm - fee >= ns + s + m + k
        /\ w.xlm - fee >= s + m + k
        /\ r.selling = "usd" => w.line.balance >= ns + u
  BY <1>3 DEF SoldFits
<1>10. BoughtFits(r, w, tx) <=>
         (r.buying = "usd" => IF adds THEN nb <= DefaultLimit ELSE w.line.balance + nb + bu <= w.line.limit)
  BY DEF BoughtFits
<1> HIDE DEF s, m, u, bn, bu, ns, nb, fee, k
<1>11. /\ ns + (m + k) + fee <= Write!Minus(w.xlm, s) <=> w.xlm - fee >= ns + s + m + k
       /\ (m + k) + fee <= Write!Minus(w.xlm, s) <=> w.xlm - fee >= s + m + k
       /\ ns <= Write!Minus(w.line.balance, u) <=> w.line.balance >= ns + u
       /\ nb <= Write!Minus(Int64Max, w.xlm + bn) <=> w.xlm + nb + bn <= Int64Max
       /\ nb <= Write!Minus(w.line.limit, w.line.balance + bu) <=> w.line.balance + nb + bu <= w.line.limit
       /\ w.xlm - fee >= ns + s + m + k => w.xlm - fee >= s + m + k
  BY <1>1, <1>2 DEF Write!Minus
<1>12. nb <= Int64Max
  BY <1>1
<1>13. Write!PreflightCreate(w, r, adds) <=>
         /\ SoldFits(r, w, tx)
         /\ nb <= Write!ReceivingCapacity(w, r.buying, IF adds THEN DefaultLimit ELSE 0)
  BY <1>5, <1>6, <1>7, <1>9, <1>11
<1>14. nb <= Write!ReceivingCapacity(w, r.buying, IF adds THEN DefaultLimit ELSE 0) <=>
         /\ BoughtFits(r, w, tx)
         /\ r.buying = "native" => w.xlm + nb + bn <= Int64Max
  BY <1>5, <1>8, <1>10, <1>11, <1>12
<1> QED
  BY <1>13, <1>14 DEF nb, bn

LEMMA CreateIsExact ==
    ASSUME NEW w \in Write!Ledgers, Write!Legal(w), NEW r \in Trades, r.kind = "sell_or_buy"
    PROVE  /\ CreatePasses(r, w) => Write!Right(r, w)
           /\ Write!Right(r, w) /\ Write!LumensFit(r, w) => CreatePasses(r, w)
<1> DEFINE adds == ~Write!CanHold(w, r.buying)
           tx == Write!Offer(0, r, adds)
           u == Write!After(w, tx)
<1>1. /\ tx \in OfferTx /\ tx.op = "offer" /\ tx.id = 0 /\ tx.amount # 0 /\ Need(tx) = Need(r)
      /\ tx.selling = r.selling /\ tx.buying = r.buying /\ (tx.addsLine <=> adds)
  <2>1. adds \in BOOLEAN /\ 0 \in {0, 1}
    OBVIOUS
  <2> HIDE DEF adds
  <2> QED
    BY <2>1, OfferForm
<1>2. Write!Right(r, w) <=>
        r.selling # r.buying /\ (adds => r.allow) /\ Write!LedgerAccepts(w, tx)
  BY DEF Write!Right
<1>3. CreatePasses(r, w) <=>
        /\ r.selling # r.buying
        /\ Write!OfferAuthorized(w, r.selling)
        /\ ~adds => Write!OfferAuthorized(w, r.buying)
        /\ adds => r.allow /\ w.issuer.exists /\ ~w.issuer.required
        /\ Write!PreflightCreate(w, r, adds)
  BY DEF CreatePasses
<1>4. adds <=> r.buying = "usd" /\ ~Write!HasLine(w)
  BY DEF Write!CanHold
<1>5. adds \in BOOLEAN
  OBVIOUS
<1>6. Write!PreflightCreate(w, r, adds) <=>
        /\ SoldFits(r, w, tx) /\ BoughtFits(r, w, tx)
        /\ r.buying = "native" => w.xlm + Need(r).buying + Write!Buying(w, "native") <= Int64Max
  <2>1. tx.addsLine <=> adds
    BY <1>1
  <2> HIDE DEF tx
  <2> QED
    BY <1>5, <2>1, PreflightCreateFits
<1> HIDE DEF tx, u, adds
<1>7. Write!LedgerAccepts(w, tx) <=>
        /\ Write!Allowed(w, tx)
        /\ w.xlm - Fees(tx) >= Write!Selling(u, "native") + Write!Selling(w, "native")
                                 + Write!MinimumOf(w) + Reserves(tx)
        /\ w.xlm - Fees(tx) + Write!Buying(u, "native") + Write!Buying(w, "native") <= Int64Max
        /\ u.line.balance >= Write!Selling(u, "usd") + Write!Selling(w, "usd")
        /\ u.line.balance + Write!Buying(u, "usd") + Write!Buying(w, "usd") <= u.line.limit
  BY <1>1, <1>4, OfferAccepted DEF u
<1>8. Write!Allowed(w, tx) <=>
        /\ adds => w.issuer.exists /\ ~Write!HasLine(w)
        /\ Write!OfferAuthorized(w, r.selling)
        /\ ~adds => Write!OfferAuthorized(w, r.buying)
        /\ adds => ~w.issuer.required
  <2>1. Write!Allowed(w, tx) <=>
          /\ tx.addsLine => w.issuer.exists /\ ~Write!HasLine(w)
          /\ tx.id = 1 => Write!HasOffer(w)
          /\ tx.amount > 0 => /\ Write!Full(w, tx.selling)
                              /\ ~tx.addsLine => Write!Full(w, tx.buying)
                              /\ tx.addsLine => ~w.issuer.required
    BY <1>1 DEF Write!Allowed
  <2>2. tx.amount > 0
    BY <1>1, Constants DEF OfferTx
  <2>3. \A asset : Write!Full(w, asset) <=> Write!OfferAuthorized(w, asset)
    BY DEF Write!Full, Write!OfferAuthorized
  <2> QED
    BY <1>1, <2>1, <2>2, <2>3
<1>9. /\ \A asset : Write!Selling(u, asset) = IF r.selling = asset THEN Need(r).selling ELSE 0
      /\ \A asset : Write!Buying(u, asset) = IF r.buying = asset THEN Need(r).buying ELSE 0
  BY <1>1, NewLiabilities DEF u
<1>10. u.line = IF adds THEN Write!NewLine(w, DefaultLimit) ELSE w.line
  BY <1>1, AfterOffer DEF u, AfterOfferRest
<1>11. /\ w.xlm \in Nat /\ w.line.balance \in Nat /\ w.line.limit \in Nat /\ Write!MinimumOf(w) \in Nat
       /\ Write!Selling(w, "native") \in Nat /\ Write!Selling(w, "usd") \in Nat
       /\ Write!Buying(w, "native") \in Nat /\ Write!Buying(w, "usd") \in Nat
       /\ Int64Max \in Nat /\ Need(r).selling \in Nat /\ Need(r).buying \in Nat
       /\ Fees(tx) \in Nat /\ Reserves(tx) \in Nat /\ DefaultLimit \in Nat
       /\ r.selling \in {"native", "usd", "own"} /\ r.buying \in {"native", "usd", "own"}
  BY <1>1, Numbers, Constants, TradeTypes DEF Fees, Reserves
<1>12. /\ w.xlm + Write!Buying(w, "native") <= Int64Max
       /\ w.line.balance >= Write!Selling(w, "usd")
       /\ w.line.balance + Write!Buying(w, "usd") <= w.line.limit
  BY DEF Write!Legal
<1>13. adds => /\ w.line.balance = 0 /\ Write!Selling(w, "usd") = 0 /\ Write!Buying(w, "usd") = 0
               /\ u.line.balance = 0 /\ u.line.limit = DefaultLimit
  BY <1>4, <1>10, <1>11, <1>12 DEF Write!HasLine, Write!NewLine
<1>14. /\ Write!LumensFit(r, w) => (r.buying = "native" => w.xlm + Need(r).buying + Write!Buying(w, "native") <= Int64Max)
  <2>1. r.kind # "update"
    OBVIOUS
  <2> QED
    BY <1>11, <2>1 DEF Write!LumensFit, Need
<1> DEFINE s == Write!Selling(w, "native")
           m == Write!MinimumOf(w)
           su == Write!Selling(w, "usd")
           bn == Write!Buying(w, "native")
           bu == Write!Buying(w, "usd")
           ns == Need(r).selling
           nb == Need(r).buying
           f == Fees(tx)
           k == Reserves(tx)
<1>15. r.selling # r.buying =>
         (SoldFits(r, w, tx) <=>
            /\ w.xlm - f >= Write!Selling(u, "native") + s + m + k
            /\ u.line.balance >= Write!Selling(u, "usd") + su)
  <2>1. Write!Selling(u, "native") = (IF r.selling = "native" THEN ns ELSE 0)
        /\ Write!Selling(u, "usd") = (IF r.selling = "usd" THEN ns ELSE 0)
    BY <1>9
  <2>2. SoldFits(r, w, tx) <=>
          /\ r.selling = "native" => w.xlm - f >= ns + s + m + k
          /\ w.xlm - f >= s + m + k
          /\ r.selling = "usd" => w.line.balance >= ns + su
    BY DEF SoldFits
  <2>3. ~adds => u.line = w.line
    BY <1>10
  <2>4. /\ w.xlm \in Nat /\ f \in Nat /\ ns \in Nat /\ s \in Nat /\ m \in Nat /\ k \in Nat /\ su \in Nat
        /\ w.line.balance \in Nat /\ w.line.balance >= su
        /\ adds => su = 0 /\ u.line.balance = 0
    BY <1>11, <1>12, <1>13
  <2> HIDE DEF s, m, su, ns, f, k
  <2>5. w.xlm - f >= ns + s + m + k => w.xlm - f >= s + m + k
    BY <2>4
  <2>6. CASE r.selling = "native"
    BY <2>1, <2>2, <2>3, <2>4, <2>5, <2>6
  <2>7. CASE r.selling = "usd"
    BY <1>4, <2>1, <2>2, <2>3, <2>4, <2>7
  <2>8. CASE r.selling = "own"
    BY <2>1, <2>2, <2>3, <2>4, <2>8
  <2> QED
    BY <1>11, <2>6, <2>7, <2>8
<1>16. BoughtFits(r, w, tx) <=> u.line.balance + Write!Buying(u, "usd") + bu <= u.line.limit
  <2>1. Write!Buying(u, "usd") = (IF r.buying = "usd" THEN nb ELSE 0)
    BY <1>9
  <2>2. BoughtFits(r, w, tx) <=>
          (r.buying = "usd" => IF adds THEN nb <= DefaultLimit ELSE w.line.balance + nb + bu <= w.line.limit)
    BY <1>1 DEF BoughtFits
  <2>3. ~adds => u.line = w.line
    BY <1>10
  <2>4. /\ nb \in Nat /\ bu \in Nat /\ w.line.balance \in Nat /\ w.line.balance + bu <= w.line.limit
        /\ adds => bu = 0 /\ u.line.balance = 0 /\ u.line.limit = DefaultLimit /\ r.buying = "usd"
    BY <1>4, <1>11, <1>12, <1>13
  <2> HIDE DEF nb, bu
  <2> QED
    BY <1>11, <2>1, <2>2, <2>3, <2>4
<1>17. (r.buying = "native" => w.xlm + nb + bn <= Int64Max) =>
         w.xlm - f + Write!Buying(u, "native") + bn <= Int64Max
  <2>1. Write!Buying(u, "native") = (IF r.buying = "native" THEN nb ELSE 0)
    BY <1>9
  <2> HIDE DEF nb, bn, f
  <2> QED
    BY <1>11, <1>12, <2>1 DEF nb, bn, f
<1> QED
  BY <1>2, <1>3, <1>4, <1>6, <1>7, <1>8, <1>14, <1>15, <1>16, <1>17

\* An offer in the place of the wallet's own.
LEMMA ReplacementAccepted ==
    ASSUME NEW w \in Write!Ledgers, w.dest.balance <= w.dest.limit, w.dest.xlm <= Int64Max,
           NEW tx \in OfferTx, tx.id = 1, ~tx.addsLine, NEW u, u = Write!After(w, tx)
    PROVE  Write!LedgerAccepts(w, tx) <=>
             /\ Write!HasOffer(w) /\ Write!Allowed(w, tx)
             /\ w.xlm - Fee >= Write!Selling(w, "native") + Write!MinimumOf(w)
             /\ w.xlm - Fee >= Write!Selling(u, "native") + Write!MinimumOf(u)
             /\ w.xlm - Fee + Write!Buying(u, "native") <= Int64Max
             /\ w.line.balance >= Write!Selling(u, "usd")
             /\ w.line.balance + Write!Buying(u, "usd") <= w.line.limit
<1>1. u.dest = w.dest /\ u.xlm = w.xlm - Fee /\ u.line = w.line
  BY AfterOffer DEF AfterOfferRest, Fees
<1>2. tx.op = "offer" /\ Write!FeeOf(tx) = Fee
  BY DEF OfferTx, Write!FeeOf
<1>3. w.dest.balance <= w.dest.limit /\ w.dest.xlm <= Int64Max
  OBVIOUS
<1>4. Write!LedgerAccepts(w, tx) <=>
        w.xlm - Fee >= Write!Selling(w, "native") + Write!MinimumOf(w) /\ Write!Allowed(w, tx) /\ Write!Legal(u)
  BY <1>2 DEF Write!LedgerAccepts
<1>5. Write!Allowed(w, tx) => Write!HasOffer(w)
  BY <1>2 DEF Write!Allowed
<1> QED
  BY <1>1, <1>3, <1>4, <1>5 DEF Write!Legal

\* The entries stay with the new offer, and one is less without.
LEMMA ReplacementMinimum ==
    ASSUME NEW w \in Write!Ledgers, Write!HasOffer(w), NEW tx \in OfferTx, ~tx.addsLine,
           NEW u, u = Write!After(w, tx)
    PROVE  /\ tx.amount # 0 => Write!MinimumOf(u) = Write!MinimumOf(w)
           /\ tx.amount = 0 => Write!MinimumOf(u) + Reserve = Write!MinimumOf(w)
           /\ Write!MinimumOf(u) \in Nat
<1>1. u.others = w.others /\ u.line = w.line /\ (Write!HasOffer(u) <=> tx.amount # 0)
  <2>1. AfterOfferRest(w, tx, u)
    BY AfterOffer
  <2>2. u.others = w.others /\ u.line = w.line
    BY <2>1 DEF AfterOfferRest
  <2>3. Write!HasOffer(u) <=> tx.amount # 0
    BY NewLiabilities
  <2> QED
    BY <2>2, <2>3
<1>2. Write!HasLine(u) <=> Write!HasLine(w)
  BY <1>1 DEF Write!HasLine
<1>3. w.others \in Nat
  BY Numbers
<1>4. CASE tx.amount # 0
  <2>1. Entries(u) = Entries(w) /\ Entries(w) \in Nat
    BY <1>1, <1>2, <1>3, <1>4 DEF Entries
  <2> QED
    BY <1>4, <2>1, Minimum
<1>5. CASE tx.amount = 0
  <2>1. Entries(w) = Entries(u) + 1 /\ Entries(u) \in Nat
    BY <1>1, <1>2, <1>3, <1>5 DEF Entries
  <2> QED
    BY <1>5, <2>1, Minimum, Constants
<1> QED
  BY <1>4, <1>5

\* What is still owed without the old offer, in the client's words and in the ledger's.
ReplacedFits(r, w) ==
    /\ w.xlm - Fee >= Write!Selling(w, "native") + Write!MinimumOf(w)
    /\ r.selling = "native" => w.xlm - Fee >= Need(r).selling + Write!MinimumOf(w)
    /\ r.selling = "usd" => w.line.balance >= Need(r).selling
    /\ r.buying = "usd" => w.line.balance + Need(r).buying <= w.line.limit

LEMMA OwnOffer ==
    ASSUME NEW w \in Write!Ledgers, Write!HasOffer(w)
    PROVE  LET released == Write!OfferLiabilities("sell", w.offer.amount, w.offer.price)
           IN  /\ \A asset : Write!Selling(w, asset) = IF asset = w.offer.selling THEN released.selling ELSE 0
               /\ \A asset : Write!Buying(w, asset) = IF asset = w.offer.buying THEN released.buying ELSE 0
               /\ released.selling \in Nat /\ released.buying \in Nat
               /\ w.offer.selling # w.offer.buying
               /\ w.offer.selling \in {"native", "usd", "own"} /\ w.offer.buying \in {"native", "usd", "own"}
<1>1. w.offer \in Write!Offers /\ w.offer.owner = "wallet"
  BY Numbers DEF Write!HasOffer
<1>2. /\ w.offer.side = "sell" /\ w.offer.amount \in 1..Int64Max /\ w.offer.price \in Write!Prices
      /\ w.offer.selling # w.offer.buying
      /\ w.offer.selling \in {"native", "usd", "own"} /\ w.offer.buying \in {"native", "usd", "own"}
  BY <1>1 DEF Write!Offers, Write!Assets
<1>3. w.offer.amount \in 0..Int64Max
  BY <1>2, Constants
<1> DEFINE released == Write!OfferLiabilities("sell", w.offer.amount, w.offer.price)
<1>4. Write!Liabilities(w) = released
  BY <1>2 DEF Write!Liabilities
<1>5. released.selling \in Nat /\ released.buying \in Nat
  BY <1>2, <1>3, LiabilitiesBound, Constants
<1> HIDE DEF released
<1>6. /\ \A asset : Write!Selling(w, asset) = IF asset = w.offer.selling THEN released.selling ELSE 0
      /\ \A asset : Write!Buying(w, asset) = IF asset = w.offer.buying THEN released.buying ELSE 0
  BY <1>4 DEF Write!Selling, Write!Buying
<1> QED
  BY <1>2, <1>5, <1>6 DEF released

LEMMA PreflightUpdateFits ==
    ASSUME NEW w \in Write!Ledgers, Write!Legal(w), Write!HasOffer(w), NEW r \in Trades,
           w.offer.selling = r.selling, w.offer.buying = r.buying, r.buying = "usd" => Write!HasLine(w)
    PROVE  Write!PreflightUpdate(w, w.offer, r) <=>
             /\ ReplacedFits(r, w)
             /\ r.buying = "native" => w.xlm + Need(r).buying <= Int64Max
<1> DEFINE released == Write!OfferLiabilities("sell", w.offer.amount, w.offer.price)
           rs == released.selling
           rb == released.buying
           m == Write!MinimumOf(w)
           ns == Need(r).selling
           nb == Need(r).buying
<1>1. /\ Write!Selling(w, r.selling) = rs /\ Write!Buying(w, r.buying) = rb
      /\ r.selling # "native" => Write!Selling(w, "native") = 0
      /\ rs \in Nat /\ rb \in Nat /\ r.selling # r.buying
  BY OwnOffer
<1>2. /\ w.xlm \in Nat /\ w.line.balance \in Nat /\ w.line.limit \in Nat /\ m \in Nat
      /\ ns \in Nat /\ nb \in Nat /\ Fee \in Nat /\ Int64Max \in Nat /\ Write!Selling(w, "native") \in Nat
      /\ r.selling \in {"native", "usd", "own"} /\ r.buying \in {"native", "usd", "own"}
  BY Numbers, Constants, TradeTypes
<1>3. /\ w.xlm >= Write!Selling(w, "native") + m /\ w.xlm + Write!Buying(w, "native") <= Int64Max
      /\ w.line.balance >= Write!Selling(w, "usd")
      /\ w.line.balance + Write!Buying(w, "usd") <= w.line.limit
  BY DEF Write!Legal
<1>4. Write!HasCapacity(w, Fee) <=> w.xlm >= Write!Selling(w, "native") + m + Fee
  BY Capacity, Constants
<1> HIDE DEF released
<1>5. Write!PreflightUpdate(w, w.offer, r) <=>
        /\ Write!HasCapacity(w, Fee)
        /\ IF r.selling = "native" THEN ns + m + Fee <= Write!AvailableBalance(w, r.selling) + rs
           ELSE r.selling # "own" => ns <= Write!AvailableBalance(w, r.selling) + rs
        /\ r.buying # "own" => nb <= Write!ReceivingCapacity(w, r.buying, 0) + rb
  BY DEF Write!PreflightUpdate, Need, released
<1>6. /\ r.selling = "native" => Write!AvailableBalance(w, r.selling) = Write!Minus(w.xlm, rs)
      /\ r.selling = "usd" => Write!AvailableBalance(w, r.selling) = Write!Minus(w.line.balance, rs)
  BY <1>1 DEF Write!AvailableBalance, Write!Balance
<1>7. /\ r.buying = "native" => Write!ReceivingCapacity(w, r.buying, 0) = Write!Minus(Int64Max, w.xlm + rb)
      /\ r.buying = "usd" => Write!ReceivingCapacity(w, r.buying, 0) = Write!Minus(w.line.limit, w.line.balance + rb)
  BY <1>1 DEF Write!ReceivingCapacity
<1>8. ReplacedFits(r, w) <=>
        /\ w.xlm - Fee >= Write!Selling(w, "native") + m
        /\ r.selling = "native" => w.xlm - Fee >= ns + m
        /\ r.selling = "usd" => w.line.balance >= ns
        /\ r.buying = "usd" => w.line.balance + nb <= w.line.limit
  BY DEF ReplacedFits
<1> HIDE DEF rs, rb, m, ns, nb
<1>9. Write!HasCapacity(w, Fee) <=> w.xlm - Fee >= Write!Selling(w, "native") + m
  BY <1>2, <1>4
<1>10. /\ r.selling = "native" => (ns + m + Fee <= Write!Minus(w.xlm, rs) + rs <=> w.xlm - Fee >= ns + m)
       /\ r.selling = "usd" => (ns <= Write!Minus(w.line.balance, rs) + rs <=> w.line.balance >= ns)
       /\ r.buying = "native" => (nb <= Write!Minus(Int64Max, w.xlm + rb) + rb <=> w.xlm + nb <= Int64Max)
       /\ r.buying = "usd" => (nb <= Write!Minus(w.line.limit, w.line.balance + rb) + rb <=>
                                  w.line.balance + nb <= w.line.limit)
  BY <1>1, <1>2, <1>3 DEF Write!Minus
<1>11. Write!PreflightUpdate(w, w.offer, r) <=>
         /\ ReplacedFits(r, w)
         /\ r.buying = "native" => w.xlm + nb <= Int64Max
  BY <1>2, <1>5, <1>6, <1>7, <1>8, <1>9, <1>10
<1> QED
  BY <1>11 DEF nb

UpdatePasses(r, old, a) ==
    /\ old.owner = "wallet" /\ old.selling = r.selling /\ old.buying = r.buying
    /\ Write!OfferAuthorized(a, r.selling) /\ Write!OfferAuthorized(a, r.buying)
    /\ Write!PreflightUpdate(a, old, r)

LEMMA UpdateIsExact ==
    ASSUME NEW w \in Write!Ledgers, Write!Legal(w), NEW r \in Trades, r.kind = "update"
    PROVE  /\ UpdatePasses(r, w.offer, w) => Write!Right(r, w)
           /\ Write!Right(r, w) /\ Write!LumensFit(r, w) => UpdatePasses(r, w.offer, w)
<1> DEFINE tx == Write!Offer(1, r, FALSE)
           u == Write!After(w, tx)
<1>1. /\ tx \in OfferTx /\ tx.op = "offer" /\ tx.id = 1 /\ tx.amount # 0 /\ Need(tx) = Need(r)
      /\ tx.selling = r.selling /\ tx.buying = r.buying /\ ~tx.addsLine
  BY TradeTypes DEF Write!Offer, OfferTx, Need, Write!Assets
<1>2. Write!Right(r, w) <=>
        w.offer.selling = r.selling /\ w.offer.buying = r.buying /\ Write!LedgerAccepts(w, tx)
  BY DEF Write!Right
<1> HIDE DEF tx, u
<1>3. Write!Allowed(w, tx) <=>
        Write!HasOffer(w) /\ Write!OfferAuthorized(w, r.selling) /\ Write!OfferAuthorized(w, r.buying)
  <2>1. tx.amount > 0
    BY <1>1, Constants DEF OfferTx
  <2> QED
    BY <1>1, <2>1 DEF Write!Allowed, Write!Full, Write!OfferAuthorized
<1>4. Write!HasOffer(w) <=> w.offer.owner = "wallet"
  BY DEF Write!HasOffer
<1>5. Write!LedgerAccepts(w, tx) <=>
        /\ Write!HasOffer(w) /\ Write!Allowed(w, tx)
        /\ w.xlm - Fee >= Write!Selling(w, "native") + Write!MinimumOf(w)
        /\ w.xlm - Fee >= Write!Selling(u, "native") + Write!MinimumOf(u)
        /\ w.xlm - Fee + Write!Buying(u, "native") <= Int64Max
        /\ w.line.balance >= Write!Selling(u, "usd")
        /\ w.line.balance + Write!Buying(u, "usd") <= w.line.limit
  BY <1>1, ReplacementAccepted DEF u, Write!Legal
<1>6. Write!HasOffer(w) => Write!MinimumOf(u) = Write!MinimumOf(w)
  BY <1>1, ReplacementMinimum DEF u
<1>7. /\ \A asset : Write!Selling(u, asset) = IF r.selling = asset THEN Need(r).selling ELSE 0
      /\ \A asset : Write!Buying(u, asset) = IF r.buying = asset THEN Need(r).buying ELSE 0
  BY <1>1, NewLiabilities DEF u
<1>8. /\ w.xlm \in Nat /\ w.line.balance \in Nat /\ w.line.limit \in Nat /\ Write!MinimumOf(w) \in Nat
      /\ Write!Selling(w, "native") \in Nat /\ Write!Buying(w, "native") \in Nat /\ Write!Buying(w, "usd") \in Nat
      /\ Int64Max \in Nat /\ Need(r).selling \in Nat /\ Need(r).buying \in Nat /\ Fee \in Nat
      /\ r.selling \in {"native", "usd", "own"} /\ r.buying \in {"native", "usd", "own"}
  BY Numbers, Constants, TradeTypes
<1>9. w.xlm + Write!Buying(w, "native") <= Int64Max /\ w.line.balance + Write!Buying(w, "usd") <= w.line.limit
  BY DEF Write!Legal
<1>10. Write!LumensFit(r, w) <=> (r.buying = "native" => w.xlm + Need(r).buying <= Int64Max)
  BY <1>8 DEF Write!LumensFit, Need
<1>11. Write!OfferAuthorized(w, r.buying) => (r.buying = "usd" => Write!HasLine(w))
  BY DEF Write!OfferAuthorized
<1>12. CASE /\ Write!HasOffer(w) /\ w.offer.selling = r.selling /\ w.offer.buying = r.buying
            /\ Write!OfferAuthorized(w, r.selling) /\ Write!OfferAuthorized(w, r.buying)
  <2>1. Write!PreflightUpdate(w, w.offer, r) <=>
          /\ ReplacedFits(r, w)
          /\ r.buying = "native" => w.xlm + Need(r).buying <= Int64Max
    BY <1>11, <1>12, PreflightUpdateFits
  <2>2. Write!Right(r, w) <=>
          /\ w.xlm - Fee >= Write!Selling(w, "native") + Write!MinimumOf(w)
          /\ w.xlm - Fee >= (IF r.selling = "native" THEN Need(r).selling ELSE 0) + Write!MinimumOf(w)
          /\ w.xlm - Fee + (IF r.buying = "native" THEN Need(r).buying ELSE 0) <= Int64Max
          /\ w.line.balance >= (IF r.selling = "usd" THEN Need(r).selling ELSE 0)
          /\ w.line.balance + (IF r.buying = "usd" THEN Need(r).buying ELSE 0) <= w.line.limit
    BY <1>2, <1>3, <1>5, <1>6, <1>7, <1>12
  <2> DEFINE s == Write!Selling(w, "native")
             m == Write!MinimumOf(w)
             ns == Need(r).selling
             nb == Need(r).buying
             fits == /\ w.xlm - Fee >= s + m
                     /\ r.selling = "native" => w.xlm - Fee >= ns + m
                     /\ r.selling = "usd" => w.line.balance >= ns
                     /\ r.buying = "usd" => w.line.balance + nb <= w.line.limit
  <2>3. ReplacedFits(r, w) <=> fits
    BY DEF ReplacedFits
  <2>4. Write!Right(r, w) <=> fits /\ (r.buying = "native" => w.xlm - Fee + nb <= Int64Max)
    BY <1>8, <1>9, <2>2
  <2>5. w.xlm + nb <= Int64Max => w.xlm - Fee + nb <= Int64Max
    BY <1>8
  <2>6. UpdatePasses(r, w.offer, w) <=> Write!PreflightUpdate(w, w.offer, r)
    BY <1>4, <1>12 DEF UpdatePasses
  <2> HIDE DEF fits, nb
  <2> QED
    BY <1>10, <2>1, <2>3, <2>4, <2>5, <2>6 DEF nb
<1> QED
  BY <1>2, <1>3, <1>4, <1>5, <1>12 DEF UpdatePasses

\* Cancelling takes the fee and gives back the rest.
LEMMA CancelIsExact ==
    ASSUME NEW w \in Write!Ledgers, Write!Legal(w), NEW r, r.kind = "cancel"
    PROVE  (w.offer.owner = "wallet" /\ Write!HasCapacity(w, Fee)) <=> Write!Right(r, w)
<1> DEFINE tx == Write!Offer(1, [w.offer EXCEPT !.amount = 0], FALSE)
           u == Write!After(w, tx)
<1>1. Write!Right(r, w) <=> Write!LedgerAccepts(w, tx)
  BY DEF Write!Right
<1>2. tx \in OfferTx /\ tx.id = 1 /\ ~tx.addsLine /\ tx.amount = 0 /\ tx.op = "offer"
  <2>1. w.offer \in Write!Offers
    BY Numbers
  <2>2. /\ DOMAIN w.offer = {"owner", "side", "selling", "buying", "amount", "price"}
        /\ w.offer.side = "sell" /\ w.offer.selling \in Write!Assets /\ w.offer.buying \in Write!Assets
        /\ w.offer.price \in Write!Prices /\ 0 \in 0..Int64Max
    BY <2>1, Constants DEF Write!Offers
  <2> QED
    BY <2>2 DEF Write!Offer, OfferTx
<1> HIDE DEF tx, u
<1>3. Write!LedgerAccepts(w, tx) <=>
        /\ Write!HasOffer(w) /\ Write!Allowed(w, tx)
        /\ w.xlm - Fee >= Write!Selling(w, "native") + Write!MinimumOf(w)
        /\ w.xlm - Fee >= Write!Selling(u, "native") + Write!MinimumOf(u)
        /\ w.xlm - Fee + Write!Buying(u, "native") <= Int64Max
        /\ w.line.balance >= Write!Selling(u, "usd")
        /\ w.line.balance + Write!Buying(u, "usd") <= w.line.limit
  BY <1>2, ReplacementAccepted DEF u, Write!Legal
<1>4. Write!Allowed(w, tx) <=> Write!HasOffer(w)
  BY <1>2 DEF Write!Allowed
<1>5. \A asset : Write!Selling(u, asset) = 0 /\ Write!Buying(u, asset) = 0
  BY <1>2, NewLiabilities DEF u
<1>6. Write!HasOffer(w) => Write!MinimumOf(u) + Reserve = Write!MinimumOf(w) /\ Write!MinimumOf(u) \in Nat
  BY <1>2, ReplacementMinimum DEF u
<1>7. Write!HasCapacity(w, Fee) <=> w.xlm >= Write!Selling(w, "native") + Write!MinimumOf(w) + Fee
  BY Capacity, Constants
<1>8. /\ w.xlm \in Nat /\ w.line.balance \in Nat /\ w.line.limit \in Nat /\ Write!MinimumOf(w) \in Nat
      /\ Write!Selling(w, "native") \in Nat /\ Write!Buying(w, "native") \in Nat /\ Write!Buying(w, "usd") \in Nat
      /\ Int64Max \in Nat /\ Fee \in Nat /\ Reserve \in Nat
  BY Numbers, Constants
<1>9. w.xlm + Write!Buying(w, "native") <= Int64Max /\ w.line.balance + Write!Buying(w, "usd") <= w.line.limit
  BY DEF Write!Legal
<1>10. Write!HasOffer(w) <=> w.offer.owner = "wallet"
  BY DEF Write!HasOffer
<1> QED
  BY <1>1, <1>3, <1>4, <1>5, <1>6, <1>7, <1>8, <1>9, <1>10

-----------------------------------------------------------------------------
(***************************************************************************)
(* The call.  All of it is read from one ledger, so each decision is the   *)
(* exactness of its kind.                                                  *)
(***************************************************************************)
Parts == {"account", "destination", "issuer", "pool", "offer"}
AllRead ==
    /\ request = Write!Nothing => reads = <<>> /\ seen = <<>> /\ outcome = "none"
    /\ request # Write!Nothing => /\ request \in Write!Calls
                                  /\ Len(seen) + Len(reads) = 2
    /\ reads \in Seq(Parts)
    /\ seen \in Seq({ledger})

Decided == Write!PreflightIsExact /\ Write!ReviewedLine

WriteInv ==
    /\ ledger \in Write!Ledgers /\ Write!Legal(ledger)
    /\ since = {ledger}
    /\ outcome \in {"none", "refused", "prepared"}
    /\ AllRead /\ Decided

LEMMA CountsAreTheSame == \A S : Write!Cardinality(S) = Cardinality(S)
BY DEF Write!Cardinality, Cardinality

LEMMA NoMoves == ASSUME since = {ledger}, NEW w PROVE ~Write!Moves(w)
<1>1. Write!Cardinality(since) = 1
  BY FS_Singleton, CountsAreTheSame
<1> QED
  BY <1>1 DEF Write!Moves

LEMMA TwoOf == ASSUME NEW S, NEW s \in Seq(S), Len(s) = 2 PROVE s[1] \in S /\ s[2] \in S
<1>1. \A i \in 1..Len(s) : s[i] \in S
  OBVIOUS
<1>2. 1 \in 1..Len(s) /\ 2 \in 1..Len(s)
  OBVIOUS
<1> QED
  BY <1>1, <1>2

\* At a decision both reads are there.
LEMMA BothRead ==
    ASSUME WriteInv, NEW kind, kind # "none", Write!Ready(kind)
    PROVE  /\ request \in Write!Calls /\ request.kind = kind /\ outcome = "none"
           /\ seen[1] = ledger /\ seen[2] = ledger
           /\ ledger \in Write!Ledgers /\ Write!Legal(ledger)
<1>1. request.kind = kind /\ reads = <<>> /\ outcome = "none"
  BY DEF Write!Ready
<1>2. request # Write!Nothing
  BY <1>1 DEF Write!Nothing
<1>3. request \in Write!Calls /\ Len(seen) = 2 /\ seen \in Seq({ledger})
  BY <1>1, <1>2 DEF WriteInv, AllRead
<1>4. seen[1] \in {ledger} /\ seen[2] \in {ledger}
  BY <1>3, TwoOf
<1> QED
  BY <1>1, <1>3, <1>4 DEF WriteInv

\* A decision that is exact and shows the line there will be keeps the invariant.
LEMMA DecisionIsKept ==
    ASSUME WriteInv, Write!Unmoved, request # Write!Nothing, outcome' \in {"refused", "prepared"},
           outcome' = "prepared" => Write!Right(request, ledger),
           Write!Right(request, ledger) /\ Write!LumensFit(request, ledger) /\ Write!IssuerIsThere(request, ledger) =>
               outcome' = "prepared",
           (outcome' = "prepared" /\ write'.tx.op \in {"trust", "offer"}) =>
               Write!After(ledger, write'.tx).line = write'.line
    PROVE  WriteInv'
<1>1. ledger' = ledger /\ since' = since /\ request' = request /\ reads' = reads /\ seen' = seen
  BY DEF Write!Unmoved
<1>2. Write!PreflightIsExact'
  BY <1>1 DEF Write!PreflightIsExact
<1>3. Write!ReviewedLine'
  BY <1>1 DEF Write!ReviewedLine, Write!Tx
<1>4. AllRead'
  BY <1>1 DEF WriteInv, AllRead
<1> QED
  BY <1>1, <1>2, <1>3, <1>4 DEF WriteInv, Decided

LEMMA BeginStep == ASSUME WriteInv, Write!Begin PROVE WriteInv'
<1>1. /\ request = Write!Nothing /\ request' \in Requests /\ reads' = Write!ReadsOf(request')
      /\ ledger' = ledger /\ since' = since /\ seen' = seen /\ outcome' = outcome
  BY DEF Write!Begin
<1>2. request' \in Write!Calls
  BY <1>1, WritesAssumption DEF Write!LedgerAssumption
<1>3. request'.kind \in {"pay", "add", "limit", "remove", "cancel", "sell_or_buy", "update"}
  BY <1>2 DEF Write!Calls
<1>4. reads' \in Seq(Parts) /\ Len(reads') = 2
  <2>1. CASE request'.kind = "pay"
    <3>1. reads' = <<"account", "destination">>
      BY <1>1, <2>1 DEF Write!ReadsOf
    <3> QED
      BY <3>1 DEF Parts
  <2>2. CASE request'.kind \in {"add", "limit", "sell_or_buy"}
    <3>1. reads' = <<"account", "issuer">>
      BY <1>1, <2>2 DEF Write!ReadsOf
    <3> QED
      BY <3>1 DEF Parts
  <2>3. CASE request'.kind = "remove"
    <3>1. reads' = <<"account", "pool">>
      BY <1>1, <2>3 DEF Write!ReadsOf
    <3> QED
      BY <3>1 DEF Parts
  <2>4. CASE request'.kind \in {"update", "cancel"}
    <3>1. reads' = <<"offer", "account">>
      BY <1>1, <2>4 DEF Write!ReadsOf
    <3> QED
      BY <3>1 DEF Parts
  <2> QED
    BY <1>3, <2>1, <2>2, <2>3, <2>4
<1>5. reads = <<>> /\ seen = <<>> /\ outcome = "none"
  BY <1>1 DEF WriteInv, AllRead
<1>6. request' # Write!Nothing
  BY <1>3 DEF Write!Nothing
<1>7. seen' \in Seq({ledger'}) /\ Len(seen') = 0
  BY <1>1, <1>5
<1>8. AllRead'
  BY <1>2, <1>4, <1>6, <1>7 DEF AllRead
<1>9. Decided'
  BY <1>1, <1>5 DEF Decided, Write!PreflightIsExact, Write!ReviewedLine
<1> QED
  BY <1>1, <1>8, <1>9 DEF WriteInv

LEMMA OfferReadStep == ASSUME WriteInv, Write!Read PROVE WriteInv'
<1>1. /\ reads # <<>> /\ seen' = Append(seen, ledger) /\ reads' = Tail(reads)
      /\ ledger' = ledger /\ since' = since /\ request' = request /\ outcome' = outcome /\ write' = write
  BY DEF Write!Read
<1>2. reads \in Seq(Parts) /\ seen \in Seq({ledger}) /\ request # Write!Nothing
  BY <1>1 DEF WriteInv, AllRead
<1>3. request \in Write!Calls /\ Len(seen) + Len(reads) = 2
  BY <1>2 DEF WriteInv, AllRead
<1>4. reads' \in Seq(Parts) /\ Len(reads') = Len(reads) - 1
  BY <1>1, <1>2
<1>5. ASSUME NEW S, NEW s \in Seq(S), NEW x \in S
      PROVE  Append(s, x) \in Seq(S) /\ Len(Append(s, x)) = Len(s) + 1
  BY <1>5
<1>6. seen' \in Seq({ledger'}) /\ Len(seen') = Len(seen) + 1
  BY <1>1, <1>2, <1>5
<1>7. Len(seen) \in Nat /\ Len(reads) \in Nat
  BY <1>2
<1>8. AllRead'
  BY <1>1, <1>2, <1>3, <1>4, <1>6, <1>7 DEF AllRead
<1>9. Decided'
  BY <1>1 DEF WriteInv, Decided, Write!PreflightIsExact, Write!ReviewedLine, Write!Quiet, Write!Tx
<1> QED
  BY <1>1, <1>8, <1>9 DEF WriteInv

LEMMA PaymentStep == ASSUME WriteInv, Write!PreparePayment PROVE WriteInv'
<1>1. Write!Ready("pay") /\ Write!Unmoved
  BY DEF Write!PreparePayment
<1>2. /\ request \in Write!Calls /\ request.kind = "pay"
      /\ seen[1] = ledger /\ seen[2] = ledger
      /\ ledger \in Write!Ledgers /\ Write!Legal(ledger)
  BY <1>1, BothRead
<1>3. IF PaymentPasses(request, ledger)
        THEN outcome' = "prepared" /\ write' = [tx |-> PaymentOf(request, ledger), line |-> Write!NoLine]
        ELSE outcome' = "refused"
  BY <1>2 DEF Write!PreparePayment, PaymentPasses, PaymentOf, There, Write!Review, Write!Refuse
<1>4. PaymentPasses(request, ledger) <=> Write!Right(request, ledger) /\ Write!IssuerIsThere(request, ledger)
  BY <1>2, PaymentIsExact DEF Pay
<1>5. PaymentOf(request, ledger).op \in {"payment", "create"}
  BY DEF PaymentOf
<1> QED
  BY <1>1, <1>2, <1>3, <1>4, <1>5, DecisionIsKept DEF Write!Nothing

LEMMA AddStep == ASSUME WriteInv, Write!AddTrustline PROVE WriteInv'
<1>1. Write!Ready("add") /\ Write!Unmoved
  BY DEF Write!AddTrustline
<1>2. /\ request \in Write!Calls /\ request.kind = "add"
      /\ seen[1] = ledger /\ seen[2] = ledger
      /\ ledger \in Write!Ledgers /\ Write!Legal(ledger)
  BY <1>1, BothRead
<1>3. IF AddPasses(request, ledger)
        THEN /\ outcome' = "prepared"
             /\ write' = [tx |-> Write!Trust(request.limit), line |-> Write!InitialLine(ledger.issuer, request.limit)]
        ELSE outcome' = "refused"
  BY <1>2 DEF Write!AddTrustline, AddPasses, Write!Review, Write!Refuse
<1>4. request \in Lines
  BY <1>2 DEF Lines
<1>5. AddPasses(request, ledger) <=> Write!Right(request, ledger)
  BY <1>2, <1>4, AddIsExact
<1>6. ~Write!HasLine(ledger) =>
        Write!After(ledger, Write!Trust(request.limit)).line = Write!InitialLine(ledger.issuer, request.limit)
  <2>1. request.limit \in Nat /\ request.limit # 0
    BY <1>4, LineTypes
  <2>2. ~Write!HasLine(ledger) =>
          Write!After(ledger, Write!Trust(request.limit)).line = Write!NewLine(ledger, request.limit)
    BY <1>2, <2>1, AfterTrust
  <2> QED
    BY <2>2 DEF Write!InitialLine, Write!NewLine
<1> QED
  BY <1>1, <1>2, <1>3, <1>5, <1>6, DecisionIsKept DEF Write!Nothing, AddPasses

LEMMA LimitStep == ASSUME WriteInv, Write!SetLimit PROVE WriteInv'
<1>1. Write!Ready("limit") /\ Write!Unmoved
  BY DEF Write!SetLimit
<1>2. /\ request \in Write!Calls /\ request.kind = "limit"
      /\ seen[1] = ledger /\ seen[2] = ledger
      /\ ledger \in Write!Ledgers /\ Write!Legal(ledger)
  BY <1>1, BothRead
<1>3. IF LimitPasses(request, ledger)
        THEN /\ outcome' = "prepared"
             /\ write' = [tx |-> Write!Trust(request.limit), line |-> [ledger.line EXCEPT !.limit = request.limit]]
        ELSE outcome' = "refused"
  BY <1>2 DEF Write!SetLimit, LimitPasses, Write!Review, Write!Refuse
<1>4. request \in Lines
  BY <1>2 DEF Lines
<1>5. LimitPasses(request, ledger) <=> Write!Right(request, ledger)
  BY <1>2, <1>4, LimitIsExact
<1>6. Write!HasLine(ledger) =>
        Write!After(ledger, Write!Trust(request.limit)).line = [ledger.line EXCEPT !.limit = request.limit]
  BY <1>2, <1>4, LineTypes, AfterTrust
<1> QED
  BY <1>1, <1>2, <1>3, <1>5, <1>6, DecisionIsKept DEF Write!Nothing, LimitPasses

LEMMA RemoveStep == ASSUME WriteInv, Write!RemoveTrustline PROVE WriteInv'
<1>1. Write!Ready("remove") /\ Write!Unmoved
  BY DEF Write!RemoveTrustline
<1>2. /\ request \in Write!Calls /\ request.kind = "remove"
      /\ seen[1] = ledger /\ seen[2] = ledger
      /\ ledger \in Write!Ledgers /\ Write!Legal(ledger)
  BY <1>1, BothRead
<1>3. IF RemovePasses(ledger)
        THEN outcome' = "prepared" /\ write' = [tx |-> Write!Trust(0), line |-> Write!NoLine]
        ELSE outcome' = "refused"
  BY <1>2 DEF Write!RemoveTrustline, RemovePasses, Write!Review, Write!Refuse
<1>4. RemovePasses(ledger) <=> Write!Right(request, ledger)
  BY <1>2, RemoveIsExact
<1>5. 0 \in Nat
  OBVIOUS
<1>6. Write!After(ledger, Write!Trust(0)).line = Write!NoLine
  BY <1>2, <1>5, AfterTrust
<1> QED
  BY <1>1, <1>2, <1>3, <1>4, <1>6, DecisionIsKept DEF Write!Nothing

LEMMA CreateStep == ASSUME WriteInv, Write!CreateOffer PROVE WriteInv'
<1> DEFINE adds == ~Write!CanHold(ledger, request.buying)
           tx == Write!Offer(0, request, adds)
           line == IF adds THEN Write!InitialLine(ledger.issuer, DefaultLimit) ELSE ledger.line
<1>1. Write!Ready("sell_or_buy") /\ Write!Unmoved
  BY DEF Write!CreateOffer
<1>2. /\ request \in Write!Calls /\ request.kind = "sell_or_buy"
      /\ seen[1] = ledger /\ seen[2] = ledger
      /\ ledger \in Write!Ledgers /\ Write!Legal(ledger)
  BY <1>1, BothRead
<1>3. IF CreatePasses(request, ledger)
        THEN outcome' = "prepared" /\ write' = [tx |-> tx, line |-> line]
        ELSE outcome' = "refused"
  BY <1>2 DEF Write!CreateOffer, CreatePasses, Write!Review, Write!Refuse
<1>4. request \in Trades
  BY <1>2 DEF Trades
<1>5. /\ CreatePasses(request, ledger) => Write!Right(request, ledger)
      /\ Write!Right(request, ledger) /\ Write!LumensFit(request, ledger) => CreatePasses(request, ledger)
  BY <1>2, <1>4, CreateIsExact
<1>6. adds \in BOOLEAN /\ 0 \in {0, 1}
  OBVIOUS
<1> HIDE DEF adds
<1>7. tx \in OfferTx /\ (tx.addsLine <=> adds)
  BY <1>4, <1>6, OfferForm
<1> HIDE DEF tx
<1>8. AfterOfferRest(ledger, tx, Write!After(ledger, tx))
  BY <1>2, <1>7, AfterOffer
<1>9. Write!After(ledger, tx).line = line
  BY <1>7, <1>8 DEF AfterOfferRest, Write!InitialLine, Write!NewLine
<1> HIDE DEF line
<1> QED
  BY <1>1, <1>2, <1>3, <1>5, <1>9, DecisionIsKept DEF Write!Nothing

LEMMA UpdateStep == ASSUME WriteInv, Write!UpdateOffer PROVE WriteInv'
<1> DEFINE tx == Write!Offer(1, request, FALSE)
<1>1. Write!Ready("update") /\ Write!Unmoved
  BY DEF Write!UpdateOffer
<1>2. /\ request \in Write!Calls /\ request.kind = "update"
      /\ seen[1] = ledger /\ seen[2] = ledger
      /\ ledger \in Write!Ledgers /\ Write!Legal(ledger)
  BY <1>1, BothRead
<1>3. IF UpdatePasses(request, ledger.offer, ledger)
        THEN outcome' = "prepared" /\ write' = [tx |-> tx, line |-> ledger.line]
        ELSE outcome' = "refused"
  BY <1>2 DEF Write!UpdateOffer, UpdatePasses, Write!Review, Write!Refuse
<1>4. request \in Trades
  BY <1>2 DEF Trades
<1>5. /\ UpdatePasses(request, ledger.offer, ledger) => Write!Right(request, ledger)
      /\ Write!Right(request, ledger) /\ Write!LumensFit(request, ledger)
           => UpdatePasses(request, ledger.offer, ledger)
  BY <1>2, <1>4, UpdateIsExact
<1>6. tx \in OfferTx /\ ~tx.addsLine
  BY <1>4, TradeTypes DEF Write!Offer, OfferTx, Write!Assets
<1> HIDE DEF tx
<1>7. AfterOfferRest(ledger, tx, Write!After(ledger, tx))
  BY <1>2, <1>6, AfterOffer
<1>8. Write!After(ledger, tx).line = ledger.line
  BY <1>6, <1>7 DEF AfterOfferRest
<1> QED
  BY <1>1, <1>2, <1>3, <1>5, <1>8, DecisionIsKept DEF Write!Nothing

LEMMA CancelStep == ASSUME WriteInv, Write!CancelOffer PROVE WriteInv'
<1> DEFINE tx == Write!Offer(1, [ledger.offer EXCEPT !.amount = 0, !.side = "sell"], FALSE)
<1>1. Write!Ready("cancel") /\ Write!Unmoved
  BY DEF Write!CancelOffer
<1>2. /\ request \in Write!Calls /\ request.kind = "cancel"
      /\ seen[1] = ledger /\ seen[2] = ledger
      /\ ledger \in Write!Ledgers /\ Write!Legal(ledger)
  BY <1>1, BothRead
<1>3. IF ledger.offer.owner = "wallet" /\ Write!HasCapacity(ledger, Fee)
        THEN outcome' = "prepared" /\ write' = [tx |-> tx, line |-> ledger.line]
        ELSE outcome' = "refused"
  BY <1>2 DEF Write!CancelOffer, Write!Review, Write!Refuse
<1>4. (ledger.offer.owner = "wallet" /\ Write!HasCapacity(ledger, Fee)) <=> Write!Right(request, ledger)
  BY <1>2, CancelIsExact
<1>5. tx \in OfferTx /\ ~tx.addsLine
  <2>1. ledger.offer \in Write!Offers
    BY <1>2, Numbers
  <2>2. /\ DOMAIN ledger.offer = {"owner", "side", "selling", "buying", "amount", "price"}
        /\ ledger.offer.selling \in Write!Assets /\ ledger.offer.buying \in Write!Assets
        /\ ledger.offer.price \in Write!Prices /\ 0 \in 0..Int64Max
    BY <2>1, Constants DEF Write!Offers
  <2> QED
    BY <2>2 DEF Write!Offer, OfferTx
<1> HIDE DEF tx
<1>6. AfterOfferRest(ledger, tx, Write!After(ledger, tx))
  BY <1>2, <1>5, AfterOffer
<1>7. Write!After(ledger, tx).line = ledger.line
  BY <1>5, <1>6 DEF AfterOfferRest
<1> QED
  BY <1>1, <1>2, <1>3, <1>4, <1>7, DecisionIsKept DEF Write!Nothing

LEMMA TakeStep == ASSUME WriteInv, Write!TakeOffer PROVE FALSE
<1>1. PICK w : Write!Moves(w)
  BY DEF Write!TakeOffer
<1> QED
  BY <1>1, NoMoves DEF WriteInv

LEMMA WriteStutter == ASSUME WriteInv, UNCHANGED Write!vars PROVE WriteInv'
<1>1. /\ ledger' = ledger /\ since' = since /\ request' = request /\ reads' = reads /\ seen' = seen
      /\ outcome' = outcome /\ write' = write
  BY DEF Write!vars
<1>2. Write!PreflightIsExact'
  BY <1>1 DEF WriteInv, Decided, Write!PreflightIsExact, Write!Quiet
<1>3. Write!ReviewedLine'
  BY <1>1 DEF WriteInv, Decided, Write!ReviewedLine, Write!Quiet, Write!Tx
<1> QED
  BY <1>1, <1>2, <1>3 DEF WriteInv, AllRead, Decided

\* PreflightIsExact, of the composition: while nothing changes, a payment, a trustline or an
\* offer that is shown for review is one that the rules of the client allow and the ledger
\* takes, with the line there will be, and every such one is shown, but for the last fee
\* below the end of the range and for what is sent back to an issuer without an account
\* (payment.rs, trustline.rs, dex.rs).
THEOREM PreflightsAreExact == Write!Spec => []PreflightIsExact
<1>1. Write!Init => WriteInv
  <2>1. SUFFICES ASSUME Write!Init PROVE WriteInv
    OBVIOUS
  <2>2. ledger \in Write!Ledgers /\ Write!Legal(ledger) /\ since = {ledger}
    BY <2>1, WritesAssumption DEF Write!Init, Write!LedgerAssumption
  <2>3. request = Write!Nothing /\ reads = <<>> /\ seen = <<>> /\ outcome = "none"
    BY <2>1 DEF Write!Init
  <2>4. AllRead
    BY <2>3 DEF AllRead
  <2>5. Decided
    BY <2>3 DEF Decided, Write!PreflightIsExact, Write!ReviewedLine
  <2> QED
    BY <2>2, <2>3, <2>4, <2>5 DEF WriteInv
<1>2. WriteInv /\ [Write!Next]_(Write!vars) => WriteInv'
  BY BeginStep, OfferReadStep, PaymentStep, AddStep, LimitStep, RemoveStep, CreateStep, UpdateStep,
     CancelStep, TakeStep, WriteStutter DEF Write!Next
<1>3. WriteInv => PreflightIsExact
  BY DEF WriteInv, Decided, PreflightIsExact
<1> QED
  BY <1>1, <1>2, <1>3, PTL DEF Write!Spec

-----------------------------------------------------------------------------
(***************************************************************************)
(* An update while somebody takes parts of the offer.  The two instances   *)
(* read a ledger alike.                                                    *)
(***************************************************************************)
LEMMA SameCounts ==
    \A w :
      /\ Raced!HasOffer(w) = Write!HasOffer(w) /\ Raced!HasLine(w) = Write!HasLine(w)
      /\ Raced!Liabilities(w) = Write!Liabilities(w) /\ Raced!MinimumOf(w) = Write!MinimumOf(w)
      /\ \A asset : Raced!Selling(w, asset) = Write!Selling(w, asset)
      /\ \A asset : Raced!Buying(w, asset) = Write!Buying(w, asset)
<1>1. \A w : Raced!HasOffer(w) = Write!HasOffer(w) /\ Raced!HasLine(w) = Write!HasLine(w)
  BY DEF Raced!HasOffer, Write!HasOffer, Raced!HasLine, Write!HasLine
<1>2. \A w : Raced!Liabilities(w) = Write!Liabilities(w)
  BY <1>1, SameLiabilities DEF Raced!Liabilities, Write!Liabilities
<1>3. \A w, asset : Raced!Selling(w, asset) = Write!Selling(w, asset)
  BY <1>1, <1>2 DEF Raced!Selling, Write!Selling
<1>4. \A w, asset : Raced!Buying(w, asset) = Write!Buying(w, asset)
  BY <1>1, <1>2 DEF Raced!Buying, Write!Buying
<1>5. \A w : Raced!MinimumOf(w) = Write!MinimumOf(w)
  BY <1>1 DEF Raced!MinimumOf, Write!MinimumOf
<1> QED
  BY <1>1, <1>2, <1>3, <1>4, <1>5

LEMMA SameLaw == \A w : Raced!Legal(w) <=> Write!Legal(w)
BY SameCounts DEF Raced!Legal, Write!Legal

LEMMA SameClient ==
    /\ \A a, x : Raced!HasCapacity(a, x) <=> Write!HasCapacity(a, x)
    /\ \A a, asset : Raced!OfferAuthorized(a, asset) <=> Write!OfferAuthorized(a, asset)
    /\ \A a, old, r : Raced!PreflightUpdate(a, old, r) <=> Write!PreflightUpdate(a, old, r)
<1>1. \A x, y : Raced!Minus(x, y) = Write!Minus(x, y)
  BY DEF Raced!Minus, Write!Minus
<1>2. \A a : Raced!Free(a) = Write!Free(a)
  BY <1>1, SameCounts DEF Raced!Free, Write!Free
<1>3. \A a, x : Raced!HasCapacity(a, x) <=> Write!HasCapacity(a, x)
  BY <1>2 DEF Raced!HasCapacity, Write!HasCapacity
<1>4. \A a, asset : Raced!OfferAuthorized(a, asset) <=> Write!OfferAuthorized(a, asset)
  BY SameCounts DEF Raced!OfferAuthorized, Write!OfferAuthorized
<1>5. \A a, asset : Raced!Balance(a, asset) = Write!Balance(a, asset)
  BY DEF Raced!Balance, Write!Balance
<1>6. \A a, asset : Raced!AvailableBalance(a, asset) = Write!AvailableBalance(a, asset)
  BY <1>1, <1>5, SameCounts DEF Raced!AvailableBalance, Write!AvailableBalance
<1>7. \A a, asset, new : Raced!ReceivingCapacity(a, asset, new) = Write!ReceivingCapacity(a, asset, new)
  BY <1>1, SameCounts DEF Raced!ReceivingCapacity, Write!ReceivingCapacity
<1>8. \A a, old, r : Raced!PreflightUpdate(a, old, r) <=> Write!PreflightUpdate(a, old, r)
  BY <1>3, <1>6, <1>7, SameCounts, SameLiabilities DEF Raced!PreflightUpdate, Write!PreflightUpdate
<1> QED
  BY <1>3, <1>4, <1>8

LEMMA SameLedger ==
    ASSUME NEW w, NEW tx, tx.op = "offer"
    PROVE  Raced!LedgerAccepts(w, tx) <=> Write!LedgerAccepts(w, tx)
<1>1. \A asset : Raced!Full(w, asset) <=> Write!Full(w, asset)
  BY SameCounts DEF Raced!Full, Write!Full
<1>2. Raced!Allowed(w, tx) <=> Write!Allowed(w, tx)
  BY <1>1, SameCounts DEF Raced!Allowed, Write!Allowed
<1>3. Raced!FeeOf(tx) = Write!FeeOf(tx)
  BY DEF Raced!FeeOf, Write!FeeOf
<1>4. \A limit : Raced!NewLine(w, limit) = Write!NewLine(w, limit)
  BY DEF Raced!NewLine, Write!NewLine
<1>5. Raced!After(w, tx) = Write!After(w, tx)
  BY <1>3, <1>4 DEF Raced!After, Write!After
<1> QED
  BY <1>2, <1>3, <1>5, SameCounts, SameLaw DEF Raced!LedgerAccepts, Write!LedgerAccepts

LEMMA SameSets == Raced!Ledgers = Write!Ledgers /\ Raced!Calls = Write!Calls
<1>1. /\ Raced!Prices = Write!Prices /\ Raced!Assets = Write!Assets
      /\ Raced!Authorizations = Write!Authorizations /\ Raced!Memos = Write!Memos
  BY DEF Raced!Prices, Write!Prices, Raced!Assets, Write!Assets, Raced!Authorizations, Write!Authorizations,
         Raced!Memos, Write!Memos
<1>2. Raced!Offers = Write!Offers
  BY <1>1 DEF Raced!Offers, Write!Offers
<1> QED
  BY <1>1, <1>2 DEF Raced!Ledgers, Write!Ledgers, Raced!Calls, Write!Calls

Part(asset, of, x) == IF asset = of THEN x ELSE 0

\* Of the offer of w, k of what it sells are sold for s of what it buys, and v is left.
TakenFrom(w, v, k, s) ==
    /\ k \in 0..w.offer.amount /\ s \in Nat /\ s * w.offer.price.d = k * w.offer.price.n
    /\ v.offer.amount = w.offer.amount - k /\ v.offer.owner = w.offer.owner /\ v.offer.price = w.offer.price
    /\ v.offer.selling = w.offer.selling /\ v.offer.buying = w.offer.buying
    /\ v.others = w.others /\ v.dest = w.dest
    /\ v.line.limit = w.line.limit /\ v.line.auth = w.line.auth
    /\ v.xlm = w.xlm + Part(w.offer.buying, "native", s) - Part(w.offer.selling, "native", k)
    /\ v.line.balance = w.line.balance + Part(w.offer.buying, "usd", s) - Part(w.offer.selling, "usd", k)

Taken(w, v) == \E k, s : TakenFrom(w, v, k, s)

LEMMA OfferTypes ==
    ASSUME NEW w \in Write!Ledgers, Write!HasOffer(w)
    PROVE  /\ w.offer.amount \in Nat /\ w.offer.amount > 0 /\ w.offer.amount <= Int64Max
           /\ w.offer.price \in Write!Prices /\ w.offer.price.n \in Positive /\ w.offer.price.d \in Positive
           /\ w.offer.selling \in {"native", "usd", "own"} /\ w.offer.buying \in {"native", "usd", "own"}
           /\ w.offer.selling # w.offer.buying /\ w.offer.side = "sell"
           /\ DOMAIN w.offer = {"owner", "side", "selling", "buying", "amount", "price"}
<1>1. w.offer \in Write!Offers /\ w.offer.owner = "wallet"
  BY Numbers DEF Write!HasOffer
<1>2. w.offer \in [owner : {"wallet"}, side : {"sell"}, selling : Write!Assets, buying : Write!Assets,
                   amount : 1..Int64Max, price : Write!Prices] /\ w.offer.selling # w.offer.buying
  BY <1>1 DEF Write!Offers
<1>3. \A p \in Write!Prices : p.n \in Positive /\ p.d \in Positive
  BY WritesAssumption DEF Write!BoundsAssumption, Write!Prices, Positive
<1> QED
  BY <1>2, <1>3, Constants DEF Write!Assets

LEMMA TakeNothing == ASSUME NEW w \in Write!Ledgers, Write!HasOffer(w) PROVE Taken(w, w)
<1>1. w.xlm \in Nat /\ w.line.balance \in Nat
  BY Numbers
<1>2. TakenFrom(w, w, 0, 0)
  BY <1>1, OfferTypes DEF TakenFrom, Part, Positive
<1> QED
  BY <1>2 DEF Taken

\* A take after others is a larger one.
LEMMA TakeMore ==
    ASSUME NEW w \in Write!Ledgers, NEW v \in Write!Ledgers, NEW x,
           Write!HasOffer(w), Taken(w, v), Taken(v, x)
    PROVE  Taken(w, x)
<1>1. PICK k, s : TakenFrom(w, v, k, s)
  BY DEF Taken
<1>2. PICK l, t : TakenFrom(v, x, l, t)
  BY DEF Taken
<1>3. /\ w.offer.amount \in Nat /\ w.offer.price.n \in Nat /\ w.offer.price.d \in Nat
  BY OfferTypes DEF Positive
<1>4. k \in 0..w.offer.amount /\ s \in Nat /\ s * w.offer.price.d = k * w.offer.price.n
  BY <1>1 DEF TakenFrom
<1>5. /\ v.offer.amount = w.offer.amount - k /\ v.offer.price = w.offer.price
      /\ v.offer.selling = w.offer.selling /\ v.offer.buying = w.offer.buying
      /\ v.offer.owner = w.offer.owner
  BY <1>1 DEF TakenFrom
<1>6. /\ l \in 0..v.offer.amount /\ t \in Nat /\ t * w.offer.price.d = l * w.offer.price.n
      /\ x.offer.amount = v.offer.amount - l /\ x.offer.owner = v.offer.owner /\ x.offer.price = v.offer.price
      /\ x.offer.selling = v.offer.selling /\ x.offer.buying = v.offer.buying
  BY <1>2, <1>5 DEF TakenFrom
<1>7. l \in Nat /\ k \in Nat /\ k + l \in 0..w.offer.amount /\ s + t \in Nat
  BY <1>3, <1>4, <1>5, <1>6
<1>8. (s + t) * w.offer.price.d = (k + l) * w.offer.price.n
  <2>1. ASSUME NEW a \in Nat, NEW b \in Nat, NEW c \in Nat PROVE (a + b) * c = a * c + b * c
    OBVIOUS
  <2> QED
    BY <1>3, <1>4, <1>6, <1>7, <2>1
<1>9. /\ x.offer.amount = w.offer.amount - (k + l) /\ x.offer.owner = w.offer.owner
      /\ x.offer.price = w.offer.price
      /\ x.offer.selling = w.offer.selling /\ x.offer.buying = w.offer.buying
  BY <1>3, <1>5, <1>6, <1>7
<1>10. /\ x.others = w.others /\ x.dest = w.dest
       /\ x.line.limit = w.line.limit /\ x.line.auth = w.line.auth
  BY <1>1, <1>2 DEF TakenFrom
<1>11. \A asset, of : Part(asset, of, s + t) = Part(asset, of, s) + Part(asset, of, t)
                      /\ Part(asset, of, k + l) = Part(asset, of, k) + Part(asset, of, l)
  BY <1>4, <1>6, <1>7 DEF Part
<1>12. \A asset, of : /\ Part(asset, of, s) \in Nat /\ Part(asset, of, t) \in Nat
                      /\ Part(asset, of, k) \in Nat /\ Part(asset, of, l) \in Nat
  BY <1>4, <1>6, <1>7 DEF Part
<1>13. /\ v.xlm = w.xlm + Part(w.offer.buying, "native", s) - Part(w.offer.selling, "native", k)
       /\ v.line.balance = w.line.balance + Part(w.offer.buying, "usd", s) - Part(w.offer.selling, "usd", k)
  BY <1>1 DEF TakenFrom
<1>14. /\ x.xlm = v.xlm + Part(w.offer.buying, "native", t) - Part(w.offer.selling, "native", l)
       /\ x.line.balance = v.line.balance + Part(w.offer.buying, "usd", t) - Part(w.offer.selling, "usd", l)
  BY <1>2, <1>5 DEF TakenFrom
<1>15. w.xlm \in Nat /\ w.line.balance \in Nat
  BY Numbers
<1>16. /\ x.xlm = w.xlm + Part(w.offer.buying, "native", s + t) - Part(w.offer.selling, "native", k + l)
       /\ x.line.balance = w.line.balance + Part(w.offer.buying, "usd", s + t) - Part(w.offer.selling, "usd", k + l)
  BY <1>11, <1>12, <1>13, <1>14, <1>15
<1>17. TakenFrom(w, x, k + l, s + t)
  BY <1>7, <1>8, <1>9, <1>10, <1>16 DEF TakenFrom
<1> QED
  BY <1>17 DEF Taken

\* A ledger whose numbers may be below zero.
Loose ==
    [xlm : Int, others : Nat, pool : BOOLEAN, offer : Write!Offers,
     line : [balance : Int, limit : Nat, auth : Write!Authorizations, clawback : BOOLEAN],
     dest : [exists : BOOLEAN, xlm : Nat, balance : Nat, limit : Nat, auth : Write!Authorizations, memoRequired : BOOLEAN],
     issuer : [exists : BOOLEAN, required : BOOLEAN, clawback : BOOLEAN, memoRequired : BOOLEAN]]

Gained(m, asset, x, g) ==
    /\ g \in Loose
    /\ g.offer = m.offer /\ g.others = m.others /\ g.dest = m.dest
    /\ g.line.limit = m.line.limit /\ g.line.auth = m.line.auth
    /\ g.xlm = m.xlm + Part(asset, "native", x)
    /\ g.line.balance = m.line.balance + Part(asset, "usd", x)

LEMMA GainsForm ==
    ASSUME NEW m \in Loose, NEW asset \in {"native", "usd", "own"}, NEW x \in Int
    PROVE  Gained(m, asset, x, Raced!Gains(m, asset, x))
<1>1. m.xlm \in Int /\ m.line.balance \in Int
  BY DEF Loose
<1>2. CASE asset = "native"
  <2>1. Raced!Gains(m, asset, x) = [m EXCEPT !.xlm = @ + x]
    BY <1>2 DEF Raced!Gains
  <2>2. Part(asset, "native", x) = x /\ Part(asset, "usd", x) = 0
    BY <1>2 DEF Part
  <2> QED
    BY <1>1, <2>1, <2>2 DEF Gained, Loose
<1>3. CASE asset = "usd"
  <2>1. Raced!Gains(m, asset, x) = [m EXCEPT !.line.balance = @ + x]
    BY <1>3 DEF Raced!Gains
  <2>2. Part(asset, "native", x) = 0 /\ Part(asset, "usd", x) = x
    BY <1>3 DEF Part
  <2> QED
    BY <1>1, <2>1, <2>2 DEF Gained, Loose
<1>4. CASE asset = "own"
  <2>1. Raced!Gains(m, asset, x) = m
    BY <1>4 DEF Raced!Gains
  <2>2. Part(asset, "native", x) = 0 /\ Part(asset, "usd", x) = 0
    BY <1>4 DEF Part
  <2> QED
    BY <1>1, <2>1, <2>2 DEF Gained, Loose
<1> QED
  BY <1>2, <1>3, <1>4

\* Somebody takes a part of the offer.
LEMMA TakeOnce ==
    ASSUME NEW w \in Write!Ledgers, Write!HasOffer(w), NEW k \in 1..w.offer.amount - 1, NEW s,
           s = (k * w.offer.price.n) \div w.offer.price.d, s * w.offer.price.d = k * w.offer.price.n, NEW v,
           v = Raced!Gains(Raced!Gains([w EXCEPT !.offer.amount = w.offer.amount - k], w.offer.buying, s),
                           w.offer.selling, 0 - k),
           Write!Legal(v)
    PROVE  v \in Write!Ledgers /\ Taken(w, v)
<1> DEFINE o == [w.offer EXCEPT !.amount = w.offer.amount - k]
           b == w.offer.buying
           c == w.offer.selling
           y == [w EXCEPT !.offer = o]
           z == Raced!Gains(y, b, s)
<1>1. /\ w.offer.amount \in Nat /\ w.offer.amount <= Int64Max
      /\ w.offer.price.n \in Nat /\ w.offer.price.d \in Positive
      /\ b \in {"native", "usd", "own"} /\ c \in {"native", "usd", "own"} /\ c # b
  BY OfferTypes DEF Positive
<1>2. k \in Nat /\ k >= 1 /\ k < w.offer.amount
  BY <1>1
<1>3. s \in Nat
  BY <1>1, <1>2, Quotient
<1>4. o \in Write!Offers
  <2>1. w.offer \in [owner : {"wallet"}, side : {"sell"}, selling : Write!Assets, buying : Write!Assets,
                     amount : 1..Int64Max, price : Write!Prices] /\ w.offer.selling # w.offer.buying
    BY Numbers DEF Write!Offers, Write!HasOffer
  <2>2. w.offer.amount - k \in 1..Int64Max
    BY <1>1, <1>2, Constants
  <2>3. o \in [owner : {"wallet"}, side : {"sell"}, selling : Write!Assets, buying : Write!Assets,
               amount : 1..Int64Max, price : Write!Prices] /\ o.selling # o.buying
    BY <2>1, <2>2
  <2> QED
    BY <2>3 DEF Write!Offers
<1>5. /\ o.amount = w.offer.amount - k /\ o.owner = w.offer.owner /\ o.price = w.offer.price
      /\ o.selling = c /\ o.buying = b
  <2>1. DOMAIN w.offer = {"owner", "side", "selling", "buying", "amount", "price"}
    BY OfferTypes
  <2> QED
    BY <2>1
<1>6. /\ w \in [xlm : Nat, others : Nat, pool : BOOLEAN, offer : Write!Offers,
                line : [balance : Nat, limit : Nat, auth : Write!Authorizations, clawback : BOOLEAN],
                dest : [exists : BOOLEAN, xlm : Nat, balance : Nat, limit : Nat, auth : Write!Authorizations,
                        memoRequired : BOOLEAN],
                issuer : [exists : BOOLEAN, required : BOOLEAN, clawback : BOOLEAN, memoRequired : BOOLEAN]]
  BY DEF Write!Ledgers
<1> HIDE DEF o
<1>7. v = Raced!Gains(z, c, 0 - k)
  BY DEF o
<1>8. y.offer = o /\ y.others = w.others /\ y.dest = w.dest /\ y.line = w.line /\ y.xlm = w.xlm
  BY <1>6
<1>9. y \in Loose
  BY <1>4, <1>6 DEF Loose
<1>10. s \in Int /\ 0 - k \in Int
  BY <1>2, <1>3
<1> HIDE DEF y, z, b, c
<1>11. Gained(y, b, s, z)
  BY <1>1, <1>9, <1>10, GainsForm DEF z
<1>12. z \in Loose
  BY <1>11 DEF Gained
<1>13. Gained(z, c, 0 - k, v)
  BY <1>1, <1>7, <1>10, <1>12, GainsForm
<1>14. \A asset, of : Part(asset, of, 0 - k) = 0 - Part(asset, of, k) /\ Part(asset, of, k) \in Nat
                      /\ Part(asset, of, s) \in Nat
  BY <1>2, <1>3 DEF Part
<1>15. w.xlm \in Nat /\ w.line.balance \in Nat
  BY Numbers
<1>16. /\ v.xlm = w.xlm + Part(b, "native", s) - Part(c, "native", k)
       /\ v.line.balance = w.line.balance + Part(b, "usd", s) - Part(c, "usd", k)
  <2>1. z.xlm = w.xlm + Part(b, "native", s) /\ z.line.balance = w.line.balance + Part(b, "usd", s)
    BY <1>8, <1>11 DEF Gained
  <2>2. /\ v.xlm = z.xlm + Part(c, "native", 0 - k)
        /\ v.line.balance = z.line.balance + Part(c, "usd", 0 - k)
    BY <1>13 DEF Gained
  <2>3. /\ Part(b, "native", s) \in Nat /\ Part(c, "native", k) \in Nat
        /\ Part(c, "native", 0 - k) = 0 - Part(c, "native", k)
    BY <1>14
  <2>4. /\ Part(b, "usd", s) \in Nat /\ Part(c, "usd", k) \in Nat
        /\ Part(c, "usd", 0 - k) = 0 - Part(c, "usd", k)
    BY <1>14
  <2>5. v.xlm = w.xlm + Part(b, "native", s) - Part(c, "native", k)
    BY ONLY <1>15, <2>1, <2>2, <2>3
  <2>6. v.line.balance = w.line.balance + Part(b, "usd", s) - Part(c, "usd", k)
    BY ONLY <1>15, <2>1, <2>2, <2>4
  <2> QED
    BY <2>5, <2>6
<1>17. /\ v.offer = o /\ v.others = w.others /\ v.dest = w.dest
       /\ v.line.limit = w.line.limit /\ v.line.auth = w.line.auth
  BY <1>8, <1>11, <1>13 DEF Gained
<1>18. v \in Loose
  BY <1>13 DEF Gained
<1>19. TakenFrom(w, v, k, s)
  <2>1. k \in 0..w.offer.amount
    BY <1>1, <1>2
  <2> QED
    BY <1>3, <1>5, <1>16, <1>17, <2>1 DEF TakenFrom, b, c
<1>20. v.xlm \in Nat /\ v.line.balance \in Nat
  <2>1. v.offer \in Write!Offers
    BY <1>4, <1>17
  <2>2. Write!Selling(v, "native") \in Nat /\ Write!Selling(v, "usd") \in Nat
    BY <2>1, OfferNumbers
  <2>3. v.others \in Nat /\ v.xlm \in Int /\ v.line.balance \in Int
    BY <1>18 DEF Loose
  <2>4. Write!MinimumOf(v) \in Nat
    <3>1. Entries(v) \in Nat
      BY <2>3 DEF Entries
    <3> QED
      BY <3>1, Minimum
  <2>5. v.xlm >= Write!Selling(v, "native") + Write!MinimumOf(v) /\ v.line.balance >= Write!Selling(v, "usd")
    BY DEF Write!Legal
  <2>6. ASSUME NEW i \in Int, NEW a \in Nat, NEW d \in Nat, i >= a + d PROVE i \in Nat
    BY <2>6
  <2>7. v.xlm \in Nat
    BY <2>2, <2>3, <2>4, <2>5, <2>6
  <2>8. v.line.balance >= Write!Selling(v, "usd") + 0 /\ 0 \in Nat
    BY <2>2, <2>5
  <2>9. v.line.balance \in Nat
    BY <2>2, <2>3, <2>6, <2>8
  <2> QED
    BY <2>7, <2>9
<1>21. v \in Write!Ledgers
  BY <1>18, <1>20 DEF Loose, Write!Ledgers
<1> QED
  BY <1>19, <1>21 DEF Taken

\* What the ledger counts for an offer is what the client releases for it.
LEMMA LiabilitiesOf ==
    ASSUME NEW w, Write!HasOffer(w), w.offer.side = "sell"
    PROVE  LET l == Write!OfferLiabilities("sell", w.offer.amount, w.offer.price)
           IN  /\ \A asset : Write!Selling(w, asset) = Part(w.offer.selling, asset, l.selling)
               /\ \A asset : Write!Buying(w, asset) = Part(w.offer.buying, asset, l.buying)
BY DEF Write!Selling, Write!Buying, Write!Liabilities, Part

LEMMA NewOfferOwes ==
    ASSUME NEW w \in Write!Ledgers, NEW tx \in OfferTx, tx.amount # 0, NEW r,
           tx.selling = r.selling, tx.buying = r.buying, Need(tx) = Need(r), NEW u, u = Write!After(w, tx)
    PROVE  /\ \A asset : Write!Selling(u, asset) = Part(r.selling, asset, Need(r).selling)
           /\ \A asset : Write!Buying(u, asset) = Part(r.buying, asset, Need(r).buying)
BY NewLiabilities DEF Part

\* The checks of an update of the old offer, against a ledger where a part of it is sold,
\* are those of the ledger from before the sale, the fee aside.
LEMMA UpdateWasPossible ==
    ASSUME NEW w \in Write!Ledgers, Write!Legal(w), Write!HasOffer(w),
           NEW v \in Write!Ledgers, Write!Legal(v), NEW k, NEW s, TakenFrom(w, v, k, s),
           NEW r \in Trades, r.kind = "update", UpdatePasses(r, w.offer, v),
           NEW x, x = [w EXCEPT !.xlm = @ + Fee], NEW tx, tx = Write!Offer(1, r, FALSE)
    PROVE  Write!LedgerAccepts(x, tx)
<1> DEFINE before == Write!OfferLiabilities("sell", w.offer.amount, w.offer.price)
           after == Write!OfferLiabilities("sell", w.offer.amount - k, w.offer.price)
           u == Write!After(x, tx)
           m == Write!MinimumOf(w)
           ns == Need(r).selling
           nb == Need(r).buying
<1>1. /\ w.xlm \in Nat /\ w.line.balance \in Nat /\ w.line.limit \in Nat /\ m \in Nat
      /\ v.xlm \in Nat /\ v.line.balance \in Nat
      /\ Write!Selling(w, "native") \in Nat /\ Fee \in Nat /\ Int64Max \in Nat
      /\ ns \in Nat /\ nb \in Nat
      /\ r.selling \in {"native", "usd", "own"} /\ r.buying \in {"native", "usd", "own"}
  BY Numbers, Constants, TradeTypes
<1>2. /\ x \in Write!Ledgers
      /\ x.xlm = w.xlm + Fee /\ x.others = w.others /\ x.offer = w.offer /\ x.line = w.line /\ x.dest = w.dest
  BY <1>1 DEF Write!Ledgers
<1>3. /\ tx \in OfferTx /\ tx.op = "offer" /\ tx.id = 1 /\ tx.amount # 0 /\ tx.amount > 0 /\ Need(tx) = Need(r)
      /\ tx.selling = r.selling /\ tx.buying = r.buying /\ ~tx.addsLine
  BY TradeTypes DEF Write!Offer, OfferTx, Need, Write!Assets
<1>4. /\ Write!HasOffer(x) /\ Write!Selling(x, "native") = Write!Selling(w, "native")
      /\ Write!HasLine(x) = Write!HasLine(w)
  BY <1>2, SameOffer DEF Write!HasLine
<1>5. Write!MinimumOf(x) = m
  BY <1>2, <1>4, SameEntries
<1>6. /\ v.offer.owner = w.offer.owner /\ v.offer.amount = w.offer.amount - k /\ v.offer.price = w.offer.price
      /\ v.offer.selling = w.offer.selling /\ v.offer.buying = w.offer.buying
      /\ v.others = w.others /\ v.line.limit = w.line.limit /\ v.line.auth = w.line.auth
      /\ k \in 0..w.offer.amount /\ s \in Nat /\ s * w.offer.price.d = k * w.offer.price.n
  BY DEF TakenFrom
<1>7. Write!HasOffer(v) /\ Write!HasLine(v) = Write!HasLine(w)
  BY <1>6 DEF Write!HasOffer, Write!HasLine
<1>8. Write!MinimumOf(v) = m
  BY <1>6, <1>7, Minimum DEF Entries
<1>9. /\ w.offer.selling = r.selling /\ w.offer.buying = r.buying /\ r.selling # r.buying
      /\ Write!OfferAuthorized(v, r.selling) /\ Write!OfferAuthorized(v, r.buying)
      /\ Write!PreflightUpdate(v, w.offer, r)
  BY OfferTypes DEF UpdatePasses
<1>10. /\ before.selling \in Nat /\ before.buying \in Nat /\ after.selling \in Nat /\ after.buying \in Nat
       /\ before.selling <= after.selling + k /\ before.buying <= after.buying + s
  <2>1. /\ w.offer.amount \in Nat /\ w.offer.amount \in 0..Int64Max /\ w.offer.price \in Write!Prices
        /\ w.offer.amount - k \in 0..Int64Max
    BY <1>1, <1>6, OfferTypes
  <2>2. before.selling <= after.selling + k /\ before.buying <= after.buying + s
    BY <1>6, <2>1, LiabilitiesShrink
  <2>3. before.selling \in 0..Int64Max /\ before.buying \in 0..Int64Max
    BY <2>1, LiabilitiesBound
  <2>4. after.selling \in 0..Int64Max /\ after.buying \in 0..Int64Max
    BY <2>1, LiabilitiesBound
  <2> QED
    BY <1>1, <2>2, <2>3, <2>4
<1>11. /\ \A asset : Write!Selling(v, asset) = Part(r.selling, asset, after.selling)
       /\ \A asset : Write!Buying(v, asset) = Part(r.buying, asset, after.buying)
  <2>1. v.offer.side = "sell"
    BY <1>7, OfferTypes
  <2> QED
    BY <1>6, <1>7, <1>9, <2>1, LiabilitiesOf
<1>12. /\ w.xlm >= Write!Selling(w, "native") + m
       /\ w.line.balance + Write!Buying(w, "usd") <= w.line.limit /\ w.xlm + Write!Buying(w, "native") <= Int64Max
       /\ w.dest.balance <= w.dest.limit /\ w.dest.xlm <= Int64Max
  BY DEF Write!Legal
<1>13. /\ v.xlm >= Part(r.selling, "native", after.selling)
       /\ v.xlm + Part(r.buying, "native", after.buying) <= Int64Max
       /\ v.line.balance >= Part(r.selling, "usd", after.selling)
       /\ v.line.balance + Part(r.buying, "usd", after.buying) <= w.line.limit
  <2>1. Part(r.selling, "native", after.selling) \in Nat
    BY <1>10 DEF Part
  <2>2. /\ v.xlm >= Write!Selling(v, "native") + Write!MinimumOf(v)
        /\ v.xlm + Write!Buying(v, "native") <= Int64Max
        /\ v.line.balance >= Write!Selling(v, "usd")
        /\ v.line.balance + Write!Buying(v, "usd") <= v.line.limit
    BY DEF Write!Legal
  <2>3. v.xlm >= Part(r.selling, "native", after.selling) + m
    BY <1>8, <1>11, <2>2
  <2> QED
    BY <1>1, <1>6, <1>11, <2>1, <2>2, <2>3
<1>14. /\ v.xlm = w.xlm + Part(r.buying, "native", s) - Part(r.selling, "native", k)
       /\ v.line.balance = w.line.balance + Part(r.buying, "usd", s) - Part(r.selling, "usd", k)
  BY <1>9 DEF TakenFrom
<1> HIDE DEF before, after, u, m, ns, nb
<1>15. /\ IF r.selling = "native" THEN ns + m + Fee <= Write!AvailableBalance(v, r.selling) + before.selling
          ELSE r.selling # "own" => ns <= Write!AvailableBalance(v, r.selling) + before.selling
       /\ r.buying # "own" => nb <= Write!ReceivingCapacity(v, r.buying, 0) + before.buying
  BY <1>8, <1>9 DEF Write!PreflightUpdate, before, m, ns, nb, Need
<1>16. k \in Nat /\ s \in Nat
  BY <1>6, OfferTypes
<1>17. r.selling = "native" => w.xlm >= ns + m
  <2>1. SUFFICES ASSUME r.selling = "native" PROVE w.xlm >= ns + m
    OBVIOUS
  <2>2. v.xlm = w.xlm - k /\ v.xlm >= after.selling
    BY <1>1, <1>9, <1>13, <1>14, <1>16, <2>1 DEF Part
  <2>3. Write!AvailableBalance(v, r.selling) = Write!Minus(v.xlm, after.selling)
    BY <1>11, <2>1 DEF Write!AvailableBalance, Write!Balance, Part
  <2>4. Write!Minus(v.xlm, after.selling) = v.xlm - after.selling
    BY <1>1, <1>10, <2>2 DEF Write!Minus
  <2> QED
    BY <1>1, <1>10, <1>15, <1>16, <2>1, <2>2, <2>3, <2>4
<1>18. r.selling = "usd" => w.line.balance >= ns
  <2>1. SUFFICES ASSUME r.selling = "usd" PROVE w.line.balance >= ns
    OBVIOUS
  <2>2. v.line.balance = w.line.balance - k /\ v.line.balance >= after.selling
    BY <1>1, <1>9, <1>13, <1>14, <1>16, <2>1 DEF Part
  <2>3. Write!AvailableBalance(v, r.selling) = Write!Minus(v.line.balance, after.selling)
    BY <1>11, <2>1 DEF Write!AvailableBalance, Write!Balance, Part
  <2>4. Write!Minus(v.line.balance, after.selling) = v.line.balance - after.selling
    BY <1>1, <1>10, <2>2 DEF Write!Minus
  <2> QED
    BY <1>1, <1>10, <1>15, <1>16, <2>1, <2>2, <2>3, <2>4
<1>19. r.buying = "native" => w.xlm + nb <= Int64Max
  <2>1. SUFFICES ASSUME r.buying = "native" PROVE w.xlm + nb <= Int64Max
    OBVIOUS
  <2>2. v.xlm = w.xlm + s /\ v.xlm + after.buying <= Int64Max
    BY <1>1, <1>9, <1>13, <1>14, <1>16, <2>1 DEF Part
  <2>3. Write!ReceivingCapacity(v, r.buying, 0) = Write!Minus(Int64Max, v.xlm + after.buying)
    BY <1>11, <2>1 DEF Write!ReceivingCapacity, Part
  <2>4. Write!Minus(Int64Max, v.xlm + after.buying) = Int64Max - (v.xlm + after.buying)
    BY <1>1, <1>10, <2>2 DEF Write!Minus
  <2> QED
    BY <1>1, <1>10, <1>15, <1>16, <2>1, <2>2, <2>3, <2>4
<1>20. r.buying = "usd" => w.line.balance + nb <= w.line.limit
  <2>1. SUFFICES ASSUME r.buying = "usd" PROVE w.line.balance + nb <= w.line.limit
    OBVIOUS
  <2>2. v.line.balance = w.line.balance + s /\ v.line.balance + after.buying <= w.line.limit
    BY <1>1, <1>9, <1>13, <1>14, <1>16, <2>1 DEF Part
  <2>3. Write!HasLine(v)
    BY <1>9, <2>1 DEF Write!OfferAuthorized
  <2>4. Write!ReceivingCapacity(v, r.buying, 0) = Write!Minus(w.line.limit, v.line.balance + after.buying)
    BY <1>6, <1>11, <2>1, <2>3 DEF Write!ReceivingCapacity, Part
  <2>5. Write!Minus(w.line.limit, v.line.balance + after.buying) = w.line.limit - (v.line.balance + after.buying)
    BY <1>1, <1>10, <2>2 DEF Write!Minus
  <2> QED
    BY <1>1, <1>10, <1>15, <1>16, <2>1, <2>2, <2>4, <2>5
<1>21. Write!Allowed(x, tx)
  <2>1. Write!OfferAuthorized(x, r.selling) /\ Write!OfferAuthorized(x, r.buying)
    BY <1>2, <1>4, <1>6, <1>7, <1>9 DEF Write!OfferAuthorized
  <2> QED
    BY <1>3, <1>4, <2>1 DEF Write!Allowed, Write!Full, Write!OfferAuthorized
<1>22. Write!MinimumOf(u) = m
  BY <1>2, <1>3, <1>4, <1>5, ReplacementMinimum DEF u
<1>23. /\ \A asset : Write!Selling(u, asset) = Part(r.selling, asset, ns)
       /\ \A asset : Write!Buying(u, asset) = Part(r.buying, asset, nb)
  <2>1. u = Write!After(x, tx) /\ ns = Need(r).selling /\ nb = Need(r).buying
    BY DEF u, ns, nb
  <2>2. x \in Write!Ledgers /\ tx \in OfferTx
    BY <1>2, <1>3
  <2>3. tx.amount # 0 /\ tx.selling = r.selling /\ tx.buying = r.buying /\ Need(tx) = Need(r)
    BY <1>3
  <2>4. \A asset : Write!Selling(u, asset) = Part(r.selling, asset, Need(r).selling)
    BY ONLY <2>1, <2>2, <2>3, NewOfferOwes
  <2>5. \A asset : Write!Buying(u, asset) = Part(r.buying, asset, Need(r).buying)
    BY ONLY <2>1, <2>2, <2>3, NewOfferOwes
  <2> QED
    BY <2>1, <2>4, <2>5
<1>24. Write!LedgerAccepts(x, tx) <=>
         /\ Write!HasOffer(x) /\ Write!Allowed(x, tx)
         /\ x.xlm - Fee >= Write!Selling(x, "native") + Write!MinimumOf(x)
         /\ x.xlm - Fee >= Write!Selling(u, "native") + Write!MinimumOf(u)
         /\ x.xlm - Fee + Write!Buying(u, "native") <= Int64Max
         /\ x.line.balance >= Write!Selling(u, "usd")
         /\ x.line.balance + Write!Buying(u, "usd") <= x.line.limit
  BY <1>2, <1>3, <1>12, ReplacementAccepted DEF u
<1>25. x.xlm - Fee = w.xlm
  BY <1>1, <1>2
<1>26. /\ Part(r.selling, "native", ns) + m <= w.xlm /\ Part(r.selling, "usd", ns) <= w.line.balance
       /\ w.xlm + Part(r.buying, "native", nb) <= Int64Max
       /\ w.line.balance + Part(r.buying, "usd", nb) <= w.line.limit
  <2>1. m <= w.xlm
    BY <1>1, <1>12
  <2>2. Write!Buying(w, "native") \in Nat /\ Write!Buying(w, "usd") \in Nat
    BY Numbers
  <2>3. w.xlm <= Int64Max /\ w.line.balance <= w.line.limit
    BY <1>1, <1>12, <2>2
  <2> QED
    BY <1>1, <1>17, <1>18, <1>19, <1>20, <2>1, <2>3 DEF Part
<1> QED
  BY <1>1, <1>2, <1>4, <1>5, <1>12, <1>21, <1>22, <1>23, <1>24, <1>25, <1>26

\* The offer is read first, then the account; in between it is only taken from.
RacedReads ==
    /\ request = Raced!Nothing => reads = <<>> /\ seen = <<>> /\ outcome = "none"
    /\ request # Raced!Nothing => request \in Write!Calls /\ Len(seen) + Len(reads) = 2
    /\ reads \in Seq(Parts) /\ seen \in Seq(Write!Ledgers)
    /\ Len(seen) >= 1 => seen[1] \in since
    /\ Len(seen) = 2 => seen[2] = ledger
    /\ Len(seen) >= 1 /\ Write!HasOffer(seen[1]) => Taken(seen[1], ledger)

RacedInv ==
    /\ ledger \in since /\ \A w \in since : w \in Write!Ledgers /\ Write!Legal(w)
    /\ RacedReads
    /\ Raced!OldLiabilitiesCountedOnce

LEMMA RacedBegin == ASSUME RacedInv, Raced!Begin PROVE RacedInv'
<1>1. /\ request = Raced!Nothing /\ request' \in Updates /\ reads' = Raced!ReadsOf(request')
      /\ ledger' = ledger /\ since' = since /\ seen' = seen /\ outcome' = outcome
  BY DEF Raced!Begin
<1>2. request' \in Write!Calls
  BY <1>1, WritesAssumption, SameSets DEF Raced!LedgerAssumption
<1>3. request'.kind \in {"pay", "add", "limit", "remove", "cancel", "sell_or_buy", "update"}
  BY <1>2 DEF Write!Calls
<1>4. reads' \in Seq(Parts) /\ Len(reads') = 2
  <2>1. CASE request'.kind = "pay"
    <3>1. reads' = <<"account", "destination">>
      BY <1>1, <2>1 DEF Raced!ReadsOf
    <3> QED
      BY <3>1 DEF Parts
  <2>2. CASE request'.kind \in {"add", "limit", "sell_or_buy"}
    <3>1. reads' = <<"account", "issuer">>
      BY <1>1, <2>2 DEF Raced!ReadsOf
    <3> QED
      BY <3>1 DEF Parts
  <2>3. CASE request'.kind = "remove"
    <3>1. reads' = <<"account", "pool">>
      BY <1>1, <2>3 DEF Raced!ReadsOf
    <3> QED
      BY <3>1 DEF Parts
  <2>4. CASE request'.kind \in {"update", "cancel"}
    <3>1. reads' = <<"offer", "account">>
      BY <1>1, <2>4 DEF Raced!ReadsOf
    <3> QED
      BY <3>1 DEF Parts
  <2> QED
    BY <1>3, <2>1, <2>2, <2>3, <2>4
<1>5. seen = <<>> /\ outcome = "none"
  BY <1>1 DEF RacedInv, RacedReads
<1>6. request' # Raced!Nothing
  BY <1>3 DEF Raced!Nothing
<1>7. seen' \in Seq(Write!Ledgers) /\ Len(seen') = 0
  BY <1>1, <1>5
<1>8. RacedReads'
  BY <1>2, <1>4, <1>6, <1>7 DEF RacedReads
<1>9. Raced!OldLiabilitiesCountedOnce'
  BY <1>1, <1>5 DEF Raced!OldLiabilitiesCountedOnce
<1> QED
  BY <1>1, <1>8, <1>9 DEF RacedInv

LEMMA OneIsRead ==
    ASSUME NEW a \in Nat, NEW b \in Nat, a + b = 2, b # 0
    PROVE  a # 2 /\ (a # 0 => a = 1)
OBVIOUS

LEMMA RacedRead == ASSUME RacedInv, Raced!Read PROVE RacedInv'
<1>1. /\ reads # <<>> /\ seen' = Append(seen, ledger) /\ reads' = Tail(reads)
      /\ ledger' = ledger /\ since' = since /\ request' = request /\ outcome' = outcome /\ write' = write
  BY DEF Raced!Read
<1>2. /\ reads \in Seq(Parts) /\ seen \in Seq(Write!Ledgers) /\ request # Raced!Nothing
      /\ ledger \in since /\ ledger \in Write!Ledgers
  BY <1>1 DEF RacedInv, RacedReads
<1>3. request \in Write!Calls /\ Len(seen) + Len(reads) = 2
  BY <1>2 DEF RacedInv, RacedReads
<1>4. reads' \in Seq(Parts) /\ Len(reads') = Len(reads) - 1
  BY <1>1, <1>2
<1>5. ASSUME NEW S, NEW q \in Seq(S), NEW x \in S
      PROVE  /\ Append(q, x) \in Seq(S) /\ Len(Append(q, x)) = Len(q) + 1
             /\ Append(q, x)[Len(q) + 1] = x
             /\ Len(q) >= 1 => Append(q, x)[1] = q[1]
  BY <1>5
<1>6. /\ seen' \in Seq(Write!Ledgers) /\ Len(seen') = Len(seen) + 1
      /\ seen'[Len(seen) + 1] = ledger
      /\ Len(seen) >= 1 => seen'[1] = seen[1]
  BY <1>1, <1>2, <1>5
<1>7. Len(seen) \in Nat /\ Len(reads) \in Nat
  BY <1>2
<1>8. ASSUME Len(seen) = 0 PROVE RacedReads'
  <2>1. seen'[1] = ledger /\ Len(seen') = 1
    BY <1>6, <1>8
  <2>2. Write!HasOffer(ledger) => Taken(ledger, ledger)
    BY <1>2, TakeNothing
  <2> QED
    BY <1>1, <1>2, <1>3, <1>4, <1>6, <1>7, <2>1, <2>2 DEF RacedReads
<1>9. ASSUME Len(seen) # 0 PROVE RacedReads'
  <2>1. Len(seen) = 1
    <3>1. Len(reads) # 0
      BY <1>1, <1>2
    <3> QED
      BY <1>3, <1>7, <1>9, <3>1, OneIsRead
  <2>2. /\ seen'[1] = seen[1] /\ Len(seen') = 2 /\ seen'[2] = ledger
        /\ seen[1] \in since /\ (Write!HasOffer(seen[1]) => Taken(seen[1], ledger))
    BY <1>6, <2>1 DEF RacedInv, RacedReads
  <2> QED
    BY <1>1, <1>2, <1>3, <1>4, <1>6, <1>7, <2>1, <2>2 DEF RacedReads
<1>10. RacedReads'
  BY <1>8, <1>9
<1>11. Raced!OldLiabilitiesCountedOnce'
  BY <1>1 DEF RacedInv, Raced!OldLiabilitiesCountedOnce, Raced!Tx
<1> QED
  BY <1>1, <1>10, <1>11 DEF RacedInv

\* Decisions other than an update have nothing to keep.
LEMMA RacedUnmoved ==
    ASSUME RacedInv, Raced!Unmoved, request # Raced!Nothing, Raced!OldLiabilitiesCountedOnce'
    PROVE  RacedInv'
<1>1. ledger' = ledger /\ since' = since /\ request' = request /\ reads' = reads /\ seen' = seen
  BY DEF Raced!Unmoved
<1>2. RacedReads'
  BY <1>1 DEF RacedInv, RacedReads
<1> QED
  BY <1>1, <1>2 DEF RacedInv

LEMMA RacedOther ==
    ASSUME RacedInv, NEW kind, kind # "update", kind # "none", Raced!Ready(kind), Raced!Unmoved
    PROVE  RacedInv'
<1>1. request.kind # "update" /\ request # Raced!Nothing
  BY DEF Raced!Ready, Raced!Nothing
<1>2. request' = request
  BY DEF Raced!Unmoved
<1>3. Raced!OldLiabilitiesCountedOnce'
  BY <1>1, <1>2 DEF Raced!OldLiabilitiesCountedOnce
<1> QED
  BY <1>1, <1>3, RacedUnmoved

LEMMA RacedUpdate == ASSUME RacedInv, Raced!UpdateOffer PROVE RacedInv'
<1>1. /\ request.kind = "update" /\ reads = <<>> /\ outcome = "none" /\ request # Raced!Nothing
      /\ Raced!Unmoved
  BY DEF Raced!UpdateOffer, Raced!Ready, Raced!Nothing
<1>2. since' = since /\ request' = request
  BY <1>1 DEF Raced!Unmoved
<1>3. request \in Write!Calls /\ Len(seen) = 2 /\ seen \in Seq(Write!Ledgers)
  BY <1>1 DEF RacedInv, RacedReads
<1>4. request \in Trades
  BY <1>1, <1>3 DEF Trades
<1> DEFINE w == seen[1]
           tx == Write!Offer(1, request, FALSE)
           x == [w EXCEPT !.xlm = @ + Fee]
<1>5. /\ w \in since /\ seen[2] = ledger /\ ledger \in since
      /\ w \in Write!Ledgers /\ Write!Legal(w) /\ ledger \in Write!Ledgers /\ Write!Legal(ledger)
      /\ Write!HasOffer(w) => Taken(w, ledger)
  BY <1>3 DEF RacedInv, RacedReads
<1>6. outcome' = "prepared" => UpdatePasses(request, w.offer, ledger) /\ write'.tx = tx
  <2>1. Raced!Offer(1, request, FALSE) = tx
    BY DEF Raced!Offer, Write!Offer
  <2>2. \/ /\ UpdatePasses(request, w.offer, seen[2])
           /\ write' = [tx |-> Raced!Offer(1, request, FALSE), line |-> seen[2].line]
        \/ outcome' = "refused"
    BY SameClient DEF Raced!UpdateOffer, Raced!Review, Raced!Refuse, UpdatePasses
  <2>3. seen[2] = ledger
    BY <1>5
  <2> HIDE DEF tx, w
  <2>4. "refused" # "prepared"
    OBVIOUS
  <2>5. write' = [tx |-> tx, line |-> ledger.line] => write'.tx = tx
    OBVIOUS
  <2> QED
    BY <2>1, <2>2, <2>3, <2>4, <2>5
<1>7. ASSUME outcome' = "prepared" PROVE Raced!HasCapacity(ledger, Fee)
  BY <1>6, <1>7, SameClient DEF UpdatePasses, Write!PreflightUpdate
<1>8. ASSUME outcome' = "prepared" PROVE Raced!LedgerAccepts(x, tx)
  <2>1. UpdatePasses(request, w.offer, ledger) /\ Write!HasOffer(w)
    BY <1>6, <1>8 DEF UpdatePasses, Write!HasOffer
  <2>2. PICK k, s : TakenFrom(w, ledger, k, s)
    BY <1>5, <2>1 DEF Taken
  <2>3. tx.op = "offer"
    BY DEF Write!Offer
  <2> HIDE DEF w, tx, x
  <2>4. Write!LedgerAccepts(x, tx)
    BY <1>1, <1>4, <1>5, <2>1, <2>2, UpdateWasPossible DEF x, tx
  <2> QED
    BY <2>3, <2>4, SameLedger
<1>9. Raced!OldLiabilitiesCountedOnce'
  <2>1. SUFFICES ASSUME outcome' = "prepared"
                 PROVE  /\ \E v \in since' : Raced!HasCapacity(v, Fee)
                        /\ \E v \in since' : Raced!LedgerAccepts([v EXCEPT !.xlm = @ + Fee], write'.tx)
    BY DEF Raced!OldLiabilitiesCountedOnce, Raced!Tx
  <2> HIDE DEF tx
  <2> QED
    BY <1>2, <1>5, <1>6, <1>7, <1>8, <2>1
<1> QED
  BY <1>1, <1>9, RacedUnmoved

LEMMA RacedTake == ASSUME RacedInv, Raced!TakeOffer PROVE RacedInv'
<1>1. PICK k \in 1..ledger.offer.amount - 1 :
        LET o == ledger.offer
            sheep == (k * o.price.n) \div o.price.d
        IN  /\ sheep * o.price.d = k * o.price.n
            /\ Raced!Moves(Raced!Gains(Raced!Gains([ledger EXCEPT !.offer.amount = o.amount - k], o.buying, sheep),
                                       o.selling, 0 - k))
  BY DEF Raced!TakeOffer
<1> DEFINE s == (k * ledger.offer.price.n) \div ledger.offer.price.d
           v == Raced!Gains(Raced!Gains([ledger EXCEPT !.offer.amount = ledger.offer.amount - k],
                                        ledger.offer.buying, s), ledger.offer.selling, 0 - k)
<1>2. s * ledger.offer.price.d = k * ledger.offer.price.n /\ Raced!Moves(v)
  BY <1>1
<1>3. /\ ledger \in since /\ ledger \in Write!Ledgers /\ Write!HasOffer(ledger)
  BY SameCounts DEF RacedInv, Raced!TakeOffer
<1> HIDE DEF v
<1>4. /\ reads # <<>> /\ Write!Legal(v) /\ ledger' = v /\ since' = since \cup {v}
      /\ request' = request /\ reads' = reads /\ seen' = seen /\ outcome' = outcome /\ write' = write
  BY <1>2, SameLaw DEF Raced!Moves
<1>5. v \in Write!Ledgers /\ Taken(ledger, v)
  <2> HIDE DEF s
  <2>1. s = (k * ledger.offer.price.n) \div ledger.offer.price.d
    BY DEF s
  <2> QED
    BY <1>2, <1>3, <1>4, <2>1, TakeOnce DEF v
<1>6. \A w \in since' : w \in Write!Ledgers /\ Write!Legal(w)
  BY <1>4, <1>5 DEF RacedInv
<1>7. /\ request # Raced!Nothing /\ Len(seen) + Len(reads) = 2 /\ reads \in Seq(Parts) /\ seen \in Seq(Write!Ledgers)
  BY <1>4 DEF RacedInv, RacedReads
<1>8. Len(seen) # 2
  <2>1. Len(reads) \in Nat /\ Len(seen) \in Nat /\ Len(reads) # 0
    BY <1>4, <1>7
  <2> QED
    BY <1>7, <2>1, OneIsRead
<1>9. ASSUME Len(seen) >= 1, Write!HasOffer(seen[1]) PROVE Taken(seen[1], v)
  <2>1. seen[1] \in Write!Ledgers /\ Taken(seen[1], ledger)
    BY <1>9 DEF RacedInv, RacedReads
  <2> QED
    BY <1>3, <1>5, <1>9, <2>1, TakeMore
<1>10. RacedReads'
  BY <1>4, <1>8, <1>9 DEF RacedInv, RacedReads
<1>11. Raced!OldLiabilitiesCountedOnce'
  BY <1>4 DEF RacedInv, Raced!OldLiabilitiesCountedOnce, Raced!Tx
<1> QED
  BY <1>4, <1>6, <1>10, <1>11 DEF RacedInv

\* OldLiabilitiesCountedOnce, of the composition: while others take parts of the offer, an
\* update that passes the checks is one that the ledger would have accepted at a moment of
\* the call, its fee aside (dex.rs prepare_offer_update, preflight_update).
THEOREM LiabilitiesAreReleasedOnce == Raced!Spec => []OldLiabilitiesCountedOnce
<1>1. Raced!Init => RacedInv
  <2>1. SUFFICES ASSUME Raced!Init PROVE RacedInv
    OBVIOUS
  <2>2. ledger \in Write!Ledgers /\ Write!Legal(ledger) /\ since = {ledger}
    BY <2>1, WritesAssumption, SameSets, SameLaw DEF Raced!Init, Raced!LedgerAssumption
  <2>3. request = Raced!Nothing /\ reads = <<>> /\ seen = <<>> /\ outcome = "none"
    BY <2>1 DEF Raced!Init
  <2>4. RacedReads
    BY <2>3 DEF RacedReads
  <2>5. Raced!OldLiabilitiesCountedOnce
    BY <2>3 DEF Raced!OldLiabilitiesCountedOnce
  <2> QED
    BY <2>2, <2>4, <2>5 DEF RacedInv
<1>2. RacedInv /\ [Raced!Next]_(Raced!vars) => RacedInv'
  <2>1. SUFFICES ASSUME RacedInv, [Raced!Next]_(Raced!vars) PROVE RacedInv'
    OBVIOUS
  <2>2. CASE Raced!PreparePayment
    BY <2>1, <2>2, RacedOther DEF Raced!PreparePayment
  <2>3. CASE Raced!AddTrustline
    BY <2>1, <2>3, RacedOther DEF Raced!AddTrustline
  <2>4. CASE Raced!SetLimit
    BY <2>1, <2>4, RacedOther DEF Raced!SetLimit
  <2>5. CASE Raced!RemoveTrustline
    BY <2>1, <2>5, RacedOther DEF Raced!RemoveTrustline
  <2>6. CASE Raced!CreateOffer
    BY <2>1, <2>6, RacedOther DEF Raced!CreateOffer
  <2>7. CASE Raced!CancelOffer
    BY <2>1, <2>7, RacedOther DEF Raced!CancelOffer
  <2>8. CASE UNCHANGED Raced!vars
    <3>1. /\ ledger' = ledger /\ since' = since /\ request' = request /\ reads' = reads /\ seen' = seen
          /\ outcome' = outcome /\ write' = write
      BY <2>8 DEF Raced!vars
    <3>2. RacedReads'
      BY <2>1, <3>1 DEF RacedInv, RacedReads
    <3>3. Raced!OldLiabilitiesCountedOnce'
      BY <2>1, <3>1 DEF RacedInv, Raced!OldLiabilitiesCountedOnce, Raced!Tx
    <3> QED
      BY <2>1, <3>1, <3>2, <3>3 DEF RacedInv
  <2> QED
    BY <2>1, <2>2, <2>3, <2>4, <2>5, <2>6, <2>7, <2>8, RacedBegin, RacedRead, RacedUpdate, RacedTake
       DEF Raced!Next
<1>3. RacedInv => OldLiabilitiesCountedOnce
  BY DEF RacedInv, OldLiabilitiesCountedOnce
<1> QED
  BY <1>1, <1>2, <1>3, PTL DEF Raced!Spec

-----------------------------------------------------------------------------
(***************************************************************************)
(* Prices.  The loop of continued fractions is a function of its round;    *)
(* what every round keeps follows from the least counterexample.           *)
(***************************************************************************)
Round(s) == IF s.go THEN Math!NextStep(s) ELSE s
Rounds(f, p, m) == f = [k \in 0 .. m |-> IF k = 0 THEN Math!Start(p) ELSE Round(f[k - 1])]

LEMMA RoundsExist == \A p : \A m \in Nat : \E f : Rounds(f, p, m)
<1> SUFFICES ASSUME NEW p PROVE \A m \in Nat : \E f : Rounds(f, p, m)
  OBVIOUS
<1> DEFINE T == {m \in Nat : ~\E f : Rounds(f, p, m)}
<1> SUFFICES ASSUME T # {} PROVE FALSE
  OBVIOUS
<1>1. PICK x \in T : \A y \in T : x <= y
  <2> HIDE DEF T
  <2>1. T \subseteq Nat
    BY DEF T
  <2> QED
    BY <2>1, LeastNat
<1>2. CASE x = 0
  <2> DEFINE f == [n \in 0 .. 0 |-> Math!Start(p)]
  <2>1. Rounds(f, p, 0)
    BY DEF Rounds
  <2> QED
    BY <1>2, <2>1
<1>3. CASE x # 0
  <2>1. x \in Nat /\ x - 1 \in Nat /\ x - 1 \notin T
    BY <1>1, <1>3
  <2>2. PICK f : Rounds(f, p, x - 1)
    BY <2>1
  <2> DEFINE g == [n \in 0 .. x |-> IF n = x THEN Round(f[x - 1]) ELSE f[n]]
  <2>3. \A n \in 0 .. x : n # x => n \in 0 .. x - 1
    BY <2>1
  <2>4. ASSUME NEW n \in 0 .. x
        PROVE  g[n] = IF n = 0 THEN Math!Start(p) ELSE Round(g[n - 1])
    <3>1. n # 0 => n - 1 \in 0 .. x /\ n - 1 # x /\ g[n - 1] = f[n - 1]
      BY <2>1, <2>3
    <3>2. CASE n = x
      <4>1. g[n] = Round(f[x - 1])
        BY <3>2
      <4> HIDE DEF g
      <4> QED
        BY <1>3, <3>1, <3>2, <4>1
    <3>3. CASE n # x
      <4>1. n \in 0 .. x - 1 /\ g[n] = f[n]
        BY <2>3, <3>3
      <4>2. f[n] = IF n = 0 THEN Math!Start(p) ELSE Round(f[n - 1])
        BY <2>2, <4>1 DEF Rounds
      <4> HIDE DEF g
      <4> QED
        BY <3>1, <4>1, <4>2
    <3> QED
      BY <3>2, <3>3
  <2>5. g = [n \in 0 .. x |-> g[n]]
    OBVIOUS
  <2> HIDE DEF g
  <2>6. Rounds(g, p, x)
    BY <2>4, <2>5 DEF Rounds
  <2> QED
    BY <2>6
<1> QED
  BY <1>2, <1>3

Run(p) ==
    CHOOSE f : f = [k \in 0 .. 2 * PriceScale |->
                        IF k = 0 THEN Math!Start(p)
                        ELSE LET s == f[k - 1] IN IF s.go THEN Math!NextStep(s) ELSE s]

LEMMA ConvergentRuns ==
    ASSUME NEW p
    PROVE  Math!Convergent(p) = Run(p)[2 * PriceScale] /\ Rounds(Run(p), p, 2 * PriceScale)
<1>1. Math!Convergent(p) = Run(p)[2 * PriceScale]
  BY DEF Math!Convergent, Run
<1>2. 2 * PriceScale \in Nat
  BY MathAssumption DEF Math!BoundsAssumption
<1>3. \E f : Rounds(f, p, 2 * PriceScale)
  BY <1>2, RoundsExist
<1>4. \E f : f = [k \in 0 .. 2 * PriceScale |->
                        IF k = 0 THEN Math!Start(p)
                        ELSE LET s == f[k - 1] IN IF s.go THEN Math!NextStep(s) ELSE s]
  BY <1>3 DEF Rounds, Round
<1>5. Rounds(Run(p), p, 2 * PriceScale)
  BY <1>4 DEF Run, Rounds, Round
<1> QED
  BY <1>1, <1>5

\* The loop stops with a rest because the next convergent is out of bounds.
Stops(s) ==
    LET a == s.num \div s.den IN
    \/ s.num > s.den * TermBound
    \/ a * s.current.n + s.previous.n > TermBound
    \/ a * s.current.d + s.previous.d > TermBound

Fractions == [n : Nat, d : Nat]

LoopTypes ==
    [num : Positive, den : Nat, previous : Fractions, current : Fractions, best : Fractions, go : BOOLEAN]

\* The rest and the two convergents make up the requested price, ...
Rest(p, s) ==
    /\ p = s.current.n * s.num + s.previous.n * s.den
    /\ PriceScale = s.current.d * s.num + s.previous.d * s.den

\* ... and the convergents are neighbours.
Neighbours(a, b) == a.n * b.d = b.n * a.d + 1 \/ a.n * b.d + 1 = b.n * a.d

\* Only the first two convergents are not prices.
Shape(s) ==
    \/ s.current = Math!Price(1, 0) /\ s.previous = Math!Price(0, 1)
    \/ s.current = Math!Price(0, 1) /\ s.previous = Math!Price(1, 0) /\ s.num > s.den
    \/ s.current.n >= 1 /\ s.current.d >= 1 /\ s.num > s.den

\* What holds after every round; the rest shrinks, so the rounds are enough.
Loop(p, k, s) ==
    /\ s \in LoopTypes
    /\ s.best = s.current
    /\ Rest(p, s)
    /\ Neighbours(s.current, s.previous)
    /\ Shape(s)
    /\ s.current.n <= TermBound /\ s.current.d <= TermBound
    /\ s.go => s.den >= 1 /\ s.den + k <= PriceScale
    /\ ~s.go => s.den = 0 \/ Stops(s)

LEMMA MathConstants ==
    /\ TermBound \in Positive /\ AmountBound \in Positive /\ PriceScale \in Positive
    /\ PriceScale <= TermBound
    /\ Requested \subseteq Positive /\ OfferAmounts \subseteq 0..AmountBound /\ MaxTerm \in Nat
BY MathAssumption DEF Math!BoundsAssumption, Math!QuestionsAssumption, Positive

LEMMA LoopStarts == ASSUME NEW p \in Positive PROVE Loop(p, 0, Math!Start(p))
<1>1. TermBound \in Positive /\ PriceScale \in Positive
  BY MathConstants
<1> QED
  BY <1>1 DEF Loop, Math!Start, Math!Price, LoopTypes, Fractions, Rest, Neighbours, Shape, Positive

LEMMA Division ==
    ASSUME NEW num \in Positive, NEW den \in Positive
    PROVE  /\ (num \div den) \in Nat /\ (num % den) \in Nat /\ (num % den) < den
           /\ num = den * (num \div den) + (num % den)
           /\ num > den => (num \div den) >= 1
BY DEF Positive

LEMMA NextRest ==
    ASSUME NEW num \in Nat, NEW den \in Nat, NEW a \in Nat, NEW r \in Nat, num = den * a + r,
           NEW c \in Nat, NEW v \in Nat
    PROVE  (a * c + v) * den + c * r = c * num + v * den
<1>1. c * num = c * (den * a) + c * r
  OBVIOUS
<1>2. (a * c + v) * den = c * (den * a) + v * den
  OBVIOUS
<1> QED
  BY <1>1, <1>2

LEMMA NextNeighbours ==
    ASSUME NEW a \in Nat, NEW cn \in Nat, NEW cd \in Nat, NEW vn \in Nat, NEW vd \in Nat
    PROVE  /\ cn * vd = vn * cd + 1 => (a * cn + vn) * cd + 1 = cn * (a * cd + vd)
           /\ cn * vd + 1 = vn * cd => (a * cn + vn) * cd = cn * (a * cd + vd) + 1
<1>1. (a * cn + vn) * cd = (a * cn) * cd + vn * cd
  OBVIOUS
<1>2. cn * (a * cd + vd) = (a * cn) * cd + cn * vd
  OBVIOUS
<1> QED
  BY <1>1, <1>2

LEMMA LoopGoesOn ==
    ASSUME NEW p \in Positive, NEW k \in Nat, NEW s, Loop(p, k, s)
    PROVE  Loop(p, k + 1, Round(s))
<1> DEFINE a == s.num \div s.den
           r == s.num % s.den
           cn == s.current.n
           cd == s.current.d
           vn == s.previous.n
           vd == s.previous.d
           next == Math!Price(a * cn + vn, a * cd + vd)
<1>1. TermBound \in Positive /\ PriceScale \in Positive
  BY MathConstants
<1>2. s \in LoopTypes /\ s.best = s.current /\ Rest(p, s) /\ Neighbours(s.current, s.previous)
      /\ Shape(s) /\ cn <= TermBound /\ cd <= TermBound
  BY DEF Loop
<1>3. s.num \in Positive /\ s.den \in Nat /\ cn \in Nat /\ cd \in Nat /\ vn \in Nat /\ vd \in Nat
      /\ s.go \in BOOLEAN
  BY <1>2 DEF LoopTypes, Fractions
<1>4. CASE ~s.go
  BY <1>4, <1>2 DEF Loop, Round
<1>5. CASE s.go
  <2>1. s.den \in Positive /\ s.den + k <= PriceScale
    BY <1>3, <1>5 DEF Loop, Positive
  <2>2. a \in Nat /\ r \in Nat /\ r < s.den /\ s.num = s.den * a + r /\ (s.num > s.den => a >= 1)
    BY <1>3, <2>1, Division
  <2>3. CASE Stops(s)
    <3>1. Round(s) = [s EXCEPT !.go = FALSE]
      BY <1>5, <2>3 DEF Round, Math!NextStep, Math!Price, Stops
    <3> DEFINE t == [s EXCEPT !.go = FALSE]
    <3>2. t \in LoopTypes /\ t.num = s.num /\ t.den = s.den /\ t.previous = s.previous
          /\ t.current = s.current /\ t.best = s.best /\ t.go = FALSE
      BY <1>2 DEF LoopTypes
    <3> HIDE DEF t
    <3>3. Rest(p, t) /\ Shape(t) /\ Stops(t)
      BY <1>2, <2>3, <3>2 DEF Rest, Shape, Stops
    <3>4. Loop(p, k + 1, t)
      BY <1>2, <3>2, <3>3 DEF Loop
    <3> QED
      BY <3>1, <3>4 DEF t
  <2>4. CASE ~Stops(s)
    <3> DEFINE t == [num |-> s.den, den |-> r, previous |-> s.current, current |-> next,
                     best |-> next, go |-> r /= 0]
    <3>1. Round(s) = t
      BY <1>5, <2>4 DEF Round, Math!NextStep, Math!Price, Stops
    <3>2. a * cn + vn <= TermBound /\ a * cd + vd <= TermBound
      BY <1>1, <1>3, <2>2, <2>4 DEF Stops, Positive
    <3>3. a * cn + vn \in Nat /\ a * cd + vd \in Nat
      <4> HIDE DEF a, cn, cd, vn, vd
      <4> QED
        BY ONLY <1>3, <2>2
    <3>4. next \in Fractions /\ next.n = a * cn + vn /\ next.d = a * cd + vd
      BY <3>3 DEF Fractions, Math!Price
    <3>5. s.current \in Fractions
      BY <1>2 DEF LoopTypes
    <3>6. Neighbours(next, s.current)
      BY <1>2, <1>3, <2>2, <3>4, NextNeighbours DEF Neighbours
    <3>7. Shape(s)
      BY <1>2
    <3> HIDE DEF a, r, next
    <3>16. /\ t.num = s.den /\ t.den = r /\ t.previous = s.current /\ t.current = next /\ t.best = next
           /\ t.go = (r /= 0)
      OBVIOUS
    <3> USE DEF next
    <3>8. Math!Price(1, 0).n = 1 /\ Math!Price(1, 0).d = 0 /\ Math!Price(0, 1).n = 0 /\ Math!Price(0, 1).d = 1
      BY DEF Math!Price
    <3>11. Rest(p, t)
      <4> HIDE DEF next, cn, cd, vn, vd
      <4>1. p = cn * s.num + vn * s.den /\ PriceScale = cd * s.num + vd * s.den
        BY <1>2 DEF Rest, cn, cd, vn, vd
      <4>2. (a * cn + vn) * s.den + cn * r = cn * s.num + vn * s.den
        BY <1>3, <2>1, <2>2, NextRest DEF Positive
      <4>3. (a * cd + vd) * s.den + cd * r = cd * s.num + vd * s.den
        BY <1>3, <2>1, <2>2, NextRest DEF Positive
      <4> QED
        BY <3>4, <4>1, <4>2, <4>3 DEF Rest, t, cn, cd
    <3>12. t \in LoopTypes
      <4> HIDE DEF next
      <4> QED
        BY <2>1, <2>2, <3>4, <3>5 DEF LoopTypes, t
    <3>13. t.go => t.den >= 1 /\ t.den + (k + 1) <= PriceScale
      <4>1. t.go => r # 0
        BY <3>16
      <4> HIDE DEF t, next
      <4>2. k \in Nat /\ PriceScale \in Nat /\ s.den \in Nat
        BY <1>1, <2>1 DEF Positive
      <4> QED
        BY ONLY <2>1, <2>2, <3>16, <4>1, <4>2
    <3>14. ~t.go => t.den = 0
      BY <3>16
    <3>15. Shape(t)
      <4>1. CASE s.current = Math!Price(1, 0) /\ s.previous = Math!Price(0, 1)
        <5>1. next = Math!Price(a, 1)
          BY <2>2, <3>8, <4>1
        <5>2. CASE a = 0
          BY ONLY <2>1, <2>2, <4>1, <3>16, <5>1, <5>2 DEF Shape
        <5>3. CASE a # 0
          <6>1. next.n >= 1 /\ next.d >= 1
            BY <2>2, <5>1, <5>3 DEF Math!Price
          <6> HIDE DEF next, t
          <6> QED
            BY ONLY <2>1, <2>2, <3>16, <6>1 DEF Shape
        <5> QED
          BY <5>2, <5>3
      <4>2. CASE ~(s.current = Math!Price(1, 0) /\ s.previous = Math!Price(0, 1))
        <5>1. a >= 1
          BY <2>2, <3>7, <4>2 DEF Shape
        <5>2. (cn = 0 /\ cd = 1 /\ vn = 1 /\ vd = 0) \/ (cn >= 1 /\ cd >= 1)
          BY <3>7, <3>8, <4>2 DEF Shape
        <5> HIDE DEF next, cn, cd, vn, vd, t
        <5>3. a * cn + vn >= 1 /\ a * cd + vd >= 1
          <6>1. CASE cn = 0 /\ cd = 1 /\ vn = 1 /\ vd = 0
            BY <2>2, <5>1, <6>1
          <6>2. CASE cn >= 1 /\ cd >= 1
            <7>1. \A x \in Nat : \A y \in Nat : x >= 1 /\ y >= 1 => x * y >= 1 /\ x * y \in Nat
              OBVIOUS
            <7>2. a * cn >= 1 /\ a * cn \in Nat /\ a * cd >= 1 /\ a * cd \in Nat
              BY <1>3, <2>2, <5>1, <6>2, <7>1
            <7> QED
              BY <1>3, <7>2
          <6> QED
            BY <5>2, <6>1, <6>2
        <5> QED
          BY ONLY <2>1, <2>2, <3>4, <3>16, <5>3 DEF Shape
      <4> QED
        BY <4>1, <4>2
    <3> HIDE DEF t, next
    <3>17. Loop(p, k + 1, t)
      BY <3>2, <3>4, <3>6, <3>11, <3>12, <3>13, <3>14, <3>15, <3>16 DEF Loop
    <3> QED
      BY <3>1, <3>17
  <2> QED
    BY <2>3, <2>4
<1> QED
  BY <1>3, <1>4, <1>5

LEMMA LoopKept ==
    ASSUME NEW p \in Positive, NEW m \in Nat, NEW f, Rounds(f, p, m), NEW k \in 0..m
    PROVE  Loop(p, k, f[k])
<1> DEFINE T == {x \in 0..m : ~Loop(p, x, f[x])}
<1> SUFFICES ASSUME T # {} PROVE FALSE
  OBVIOUS
<1>1. PICK x \in T : \A y \in T : x <= y
  <2>1. T \subseteq Nat
    OBVIOUS
  <2> HIDE DEF T
  <2> QED
    BY <2>1, LeastNat
<1>2. x \in 0..m /\ ~Loop(p, x, f[x])
  BY <1>1
<1>3. f[x] = IF x = 0 THEN Math!Start(p) ELSE Round(f[x - 1])
  BY <1>2 DEF Rounds
<1>4. x # 0
  BY <1>2, <1>3, LoopStarts
<1>5. x - 1 \in Nat /\ x - 1 \in 0..m /\ (x - 1) + 1 = x /\ ~(x <= x - 1)
  BY <1>2, <1>4
<1>6. Loop(p, x - 1, f[x - 1])
  BY <1>1, <1>5
<1>7. Loop(p, (x - 1) + 1, Round(f[x - 1]))
  BY <1>5, <1>6, LoopGoesOn
<1> QED
  BY <1>2, <1>3, <1>4, <1>5, <1>7

\* The rounds of the code's loop are as many as it needs.
LEMMA LoopEnds ==
    ASSUME NEW p \in Positive
    PROVE  Loop(p, 2 * PriceScale, Math!Convergent(p)) /\ ~Math!Convergent(p).go
<1> DEFINE m == 2 * PriceScale
           s == Math!Convergent(p)
<1>1. PriceScale \in Positive /\ m \in Nat /\ m \in 0..m /\ ~(1 + m <= PriceScale)
  BY MathConstants DEF Positive
<1>2. s = Run(p)[m] /\ Rounds(Run(p), p, m)
  BY ConvergentRuns
<1> HIDE DEF m, s
<1>3. Loop(p, m, s)
  BY <1>1, <1>2, LoopKept
<1>4. s.go => s.den >= 1 /\ s.den + m <= PriceScale /\ s.den \in Nat
  BY <1>3 DEF Loop, LoopTypes
<1>5. ~s.go
  BY <1>1, <1>4 DEF Positive
<1> QED
  BY <1>3, <1>5 DEF m, s

\* A rest and two neighbours that make up p / S, and a fraction equal to it.
Decomposed(num, den, cn, cd, vn, vd, qn, qd, p, S) ==
    /\ num \in Positive /\ den \in Positive
    /\ cn \in Nat /\ cd \in Nat /\ vn \in Nat /\ vd \in Nat
    /\ qn \in Positive /\ qd \in Positive /\ p \in Positive /\ S \in Positive
    /\ p = cn * num + vn * den /\ S = cd * num + vd * den /\ p * qd = qn * S
    /\ cn * vd = vn * cd + 1

\* That fraction is a sum of the neighbours: if the next convergent is out of bounds, then so
\* is the requested price.
LEMMA Combination ==
    ASSUME NEW num, NEW den, NEW cn, NEW cd, NEW vn, NEW vd, NEW qn, NEW qd, NEW p, NEW S,
           Decomposed(num, den, cn, cd, vn, vd, qn, qd, p, S)
    PROVE  \E x, y \in Nat : /\ qn = x * cn + y * vn /\ qd = x * cd + y * vd
                            /\ x * S = qd * num /\ y * S = qd * den
<1> USE DEF Decomposed
<1> DEFINE x == qn * vd - qd * vn
           y == cn * qd - cd * qn
<1>1. x \in Int /\ y \in Int
  BY DEF Positive
<1>2. x * S = qd * num
  <2>1. x * S = vd * (qn * S) - qd * vn * S
    BY DEF Positive
  <2>2. vd * (qn * S) = vd * (p * qd)
    OBVIOUS
  <2>3. x * S = qd * (vd * p - vn * S)
    BY <2>1, <2>2 DEF Positive
  <2>4. vd * p = (cn * vd) * num + vd * vn * den
    BY DEF Positive
  <2>5. vn * S = (vn * cd) * num + vd * vn * den
    BY DEF Positive
  <2>6. (cn * vd) * num = (vn * cd) * num + num
    BY DEF Positive
  <2>7. vd * p - vn * S = num
    BY <2>4, <2>5, <2>6 DEF Positive
  <2> QED
    BY <2>3, <2>7
<1>3. y * S = qd * den
  <2>1. y * S = cn * qd * S - cd * (qn * S)
    BY DEF Positive
  <2>2. cd * (qn * S) = cd * (p * qd)
    OBVIOUS
  <2>3. y * S = qd * (cn * S - cd * p)
    BY <2>1, <2>2 DEF Positive
  <2>4. cn * S = cn * cd * num + (cn * vd) * den
    BY DEF Positive
  <2>5. cd * p = cn * cd * num + (vn * cd) * den
    BY DEF Positive
  <2>6. (cn * vd) * den = (vn * cd) * den + den
    BY DEF Positive
  <2>7. cn * S - cd * p = den
    BY <2>4, <2>5, <2>6 DEF Positive
  <2> QED
    BY <2>3, <2>7
<1>4. x * cn + y * vn = qn
  <2>1. x * cn + y * vn = qn * (cn * vd) - qn * (vn * cd)
    BY DEF Positive
  <2>2. qn * (cn * vd) = qn * (vn * cd) + qn
    OBVIOUS
  <2> QED
    BY <2>1, <2>2
<1>5. x * cd + y * vd = qd
  <2>1. x * cd + y * vd = qd * (cn * vd) - qd * (vn * cd)
    BY DEF Positive
  <2>2. qd * (cn * vd) = qd * (vn * cd) + qd
    BY DEF Positive
  <2> QED
    BY <2>1, <2>2 DEF Positive
<1>6. x \in Nat /\ y \in Nat
  <2> HIDE DEF x, y
  <2>1. qd * num > 0 /\ qd * den > 0
    BY DEF Positive
  <2>2. \A z \in Int : z * S > 0 => z > 0
    BY DEF Positive
  <2> QED
    BY <1>1, <1>2, <1>3, <2>1, <2>2
<1> QED
  BY <1>2, <1>3, <1>4, <1>5, <1>6

LEMMA Multiples ==
    ASSUME NEW a \in Nat, NEW b \in Nat, NEW c \in Nat, a <= b
    PROVE  a * c <= b * c /\ c * a <= c * b
OBVIOUS

LEMMA Cancels ==
    ASSUME NEW a \in Int, NEW b \in Int, NEW c \in Positive, a * c <= b * c
    PROVE  a <= b
BY DEF Positive

LEMMA CombinationIsLarge ==
    ASSUME NEW num, NEW den, NEW cn, NEW cd, NEW vn, NEW vd, NEW qn, NEW qd, NEW p, NEW S,
           Decomposed(num, den, cn, cd, vn, vd, qn, qd, p, S), cn >= 1 \/ cd >= 1,
           NEW M \in Positive, qn <= M, qd <= M
    PROVE  /\ num <= den * M
           /\ (num \div den) * cn + vn <= M
           /\ (num \div den) * cd + vd <= M
<1> DEFINE a == num \div den
<1>0. /\ num \in Positive /\ den \in Positive /\ cn \in Nat /\ cd \in Nat /\ vn \in Nat /\ vd \in Nat
      /\ qn \in Positive /\ qd \in Positive /\ p \in Positive /\ S \in Positive
  BY DEF Decomposed
<1> USE <1>0
<1>1. PICK x \in Nat, y \in Nat : /\ qn = x * cn + y * vn /\ qd = x * cd + y * vd
                                 /\ x * S = qd * num /\ y * S = qd * den
  BY Combination
<1>2. a \in Nat /\ den * a <= num
  BY Division DEF Positive
<1> HIDE DEF a
<1>3. y >= 1
  <2>1. qd * den > 0
    BY DEF Positive
  <2>2. y # 0
    BY <1>1, <2>1 DEF Positive
  <2> QED
    BY <2>2
<1>4. a <= x
  <2>1. qd * (den * a) <= qd * num
    BY <1>2, Multiples DEF Positive
  <2>2. (a * y) * S = a * (qd * den)
    <3>1. (a * y) * S = a * (y * S)
      BY <1>2 DEF Positive
    <3> QED
      BY <1>1, <3>1
  <2>3. a * (qd * den) = qd * (den * a)
    BY <1>2 DEF Positive
  <2>4. (a * y) * S <= x * S /\ a * y \in Nat
    BY <1>1, <1>2, <2>1, <2>2, <2>3
  <2>5. a * y <= x
    BY ONLY <2>4, Cancels, x \in Nat, S \in Positive
  <2>6. a * 1 <= a * y
    BY <1>2, <1>3, Multiples
  <2> QED
    BY <1>2, <2>4, <2>5, <2>6
<1>5. a * cn + vn <= qn /\ a * cd + vd <= qd
  <2>1. a * cn <= x * cn /\ a * cd <= x * cd
    BY <1>2, <1>4, Multiples
  <2>2. 1 * vn <= y * vn /\ 1 * vd <= y * vd
    BY <1>3, Multiples
  <2>3. a * cn \in Nat /\ x * cn \in Nat /\ a * cd \in Nat /\ x * cd \in Nat /\ y * vn \in Nat /\ y * vd \in Nat
    BY <1>2
  <2> QED
    BY ONLY <1>1, <2>1, <2>2, <2>3, cn \in Nat, vn \in Nat, cd \in Nat, vd \in Nat
<1>6. x <= M
  <2>1. y * vn \in Nat /\ y * vd \in Nat
    BY <1>1
  <2>2. cn >= 1 => x * 1 <= x * cn
    BY Multiples
  <2>3. cd >= 1 => x * 1 <= x * cd
    BY Multiples
  <2>4. x * cn \in Nat /\ x * cd \in Nat /\ M \in Nat /\ qn \in Nat /\ qd \in Nat
    BY DEF Positive
  <2> QED
    BY <1>1, <2>1, <2>2, <2>3, <2>4
<1>7. num <= den * M
  <2>1. x * S <= M * S /\ M * 1 <= M * y
    BY <1>3, <1>6, Multiples DEF Positive
  <2>2. (M * 1) * S <= (M * y) * S
    BY <2>1, Multiples DEF Positive
  <2>3. (M * y) * S = M * (y * S)
    BY DEF Positive
  <2>4. M * (qd * den) = qd * (den * M)
    BY DEF Positive
  <2>5. qd * num <= qd * (den * M)
    BY <1>1, <2>1, <2>2, <2>3, <2>4 DEF Positive
  <2>6. num * qd <= (den * M) * qd
    BY <2>5 DEF Positive
  <2> QED
    BY <2>6, Cancels DEF Positive
<1> QED
  BY ONLY <1>2, <1>5, <1>7, qn <= M, qd <= M, M \in Positive, qn \in Positive, qd \in Positive, cn \in Nat, vn \in Nat, cd \in Nat, vd \in Nat DEF Positive, a

\* So the loop does not stop before a price that can be encoded.
LEMMA StopsOnlyOutOfReach ==
    ASSUME NEW p \in Positive, NEW k \in Nat, NEW s, Loop(p, k, s), s.den # 0, Stops(s),
           NEW q \in Math!Prices, p * q.d = q.n * PriceScale
    PROVE  FALSE
<1> DEFINE num == s.num
           den == s.den
           cn == s.current.n
           cd == s.current.d
           vn == s.previous.n
           vd == s.previous.d
<1>1. TermBound \in Positive /\ PriceScale \in Positive
  BY MathConstants
<1>2. s \in LoopTypes /\ Rest(p, s) /\ Neighbours(s.current, s.previous) /\ Shape(s)
  BY DEF Loop
<1>3. num \in Positive /\ den \in Positive /\ cn \in Nat /\ cd \in Nat /\ vn \in Nat /\ vd \in Nat
  BY <1>2 DEF LoopTypes, Fractions, Positive
<1>4. q.n \in Positive /\ q.d \in Positive /\ q.n <= TermBound /\ q.d <= TermBound
  BY <1>1 DEF Math!Prices, Positive
<1>5. p = cn * num + vn * den /\ PriceScale = cd * num + vd * den
  BY <1>2 DEF Rest
<1>6. cn >= 1 \/ cd >= 1
  BY <1>2 DEF Shape, Math!Price
<1>7. cn * vd = vn * cd + 1 \/ cd * vn = vd * cn + 1
  BY <1>2, <1>3 DEF Neighbours
<1> HIDE DEF num, den, cn, cd, vn, vd
<1>8. /\ num <= den * TermBound
      /\ (num \div den) * cn + vn <= TermBound
      /\ (num \div den) * cd + vd <= TermBound
  <2>1. CASE cn * vd = vn * cd + 1
    <3>1. Decomposed(num, den, cn, cd, vn, vd, q.n, q.d, p, PriceScale)
      BY <1>1, <1>3, <1>4, <1>5, <2>1 DEF Decomposed
    <3> QED
      BY <1>1, <1>4, <1>6, <3>1, CombinationIsLarge
  <2>2. CASE cd * vn = vd * cn + 1
    <3>1. PriceScale * q.n = q.d * p
      BY <1>1, <1>4 DEF Positive
    <3> QED
      <4>1. Decomposed(num, den, cd, cn, vd, vn, q.d, q.n, PriceScale, p)
        BY <1>1, <1>3, <1>4, <1>5, <2>2, <3>1 DEF Decomposed
      <4> QED
        BY <1>1, <1>4, <1>6, <4>1, CombinationIsLarge
  <2> QED
    BY <1>7, <2>1, <2>2
<1>9. (num \div den) \in Nat
  BY <1>3, Division
<1>10. (num \div den) * cn + vn \in Nat /\ (num \div den) * cd + vd \in Nat /\ den * TermBound \in Nat
  BY <1>1, <1>3, <1>9 DEF Positive
<1>11. num > den * TermBound \/ (num \div den) * cn + vn > TermBound \/ (num \div den) * cd + vd > TermBound
  BY DEF Stops, num, den, cn, cd, vn, vd
<1> QED
  BY ONLY <1>1, <1>3, <1>8, <1>10, <1>11 DEF Positive

\* A stopped loop has found a price, or none because the requested one is too large.
LEMMA BestForm ==
    ASSUME NEW p \in Positive, NEW k \in Nat, NEW s, Loop(p, k, s), ~s.go
    PROVE  \/ s.best \in Math!Prices
           \/ /\ s.current = Math!Price(1, 0) /\ s.previous = Math!Price(0, 1)
              /\ s.best = s.current /\ s.num = p /\ s.den = PriceScale /\ Stops(s)
<1>1. TermBound \in Positive /\ PriceScale \in Positive /\ PriceScale <= TermBound
  BY MathConstants
<1>2. /\ s \in LoopTypes /\ s.best = s.current /\ Rest(p, s) /\ Shape(s)
      /\ s.current.n <= TermBound /\ s.current.d <= TermBound /\ (s.den = 0 \/ Stops(s))
  BY DEF Loop
<1>3. s.num \in Positive /\ s.den \in Nat /\ s.current \in Fractions
  BY <1>2 DEF LoopTypes
<1>4. /\ Math!Price(1, 0).n = 1 /\ Math!Price(1, 0).d = 0
      /\ Math!Price(0, 1).n = 0 /\ Math!Price(0, 1).d = 1
  BY DEF Math!Price
<1>5. CASE s.current = Math!Price(1, 0) /\ s.previous = Math!Price(0, 1)
  <2>1. p = 1 * s.num + 0 * s.den /\ PriceScale = 0 * s.num + 1 * s.den
    BY <1>2, <1>4, <1>5 DEF Rest
  <2>2. s.num = p /\ s.den = PriceScale
    BY <1>3, <2>1 DEF Positive
  <2> QED
    BY <1>1, <1>2, <1>5, <2>2 DEF Positive
<1>6. CASE s.current = Math!Price(0, 1) /\ s.previous = Math!Price(1, 0) /\ s.num > s.den
  <2>1. p = 0 * s.num + 1 * s.den /\ PriceScale = 1 * s.num + 0 * s.den
    BY <1>2, <1>4, <1>6 DEF Rest
  <2>2. s.num = PriceScale /\ s.den = p
    BY <1>3, <2>1 DEF Positive
  <2>3. Stops(s)
    BY <1>2, <2>2 DEF Positive
  <2> DEFINE a == s.num \div s.den
  <2>4. a \in Nat /\ s.den * a <= s.num
    BY <1>3, <2>2, Division
  <2> HIDE DEF a
  <2>5. a <= s.num
    <3>1. 1 * a <= s.den * a
      BY <1>3, <2>2, <2>4, Multiples DEF Positive
    <3> QED
      BY <1>3, <2>4, <3>1 DEF Positive
  <2>6. s.num > s.den * TermBound \/ a * 0 + 1 > TermBound \/ a * 1 + 0 > TermBound
    BY <1>4, <1>6, <2>3 DEF Stops, a
  <2>7. 1 * TermBound <= s.den * TermBound
    BY <1>1, <1>3, <2>2, Multiples DEF Positive
  <2> QED
    BY <1>1, <1>3, <2>2, <2>4, <2>5, <2>6, <2>7 DEF Positive
<1>7. CASE s.current.n >= 1 /\ s.current.d >= 1 /\ s.num > s.den
  <2>1. s.current = [n |-> s.current.n, d |-> s.current.d] /\ s.current.n \in Nat /\ s.current.d \in Nat
    BY <1>3 DEF Fractions
  <2>2. s.current.n \in 1..TermBound /\ s.current.d \in 1..TermBound
    BY <1>1, <1>2, <1>7, <2>1 DEF Positive
  <2> QED
    BY <1>2, <2>1, <2>2 DEF Math!Prices
<1> QED
  BY <1>2, <1>5, <1>6, <1>7 DEF Shape

LEMMA WholePrice ==
    ASSUME NEW s, s.current = Math!Price(1, 0), s.previous = Math!Price(0, 1)
    PROVE  Math!Recovered(s) = Math!Price(TermBound, 1) /\ Math!Price(TermBound, 1) \in Math!Prices
<1>1. TermBound \in Nat /\ TermBound >= 1
  BY MathConstants DEF Positive
<1>2. /\ s.current.n = 1 /\ s.current.d = 0 /\ s.previous.n = 0 /\ s.previous.d = 1
  BY DEF Math!Price
<1>3. (TermBound - 0) \div 1 = TermBound
  BY <1>1
<1>4. Math!Price(TermBound, 1) \in Math!Prices
  BY <1>1 DEF Math!Price, Math!Prices
<1>5. Math!Smaller(TermBound, TermBound) = TermBound
  BY DEF Math!Smaller
<1>6. TermBound * 1 + 0 = TermBound /\ TermBound * 0 + 1 = 1
  BY <1>1
<1>7. (IF s.current.n > 0 THEN (TermBound - s.previous.n) \div s.current.n ELSE TermBound) = TermBound
  BY <1>2, <1>3
<1>8. (IF s.current.d > 0 THEN (TermBound - s.previous.d) \div s.current.d ELSE TermBound) = TermBound
  BY <1>2
<1>9. Math!Recovered(s) = Math!Price(TermBound, 1)
  BY <1>1, <1>2, <1>4, <1>5, <1>6, <1>7, <1>8 DEF Math!Recovered
<1> QED
  BY <1>4, <1>9

LEMMA SignedIsExact ==
    ASSUME NEW p \in Positive
    PROVE  /\ Math!StellarPrice(p) \in Math!Prices
           /\ \A q \in Math!Prices : p * q.d = q.n * PriceScale =>
                 p * Math!StellarPrice(p).d = Math!StellarPrice(p).n * PriceScale
<1> DEFINE k == 2 * PriceScale
           s == Math!Convergent(p)
           signed == Math!StellarPrice(p)
<1>1. PriceScale \in Positive /\ k \in Nat
  BY MathConstants DEF Positive
<1>2. Loop(p, k, s) /\ ~s.go
  BY LoopEnds
<1>3. signed = IF s.best \in Math!Prices THEN s.best ELSE Math!Recovered(s)
  BY DEF Math!StellarPrice
<1> HIDE DEF k, s, signed
<1>4. signed \in Math!Prices
  BY <1>1, <1>2, <1>3, BestForm, WholePrice
<1>5. ASSUME NEW q \in Math!Prices, p * q.d = q.n * PriceScale
      PROVE  p * signed.d = signed.n * PriceScale
  <2>1. s.den = 0
    BY <1>1, <1>2, <1>5, StopsOnlyOutOfReach DEF Loop
  <2>2. s.best \in Math!Prices
    BY <1>1, <1>2, <2>1, BestForm DEF Positive
  <2>3. s \in LoopTypes /\ s.best = s.current /\ Rest(p, s)
    BY <1>2 DEF Loop
  <2>4. /\ s.num \in Nat /\ s.current.n \in Nat /\ s.current.d \in Nat
        /\ s.previous.n \in Nat /\ s.previous.d \in Nat
    BY <2>3 DEF LoopTypes, Fractions, Positive
  <2>5. p = s.current.n * s.num /\ PriceScale = s.current.d * s.num
    BY <2>1, <2>3, <2>4 DEF Rest
  <2>6. p * s.current.d = s.current.n * PriceScale
    BY ONLY <2>4, <2>5
  <2> QED
    BY <1>3, <2>2, <2>3, <2>6
<1> QED
  BY <1>4, <1>5 DEF signed

LEMMA RestIsTheDistance ==
    ASSUME NEW num \in Nat, NEW den \in Nat, NEW cn \in Nat, NEW cd \in Nat, NEW vn \in Nat, NEW vd \in Nat,
           NEW p \in Nat, NEW S \in Nat, p = cn * num + vn * den, S = cd * num + vd * den
    PROVE  /\ cn * vd = vn * cd + 1 => cn * S = p * cd + den
           /\ cn * vd + 1 = vn * cd => p * cd = cn * S + den
<1>1. cn * S = cn * cd * num + (cn * vd) * den
  OBVIOUS
<1>2. p * cd = cn * cd * num + (vn * cd) * den
  OBVIOUS
<1>3. cn * vd = vn * cd + 1 => (cn * vd) * den = (vn * cd) * den + den
  OBVIOUS
<1>4. cn * vd + 1 = vn * cd => (vn * cd) * den = (cn * vd) * den + den
  OBVIOUS
<1>5. /\ cn * cd * num \in Nat /\ (cn * vd) * den \in Nat /\ (vn * cd) * den \in Nat
      /\ cn * S \in Nat /\ p * cd \in Nat
  OBVIOUS
<1> QED
  BY ONLY <1>1, <1>2, <1>3, <1>4, <1>5, den \in Nat

LEMMA OutOfBounds ==
    ASSUME NEW num \in Positive, NEW den \in Positive, NEW c \in Nat, NEW v \in Nat, NEW M \in Nat,
           (num \div den) * c + v > M
    PROVE  M * den <= c * num + v * den
<1> DEFINE a == num \div den
<1>1. a \in Nat /\ den * a <= num
  BY Division DEF Positive
<1>2. a * c + v > M
  OBVIOUS
<1> HIDE DEF a
<1>3. c * (den * a) <= c * num
  BY <1>1, Multiples DEF Positive
<1>4. a * c + v \in Nat /\ M <= a * c + v
  BY <1>1, <1>2
<1>5. M * den <= (a * c + v) * den
  BY <1>4, Multiples DEF Positive
<1>6. (a * c + v) * den = c * (den * a) + v * den
  BY <1>1 DEF Positive
<1> QED
  BY <1>1, <1>3, <1>5, <1>6 DEF Positive

LEMMA SignedIsClose ==
    ASSUME NEW p \in Positive, p <= PriceScale * TermBound
    PROVE  Math!Distance(p, Math!StellarPrice(p)) * TermBound <= IF p > PriceScale THEN p ELSE PriceScale
<1> DEFINE k == 2 * PriceScale
           s == Math!Convergent(p)
           num == s.num
           den == s.den
           cn == s.current.n
           cd == s.current.d
           vn == s.previous.n
           vd == s.previous.d
           limit == IF p > PriceScale THEN p ELSE PriceScale
<1>1. TermBound \in Positive /\ PriceScale \in Positive /\ k \in Nat
  BY MathConstants DEF Positive
<1>2. Loop(p, k, s) /\ ~s.go
  BY LoopEnds
<1>3. Math!StellarPrice(p) = IF s.best \in Math!Prices THEN s.best ELSE Math!Recovered(s)
  BY DEF Math!StellarPrice
<1> HIDE DEF k, s
<1>4. /\ s \in LoopTypes /\ s.best = s.current /\ Rest(p, s) /\ Neighbours(s.current, s.previous)
      /\ (den = 0 \/ Stops(s))
  BY <1>2 DEF Loop
<1>5. num \in Positive /\ den \in Nat /\ cn \in Nat /\ cd \in Nat /\ vn \in Nat /\ vd \in Nat
  BY <1>4 DEF LoopTypes, Fractions
<1>6. p = cn * num + vn * den /\ PriceScale = cd * num + vd * den
  BY <1>4 DEF Rest
<1>7. limit \in Nat /\ p <= limit /\ PriceScale <= limit
  BY <1>1 DEF Positive
<1>8. s.best \in Math!Prices
  <2> SUFFICES ASSUME s.best \notin Math!Prices PROVE FALSE
    OBVIOUS
  <2>1. /\ s.current = Math!Price(1, 0) /\ s.previous = Math!Price(0, 1)
        /\ s.num = p /\ s.den = PriceScale /\ Stops(s)
    BY <1>1, <1>2, BestForm
  <2> DEFINE a == p \div PriceScale
  <2>2. p > PriceScale * TermBound \/ a * 1 + 0 > TermBound \/ a * 0 + 1 > TermBound
    BY <2>1 DEF Stops, Math!Price
  <2>3. a \in Nat /\ PriceScale * a <= p
    BY <1>1, Division DEF Positive
  <2> HIDE DEF a
  <2>4. a * PriceScale <= TermBound * PriceScale
    BY <1>1, <2>3 DEF Positive
  <2>5. a <= TermBound
    BY <1>1, <2>3, <2>4, Cancels DEF Positive
  <2>6. PriceScale * TermBound \in Nat /\ p \in Nat /\ TermBound \in Nat /\ TermBound >= 1
    BY <1>1 DEF Positive
  <2> QED
    BY ONLY <2>2, <2>3, <2>5, <2>6, p <= PriceScale * TermBound
<1>9. cn >= 1
  BY <1>1, <1>4, <1>8 DEF Math!Prices
<1>10. Math!StellarPrice(p) = s.current
  BY <1>3, <1>4, <1>8
<1> HIDE DEF num, den, cn, cd, vn, vd, limit
<1>11. Math!Distance(p, s.current) = den
  <2>1. cn * vd = vn * cd + 1 \/ cn * vd + 1 = vn * cd
    BY <1>4 DEF Neighbours, cn, cd, vn, vd
  <2>2. cn * PriceScale = p * cd + den \/ p * cd = cn * PriceScale + den
    BY <1>1, <1>5, <1>6, <2>1, RestIsTheDistance DEF Positive
  <2>3. cn * PriceScale \in Nat /\ p * cd \in Nat
    BY <1>1, <1>5 DEF Positive
  <2>4. Math!Distance(p, s.current) =
          IF p * cd > cn * PriceScale THEN p * cd - cn * PriceScale ELSE cn * PriceScale - p * cd
    BY DEF Math!Distance, cn, cd
  <2> QED
    BY ONLY <1>5, <2>2, <2>3, <2>4
<1>12. den * TermBound <= limit
  <2>1. CASE den = 0
    BY <1>1, <1>7, <2>1 DEF Positive
  <2>2. CASE den # 0 /\ num > den * TermBound
    <3>1. 1 * num <= cn * num
      BY <1>5, <1>9, Multiples DEF Positive
    <3>2. cn * num \in Nat /\ vn * den \in Nat /\ den * TermBound \in Nat /\ p \in Nat /\ num \in Nat
      BY <1>1, <1>5 DEF Positive
    <3> QED
      BY ONLY <1>6, <1>7, <2>2, <3>1, <3>2
  <2>3. CASE den # 0 /\ ~(num > den * TermBound)
    <3>1. den \in Positive
      BY <1>5, <2>3 DEF Positive
    <3>2. Stops(s)
      BY <1>4, <2>3 DEF den
    <3>3. (num \div den) * cn + vn > TermBound \/ (num \div den) * cd + vd > TermBound
      BY <2>3, <3>2 DEF Stops, num, den, cn, cd, vn, vd
    <3>4. TermBound * den <= p \/ TermBound * den <= PriceScale
      BY <1>1, <1>5, <1>6, <3>1, <3>3, OutOfBounds DEF Positive
    <3>5. TermBound * den = den * TermBound /\ den * TermBound \in Nat /\ p \in Nat /\ PriceScale \in Nat
      BY <1>1, <1>5 DEF Positive
    <3> QED
      BY ONLY <1>7, <3>4, <3>5
  <2> QED
    BY <2>1, <2>2, <2>3
<1> QED
  BY <1>10, <1>11, <1>12 DEF limit

-----------------------------------------------------------------------------
(***************************************************************************)
(* Liabilities of the reviewed offers: the most and the least that the     *)
(* ledger's exchange allows.                                               *)
(***************************************************************************)
LEMMA Ceiling ==
    ASSUME NEW a \in Nat, NEW b \in Positive
    PROVE  /\ ((a + b - 1) \div b) \in Nat
           /\ a <= b * ((a + b - 1) \div b)
           /\ b * ((a + b - 1) \div b) < a + b
<1> DEFINE c == a + b - 1
<1>1. c \in Nat
  BY DEF Positive
<1>2. (c \div b) \in Nat /\ b * (c \div b) <= c /\ c < b * (c \div b) + b
  BY <1>1, Quotient
<1> DEFINE x == c \div b
<1> HIDE DEF x
<1>3. x \in Nat /\ b * x <= a + b - 1 /\ a + b - 1 < b * x + b
  BY <1>2 DEF x
<1>4. b * x \in Nat /\ b \in Nat
  BY <1>3 DEF Positive
<1>5. a <= b * x /\ b * x < a + b
  BY ONLY <1>3, <1>4, a \in Nat
<1> QED
  BY <1>3, <1>5 DEF x

\* One unit less or more.
LEMMA OneLess ==
    ASSUME NEW x \in Nat, NEW y \in Nat
    PROVE  (x - 1) * y = x * y - y /\ (x + 1) * y = x * y + y
OBVIOUS

\* What is exchanged is worth it, and one unit less of what is given would not be.
LEMMA NormalIsFair ==
    ASSUME NEW n \in Positive, NEW d \in Positive, NEW v \in Nat
    PROVE  LET l == Normal(n, d, v) IN
           /\ l.selling \in Nat /\ l.buying \in Nat
           /\ l.buying * d <= l.selling * n
           /\ ~(l.buying * d <= (l.selling - 1) * n)
<1>0. n \in Nat /\ d \in Nat
  BY DEF Positive
<1>1. CASE n > d
  <2> DEFINE w == v \div n
             b == (w * n) \div d
  <2>1. Normal(n, d, v) = [selling |-> w, buying |-> b]
    BY <1>1 DEF Normal
  <2>2. w \in Nat
    BY Quotient
  <2> HIDE DEF w
  <2>3. w * n \in Nat
    BY <1>0, <2>2
  <2>4. b \in Nat /\ d * b <= w * n /\ w * n < d * b + d
    BY <2>3, Quotient
  <2> HIDE DEF b
  <2>5. b * d = d * b /\ d * b \in Nat /\ (w - 1) * n = w * n - n
    BY <1>0, <2>2, <2>4, OneLess
  <2>6. b * d <= w * n /\ ~(b * d <= (w - 1) * n)
    BY ONLY <1>0, <1>1, <2>3, <2>4, <2>5
  <2> QED
    BY <2>1, <2>2, <2>4, <2>6
<1>2. CASE ~(n > d)
  <2> DEFINE s == v \div d
             w == ((s * d) + n - 1) \div n
  <2>1. Normal(n, d, v) = [selling |-> w, buying |-> s]
    BY <1>2 DEF Normal
  <2>2. s \in Nat
    BY Quotient
  <2> HIDE DEF s
  <2>3. s * d \in Nat
    BY <1>0, <2>2
  <2>4. w \in Nat /\ s * d <= n * w /\ n * w < s * d + n
    BY <2>3, Ceiling
  <2> HIDE DEF w
  <2>5. w * n = n * w /\ n * w \in Nat /\ (w - 1) * n = w * n - n
    BY <1>0, <2>4, OneLess
  <2>6. s * d <= w * n /\ ~(s * d <= (w - 1) * n)
    BY ONLY <1>0, <2>3, <2>4, <2>5
  <2> QED
    BY <2>1, <2>2, <2>4, <2>6
<1> QED
  BY <1>1, <1>2

LEMMA MathExchangeForm ==
    ASSUME NEW n \in Positive, NEW d \in Positive, NEW mw \in 0..AmountBound, NEW ms \in 0..AmountBound
    PROVE  Math!Exchange(n, d, mw, ms) = Normal(n, d, Value(n, d, mw, ms))
<1> DEFINE v == Value(n, d, mw, ms)
           m == Math!Smaller(n, d)
<1>0. AmountBound \in Nat
  BY MathConstants DEF Positive
<1>1. v \in Nat /\ v <= mw * n /\ v <= ms * d
  BY <1>0, ValueBound
<1>2. mw * n <= AmountBound * n /\ ms * d <= AmountBound * d
  BY <1>0, ProductGrows DEF Positive
<1>3. m = n \/ m = d
  BY DEF Math!Smaller
<1>4. AmountBound * m \in Nat /\ v <= AmountBound * m
  BY <1>0, <1>1, <1>2, <1>3 DEF Positive
<1>5. Math!Smaller(mw * n, ms * d) = v
  BY DEF Math!Smaller, Value
<1>6. ~(v > AmountBound * m) /\ Math!Smaller(v, AmountBound * m) = v
  BY <1>1, <1>4 DEF Math!Smaller
<1> HIDE DEF v, m
<1>7. Math!Exchange(n, d, mw, ms) = Normal(n, d, v)
  BY <1>5, <1>6 DEF Math!Exchange, Math!CeilDiv, Normal, m
<1> QED
  BY <1>7 DEF v

\* Both liabilities can be represented, whatever is asked.
LEMMA MathRepresentable ==
    ASSUME NEW n \in Positive, NEW d \in Positive, NEW mw \in 0..AmountBound, NEW ms \in 0..AmountBound
    PROVE  Math!Representable(Math!Exchange(n, d, mw, ms))
<1> DEFINE v == Value(n, d, mw, ms)
<1>0. AmountBound \in Nat
  BY MathConstants DEF Positive
<1>1. v \in Nat /\ v <= mw * n /\ v <= ms * d
  BY <1>0, ValueBound
<1>2. Math!Exchange(n, d, mw, ms) = Normal(n, d, v)
  BY MathExchangeForm
<1> HIDE DEF v
<1>3. Normal(n, d, v).selling \in 0..mw /\ Normal(n, d, v).buying \in 0..ms
  BY <1>0, <1>1, NormalBound
<1> QED
  BY <1>0, <1>2, <1>3 DEF Math!Representable

LEMMA InRange ==
    ASSUME NEW n \in Positive, NEW d \in Positive, NEW amount \in 0..AmountBound,
           amount * n <= AmountBound * d
    PROVE  /\ Value(n, d, amount, AmountBound) = amount * n
           /\ Value(d, n, AmountBound, amount) = amount * n
<1>1. AmountBound \in Nat /\ amount * n \in Nat /\ AmountBound * d \in Nat
  BY MathConstants DEF Positive
<1> QED
  BY <1>1 DEF Value

LEMMA SellIsExact ==
    ASSUME NEW n \in Positive, NEW d \in Positive, NEW amount \in 0..AmountBound,
           amount * n <= AmountBound * d
    PROVE  LET got == Math!Exchange(n, d, amount, AmountBound) IN
           /\ got.buying * d <= got.selling * n
           /\ ~(got.buying * d <= (got.selling - 1) * n)
           /\ got.selling <= amount
           /\ ~((got.buying + 1) * d <= amount * n)
<1> DEFINE v == amount * n
           l == Normal(n, d, v)
<1>1. AmountBound \in Nat /\ amount \in Nat /\ v \in Nat /\ n \in Nat /\ d \in Nat
      /\ AmountBound \in 0..AmountBound
  BY MathConstants DEF Positive
<1>2. Math!Exchange(n, d, amount, AmountBound) = l
  BY <1>1, MathExchangeForm, InRange
<1> HIDE DEF v
<1>3. /\ l.selling \in Nat /\ l.buying \in Nat
      /\ l.buying * d <= l.selling * n /\ ~(l.buying * d <= (l.selling - 1) * n)
  BY <1>1, NormalIsFair
<1>4. l.selling <= amount
  <2>1. v <= amount * n /\ v <= AmountBound * d
    BY <1>1 DEF v
  <2>2. l.selling \in 0..amount
    BY <1>1, <2>1, NormalBound
  <2> QED
    BY <1>1, <2>2
<1>5. v < l.buying * d + d
  <2>1. CASE n > d
    <3>1. v \div n = amount
      <4>1. (0 + amount * n) \div n = (0 \div n) + amount /\ (0 \div n) = 0
        BY <1>1, QuotientOfSum DEF Positive
      <4> QED
        BY <1>1, <4>1 DEF v
    <3>2. l.buying = v \div d
      BY <2>1, <3>1 DEF Normal, v
    <3>3. v < d * (v \div d) + d /\ (v \div d) \in Nat
      BY <1>1, Quotient
    <3> QED
      BY <1>1, <3>2, <3>3
  <2>2. CASE ~(n > d)
    <3>1. l.buying = v \div d
      BY <2>2 DEF Normal
    <3>2. v < d * (v \div d) + d /\ (v \div d) \in Nat
      BY <1>1, Quotient
    <3> QED
      BY <1>1, <3>1, <3>2
  <2> QED
    BY <2>1, <2>2
<1>6. (l.buying + 1) * d = l.buying * d + d
  BY <1>1, <1>3, OneLess
<1> HIDE DEF l
<1>7. l.buying * d \in Nat
  BY <1>1, <1>3
<1>8. ~((l.buying + 1) * d <= v)
  BY ONLY <1>1, <1>5, <1>6, <1>7
<1> QED
  BY <1>2, <1>3, <1>4, <1>8 DEF v

LEMMA BuyIsExact ==
    ASSUME NEW n \in Positive, NEW d \in Positive, NEW amount \in 0..AmountBound,
           amount * n <= AmountBound * d
    PROVE  LET got == Math!Exchange(d, n, AmountBound, amount) IN
           /\ got.buying * n <= got.selling * d
           /\ ~(got.buying * n <= (got.selling - 1) * d)
           /\ got.buying <= amount
           /\ n >= d => got.buying = amount
<1> DEFINE v == amount * n
           l == Normal(d, n, v)
<1>1. AmountBound \in Nat /\ amount \in Nat /\ v \in Nat /\ n \in Nat /\ d \in Nat
      /\ AmountBound \in 0..AmountBound
  BY MathConstants DEF Positive
<1>2. Math!Exchange(d, n, AmountBound, amount) = l
  BY <1>1, MathExchangeForm, InRange
<1> HIDE DEF v
<1>3. l.buying * n <= l.selling * d /\ ~(l.buying * n <= (l.selling - 1) * d)
  BY <1>1, NormalIsFair
<1>4. l.buying <= amount
  <2>1. v <= AmountBound * d /\ v <= amount * n
    BY <1>1 DEF v
  <2>2. l.buying \in 0..amount
    BY <1>1, <2>1, NormalBound
  <2> QED
    BY <1>1, <2>2
<1>5. n >= d => l.buying = amount
  <2>1. (0 + amount * n) \div n = (0 \div n) + amount /\ (0 \div n) = 0
    BY <1>1, QuotientOfSum DEF Positive
  <2>2. v \div n = amount
    BY <1>1, <2>1 DEF v
  <2>3. n >= d => l.buying = v \div n
    BY <1>1 DEF Normal
  <2> QED
    BY <2>2, <2>3
<1> QED
  BY <1>2, <1>3, <1>4, <1>5

-----------------------------------------------------------------------------
Questions ==
    \/ question = Math!None
    \/ question \in [ask : {"price"}, requested : Requested]
    \/ question \in [ask : {"liabilities"}, side : {"buy", "sell"}, amount : OfferAmounts,
                     price : [n : 1..MaxTerm, d : 1..MaxTerm]]

LEMMA EveryPrice == ASSUME Questions PROVE Math!PriceIsExact /\ Math!PriceIsClose
<1> SUFFICES ASSUME question.ask = "price" PROVE Math!PriceIsExact /\ Math!PriceIsClose
  BY DEF Math!PriceIsExact, Math!PriceIsClose
<1> DEFINE p == question.requested
           signed == Math!StellarPrice(p)
<1>1. p \in Positive
  <2>1. question \in [ask : {"price"}, requested : Requested]
    BY DEF Questions, Math!None
  <2> QED
    BY <2>1, MathConstants
<1>2. Math!Signed = signed
  BY DEF Math!Signed
<1> HIDE DEF p, signed
<1>3. /\ signed \in Math!Prices
      /\ \A q \in Math!Prices : p * q.d = q.n * PriceScale => p * signed.d = signed.n * PriceScale
  BY <1>1, SignedIsExact DEF signed
<1>4. Math!PriceIsExact
  BY <1>2, <1>3 DEF Math!PriceIsExact, Math!Approximated, p
<1>5. p <= PriceScale * TermBound => Math!Distance(p, signed) * TermBound <= IF p > PriceScale THEN p ELSE PriceScale
  BY <1>1, SignedIsClose DEF signed
<1>6. Math!PriceIsClose
  BY <1>2, <1>5 DEF Math!PriceIsClose, p
<1> QED
  BY <1>4, <1>6

LEMMA EveryLiability == ASSUME Questions PROVE Math!LiabilitiesAreThoseOfTheLedger
<1> SUFFICES ASSUME question.ask = "liabilities" PROVE Math!LiabilitiesAreThoseOfTheLedger
  BY DEF Math!LiabilitiesAreThoseOfTheLedger
<1> DEFINE n == question.price.n
           d == question.price.d
           amount == question.amount
           got == Math!OfferLiabilities(question.side, amount, question.price)
<1>1. /\ question.side \in {"buy", "sell"} /\ amount \in 0..AmountBound
      /\ n \in Positive /\ d \in Positive
  <2>1. question \in [ask : {"liabilities"}, side : {"buy", "sell"}, amount : OfferAmounts,
                     price : [n : 1..MaxTerm, d : 1..MaxTerm]]
    BY DEF Questions, Math!None
  <2>2. /\ question.side \in {"buy", "sell"} /\ question.amount \in OfferAmounts
        /\ question.price \in [n : 1..MaxTerm, d : 1..MaxTerm]
    BY <2>1
  <2>3. n \in 1..MaxTerm /\ d \in 1..MaxTerm
    BY <2>2
  <2>4. OfferAmounts \subseteq 0..AmountBound /\ MaxTerm \in Nat
    BY MathConstants
  <2>5. amount \in 0..AmountBound
    BY <2>2, <2>4
  <2> HIDE DEF n, d, amount
  <2>6. n \in Positive /\ d \in Positive
    BY ONLY <2>3, <2>4 DEF Positive
  <2> QED
    BY <2>2, <2>5, <2>6
<1>2. AmountBound \in 0..AmountBound
  BY MathConstants DEF Positive
<1>3. got = IF question.side = "sell" THEN Math!Exchange(n, d, amount, AmountBound)
            ELSE Math!Exchange(d, n, AmountBound, amount)
  BY DEF Math!OfferLiabilities
<1> HIDE DEF n, d, amount, got
<1>4. Math!Representable(got)
  BY <1>1, <1>2, <1>3, MathRepresentable
<1>5. CASE question.side = "sell"
  <2>1. amount * n <= AmountBound * d =>
          /\ got.buying * d <= got.selling * n
          /\ ~(got.buying * d <= (got.selling - 1) * n)
          /\ got.selling <= amount
          /\ ~((got.buying + 1) * d <= amount * n)
    BY <1>1, <1>3, <1>5, SellIsExact
  <2> QED
    BY <1>4, <1>5, <2>1 DEF Math!LiabilitiesAreThoseOfTheLedger, n, d, amount, got
<1>6. CASE question.side = "buy"
  <2>1. amount * n <= AmountBound * d =>
          /\ got.buying * n <= got.selling * d
          /\ ~(got.buying * n <= (got.selling - 1) * d)
          /\ got.buying <= amount
          /\ n >= d => got.buying = amount
    BY <1>1, <1>3, <1>6, BuyIsExact
  <2> QED
    BY <1>4, <1>6, <2>1 DEF Math!LiabilitiesAreThoseOfTheLedger, n, d, amount, got
<1> QED
  BY <1>1, <1>5, <1>6

\* Every price that is signed can be encoded, is the requested one where that can be, and else
\* closer to it than one step of its denominator (dex.rs stellar_price); every liability is the
\* most and the least that the exchange of the ledger allows (dex.rs offer_liabilities): for
\* any bounds of the types and any scale.
THEOREM OffersAreExact == Math!Spec => []OfferIsExact
<1>1. Math!Init => Questions
  BY DEF Math!Init, Questions
<1>2. Questions /\ [Math!Next]_question => Questions'
  <2> SUFFICES ASSUME Questions, [Math!Next]_question PROVE Questions'
    OBVIOUS
  <2>1. CASE Math!AskPrice
    BY <2>1 DEF Math!AskPrice, Questions
  <2>2. CASE Math!AskLiabilities
    BY <2>2 DEF Math!AskLiabilities, Questions
  <2>3. CASE UNCHANGED question
    BY <2>3 DEF Questions
  <2> QED
    BY <2>1, <2>2, <2>3 DEF Math!Next
<1>3. Questions => OfferIsExact
  BY EveryPrice, EveryLiability DEF OfferIsExact
<1> QED
  BY <1>1, <1>2, <1>3, PTL DEF Math!Spec

-----------------------------------------------------------------------------
(***************************************************************************)
(* What is shown of a market.  Prices are rounded to the nearest number,   *)
(* and what rounds to zero is marked.                                      *)
(***************************************************************************)
LEMMA ViewConstants ==
    ViewScale \in Positive /\ ViewAmounts \subseteq Nat /\ ViewTerm \in Nat /\ MaxTrades \in Nat
BY ViewAssumption DEF View!BoundsAssumption, View!ViewsAssumption, Positive

LEMMA Rounding ==
    ASSUME NEW a \in Nat, NEW d \in Positive
    PROVE  /\ View!RoundRatio(a, d) \in Nat
           /\ a > View!RoundRatio(a, d) * d => 2 * (a - View!RoundRatio(a, d) * d) <= d
           /\ ~(a > View!RoundRatio(a, d) * d) => 2 * (View!RoundRatio(a, d) * d - a) <= d
           /\ 2 * a >= d => View!RoundRatio(a, d) > 0
<1> DEFINE q == a \div d
           r == a % d
           x == View!RoundRatio(a, d)
<1>1. q \in Nat /\ r \in Nat /\ r < d /\ a = d * q + r /\ d \in Nat /\ d > 0
  BY DEF Positive
<1>2. x = q + (IF 2 * r >= d THEN 1 ELSE 0)
  BY DEF View!RoundRatio
<1> HIDE DEF q, r, x
<1>3. CASE 2 * r >= d
  <2>1. x = q + 1 /\ x * d = d * q + d /\ d * q \in Nat
    BY <1>1, <1>2, <1>3
  <2> QED
    BY ONLY <1>1, <1>3, <2>1 DEF x
<1>4. CASE ~(2 * r >= d)
  <2>1. x = q /\ x * d = d * q /\ d * q \in Nat
    BY <1>1, <1>2, <1>4
  <2>2. 2 * a >= d => q # 0
    <3>1. q = 0 => d * q = 0
      BY <1>1
    <3> QED
      BY ONLY <1>1, <1>4, <3>1
  <2> QED
    BY ONLY <1>1, <1>4, <2>1, <2>2 DEF x
<1> QED
  BY <1>3, <1>4

\* What is shown of a price n / d, in units of the last decimal.
LEMMA PriceShown ==
    ASSUME NEW n \in Nat, NEW d \in Positive
    PROVE  LET p == View!ShownPrice(n, d)
               off == IF n * ViewScale > p.units * d THEN n * ViewScale - p.units * d
                      ELSE p.units * d - n * ViewScale
           IN  /\ (n > 0 /\ p.mark = "number") => p.units > 0
               /\ p.mark = "number" => 2 * off <= d
               /\ p.mark = "tiny" => 2 * n * ViewScale < d
<1> DEFINE a == n * ViewScale
           x == View!RoundRatio(a, d)
           p == View!ShownPrice(n, d)
<1>1. a \in Nat /\ d \in Nat /\ a * 2 = 2 * a /\ 2 * n * ViewScale = 2 * a
  BY ViewConstants DEF Positive
<1>2. p = IF a * 2 < d THEN [mark |-> "tiny", units |-> 0] ELSE [mark |-> "number", units |-> x]
  BY DEF View!ShownPrice, View!Tiny, View!Units
<1> HIDE DEF a, x, p
<1>3. CASE a * 2 < d
  <2>1. p.mark = "tiny"
    BY <1>2, <1>3
  <2> QED
    BY <1>1, <1>3, <2>1 DEF a, p
<1>4. CASE ~(a * 2 < d)
  <2>1. p.mark = "number" /\ p.units = x
    BY <1>2, <1>4
  <2>2. /\ x \in Nat
        /\ a > x * d => 2 * (a - x * d) <= d
        /\ ~(a > x * d) => 2 * (x * d - a) <= d
        /\ 2 * a >= d => x > 0
    BY <1>1, Rounding DEF x
  <2> DEFINE off == IF a > x * d THEN a - x * d ELSE x * d - a
  <2>3. 2 * off <= d
    BY <2>2
  <2>4. x > 0
    BY ONLY <1>1, <1>4, <2>2
  <2> QED
    BY <2>1, <2>3, <2>4 DEF a, p
<1> QED
  BY <1>3, <1>4

Levels ==
    \/ level = View!None
    \/ level \in [kind : {"bid", "ask", "total"}, amount : ViewAmounts \ {0}, price : View!Terms]
    \/ /\ level \in [kind : {"trade"}, price : View!Stated, baseAmount : ViewAmounts,
                     counterAmount : ViewAmounts, baseIsSeller : BOOLEAN]
       /\ View!TradeShown(level)

LEMMA EveryLevel == ASSUME Levels PROVE View!PricesAreNotZero
<1> DEFINE n == IF level.price.n > 0 THEN level.price.n ELSE level.counterAmount
           d == IF level.price.n > 0 THEN level.price.d ELSE level.baseAmount
<1> SUFFICES ASSUME level.kind \in {"bid", "ask", "trade"}
             PROVE  n \in Nat /\ d \in Positive /\ View!Shown.price = View!ShownPrice(n, d)
  BY PriceShown DEF View!PricesAreNotZero
<1>1. \A t \in View!Terms : t.n \in Nat /\ t.n > 0 /\ t.d \in Nat /\ t.d > 0
  BY ViewConstants DEF View!Terms
<1>2. CASE level \in [kind : {"bid", "ask", "total"}, amount : ViewAmounts \ {0}, price : View!Terms]
  <2>1. level.price \in View!Terms
    BY <1>2
  <2>2. n = level.price.n /\ d = level.price.d /\ n \in Nat /\ d \in Positive
    BY <1>1, <2>1 DEF Positive
  <2>3. level.kind = "bid" \/ level.kind = "ask"
    BY <1>2
  <2>4. level.kind = "bid" => View!Shown = View!Bid(level)
    BY DEF View!Shown
  <2>5. level.kind = "ask" => View!Shown = View!Ask(level)
    BY DEF View!Shown
  <2>6. View!Shown.price = View!ShownPrice(level.price.n, level.price.d)
    BY <2>3, <2>4, <2>5 DEF View!Bid, View!Ask
  <2> QED
    BY <2>2, <2>6
<1>3. CASE /\ level \in [kind : {"trade"}, price : View!Stated, baseAmount : ViewAmounts,
                     counterAmount : ViewAmounts, baseIsSeller : BOOLEAN]
           /\ View!TradeShown(level)
  <2>1. /\ level.kind = "trade" /\ level.price \in View!Stated
        /\ level.baseAmount \in Nat /\ level.counterAmount \in Nat
    BY <1>3, ViewConstants
  <2>2. View!Shown = View!Trade(level)
    BY <2>1 DEF View!Shown
  <2>3. CASE level.price \in View!Terms
    <3>1. n = level.price.n /\ d = level.price.d /\ n \in Nat /\ d \in Positive /\ level.price.n > 0 /\ level.price.d > 0
      BY <1>1, <2>3 DEF Positive
    <3>2. View!Shown.price = View!ShownPrice(level.price.n, level.price.d)
      BY <2>2, <3>1 DEF View!Trade
    <3> QED
      BY <3>1, <3>2
  <2>4. CASE level.price = View!Price(0, 0)
    <3>1. level.price.n = 0 /\ level.price.d = 0
      BY <2>4 DEF View!Price
    <3>2. level.baseAmount > 0
      BY <1>3, <3>1 DEF View!TradeShown
    <3>3. n = level.counterAmount /\ d = level.baseAmount /\ n \in Nat /\ d \in Positive
      BY <2>1, <3>1, <3>2 DEF Positive
    <3>4. View!Shown.price = View!ShownPrice(level.counterAmount, level.baseAmount)
      BY <2>2, <3>1 DEF View!Trade
    <3> QED
      BY <3>3, <3>4
  <2> QED
    BY <2>1, <2>3, <2>4 DEF View!Stated
<1>4. level # View!None
  BY DEF View!None
<1> QED
  BY <1>2, <1>3, <1>4 DEF Levels

-----------------------------------------------------------------------------
(***************************************************************************)
(* Fills.  The three recursive functions of the property, over the trades  *)
(* so far: the segments, and the sums of either amount.                    *)
(***************************************************************************)
Nothing(mode) == IF mode = "fills" THEN <<>> ELSE 0

Fold(mode, x, r) ==
    CASE mode = "fills" -> View!Add(x, r)
      [] mode = "base" -> x + r.baseAmount
      [] OTHER -> x + r.counterAmount

UpTo(f, mode, m) == f = [k \in 0..m |-> IF k = 0 THEN Nothing(mode) ELSE Fold(mode, f[k - 1], records[k])]

LEMMA UpToExists == \A mode : \A m \in Nat : \E f : UpTo(f, mode, m)
<1> SUFFICES ASSUME NEW mode PROVE \A m \in Nat : \E f : UpTo(f, mode, m)
  OBVIOUS
<1> DEFINE T == {m \in Nat : ~\E f : UpTo(f, mode, m)}
<1> SUFFICES ASSUME T # {} PROVE FALSE
  OBVIOUS
<1>1. PICK x \in T : \A y \in T : x <= y
  <2> HIDE DEF T
  <2>1. T \subseteq Nat
    BY DEF T
  <2> QED
    BY <2>1, LeastNat
<1>2. CASE x = 0
  <2> DEFINE f == [n \in 0..0 |-> Nothing(mode)]
  <2>1. UpTo(f, mode, 0)
    BY DEF UpTo
  <2> QED
    BY <1>2, <2>1
<1>3. CASE x # 0
  <2>1. x \in Nat /\ x - 1 \in Nat /\ x - 1 \notin T
    BY <1>1, <1>3
  <2>2. PICK f : UpTo(f, mode, x - 1)
    BY <2>1
  <2> DEFINE g == [n \in 0..x |-> IF n = x THEN Fold(mode, f[x - 1], records[x]) ELSE f[n]]
  <2>3. \A n \in 0..x : n # x => n \in 0..x - 1
    BY <2>1
  <2>4. ASSUME NEW n \in 0..x
        PROVE  g[n] = IF n = 0 THEN Nothing(mode) ELSE Fold(mode, g[n - 1], records[n])
    <3>1. n # 0 => n - 1 \in 0..x /\ n - 1 # x /\ g[n - 1] = f[n - 1]
      BY <2>1, <2>3
    <3>2. CASE n = x
      <4>1. g[n] = Fold(mode, f[x - 1], records[x])
        BY <3>2
      <4> HIDE DEF g
      <4> QED
        BY <1>3, <3>1, <3>2, <4>1
    <3>3. CASE n # x
      <4>1. n \in 0..x - 1 /\ g[n] = f[n]
        BY <2>3, <3>3
      <4>2. f[n] = IF n = 0 THEN Nothing(mode) ELSE Fold(mode, f[n - 1], records[n])
        BY <2>2, <4>1 DEF UpTo
      <4> HIDE DEF g
      <4> QED
        BY <3>1, <4>1, <4>2
    <3> QED
      BY <3>2, <3>3
  <2>5. g = [n \in 0..x |-> g[n]]
    OBVIOUS
  <2> HIDE DEF g
  <2>6. UpTo(g, mode, x)
    BY <2>4, <2>5 DEF UpTo
  <2> QED
    BY <2>6
<1> QED
  BY <1>2, <1>3

\* The functions as the property writes them.
FillsUpTo ==
    CHOOSE f : f = [k \in 0..Len(records) |-> IF k = 0 THEN <<>> ELSE View!Add(f[k - 1], records[k])]
BaseUpTo ==
    CHOOSE f : f = [i \in 0..Len(records) |-> IF i = 0 THEN 0 ELSE f[i - 1] + records[i].baseAmount]
CounterUpTo ==
    CHOOSE f : f = [i \in 0..Len(records) |-> IF i = 0 THEN 0 ELSE f[i - 1] + records[i].counterAmount]

LEMMA UpToRuns ==
    ASSUME Len(records) \in Nat
    PROVE  /\ View!Compress(records) = FillsUpTo[Len(records)]
           /\ UpTo(FillsUpTo, "fills", Len(records))
           /\ UpTo(BaseUpTo, "base", Len(records))
           /\ UpTo(CounterUpTo, "counter", Len(records))
<1>1. View!Compress(records) = FillsUpTo[Len(records)]
  BY DEF View!Compress, FillsUpTo
<1>2. \A mode : \E f : UpTo(f, mode, Len(records))
  BY UpToExists
<1>3. \E f : f = [k \in 0..Len(records) |-> IF k = 0 THEN <<>> ELSE View!Add(f[k - 1], records[k])]
  <2>1. PICK f : UpTo(f, "fills", Len(records))
    BY <1>2
  <2> QED
    BY <2>1 DEF UpTo, Fold, Nothing
<1>4. \E f : f = [i \in 0..Len(records) |-> IF i = 0 THEN 0 ELSE f[i - 1] + records[i].baseAmount]
  <2>1. PICK f : UpTo(f, "base", Len(records))
    BY <1>2
  <2> QED
    BY <2>1 DEF UpTo, Fold, Nothing
<1>5. \E f : f = [i \in 0..Len(records) |-> IF i = 0 THEN 0 ELSE f[i - 1] + records[i].counterAmount]
  <2>1. PICK f : UpTo(f, "counter", Len(records))
    BY <1>2
  <2> QED
    BY <2>1 DEF UpTo, Fold, Nothing
<1>6. FillsUpTo = [k \in 0..Len(records) |-> IF k = 0 THEN <<>> ELSE View!Add(FillsUpTo[k - 1], records[k])]
  BY <1>3 DEF FillsUpTo
<1>7. BaseUpTo = [i \in 0..Len(records) |-> IF i = 0 THEN 0 ELSE BaseUpTo[i - 1] + records[i].baseAmount]
  BY <1>4 DEF BaseUpTo
<1>8. CounterUpTo = [i \in 0..Len(records) |-> IF i = 0 THEN 0 ELSE CounterUpTo[i - 1] + records[i].counterAmount]
  BY <1>5 DEF CounterUpTo
<1> QED
  BY <1>1, <1>6, <1>7, <1>8 DEF UpTo, Fold, Nothing
Sides == {"sell", "buy"}
Pairs == {"p", "q"}
TradePrices == {View!Price(1, 1), View!Price(1, 2)}
AccountIds == {Trader, "other", NoId}
OfferIds == {"1", "2", NoId}

TradeRecords ==
    [id : Nat, pair : Pairs, price : TradePrices, baseAccount : AccountIds, counterAccount : AccountIds,
     baseOffer : OfferIds, counterOffer : OfferIds, baseAmount : Nat, counterAmount : Nat, baseIsSeller : BOOLEAN]

FillRecords ==
    [pair : Pairs, side : Sides, price : TradePrices, offer : OfferIds, base : Nat, counter : Nat,
     count : Nat, first : Nat, last : Nat]

RecordsAreNumbered ==
    /\ records \in Seq(TradeRecords)
    /\ \A i \in 1..Len(records) : records[i].id = i

FillKey(i) == View!Key(View!Segment(records[i]))
OneOffer(i, j) == FillKey(i) = FillKey(j) /\ View!OfferOf(records[j]) # NoId

\* A segment stands for consecutive records of one offer, and holds their sums.
IsRun(s, k) ==
    /\ 1 <= s.first /\ s.first <= s.last /\ s.last <= k
    /\ s.count = s.last - s.first + 1
    /\ s.first < s.last => s.offer # NoId
    /\ \A i \in s.first..s.last : FillKey(i) = View!Key(s)
    /\ s.base = BaseUpTo[s.last] - BaseUpTo[s.first - 1]
    /\ s.counter = CounterUpTo[s.last] - CounterUpTo[s.first - 1]

\* It starts where the one before it ends, with another offer.
Follows(s, t) ==
    /\ t.first = s.last + 1
    /\ ~OneOffer(t.first - 1, t.first)

\* The first k trades as segments.
Cut(k, segments) ==
    /\ segments \in Seq(FillRecords)
    /\ k = 0 => segments = <<>>
    /\ k > 0 => segments # <<>> /\ segments[1].first = 1 /\ segments[Len(segments)].last = k
    /\ \A j \in 1..Len(segments) : IsRun(segments[j], k)
    /\ \A j \in 2..Len(segments) : Follows(segments[j - 1], segments[j])

LEMMA RecordTypes ==
    ASSUME RecordsAreNumbered, NEW i \in 1..Len(records)
    PROVE  /\ records[i] \in TradeRecords /\ records[i].id = i
           /\ records[i].baseAmount \in Nat /\ records[i].counterAmount \in Nat
<1>1. records[i] \in TradeRecords
  BY DEF RecordsAreNumbered
<1> QED
  BY <1>1 DEF RecordsAreNumbered, TradeRecords

LEMMA SegmentTypes ==
    ASSUME RecordsAreNumbered, NEW i \in 1..Len(records)
    PROVE  LET s == View!Segment(records[i]) IN
           /\ s \in FillRecords /\ s.first = i /\ s.last = i /\ s.count = 1
           /\ s.base = records[i].baseAmount /\ s.counter = records[i].counterAmount
           /\ s.offer = View!OfferOf(records[i])
<1> DEFINE r == records[i]
<1>1. r \in TradeRecords /\ r.id = i
  BY RecordTypes
<1> HIDE DEF r
<1>2. View!Side(r) \in Sides
  BY DEF View!Side, Sides
<1>3. View!OfferOf(r) \in OfferIds
  BY <1>1 DEF View!OfferOf, OfferIds, TradeRecords
<1>4. i \in Nat
  BY DEF RecordsAreNumbered
<1>5. View!Segment(r) \in FillRecords
  BY <1>1, <1>2, <1>3, <1>4 DEF View!Segment, FillRecords, TradeRecords
<1>6. /\ View!Segment(r).first = i /\ View!Segment(r).last = i /\ View!Segment(r).count = 1
      /\ View!Segment(r).base = r.baseAmount /\ View!Segment(r).counter = r.counterAmount
      /\ View!Segment(r).offer = View!OfferOf(r)
  BY <1>1 DEF View!Segment
<1> QED
  BY <1>5, <1>6 DEF r

\* The sums grow by the amounts of the trades.
LEMMA SumsGrow ==
    ASSUME RecordsAreNumbered
    PROVE  /\ \A i \in 0..Len(records) : BaseUpTo[i] \in Nat /\ CounterUpTo[i] \in Nat
           /\ \A i \in 1..Len(records) : /\ BaseUpTo[i] = BaseUpTo[i - 1] + records[i].baseAmount
                                        /\ CounterUpTo[i] = CounterUpTo[i - 1] + records[i].counterAmount
<1>1. Len(records) \in Nat
  BY DEF RecordsAreNumbered
<1>2. UpTo(BaseUpTo, "base", Len(records)) /\ UpTo(CounterUpTo, "counter", Len(records))
  BY <1>1, UpToRuns
<1>3. \A i \in 0..Len(records) :
        /\ BaseUpTo[i] = IF i = 0 THEN 0 ELSE BaseUpTo[i - 1] + records[i].baseAmount
        /\ CounterUpTo[i] = IF i = 0 THEN 0 ELSE CounterUpTo[i - 1] + records[i].counterAmount
  BY <1>2 DEF UpTo, Nothing, Fold
<1>4. \A i \in 1..Len(records) : /\ BaseUpTo[i] = BaseUpTo[i - 1] + records[i].baseAmount
                                /\ CounterUpTo[i] = CounterUpTo[i - 1] + records[i].counterAmount
  BY <1>1, <1>3
<1> DEFINE T == {i \in 0..Len(records) : ~(BaseUpTo[i] \in Nat /\ CounterUpTo[i] \in Nat)}
<1>5. T = {}
  <2> SUFFICES ASSUME T # {} PROVE FALSE
    OBVIOUS
  <2>1. PICK x \in T : \A y \in T : x <= y
    <3>1. T \subseteq Nat
      BY <1>1
    <3> HIDE DEF T
    <3> QED
      BY <3>1, LeastNat
  <2>2. x # 0
    BY <1>1, <1>3, <2>1
  <2>3. x \in 1..Len(records) /\ x - 1 \in 0..Len(records) /\ x - 1 \notin T
    BY <1>1, <2>1, <2>2
  <2>4. records[x].baseAmount \in Nat /\ records[x].counterAmount \in Nat
    BY <2>3, RecordTypes
  <2>5. BaseUpTo[x - 1] \in Nat /\ CounterUpTo[x - 1] \in Nat
    BY <2>3
  <2>6. /\ BaseUpTo[x] = BaseUpTo[x - 1] + records[x].baseAmount
        /\ CounterUpTo[x] = CounterUpTo[x - 1] + records[x].counterAmount
    BY <1>4, <2>3
  <2>7. BaseUpTo[x] \in Nat /\ CounterUpTo[x] \in Nat
    <3>1. \A a, b, c : b \in Nat /\ c \in Nat /\ a = b + c => a \in Nat
      OBVIOUS
    <3> QED
      BY ONLY <2>4, <2>5, <2>6, <3>1
  <2> QED
    BY <2>1, <2>7
<1> QED
  BY <1>4, <1>5

\* One more trade is a run of its own, ...
LEMMA NewRun ==
    ASSUME RecordsAreNumbered, NEW i \in 1..Len(records)
    PROVE  IsRun(View!Segment(records[i]), i)
<1> DEFINE s == View!Segment(records[i])
<1>1. /\ s.first = i /\ s.last = i /\ s.count = 1
      /\ s.base = records[i].baseAmount /\ s.counter = records[i].counterAmount
  BY SegmentTypes
<1>2. i \in Nat /\ 1 <= i /\ i - 1 \in 0..Len(records) /\ i \in 0..Len(records) /\ i - i + 1 = 1
  BY DEF RecordsAreNumbered
<1>3. /\ BaseUpTo[i] \in Nat /\ CounterUpTo[i] \in Nat
      /\ BaseUpTo[i - 1] \in Nat /\ CounterUpTo[i - 1] \in Nat
  BY <1>2, SumsGrow
<1>4. /\ BaseUpTo[i] = BaseUpTo[i - 1] + records[i].baseAmount
      /\ CounterUpTo[i] = CounterUpTo[i - 1] + records[i].counterAmount
  BY SumsGrow
<1>5. records[i].baseAmount \in Nat /\ records[i].counterAmount \in Nat
  BY RecordTypes
<1>6. \A a, b, c : a \in Nat /\ b \in Nat /\ c \in Nat /\ a = b + c => c = a - b
  OBVIOUS
<1>7. s.base = BaseUpTo[i] - BaseUpTo[i - 1] /\ s.counter = CounterUpTo[i] - CounterUpTo[i - 1]
  <2>1. records[i].baseAmount = BaseUpTo[i] - BaseUpTo[i - 1]
    BY ONLY <1>3, <1>4, <1>5, <1>6
  <2>2. records[i].counterAmount = CounterUpTo[i] - CounterUpTo[i - 1]
    BY ONLY <1>3, <1>4, <1>5, <1>6
  <2> HIDE DEF s
  <2> QED
    BY ONLY <1>1, <2>1, <2>2
<1>8. \A j \in i..i : FillKey(j) = View!Key(s)
  BY <1>2 DEF FillKey
<1> HIDE DEF s
<1>9. IsRun(s, i)
  BY <1>1, <1>2, <1>7, <1>8 DEF IsRun
<1> QED
  BY <1>9 DEF s

\* ... or makes the last run longer.
LEMMA LongerRun ==
    ASSUME RecordsAreNumbered, NEW k \in 1..Len(records) - 1, NEW a \in FillRecords,
           IsRun(a, k), a.last = k,
           View!Key(a) = View!Key(View!Segment(records[k + 1])), a.offer # NoId
    PROVE  LET m == View!Merged(a, View!Segment(records[k + 1])) IN
           m \in FillRecords /\ IsRun(m, k + 1) /\ m.first = a.first /\ m.last = k + 1
<1> DEFINE i == k + 1
           s == View!Segment(records[i])
           m == View!Merged(a, s)
<1>1. k \in Nat /\ i \in Nat /\ i \in 1..Len(records) /\ i - 1 = k /\ k \in 0..Len(records) /\ i \in 0..Len(records)
      /\ Len(records) \in Nat /\ i = k + 1 /\ k < Len(records)
  BY DEF RecordsAreNumbered
<1> HIDE DEF i
<1>2. /\ s.last = i /\ s.base = records[i].baseAmount /\ s.counter = records[i].counterAmount
  BY <1>1, SegmentTypes
<1>3. records[i].baseAmount \in Nat /\ records[i].counterAmount \in Nat
  BY <1>1, RecordTypes
<1>24. a.base \in Nat /\ a.counter \in Nat /\ a.count \in Nat /\ a.first \in Nat
  BY DEF FillRecords
<1> HIDE DEF s
<1>4. m = [a EXCEPT !.base = a.base + s.base, !.counter = a.counter + s.counter, !.count = a.count + 1, !.last = s.last]
  BY DEF View!Merged
<1>5. /\ m.pair = a.pair /\ m.side = a.side /\ m.price = a.price /\ m.offer = a.offer
      /\ m.base = a.base + records[i].baseAmount /\ m.counter = a.counter + records[i].counterAmount
      /\ m.count = a.count + 1 /\ m.first = a.first /\ m.last = i
  BY <1>2, <1>4 DEF FillRecords
<1>23. m \in FillRecords
  <2>1. a.base + s.base \in Nat /\ a.counter + s.counter \in Nat /\ a.count + 1 \in Nat /\ s.last \in Nat
    <3>1. s.base \in Nat /\ s.counter \in Nat /\ s.last \in Nat
      BY <1>1, <1>2, <1>3
    <3>2. \A x, y : x \in Nat /\ y \in Nat => x + y \in Nat
      OBVIOUS
    <3> QED
      BY ONLY <1>24, <3>1, <3>2
  <2> HIDE DEF m
  <2> QED
    BY <1>4, <2>1 DEF FillRecords
<1> HIDE DEF m
<1>6. View!Key(m) = View!Key(a)
  BY <1>5 DEF View!Key
<1>7. a.first \in Nat /\ 1 <= a.first /\ a.first <= k /\ a.base \in Nat /\ a.counter \in Nat /\ a.count \in Nat
  <2>1. 1 <= a.first /\ a.first <= a.last /\ a.count = a.last - a.first + 1
    BY DEF IsRun
  <2> QED
    BY <1>24, <2>1
<1>8. a.count = k - a.first + 1
  BY DEF IsRun
<1>25. \A x, y : x \in Nat /\ y \in Nat => (x - y + 1) + 1 = (x + 1) - y + 1
  OBVIOUS
<1>9. m.count = i - a.first + 1
  <2>1. m.count = (k - a.first + 1) + 1
    BY ONLY <1>5, <1>8
  <2>2. i - a.first + 1 = (k + 1) - a.first + 1
    BY ONLY <1>1
  <2>3. k \in Nat /\ a.first \in Nat
    BY <1>1, <1>7
  <2> QED
    BY ONLY <1>25, <2>1, <2>2, <2>3
<1>10. \A j \in a.first..k : FillKey(j) = View!Key(a)
  BY DEF IsRun
<1>11. FillKey(i) = View!Key(a)
  BY <1>1 DEF FillKey, s
<1>12. ASSUME NEW j \in a.first..i PROVE FillKey(j) = View!Key(m)
  <2>1. j \in a.first..k \/ j = i
    BY <1>1, <1>7
  <2> QED
    BY <1>6, <1>10, <1>11, <2>1
<1>13. a.first - 1 \in 0..Len(records)
  BY <1>1, <1>7
<1>14. /\ BaseUpTo[i] \in Nat /\ CounterUpTo[i] \in Nat
       /\ BaseUpTo[k] \in Nat /\ CounterUpTo[k] \in Nat
       /\ BaseUpTo[a.first - 1] \in Nat /\ CounterUpTo[a.first - 1] \in Nat
  BY <1>1, <1>13, SumsGrow
<1>15. /\ BaseUpTo[i] = BaseUpTo[k] + records[i].baseAmount
       /\ CounterUpTo[i] = CounterUpTo[k] + records[i].counterAmount
  BY <1>1, SumsGrow
<1>16. /\ a.base = BaseUpTo[k] - BaseUpTo[a.first - 1]
       /\ a.counter = CounterUpTo[k] - CounterUpTo[a.first - 1]
  BY DEF IsRun
<1>17. \A x, y, c : x \in Nat /\ y \in Nat /\ c \in Nat => (x - y) + c = (x + c) - y
  OBVIOUS
<1>18. m.base = BaseUpTo[i] - BaseUpTo[a.first - 1]
  <2>1. m.base = (BaseUpTo[k] - BaseUpTo[a.first - 1]) + records[i].baseAmount
    BY ONLY <1>5, <1>16
  <2>2. BaseUpTo[i] - BaseUpTo[a.first - 1] = (BaseUpTo[k] + records[i].baseAmount) - BaseUpTo[a.first - 1]
    BY ONLY <1>15
  <2> QED
    BY ONLY <1>3, <1>14, <1>17, <2>1, <2>2
<1>19. m.counter = CounterUpTo[i] - CounterUpTo[a.first - 1]
  <2>1. m.counter = (CounterUpTo[k] - CounterUpTo[a.first - 1]) + records[i].counterAmount
    BY ONLY <1>5, <1>16
  <2>2. CounterUpTo[i] - CounterUpTo[a.first - 1] = (CounterUpTo[k] + records[i].counterAmount) - CounterUpTo[a.first - 1]
    BY ONLY <1>15
  <2> QED
    BY ONLY <1>3, <1>14, <1>17, <2>1, <2>2
<1>20. m.offer # NoId
  BY <1>5
<1>21. a.first <= i /\ i <= i
  BY <1>1, <1>7
<1>22. IsRun(m, i)
  BY <1>5, <1>7, <1>9, <1>12, <1>18, <1>19, <1>20, <1>21 DEF IsRun
<1> QED
  BY <1>5, <1>23, <1>22 DEF i, m, s

LEMMA AddedApart ==
    ASSUME RecordsAreNumbered, NEW k \in 0..Len(records) - 1, NEW cut, Cut(k, cut),
           ~View!CanMerge(cut, View!Segment(records[k + 1]))
    PROVE  Cut(k + 1, Append(cut, View!Segment(records[k + 1])))
<1> DEFINE i == k + 1
           s == View!Segment(records[i])
           n == Len(cut)
           t == Append(cut, s)
<1>1. k \in Nat /\ i \in Nat /\ i = k + 1 /\ i - 1 = k /\ i > 0 /\ i \in 1..Len(records)
  BY DEF RecordsAreNumbered
<1> HIDE DEF i
<1>2. s \in FillRecords /\ s.first = i /\ s.last = i /\ s.offer = View!OfferOf(records[i])
  BY <1>1, SegmentTypes
<1>3. IsRun(s, i)
  BY <1>1, NewRun
<1>4. FillKey(i) = View!Key(s)
  BY DEF FillKey
<1>5. ~View!CanMerge(cut, s)
  BY DEF i
<1> HIDE DEF s
<1>6. cut \in Seq(FillRecords) /\ n \in Nat
  BY DEF Cut
<1>7. /\ t \in Seq(FillRecords) /\ Len(t) = n + 1 /\ t[n + 1] = s /\ t # <<>>
      /\ \A j \in 1..n : t[j] = cut[j]
  <2>1. t \in Seq(FillRecords) /\ Len(t) = n + 1
    BY <1>2, <1>6
  <2>2. t[n + 1] = s
    BY <1>6
  <2>3. ASSUME NEW j \in 1..n PROVE t[j] = cut[j]
    BY <1>6
  <2>4. t # <<>>
    <3> HIDE DEF t
    <3> QED
      BY <1>6, <2>1
  <2> QED
    BY <2>1, <2>2, <2>3, <2>4
<1> HIDE DEF t
<1>8. n = 0 => k = 0
  BY <1>1, <1>6 DEF Cut
<1>9. t[1].first = 1
  <2>1. CASE n = 0
    BY <1>1, <1>2, <1>7, <1>8, <2>1
  <2>2. CASE n # 0
    <3>1. 1 \in 1..n /\ k > 0
      BY <1>1, <1>6, <2>2 DEF Cut
    <3> QED
      BY <1>7, <3>1 DEF Cut
  <2> QED
    BY <2>1, <2>2
<1>10. ASSUME NEW j \in 1..n + 1 PROVE IsRun(t[j], i)
  <2>1. CASE j = n + 1
    BY <1>3, <1>7, <2>1
  <2>2. CASE j # n + 1
    <3>1. j \in 1..n
      BY <1>6, <2>2
    <3>2. IsRun(cut[j], k) /\ cut[j] \in FillRecords
      BY <1>6, <3>1 DEF Cut
    <3>3. cut[j].last \in Nat
      BY <3>2 DEF FillRecords
    <3>4. cut[j].last <= k => cut[j].last <= i
      BY <1>1, <3>3
    <3>5. IsRun(cut[j], i)
      BY <3>2, <3>4 DEF IsRun
    <3> QED
      BY <1>7, <3>1, <3>5
  <2> QED
    BY <2>1, <2>2
<1>11. ASSUME NEW j \in 2..n + 1 PROVE Follows(t[j - 1], t[j])
  <2>1. CASE j = n + 1
    <3>1. n \in 1..n /\ j - 1 = n /\ n # 0 /\ cut # <<>>
      BY <1>6, <2>1
    <3>2. k > 0
      BY <1>1, <3>1 DEF Cut
    <3>3. cut[n].last = k /\ IsRun(cut[n], k) /\ cut[n] \in FillRecords
      BY <1>6, <3>1, <3>2 DEF Cut
    <3>4. cut[n].first \in Nat /\ 1 <= cut[n].first /\ cut[n].first <= k
      BY <3>3 DEF IsRun, FillRecords
    <3>5. k \in cut[n].first..cut[n].last
      BY <1>1, <3>3, <3>4
    <3>6. FillKey(k) = View!Key(cut[n])
      BY <3>3, <3>5 DEF IsRun
    <3>7. ~OneOffer(k, i)
      BY <1>2, <1>4, <1>5, <3>1, <3>6 DEF OneOffer, View!CanMerge
    <3>8. t[j - 1] = cut[n] /\ t[j] = s
      BY <1>7, <2>1, <3>1
    <3> QED
      BY <1>1, <1>2, <3>3, <3>7, <3>8 DEF Follows
  <2>2. CASE j # n + 1
    <3>1. j \in 2..n /\ j \in 1..n /\ j - 1 \in 1..n
      BY <1>6, <2>2
    <3> QED
      BY <1>7, <3>1 DEF Cut
  <2> QED
    BY <2>1, <2>2
<1>12. Cut(i, t)
  BY <1>1, <1>2, <1>7, <1>9, <1>10, <1>11 DEF Cut
<1> QED
  BY <1>12 DEF i, s, t

LEMMA AddedToTheLast ==
    ASSUME RecordsAreNumbered, NEW k \in 0..Len(records) - 1, NEW cut, Cut(k, cut),
           View!CanMerge(cut, View!Segment(records[k + 1]))
    PROVE  Cut(k + 1, [cut EXCEPT ![Len(cut)] = View!Merged(cut[Len(cut)], View!Segment(records[k + 1]))])
<1> DEFINE i == k + 1
           s == View!Segment(records[i])
           n == Len(cut)
           m == View!Merged(cut[n], s)
           t == [cut EXCEPT ![n] = m]
<1>1. cut \in Seq(FillRecords) /\ n \in Nat
  BY DEF Cut
<1>2. cut # <<>> /\ s.offer # NoId /\ View!Key(cut[n]) = View!Key(s)
  BY DEF View!CanMerge
<1>3. n # 0 /\ n \in 1..n /\ k # 0
  BY <1>1, <1>2 DEF Cut
<1>4. k \in 1..Len(records) - 1 /\ k \in Nat /\ i \in Nat /\ i = k + 1 /\ i > 0 /\ k > 0
  BY <1>3 DEF RecordsAreNumbered
<1>5. cut[n] \in FillRecords /\ IsRun(cut[n], k) /\ cut[n].last = k
  BY <1>1, <1>3, <1>4 DEF Cut
<1>6. cut[n].offer = s.offer
  BY <1>2 DEF View!Key
<1>7. m \in FillRecords /\ IsRun(m, i) /\ m.first = cut[n].first /\ m.last = i
  BY <1>2, <1>4, <1>5, <1>6, LongerRun
<1> HIDE DEF m, i, s
<1>8. /\ t \in Seq(FillRecords) /\ Len(t) = n /\ t # <<>> /\ t[n] = m
      /\ \A j \in 1..n : j # n => t[j] = cut[j]
  BY <1>1, <1>3, <1>7
<1> HIDE DEF t
<1>9. t[1].first = 1
  BY <1>1, <1>3, <1>4, <1>7, <1>8 DEF Cut
<1>10. ASSUME NEW j \in 1..n PROVE IsRun(t[j], i)
  <2>1. CASE j = n
    BY <1>7, <1>8, <2>1
  <2>2. CASE j # n
    <3>1. IsRun(cut[j], k) /\ cut[j] \in FillRecords
      BY <1>1 DEF Cut
    <3>2. cut[j].last \in Nat
      BY <3>1 DEF FillRecords
    <3>3. cut[j].last <= k => cut[j].last <= i
      BY <1>4, <3>2
    <3>4. IsRun(cut[j], i)
      BY <3>1, <3>3 DEF IsRun
    <3> QED
      BY <1>8, <2>2, <3>4
  <2> QED
    BY <2>1, <2>2
<1>11. ASSUME NEW j \in 2..n PROVE Follows(t[j - 1], t[j])
  <2>1. j \in 1..n /\ j - 1 \in 1..n /\ j - 1 # n
    BY <1>1
  <2>2. Follows(cut[j - 1], cut[j])
    BY DEF Cut
  <2>3. t[j - 1] = cut[j - 1] /\ t[j].first = cut[j].first
    BY <1>7, <1>8, <2>1
  <2> QED
    BY <2>2, <2>3 DEF Follows
<1>12. Cut(i, t)
  BY <1>4, <1>7, <1>8, <1>9, <1>10, <1>11 DEF Cut
<1> QED
  BY <1>12 DEF i, m, s, t

LEMMA CutKept ==
    ASSUME RecordsAreNumbered, NEW k \in 0..Len(records) - 1, NEW cut, Cut(k, cut)
    PROVE  Cut(k + 1, View!Add(cut, records[k + 1]))
<1> DEFINE s == View!Segment(records[k + 1])
<1>1. CASE View!CanMerge(cut, s)
  <2>1. View!Add(cut, records[k + 1]) = [cut EXCEPT ![Len(cut)] = View!Merged(cut[Len(cut)], s)]
    BY <1>1 DEF View!Add
  <2> QED
    BY <1>1, <2>1, AddedToTheLast
<1>2. CASE ~View!CanMerge(cut, s)
  <2>1. View!Add(cut, records[k + 1]) = Append(cut, s)
    BY <1>2 DEF View!Add
  <2> QED
    BY <1>2, <2>1, AddedApart
<1> QED
  BY <1>1, <1>2

LEMMA EveryCut ==
    ASSUME RecordsAreNumbered
    PROVE  Cut(Len(records), View!Compress(records))
<1> DEFINE T == {k \in 0..Len(records) : ~Cut(k, FillsUpTo[k])}
<1>1. Len(records) \in Nat /\ Len(records) \in 0..Len(records)
  BY DEF RecordsAreNumbered
<1>2. UpTo(FillsUpTo, "fills", Len(records)) /\ View!Compress(records) = FillsUpTo[Len(records)]
  BY <1>1, UpToRuns
<1>3. \A k \in 0..Len(records) :
        FillsUpTo[k] = IF k = 0 THEN <<>> ELSE View!Add(FillsUpTo[k - 1], records[k])
  BY <1>2 DEF UpTo, Nothing, Fold
<1>4. Cut(0, FillsUpTo[0])
  <2>1. FillsUpTo[0] = <<>>
    BY <1>1, <1>3
  <2>2. Cut(0, <<>>)
    BY DEF Cut
  <2> QED
    BY <2>1, <2>2
<1>5. T = {}
  <2> SUFFICES ASSUME T # {} PROVE FALSE
    OBVIOUS
  <2>1. PICK x \in T : \A y \in T : x <= y
    <3>1. T \subseteq Nat
      BY <1>1
    <3> HIDE DEF T
    <3> QED
      BY <3>1, LeastNat
  <2>2. x # 0
    BY <1>4, <2>1
  <2>3. /\ x \in 1..Len(records) /\ x \in 0..Len(records)
        /\ x - 1 \in 0..Len(records) - 1 /\ x - 1 \in 0..Len(records) /\ x - 1 \notin T /\ (x - 1) + 1 = x
    BY <1>1, <2>1, <2>2
  <2>4. Cut(x - 1, FillsUpTo[x - 1])
    BY <2>3
  <2>5. Cut(x, View!Add(FillsUpTo[x - 1], records[x]))
    BY <2>3, <2>4, CutKept
  <2>6. Cut(x, FillsUpTo[x])
    BY <1>3, <2>2, <2>3, <2>5
  <2> QED
    BY <2>1, <2>6
<1> QED
  BY <1>1, <1>2, <1>5

SameFill(a, b) ==
    a.pair = b.pair /\ a.price = b.price /\ View!Side(a) = View!Side(b) /\ View!OfferOf(a) = View!OfferOf(b)

LEMMA KeyFields ==
    /\ \A i, j : FillKey(i) = FillKey(j) <=> SameFill(records[i], records[j])
    /\ \A i, s : FillKey(i) = View!Key(s) =>
                  /\ records[i].price = s.price /\ View!Side(records[i]) = s.side
                  /\ View!OfferOf(records[i]) = s.offer
BY DEF FillKey, View!Key, View!Segment, SameFill

\* One segment, as the property says it.
LEMMA RunShown ==
    ASSUME RecordsAreNumbered, NEW s \in FillRecords, IsRun(s, Len(records))
    PROVE  /\ s.count = s.last - s.first + 1
           /\ \A i \in s.first..s.last - 1 :
                 SameFill(records[i], records[i + 1]) /\ View!OfferOf(records[i]) # NoId
           /\ \A i \in s.first..s.last : records[i].price = s.price /\ View!Side(records[i]) = s.side
           /\ s.base = BaseUpTo[s.last] - BaseUpTo[s.first - 1]
           /\ s.counter = CounterUpTo[s.last] - CounterUpTo[s.first - 1]
<1>1. s.first \in Nat /\ s.last \in Nat
  BY DEF FillRecords
<1>2. \A i \in s.first..s.last : FillKey(i) = View!Key(s)
  BY DEF IsRun
<1>3. s.first < s.last => s.offer # NoId
  BY DEF IsRun
<1>4. ASSUME NEW i \in s.first..s.last - 1
      PROVE  SameFill(records[i], records[i + 1]) /\ View!OfferOf(records[i]) # NoId
  <2>1. i \in s.first..s.last /\ i + 1 \in s.first..s.last /\ s.first < s.last
    BY <1>1
  <2>2. FillKey(i) = View!Key(s) /\ FillKey(i + 1) = View!Key(s)
    BY <1>2, <2>1
  <2>3. SameFill(records[i], records[i + 1])
    BY <2>2, KeyFields
  <2>4. View!OfferOf(records[i]) = s.offer
    BY <2>2, KeyFields
  <2> QED
    BY <1>3, <2>1, <2>3, <2>4
<1>5. \A i \in s.first..s.last : records[i].price = s.price /\ View!Side(records[i]) = s.side
  BY <1>2, KeyFields
<1> QED
  BY <1>4, <1>5 DEF IsRun

LEMMA EveryFill == ASSUME RecordsAreNumbered PROVE View!FillsAreRuns
<1> DEFINE cut == View!Compress(records)
           n == Len(records)
<1>1. Cut(n, cut)
  BY EveryCut
<1>2. n \in Nat /\ (records # <<>> => n > 0)
  BY DEF RecordsAreNumbered
<1> HIDE DEF cut
<1>3. records # <<>> => cut # <<>> /\ cut[1].first = 1 /\ cut[Len(cut)].last = n
  BY <1>1, <1>2 DEF Cut
<1>4. cut \in Seq(FillRecords) /\ Len(cut) \in Nat
  BY <1>1 DEF Cut
<1>5. ASSUME NEW k \in 1..Len(cut)
      PROVE  LET s == cut[k] IN
             /\ k > 1 => s.first = cut[k - 1].last + 1
             /\ s.count = s.last - s.first + 1
             /\ \A i \in s.first..s.last - 1 :
                   SameFill(records[i], records[i + 1]) /\ View!OfferOf(records[i]) # NoId
             /\ \A i \in s.first..s.last : records[i].price = s.price /\ View!Side(records[i]) = s.side
             /\ k > 1 => ~(/\ SameFill(records[s.first - 1], records[s.first])
                          /\ View!OfferOf(records[s.first - 1]) # NoId)
             /\ s.base = BaseUpTo[s.last] - BaseUpTo[s.first - 1]
             /\ s.counter = CounterUpTo[s.last] - CounterUpTo[s.first - 1]
  <2>1. cut[k] \in FillRecords /\ IsRun(cut[k], n)
    BY <1>1, <1>4 DEF Cut
  <2>2. k > 1 => Follows(cut[k - 1], cut[k])
    <3>1. k > 1 => k \in 2..Len(cut)
      BY <1>4
    <3> QED
      BY <1>1, <3>1 DEF Cut
  <2>3. k > 1 => cut[k].first = cut[k - 1].last + 1
    BY <2>2 DEF Follows
  <2>4. k > 1 => ~(/\ SameFill(records[cut[k].first - 1], records[cut[k].first])
                   /\ View!OfferOf(records[cut[k].first]) # NoId)
    BY <2>2, KeyFields DEF Follows, OneOffer
  <2>5. k > 1 => ~(/\ SameFill(records[cut[k].first - 1], records[cut[k].first])
                   /\ View!OfferOf(records[cut[k].first - 1]) # NoId)
    BY <2>4 DEF SameFill
  <2> QED
    BY <2>1, <2>3, <2>5, RunShown
<1> QED
  BY <1>3, <1>5 DEF View!FillsAreRuns, BaseUpTo, CounterUpTo, SameFill, cut

ViewInvariant == Levels /\ RecordsAreNumbered

LEMMA ViewStarts == View!Init => ViewInvariant
BY DEF View!Init, ViewInvariant, Levels, RecordsAreNumbered

LEMMA ViewStep == ViewInvariant /\ [View!Next]_viewVars => ViewInvariant'
<1> SUFFICES ASSUME ViewInvariant, [View!Next]_viewVars PROVE ViewInvariant'
  OBVIOUS
<1>1. CASE View!ShowLevel
  <2>1. Levels'
    BY <1>1 DEF View!ShowLevel, Levels, View!Terms
  <2> QED
    BY <1>1, <2>1 DEF View!ShowLevel, ViewInvariant, RecordsAreNumbered
<1>2. CASE View!ShowTrade
  <2>1. Levels'
    BY <1>2 DEF View!ShowTrade, Levels, View!Stated, View!TradeShown
  <2> QED
    BY <1>2, <2>1 DEF View!ShowTrade, ViewInvariant, RecordsAreNumbered
<1>3. CASE View!AddTrade
  <2>1. records \in Seq(TradeRecords) /\ Len(records) \in Nat /\ \A i \in 1..Len(records) : records[i].id = i
    BY DEF ViewInvariant, RecordsAreNumbered
  <2>2. PICK pair \in {"p", "q"}, price \in {View!Price(1, 1), View!Price(1, 2)}, accounts \in View!Accounts,
             offer \in {"1", "2", NoId}, amount \in 1..2 :
        records' = Append(records,
            [id |-> Len(records) + 1, pair |-> pair, price |-> price, baseAccount |-> accounts[1],
             counterAccount |-> accounts[2], baseOffer |-> offer,
             counterOffer |-> IF offer = "1" THEN "2" ELSE offer, baseAmount |-> amount,
             counterAmount |-> 2 * amount, baseIsSeller |-> amount = 1])
    BY <1>3 DEF View!AddTrade
  <2> DEFINE r == [id |-> Len(records) + 1, pair |-> pair, price |-> price, baseAccount |-> accounts[1],
             counterAccount |-> accounts[2], baseOffer |-> offer,
             counterOffer |-> IF offer = "1" THEN "2" ELSE offer, baseAmount |-> amount,
             counterAmount |-> 2 * amount, baseIsSeller |-> amount = 1]
  <2>3. accounts[1] \in AccountIds /\ accounts[2] \in AccountIds
    BY DEF View!Accounts, AccountIds
  <2>4. Len(records) + 1 \in Nat /\ amount \in Nat /\ 2 * amount \in Nat
    BY <2>1
  <2>5. (IF offer = "1" THEN "2" ELSE offer) \in OfferIds /\ offer \in OfferIds
    BY DEF OfferIds
  <2>6. r \in TradeRecords
    BY <2>3, <2>4, <2>5 DEF TradeRecords, Pairs, TradePrices
  <2>7. r.id = Len(records) + 1 /\ records' = Append(records, r)
    BY <2>2
  <2> HIDE DEF r
  <2>8. records' \in Seq(TradeRecords) /\ Len(records') = Len(records) + 1
    BY <2>1, <2>6, <2>7
  <2>9. ASSUME NEW i \in 1..Len(records') PROVE records'[i].id = i
    <3>1. i = Len(records) + 1 => records'[i] = r
      BY <2>1, <2>6, <2>7
    <3>2. i # Len(records) + 1 => i \in 1..Len(records) /\ records'[i] = records[i]
      BY <2>1, <2>6, <2>7, <2>8
    <3> QED
      BY <2>1, <2>7, <3>1, <3>2
  <2>10. RecordsAreNumbered'
    BY <2>8, <2>9 DEF RecordsAreNumbered
  <2> QED
    BY <1>3, <2>10 DEF View!AddTrade, ViewInvariant, Levels, View!TradeShown
<1>4. CASE UNCHANGED viewVars
  BY <1>4 DEF viewVars, ViewInvariant, Levels, RecordsAreNumbered, View!TradeShown
<1> QED
  BY <1>1, <1>2, <1>3, <1>4 DEF View!Next

\* A positive price is never shown as zero and a price shown as a number is off by half a
\* unit at most (dex.rs format_price_ratio); the fills of an account are its trades cut into
\* the longest runs of one offer at one price and on one side, with the sums of their amounts
\* (dex.rs compress_account_trades).
THEOREM MarketsAreShown == View!Spec => []MarketIsShown
<1>1. ViewInvariant => MarketIsShown
  BY EveryLevel, EveryFill DEF ViewInvariant, MarketIsShown
<1> QED
  BY <1>1, ViewStarts, ViewStep, PTL DEF View!Spec, View!vars, viewVars
=============================================================================
