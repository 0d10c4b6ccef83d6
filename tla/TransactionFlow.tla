--------------------------- MODULE TransactionFlow ---------------------------
(***************************************************************************)
(* The write path of the Rust reference client: every Classic and Soroban  *)
(* write goes                                                              *)
(*                                                                         *)
(*   reconcile the pending-transaction file -> read the account sequence   *)
(*   -> build the envelope -> review -> sign -> submit -> (poll) ->        *)
(*   remember the hash when the outcome is uncertain                       *)
(*                                                                         *)
(* A session is one use of that path (a call chain of FresnicaClient, or   *)
(* one async contract invocation).  Sessions share the wallet home, hence  *)
(* the file pending-transactions.json, and the Stellar network.  A step of *)
(* a session is the code between two network calls (or awaits): the store  *)
(* is read and rewritten without a lock, and never across one of them      *)
(* except where the code really does so, in reconcile_with.                *)
(*                                                                         *)
(* The network is external: it is modelled from what the client calls.     *)
(***************************************************************************)
EXTENDS Naturals

CONSTANTS
    Sessions,        \* concurrent uses of the write path over one wallet home
    Accounts,        \* wallet accounts with a local record
    Intents,         \* what the user asked for: distinguishes equal envelopes
    Kinds,           \* subset of {"classic", "soroban"}
    ClassicTimeout,  \* classic_transaction_timeout_seconds, configurable
    SorobanTimeout,  \* DEFAULT_CLASSIC_TRANSACTION_TIMEOUT_SECONDS
    TTL,             \* PENDING_TTL_SECONDS
    PollAttempts,    \* SUBMISSION_POLL_ATTEMPTS
    MaxNow,          \* bound of the clock
    MaxBuilds,       \* bound of the envelopes built
    NoTx             \* a session that has not built an envelope

ASSUME KindsAssumption == Kinds \subseteq {"classic", "soroban"}
ASSUME TimeAssumption ==
    /\ ClassicTimeout \in Nat \ {0}
    /\ SorobanTimeout \in Nat \ {0}
    /\ TTL \in Nat
ASSUME BoundAssumption == MaxNow \in Nat /\ MaxBuilds \in Nat /\ PollAttempts \in Nat \ {0}

VARIABLES
    now,         \* wall clock, of the client and of ledger closing
    seq,         \* account -> sequence number on the ledger
    inflight,    \* envelopes the network has queued
    applied,     \* transactions included in a ledger, successful or failed
    pending,     \* contents of pending-transactions.json
    pc,          \* session -> where its call chain is
    job,         \* session -> what it was asked to write
    asOf,        \* session -> the instant reconcile_with compares ages with
    loaded,      \* session -> the items reconcile_with read from the file
    todo,        \* session -> items of the account still to look up
    settled,     \* session -> items found on the ledger or too old to keep
    base,        \* session -> account sequence number it read
    tx,          \* session -> its envelope
    polls,       \* session -> status queries made for a Soroban submission
    builds,      \* number of envelopes built, for the bound
    remembered,  \* history: transactions whose pending record was saved
    reconciled,  \* history: transactions whose inclusion the client has seen
    expired      \* history: transactions whose record was given up by age

netVars  == <<seq, inflight, applied>>
flowVars == <<job, asOf, loaded, todo, settled, base, tx, polls>>
histVars == <<builds, remembered, reconciled, expired>>
vars     == <<now, netVars, pending, pc, flowVars, histVars>>

Tx == [acct: Accounts, seq: Nat, maxTime: Nat, intent: Intents, kind: Kinds]
PendingTransaction == [tx: Tx, at: Nat]
Job == [acct: Accounts, intent: Intents, kind: Kinds]
Pcs == {"idle", "reconcile", "fetch", "build", "prepared", "signed",
        "posting", "polling", "uncertain"}

TimeoutOf(k) == IF k = "classic" THEN ClassicTimeout ELSE SorobanTimeout

\* Mutant: the comparison of reconcile_with is inverted.
ItemsOfOthers(items, a) == {r \in items : r.tx.acct /= a}

\* Items of one account, the ones reconcile_with looks up.
ItemsOf(items, a) == {r \in items : r.tx.acct = a}

\* Mutant: a started second counts as a whole one.
PendingAgeRoundedUp(r, t) == IF t > r.at THEN t - r.at + 1 ELSE 0

\* Age of a pending record, never negative, against the instant a reader took.
PendingAge(r, t) == IF t > r.at THEN t - r.at ELSE 0

Init ==
    /\ now = 0
    /\ seq = [a \in Accounts |-> 0]
    /\ inflight = {} /\ applied = {} /\ pending = {}
    /\ pc = [s \in Sessions |-> "idle"]
    /\ job = [s \in Sessions |-> NoTx]
    /\ asOf = [s \in Sessions |-> 0]
    /\ loaded = [s \in Sessions |-> {}]
    /\ todo = [s \in Sessions |-> {}]
    /\ settled = [s \in Sessions |-> {}]
    /\ base = [s \in Sessions |-> 0]
    /\ tx = [s \in Sessions |-> NoTx]
    /\ polls = [s \in Sessions |-> 0]
    /\ builds = 0 /\ remembered = {} /\ reconciled = {} /\ expired = {}

-----------------------------------------------------------------------------
(***************************************************************************)
(* Control transfer of a session.                                          *)
(***************************************************************************)

Goto(s, p) == pc' = [pc EXCEPT ![s] = p]

\* The call chain returns, or is dropped: its locals go out of scope.
Leave(s) ==
    /\ Goto(s, "idle")
    /\ job' = [job EXCEPT ![s] = NoTx]
    /\ asOf' = [asOf EXCEPT ![s] = 0]
    /\ loaded' = [loaded EXCEPT ![s] = {}]
    /\ todo' = [todo EXCEPT ![s] = {}]
    /\ settled' = [settled EXCEPT ![s] = {}]
    /\ base' = [base EXCEPT ![s] = 0]
    /\ tx' = [tx EXCEPT ![s] = NoTx]
    /\ polls' = [polls EXCEPT ![s] = 0]

\* Mutant: a Classic write is built again for another attempt.
AfterSubmitBuilt(s) == IF job[s].kind = "classic" THEN "fetch" ELSE "signed"

\* A failed submission returns to the holder of the prepared write, who may
\* try again: a Classic write is signed afresh on a copy for every attempt, a
\* Soroban envelope keeps its signatures.
AfterSubmit(s) == IF job[s].kind = "classic" THEN "prepared" ELSE "signed"

-----------------------------------------------------------------------------
(***************************************************************************)
(* Reconciling the pending file (reconcile_with, reconcile_with_async).    *)
(***************************************************************************)

\* Resolve the wallet, read the file, take the instant ages are compared with.
Begin(s, j) ==
    /\ pc[s] = "idle"
    /\ job' = [job EXCEPT ![s] = j]
    /\ asOf' = [asOf EXCEPT ![s] = now]
    /\ loaded' = [loaded EXCEPT ![s] = pending]
    /\ todo' = [todo EXCEPT ![s] = ItemsOf(pending, j.acct)]
    /\ Goto(s, "reconcile")
    /\ UNCHANGED <<now, netVars, pending, settled, base, tx, polls, histVars>>

\* The gateway has a ledger result for the hash, successful or failed.
LookupFound(s, r) ==
    /\ pc[s] = "reconcile" /\ r \in todo[s]
    /\ r.tx \in applied
    /\ todo' = [todo EXCEPT ![s] = @ \ {r}]
    /\ settled' = [settled EXCEPT ![s] = @ \union {r}]
    /\ reconciled' = reconciled \union {r.tx}
    /\ UNCHANGED <<now, netVars, pending, pc, job, asOf, loaded, base, tx, polls,
                   builds, remembered, expired>>

\* No ledger result, and the record has outlived the TTL.
LookupExpired(s, r) ==
    /\ pc[s] = "reconcile" /\ r \in todo[s]
    /\ r.tx \notin applied
    /\ PendingAge(r, asOf[s]) >= TTL
    /\ todo' = [todo EXCEPT ![s] = @ \ {r}]
    /\ settled' = [settled EXCEPT ![s] = @ \union {r}]
    /\ expired' = expired \union {r.tx}
    /\ UNCHANGED <<now, netVars, pending, pc, job, asOf, loaded, base, tx, polls,
                   builds, remembered, reconciled>>

\* No ledger result yet: the record is retained.
LookupPending(s, r) ==
    /\ pc[s] = "reconcile" /\ r \in todo[s]
    /\ r.tx \notin applied
    /\ PendingAge(r, asOf[s]) < TTL
    /\ todo' = [todo EXCEPT ![s] = @ \ {r}]
    /\ UNCHANGED <<now, netVars, pending, pc, job, asOf, loaded, settled, base, tx,
                   polls, histVars>>

\* Mutant: the loop drops the other accounts' items instead of retaining them.
RetainedOfAccount(s) == ItemsOf(loaded[s], job[s].acct) \ settled[s]

\* What reconcile_with keeps: the other accounts' items and its own pending
\* ones, all as it read them before the lookups.
Retained(s) == loaded[s] \ settled[s]

SaveRetained(s) ==
    pending' = IF settled[s] = {} THEN pending ELSE Retained(s)

\* A retained record of the account refuses the write.
ReconcileBlocked(s) ==
    /\ pc[s] = "reconcile" /\ todo[s] = {}
    /\ ItemsOf(Retained(s), job[s].acct) /= {}
    /\ SaveRetained(s)
    /\ Leave(s)
    /\ UNCHANGED <<now, netVars, histVars>>

ReconcileClear(s) ==
    /\ pc[s] = "reconcile" /\ todo[s] = {}
    /\ ItemsOf(Retained(s), job[s].acct) = {}
    /\ SaveRetained(s)
    /\ asOf' = [asOf EXCEPT ![s] = 0]
    /\ loaded' = [loaded EXCEPT ![s] = {}]
    /\ settled' = [settled EXCEPT ![s] = {}]
    /\ Goto(s, "fetch")
    /\ UNCHANGED <<now, netVars, job, todo, base, tx, polls, histVars>>

-----------------------------------------------------------------------------
(***************************************************************************)
(* Preparing and signing.                                                  *)
(***************************************************************************)

\* Mutant: the envelope of an earlier preparation is taken for this one.
FetchWithoutBuild(s) ==
    /\ pc[s] = "fetch"
    /\ base' = [base EXCEPT ![s] = seq[job[s].acct]]
    /\ Goto(s, "prepared")
    /\ UNCHANGED <<now, netVars, pending, job, asOf, loaded, todo, settled, tx,
                   polls, histVars>>

\* The account's sequence number, read after the reconciliation.
FetchAccount(s) ==
    /\ pc[s] = "fetch"
    /\ base' = [base EXCEPT ![s] = seq[job[s].acct]]
    /\ Goto(s, "build")
    /\ UNCHANGED <<now, netVars, pending, job, asOf, loaded, todo, settled, tx,
                   polls, histVars>>

\* Mutant: the time bounds outlive the configured timeout.
EnvelopeWithSlack(j, sequence, t) ==
    [acct |-> j.acct, seq |-> sequence + 1, maxTime |-> t + TimeoutOf(j.kind) + 1,
     intent |-> j.intent, kind |-> j.kind]

\* The envelope a builder makes at time t over a sequence number it read.
Envelope(j, sequence, t) ==
    [acct |-> j.acct, seq |-> sequence + 1, maxTime |-> t + TimeoutOf(j.kind),
     intent |-> j.intent, kind |-> j.kind]

BuildEnvelope(s) ==
    /\ pc[s] = "build" /\ builds < MaxBuilds
    /\ builds' = builds + 1
    /\ tx' = [tx EXCEPT ![s] = Envelope(job[s], base[s], now)]
    /\ Goto(s, "prepared")
    /\ UNCHANGED <<now, netVars, pending, job, asOf, loaded, todo, settled, base,
                   polls, remembered, reconciled, expired>>

NotExpired(t) == now <= t.maxTime

\* Both kinds refuse to sign an envelope past its time bounds.
Sign(s) ==
    /\ pc[s] = "prepared"
    /\ NotExpired(tx[s])
    /\ Goto(s, "signed")
    /\ UNCHANGED <<now, netVars, pending, flowVars, histVars>>

-----------------------------------------------------------------------------
(***************************************************************************)
(* Submission: submit_signed_transaction, submit_prepared_soroban.         *)
(***************************************************************************)

\* The Classic path checks the time bounds again before the POST; the Soroban
\* path does not.
MayPost(s) ==
    /\ pc[s] = "signed"
    /\ job[s].kind = "classic" => NotExpired(tx[s])

\* The check above, or a gateway that did not queue the envelope and says so.
SubmitRefused(s) ==
    /\ pc[s] = "signed"
    /\ Goto(s, AfterSubmit(s))
    /\ UNCHANGED <<now, netVars, pending, flowVars, histVars>>

PostDelivered(s) ==
    /\ MayPost(s)
    /\ inflight' = inflight \union ({tx[s]} \ applied)
    /\ Goto(s, "posting")
    /\ UNCHANGED <<now, seq, applied, pending, flowVars, histVars>>

\* The request never arrives; the client cannot tell this from a lost answer.
PostLost(s) ==
    /\ MayPost(s)
    /\ Goto(s, "uncertain")
    /\ UNCHANGED <<now, netVars, pending, flowVars, histVars>>

\* The client sees the ledger result.  After a success the write is over; a
\* transaction that failed on the ledger is an error like any other, and its
\* holder still has the prepared write.
SeeResult(s) ==
    /\ tx[s] \in applied
    /\ reconciled' = reconciled \union {tx[s]}
    /\ \/ Leave(s)
       \/ Goto(s, AfterSubmit(s)) /\ UNCHANGED flowVars
    /\ UNCHANGED <<now, netVars, pending, builds, remembered, expired>>

\* Horizon answers a Classic POST when a ledger holds the transaction.
RespondIncluded(s) ==
    /\ pc[s] = "posting" /\ job[s].kind = "classic"
    /\ SeeResult(s)

\* RPC answers PENDING or DUPLICATE: the client polls for the status.
RespondAccepted(s) ==
    /\ pc[s] = "posting" /\ job[s].kind = "soroban"
    /\ polls' = [polls EXCEPT ![s] = 0]
    /\ Goto(s, "polling")
    /\ UNCHANGED <<now, netVars, pending, job, asOf, loaded, todo, settled, base, tx,
                   histVars>>

\* Timeout, 5xx, unreadable body, or a hash that is not the expected one.
RespondLost(s) ==
    /\ pc[s] = "posting"
    /\ Goto(s, "uncertain")
    /\ UNCHANGED <<now, netVars, pending, flowVars, histVars>>

PollTerminal(s) ==
    /\ pc[s] = "polling"
    /\ SeeResult(s)

PollNotFound(s) ==
    /\ pc[s] = "polling"
    /\ tx[s] \notin applied
    /\ polls[s] + 1 < PollAttempts
    /\ polls' = [polls EXCEPT ![s] = @ + 1]
    /\ UNCHANGED <<now, netVars, pending, pc, job, asOf, loaded, todo, settled, base,
                   tx, histVars>>

\* The last attempt finds nothing, or any attempt fails.
PollGivesUp(s) ==
    /\ pc[s] = "polling"
    /\ Goto(s, "uncertain")
    /\ UNCHANGED <<now, netVars, pending, flowVars, histVars>>

\* PendingTransactionStore::put replaces a record of the same hash.
Put(items, t, at) == {r \in items : r.tx /= t} \union {[tx |-> t, at |-> at]}

Remember(s) ==
    /\ pc[s] = "uncertain"
    /\ pending' = Put(pending, tx[s], now)
    /\ remembered' = remembered \union {tx[s]}
    /\ Goto(s, AfterSubmit(s))
    /\ UNCHANGED <<now, netVars, flowVars, builds, reconciled, expired>>

\* The record could not be written: the error tells the user to check by hand.
RememberFails(s) ==
    /\ pc[s] = "uncertain"
    /\ Goto(s, AfterSubmit(s))
    /\ UNCHANGED <<now, netVars, pending, flowVars, histVars>>

\* An error before the save, a user who does not confirm, a cancelled future
\* or a crash: nothing but the file outlives the session.
Abandon(s) ==
    /\ pc[s] /= "idle"
    /\ Leave(s)
    /\ UNCHANGED <<now, netVars, pending, histVars>>

-----------------------------------------------------------------------------
(***************************************************************************)
(* The network and the clock, external.                                    *)
(***************************************************************************)

\* A ledger includes a queued envelope: sequence number and time bounds hold.
Include(t) ==
    /\ t \in inflight
    /\ t.seq = seq[t.acct] + 1
    /\ NotExpired(t)
    /\ applied' = applied \union {t}
    /\ seq' = [seq EXCEPT ![t.acct] = t.seq]
    /\ inflight' = inflight \ {t}
    /\ UNCHANGED <<now, pending, pc, flowVars, histVars>>

\* The queue drops an envelope, for its fee, its bounds or its sequence number.
Evict(t) ==
    /\ t \in inflight
    /\ inflight' = inflight \ {t}
    /\ UNCHANGED <<now, seq, applied, pending, pc, flowVars, histVars>>

Tick ==
    /\ now < MaxNow
    /\ now' = now + 1
    /\ UNCHANGED <<netVars, pending, pc, flowVars, histVars>>

-----------------------------------------------------------------------------
Reconcile(s) ==
    \/ \E j \in Job : Begin(s, j)
    \/ \E r \in todo[s] : LookupFound(s, r) \/ LookupExpired(s, r) \/ LookupPending(s, r)
    \/ ReconcileBlocked(s)
    \/ ReconcileClear(s)

Prepare(s) == FetchAccount(s) \/ BuildEnvelope(s) \/ Sign(s)

Submit(s) ==
    \/ SubmitRefused(s) \/ PostDelivered(s) \/ PostLost(s)
    \/ RespondIncluded(s) \/ RespondAccepted(s) \/ RespondLost(s)
    \/ PollTerminal(s) \/ PollNotFound(s) \/ PollGivesUp(s)
    \/ Remember(s) \/ RememberFails(s)

Network == \E t \in inflight : Include(t) \/ Evict(t)

Next ==
    \/ \E s \in Sessions : Reconcile(s) \/ Prepare(s) \/ Submit(s) \/ Abandon(s)
    \/ Network
    \/ Tick

Spec == Init /\ [][Next]_vars

-----------------------------------------------------------------------------
(***************************************************************************)
(* Properties.                                                             *)
(***************************************************************************)

\* Types of the state; an envelope exists from BuildEnvelope on.
TypeOK ==
    /\ now \in Nat
    /\ seq \in [Accounts -> Nat]
    /\ inflight \subseteq Tx /\ applied \subseteq Tx
    /\ pending \subseteq PendingTransaction
    /\ pc \in [Sessions -> Pcs]
    /\ job \in [Sessions -> Job \union {NoTx}]
    /\ asOf \in [Sessions -> Nat]
    /\ loaded \in [Sessions -> SUBSET PendingTransaction]
    /\ todo \in [Sessions -> SUBSET PendingTransaction]
    /\ settled \in [Sessions -> SUBSET PendingTransaction]
    /\ base \in [Sessions -> Nat]
    /\ tx \in [Sessions -> Tx \union {NoTx}]
    /\ polls \in [Sessions -> Nat] /\ builds \in Nat
    /\ remembered \subseteq Tx /\ reconciled \subseteq Tx /\ expired \subseteq Tx
    /\ \A s \in Sessions : pc[s] /= "idle" => job[s] \in Job
    /\ \A s \in Sessions :
         pc[s] \in {"prepared", "signed", "posting", "polling", "uncertain"} => tx[s] \in Tx

\* For how many more readings of the clock, the present one included, a
\* transaction may still be included when its record has just reached the TTL:
\* none when the TTL exceeds the timeout of its kind, Timeout - TTL + 1 otherwise
\* (91 seconds with the shipped 300 and 210).
Exposure(k) == IF TTL > TimeoutOf(k) THEN 0 ELSE TimeoutOf(k) - TTL + 1

\* What the age at which reconcile_with gives up a record is evidence of: a
\* transaction given up is less than its kind's exposure away from its time
\* bound, and where there is no exposure it is never applied, before or after.
ExpiredIsLate ==
    \A t \in expired :
        /\ t.maxTime < now + Exposure(t.kind)
        /\ Exposure(t.kind) = 0 => t \notin applied

\* "Fresnica will check this hash before allowing another write from the
\* account": when a transaction whose uncertain submission was recorded and a
\* later one of the same account are both on the ledger, the client had seen the
\* first one's inclusion, or had given it up by age, which only an exposed kind
\* of transaction survives.  Otherwise a retry repeats a payment.
ReplacedOnlyIfExposed ==
    \A t1 \in remembered \intersect applied, t2 \in applied :
        t1.acct = t2.acct /\ t1.seq < t2.seq =>
            t1 \in reconciled \/ (t1 \in expired /\ Exposure(t1.kind) > 0)

\* The same sentence as it stands in the code's message, without the exception.
ReconciledBeforeReplaced ==
    \A t1 \in remembered \intersect applied, t2 \in applied :
        t1.acct = t2.acct /\ t1.seq < t2.seq => t1 \in reconciled

\* The pending file never loses a record whose outcome is open: a record goes
\* away only when its transaction is on the ledger or can no longer get there,
\* when a newer record of the same hash takes its place, or, for an exposed kind
\* of transaction, when it was kept for the whole TTL.
OpenRecordsSurvive ==
    [][\A r \in pending \ pending' :
         \/ r.tx \in applied
         \/ ~NotExpired(r.tx)
         \/ Exposure(r.tx.kind) > 0 /\ r.at + TTL <= now
         \/ \E q \in pending' : q.tx = r.tx /\ q.at >= r.at]_vars

ExposureOf(t) == Exposure(t.kind)

\* One session, whatever fails, implements OneOpenWrite: of each account the
\* file holds one transaction at most, the account's latest, and no other of
\* the account is sent until that one is on the ledger or, but for its kind's
\* exposure, too late for it.
Promise == INSTANCE OneOpenWrite WITH
    Transactions <- Tx, Grace <- ExposureOf,
    queue <- inflight, ledger <- applied, open <- {r.tx : r \in pending}

ImplementsOneOpenWrite == Promise!Spec
=============================================================================
