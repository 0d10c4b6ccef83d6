---------------------------- MODULE OneOpenWrite ----------------------------
(***************************************************************************)
(* What the write path promises about transactions whose outcome the       *)
(* client could not learn.  Of each account at most one is open; while it  *)
(* is, nothing else of the account is sent; it is the account's latest;    *)
(* and it is closed only when a ledger holds it or its time bounds have    *)
(* passed, up to a grace that depends on the transaction and is zero where *)
(* the promise is meant strictly.  How the client finds out is not said    *)
(* here.                                                                   *)
(***************************************************************************)
EXTENDS Naturals

CONSTANTS
    Accounts,
    Transactions,  \* records with fields acct, seq, maxTime
    Grace(_)       \* how much before the end of its time bounds one may be closed

VARIABLES
    now,     \* time, of the client and of ledger closing
    seq,     \* account -> sequence number on the ledger
    queue,   \* sent, and not yet in a ledger
    ledger,  \* included in a ledger
    open     \* transactions the client must learn the outcome of

writeVars == <<now, seq, queue, ledger, open>>

\* The transactions of t's account among T, but t.
Rivals(T, t) == {u \in T : u.acct = t.acct /\ u /= t}

Init ==
    /\ now = 0
    /\ seq = [a \in Accounts |-> 0]
    /\ queue = {} /\ ledger = {} /\ open = {}

Send(t) ==
    /\ t \in Transactions
    /\ Rivals(open, t) = {}
    /\ t.seq <= seq[t.acct] + 1
    /\ queue' = queue \union {t}
    /\ UNCHANGED <<now, seq, ledger, open>>

\* The outcome of a transaction is not known: nothing sent for the account comes after it.
Open(t) ==
    /\ t \in Transactions
    /\ Rivals(open, t) = {}
    /\ \A u \in Rivals(queue \union ledger, t) : u.seq <= t.seq
    /\ open' = open \union {t}
    /\ UNCHANGED <<now, seq, queue, ledger>>

Close(t) ==
    /\ t \in open
    /\ t \in ledger \/ t.maxTime < now + Grace(t)
    /\ open' = open \ {t}
    /\ UNCHANGED <<now, seq, queue, ledger>>

Include(t) ==
    /\ t \in queue
    /\ t.seq = seq[t.acct] + 1 /\ now <= t.maxTime
    /\ seq' = [seq EXCEPT ![t.acct] = t.seq]
    /\ queue' = queue \ {t} /\ ledger' = ledger \union {t}
    /\ UNCHANGED <<now, open>>

Drop(t) ==
    /\ t \in queue
    /\ queue' = queue \ {t}
    /\ UNCHANGED <<now, seq, ledger, open>>

Tick == now' = now + 1 /\ UNCHANGED <<seq, queue, ledger, open>>

\* What is sent or opened is there afterwards: the bounds let TLC evaluate the
\* action where Transactions is infinite.
Next ==
    \/ \E t \in queue' : Send(t)
    \/ \E t \in open' : Open(t)
    \/ \E t \in open : Close(t)
    \/ \E t \in queue : Include(t) \/ Drop(t)
    \/ Tick

Spec == Init /\ [][Next]_writeVars

-----------------------------------------------------------------------------
(***************************************************************************)
(* What follows from the promise, proved in TransactionFlowProofs.         *)
(***************************************************************************)

\* Nothing of an account is sent or included after its open transaction
\* ("will check this hash before allowing another write"): a retry cannot
\* come to stand beside what it repeats.
NothingOvertakes ==
    \A t \in open : \A u \in Rivals(open \union queue \union ledger, t) :
        u \notin open /\ u.seq <= t.seq
=============================================================================
