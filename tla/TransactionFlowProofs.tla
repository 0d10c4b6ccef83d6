------------------------ MODULE TransactionFlowProofs ------------------------
(***************************************************************************)
(* Proofs about TransactionFlow, for every set of sessions and accounts    *)
(* and every value of the timeouts and bounds.                             *)
(***************************************************************************)
EXTENDS TransactionFlow, TLAPS

-----------------------------------------------------------------------------
(***************************************************************************)
(* Type correctness.                                                       *)
(***************************************************************************)

LEMMA TimeoutType == \A k : TimeoutOf(k) \in Nat \ {0}
  BY TimeAssumption DEF TimeoutOf

LEMMA EnvelopeType ==
  ASSUME NEW j \in Job, NEW n \in Nat, NEW t \in Nat
  PROVE  Envelope(j, n, t) \in Tx
  BY TimeoutType DEF Envelope, Job, Tx

LEMMA PutType ==
  ASSUME NEW items \in SUBSET PendingTransaction, NEW t \in Tx, NEW at \in Nat
  PROVE  Put(items, t, at) \in SUBSET PendingTransaction
  BY DEF Put, PendingTransaction

LEMMA LeaveType ==
  ASSUME TypeOK, NEW s \in Sessions, Leave(s)
  PROVE  /\ pc' \in [Sessions -> Pcs]
         /\ job' \in [Sessions -> Job \union {NoTx}]
         /\ asOf' \in [Sessions -> Nat]
         /\ loaded' \in [Sessions -> SUBSET PendingTransaction]
         /\ todo' \in [Sessions -> SUBSET PendingTransaction]
         /\ settled' \in [Sessions -> SUBSET PendingTransaction]
         /\ base' \in [Sessions -> Nat]
         /\ tx' \in [Sessions -> Tx \union {NoTx}]
         /\ polls' \in [Sessions -> Nat]
         /\ \A r \in Sessions : pc'[r] /= "idle" => r /= s /\ pc'[r] = pc[r]
                                 /\ job'[r] = job[r] /\ tx'[r] = tx[r]
  BY DEF TypeOK, Leave, Goto, Pcs

THEOREM TypeInit == Init => TypeOK
  BY DEF Init, TypeOK, Pcs

THEOREM TypeStep == TypeOK /\ [Next]_vars => TypeOK'
<1> SUFFICES ASSUME TypeOK, [Next]_vars PROVE TypeOK'
  OBVIOUS
<1>1. CASE UNCHANGED vars
  BY <1>1 DEF TypeOK, vars, netVars, flowVars, histVars
<1>2. ASSUME NEW s \in Sessions, Reconcile(s) PROVE TypeOK'
  <2>1. ASSUME NEW j \in Job, Begin(s, j) PROVE TypeOK'
    BY <2>1 DEF TypeOK, Begin, Goto, ItemsOf, Pcs, netVars, histVars
  <2>2. ASSUME NEW r \in todo[s], LookupFound(s, r) PROVE TypeOK'
    BY <2>2 DEF TypeOK, LookupFound, netVars, PendingTransaction
  <2>3. ASSUME NEW r \in todo[s], LookupExpired(s, r) PROVE TypeOK'
    BY <2>3 DEF TypeOK, LookupExpired, netVars, PendingTransaction
  <2>4. ASSUME NEW r \in todo[s], LookupPending(s, r) PROVE TypeOK'
    BY <2>4 DEF TypeOK, LookupPending, netVars, histVars
  <2>5. ASSUME ReconcileBlocked(s) PROVE TypeOK'
    BY <2>5, LeaveType DEF TypeOK, ReconcileBlocked, SaveRetained, Retained, netVars, histVars
  <2>6. ASSUME ReconcileClear(s) PROVE TypeOK'
    BY <2>6 DEF TypeOK, ReconcileClear, SaveRetained, Retained, Goto, Pcs, netVars, histVars
  <2>7. QED
    BY <1>2, <2>1, <2>2, <2>3, <2>4, <2>5, <2>6 DEF Reconcile
<1>3. ASSUME NEW s \in Sessions, Prepare(s) PROVE TypeOK'
  <2>1. ASSUME FetchAccount(s) PROVE TypeOK'
    <3>1. job[s] \in Job
      BY <2>1 DEF TypeOK, FetchAccount
    <3>2. seq[job[s].acct] \in Nat
      BY <3>1 DEF TypeOK, Job
    <3>3. QED
      BY <2>1, <3>2 DEF TypeOK, FetchAccount, Goto, Pcs, netVars, histVars
  <2>2. ASSUME BuildEnvelope(s) PROVE TypeOK'
    <3>1. Envelope(job[s], base[s], now) \in Tx
      BY <2>2, EnvelopeType DEF TypeOK, BuildEnvelope
    <3>2. QED
      BY <2>2, <3>1 DEF TypeOK, BuildEnvelope, Goto, Pcs, netVars
  <2>3. ASSUME Sign(s) PROVE TypeOK'
    BY <2>3 DEF TypeOK, Sign, Goto, Pcs, netVars, flowVars, histVars
  <2>4. QED
    BY <1>3, <2>1, <2>2, <2>3 DEF Prepare
<1>4. ASSUME NEW s \in Sessions, Submit(s) PROVE TypeOK'
  <2>1. ASSUME SubmitRefused(s) PROVE TypeOK'
    BY <2>1 DEF TypeOK, SubmitRefused, AfterSubmit, Goto, Pcs, netVars, flowVars, histVars
  <2>2. ASSUME PostDelivered(s) PROVE TypeOK'
    BY <2>2 DEF TypeOK, PostDelivered, MayPost, Goto, Pcs, netVars, flowVars, histVars
  <2>3. ASSUME PostLost(s) PROVE TypeOK'
    BY <2>3 DEF TypeOK, PostLost, MayPost, Goto, Pcs, netVars, flowVars, histVars
  <2>4. ASSUME pc[s] \in {"posting", "polling"}, SeeResult(s) PROVE TypeOK'
    <3>1. reconciled' \subseteq Tx
      BY <2>4 DEF TypeOK, SeeResult
    <3>2. CASE Leave(s)
      BY <2>4, <3>1, <3>2, LeaveType DEF TypeOK, SeeResult, netVars
    <3>3. CASE Goto(s, AfterSubmit(s)) /\ UNCHANGED flowVars
      BY <2>4, <3>1, <3>3 DEF TypeOK, SeeResult, Goto, AfterSubmit, Pcs, netVars, flowVars
    <3>4. QED
      BY <2>4, <3>2, <3>3 DEF SeeResult
  <2>5. ASSUME RespondIncluded(s) PROVE TypeOK'
    BY <2>4, <2>5 DEF RespondIncluded
  <2>6. ASSUME RespondAccepted(s) PROVE TypeOK'
    BY <2>6 DEF TypeOK, RespondAccepted, Goto, Pcs, netVars, histVars
  <2>7. ASSUME RespondLost(s) PROVE TypeOK'
    BY <2>7 DEF TypeOK, RespondLost, Goto, Pcs, netVars, flowVars, histVars
  <2>8. ASSUME PollTerminal(s) PROVE TypeOK'
    BY <2>4, <2>8 DEF PollTerminal
  <2>9. ASSUME PollNotFound(s) PROVE TypeOK'
    BY <2>9 DEF TypeOK, PollNotFound, netVars, histVars
  <2>10. ASSUME PollGivesUp(s) PROVE TypeOK'
    BY <2>10 DEF TypeOK, PollGivesUp, Goto, Pcs, netVars, flowVars, histVars
  <2>11. ASSUME Remember(s) PROVE TypeOK'
    <3>1. tx[s] \in Tx
      BY <2>11 DEF TypeOK, Remember
    <3>2. pending' \in SUBSET PendingTransaction
      BY <2>11, <3>1, PutType DEF TypeOK, Remember
    <3>3. QED
      BY <2>11, <3>1, <3>2 DEF TypeOK, Remember, AfterSubmit, Goto, Pcs, netVars, flowVars
  <2>12. ASSUME RememberFails(s) PROVE TypeOK'
    BY <2>12 DEF TypeOK, RememberFails, AfterSubmit, Goto, Pcs, netVars, flowVars, histVars
  <2>13. QED
    BY <1>4, <2>1, <2>2, <2>3, <2>5, <2>6, <2>7, <2>8, <2>9, <2>10, <2>11, <2>12 DEF Submit
<1>5. ASSUME NEW s \in Sessions, Abandon(s) PROVE TypeOK'
  BY <1>5, LeaveType DEF TypeOK, Abandon, netVars, histVars
<1>6. ASSUME Network PROVE TypeOK'
  <2>1. ASSUME NEW t \in inflight, Include(t) PROVE TypeOK'
    BY <2>1 DEF TypeOK, Include, Tx, flowVars, histVars
  <2>2. ASSUME NEW t \in inflight, Evict(t) PROVE TypeOK'
    BY <2>2 DEF TypeOK, Evict, flowVars, histVars
  <2>3. QED
    BY <1>6, <2>1, <2>2 DEF Network
<1>7. ASSUME Tick PROVE TypeOK'
  BY <1>7 DEF TypeOK, Tick, netVars, flowVars, histVars
<1>8. QED
  BY <1>1, <1>2, <1>3, <1>4, <1>5, <1>6, <1>7 DEF Next

\* The state of the write path keeps its types, for every instance.
THEOREM TypeCorrect == Spec => []TypeOK
<1>1. QED
  BY TypeInit, TypeStep, PTL DEF Spec
-----------------------------------------------------------------------------
(***************************************************************************)
(* A record given up by age is one whose time bounds have passed, or, for  *)
(* a kind of transaction whose timeout the TTL does not exceed, are about  *)
(* to pass, whatever the number of sessions.                               *)
(***************************************************************************)

Built == {"prepared", "signed", "posting", "polling", "uncertain"}

\* An envelope expires within its timeout from now; a record was made no later
\* than now, and its envelope expires within its timeout from the record.
FreshEnvelope(t) == t.maxTime <= now + TimeoutOf(t.kind)
FreshRecord(r) == r.at <= now /\ r.tx.maxTime <= r.at + TimeoutOf(r.tx.kind)

AgeInv ==
    /\ \A s \in Sessions : pc[s] \in Built => FreshEnvelope(tx[s])
    /\ \A r \in pending : FreshRecord(r)
    /\ \A s \in Sessions : \A r \in loaded[s] \union todo[s] : FreshRecord(r)
    /\ \A s \in Sessions : asOf[s] <= now
    /\ ExpiredIsLate

LEMMA ExposureType == \A k : Exposure(k) \in Nat
  BY TimeAssumption DEF Exposure, TimeoutOf

\* A record that reached the TTL belongs to a transaction close to its time bound.
LEMMA AgeGivesUpLate ==
  ASSUME TypeOK, NEW r \in PendingTransaction, FreshRecord(r),
         NEW t \in Nat, t <= now, PendingAge(r, t) >= TTL
  PROVE  r.tx.maxTime < now + Exposure(r.tx.kind)
<1>1. TimeoutOf(r.tx.kind) \in Nat /\ TTL \in Nat
  BY TimeAssumption DEF TimeoutOf
<1>2. r.at \in Nat /\ r.tx.maxTime \in Nat /\ now \in Nat
  BY DEF PendingTransaction, Tx, TypeOK
<1>3. r.at + TTL <= now
  BY <1>1, <1>2 DEF PendingAge, FreshRecord
<1>4. r.tx.maxTime + TTL <= now + TimeoutOf(r.tx.kind)
  BY <1>1, <1>2, <1>3 DEF FreshRecord
<1>5. CASE TTL > TimeoutOf(r.tx.kind)
  BY <1>1, <1>2, <1>4, <1>5 DEF Exposure
<1>6. CASE ~(TTL > TimeoutOf(r.tx.kind))
  BY <1>1, <1>2, <1>4, <1>6 DEF Exposure
<1>7. QED
  BY <1>5, <1>6

\* What no step of a session but these changes.
LEMMA AgeStable ==
  ASSUME TypeOK, AgeInv, now' = now, applied' = applied, expired' = expired,
         \A r \in pending' : FreshRecord(r),
         \A s \in Sessions : pc'[s] \in Built =>
              tx'[s] = tx[s] /\ pc[s] \in Built,
         \A s \in Sessions : \A r \in loaded'[s] \union todo'[s] : FreshRecord(r),
         \A s \in Sessions : asOf'[s] <= now
  PROVE  AgeInv'
  BY DEF AgeInv, FreshEnvelope, FreshRecord, ExpiredIsLate

THEOREM AgeInit == Init => AgeInv
  BY DEF Init, AgeInv, Built, ExpiredIsLate

THEOREM AgeStep == TypeOK /\ AgeInv /\ [Next]_vars => AgeInv'
<1> SUFFICES ASSUME TypeOK, AgeInv, [Next]_vars PROVE AgeInv'
  OBVIOUS
<1>now. now \in Nat /\ \A s \in Sessions : asOf[s] \in Nat
  BY DEF TypeOK
<1>leave. ASSUME NEW s \in Sessions, Leave(s), UNCHANGED <<now, applied, expired>>,
                 \A r \in pending' : FreshRecord(r)
          PROVE  AgeInv'
  <2>1. \A r \in Sessions : pc'[r] \in Built =>
           tx'[r] = tx[r] /\ pc[r] \in Built
    BY <1>leave, LeaveType DEF Built
  <2>2. \A q \in Sessions : \A r \in loaded'[q] \union todo'[q] : FreshRecord(r)
    BY <1>leave DEF Leave, TypeOK, AgeInv
  <2>3. \A q \in Sessions : asOf'[q] <= now
    BY <1>leave, <1>now DEF Leave, TypeOK, AgeInv
  <2>4. QED
    BY <1>leave, <2>1, <2>2, <2>3, AgeStable
<1>goto. ASSUME NEW s \in Sessions, NEW p \in Pcs, Goto(s, p),
                p \in Built => pc[s] \in Built,
                UNCHANGED <<now, applied, expired, asOf, loaded, todo, tx>>,
                \A r \in pending' : FreshRecord(r)
         PROVE  AgeInv'
  <2>1. \A r \in Sessions : pc'[r] \in Built => pc[r] \in Built
    BY <1>goto DEF Goto, TypeOK
  <2>2. QED
    BY <1>goto, <2>1, AgeStable DEF AgeInv
<1>1. CASE UNCHANGED vars
  BY <1>1, AgeStable DEF AgeInv, vars, netVars, flowVars, histVars
<1>2. ASSUME NEW s \in Sessions, Reconcile(s) PROVE AgeInv'
  <2>1. ASSUME NEW j \in Job, Begin(s, j) PROVE AgeInv'
    <3>1. \A q \in Sessions : pc'[q] \in Built => pc[q] \in Built
      BY <2>1 DEF Begin, Goto, TypeOK, Built
    <3>2. \A q \in Sessions : \A r \in loaded'[q] \union todo'[q] : FreshRecord(r)
      BY <2>1 DEF Begin, ItemsOf, TypeOK, AgeInv
    <3>3. \A q \in Sessions : asOf'[q] <= now
      BY <2>1, <1>now DEF Begin, TypeOK, AgeInv
    <3>4. QED
      BY <2>1, <3>1, <3>2, <3>3, AgeStable DEF Begin, AgeInv, netVars, histVars
  <2>2. ASSUME NEW r \in todo[s], LookupFound(s, r) PROVE AgeInv'
    <3>1. \A q \in Sessions : todo'[q] \subseteq todo[q]
      BY <2>2 DEF LookupFound, TypeOK
    <3>2. QED
      BY <2>2, <3>1, AgeStable DEF LookupFound, AgeInv, netVars
  <2>3. ASSUME NEW r \in todo[s], LookupExpired(s, r) PROVE AgeInv'
    <3>1. \A q \in Sessions : todo'[q] \subseteq todo[q]
      BY <2>3 DEF LookupExpired, TypeOK
    <3>2. r \in PendingTransaction /\ FreshRecord(r) /\ asOf[s] \in Nat /\ asOf[s] <= now
      BY DEF TypeOK, AgeInv
    <3>3. r.tx.maxTime < now + Exposure(r.tx.kind)
      BY <2>3, <3>2, AgeGivesUpLate DEF LookupExpired
    <3>4. ExpiredIsLate'
      BY <2>3, <3>3 DEF LookupExpired, AgeInv, ExpiredIsLate, netVars
    <3>5. QED
      BY <2>3, <3>1, <3>4 DEF LookupExpired, AgeInv, FreshRecord, FreshEnvelope, netVars
  <2>4. ASSUME NEW r \in todo[s], LookupPending(s, r) PROVE AgeInv'
    <3>1. \A q \in Sessions : todo'[q] \subseteq todo[q]
      BY <2>4 DEF LookupPending, TypeOK
    <3>2. QED
      BY <2>4, <3>1, AgeStable DEF LookupPending, AgeInv, netVars, histVars
  <2>5. ASSUME SaveRetained(s) PROVE \A r \in pending' : FreshRecord(r)
    BY <2>5 DEF SaveRetained, Retained, AgeInv
  <2>6. ASSUME ReconcileBlocked(s) PROVE AgeInv'
    BY <2>5, <2>6, <1>leave DEF ReconcileBlocked, netVars, histVars
  <2>7. ASSUME ReconcileClear(s) PROVE AgeInv'
    <3>1. \A q \in Sessions : pc'[q] \in Built => pc[q] \in Built
      BY <2>7 DEF ReconcileClear, Goto, TypeOK, Built
    <3>2. \A q \in Sessions : loaded'[q] \subseteq loaded[q]
      BY <2>7 DEF ReconcileClear, TypeOK
    <3>3. \A q \in Sessions : asOf'[q] <= now
      BY <2>7, <1>now DEF ReconcileClear, TypeOK, AgeInv
    <3>4. QED
      BY <2>5, <2>7, <3>1, <3>2, <3>3, AgeStable
         DEF ReconcileClear, AgeInv, netVars, histVars
  <2>8. QED
    BY <1>2, <2>1, <2>2, <2>3, <2>4, <2>6, <2>7 DEF Reconcile
<1>3. ASSUME NEW s \in Sessions, Prepare(s) PROVE AgeInv'
  <2>1. ASSUME FetchAccount(s) PROVE AgeInv'
    BY <2>1, <1>goto DEF FetchAccount, Pcs, Built, AgeInv, netVars, histVars
  <2>2. ASSUME BuildEnvelope(s) PROVE AgeInv'
    <3>1. FreshEnvelope(Envelope(job[s], base[s], now))
      BY TimeoutType, <1>now DEF FreshEnvelope, Envelope
    <3>2. \A q \in Sessions : pc'[q] \in Built => FreshEnvelope(tx'[q])
      BY <2>2, <3>1 DEF BuildEnvelope, Goto, TypeOK, AgeInv
    <3>3. QED
      BY <2>2, <3>2
         DEF BuildEnvelope, AgeInv, FreshRecord, FreshEnvelope, ExpiredIsLate, netVars
  <2>3. ASSUME Sign(s) PROVE AgeInv'
    BY <2>3, <1>goto DEF Sign, Pcs, Built, AgeInv, netVars, flowVars, histVars
  <2>4. QED
    BY <1>3, <2>1, <2>2, <2>3 DEF Prepare
<1>4. ASSUME NEW s \in Sessions, Submit(s) PROVE AgeInv'
  <2>after. AfterSubmit(s) \in Pcs
    BY DEF AfterSubmit, Pcs
  <2>1. ASSUME SubmitRefused(s) PROVE AgeInv'
    BY <2>1, <2>after, <1>goto DEF SubmitRefused, Built, AgeInv, netVars, flowVars, histVars
  <2>2. ASSUME PostDelivered(s) PROVE AgeInv'
    BY <2>2, <1>goto DEF PostDelivered, MayPost, Pcs, Built, AgeInv, flowVars, histVars
  <2>3. ASSUME PostLost(s) PROVE AgeInv'
    BY <2>3, <1>goto DEF PostLost, MayPost, Pcs, Built, AgeInv, netVars, flowVars, histVars
  <2>4. ASSUME pc[s] \in {"posting", "polling"}, SeeResult(s) PROVE AgeInv'
    <3>1. CASE Leave(s)
      BY <2>4, <3>1, <1>leave DEF SeeResult, AgeInv, netVars
    <3>2. CASE Goto(s, AfterSubmit(s)) /\ UNCHANGED flowVars
      BY <2>4, <3>2, <2>after, <1>goto DEF SeeResult, Built, AgeInv, netVars, flowVars
    <3>3. QED
      BY <2>4, <3>1, <3>2 DEF SeeResult
  <2>5. ASSUME RespondIncluded(s) PROVE AgeInv'
    BY <2>4, <2>5 DEF RespondIncluded
  <2>6. ASSUME RespondAccepted(s) PROVE AgeInv'
    BY <2>6, <1>goto DEF RespondAccepted, Pcs, Built, AgeInv, netVars, histVars
  <2>7. ASSUME RespondLost(s) PROVE AgeInv'
    BY <2>7, <1>goto DEF RespondLost, Pcs, Built, AgeInv, netVars, flowVars, histVars
  <2>8. ASSUME PollTerminal(s) PROVE AgeInv'
    BY <2>4, <2>8 DEF PollTerminal
  <2>9. ASSUME PollNotFound(s) PROVE AgeInv'
    BY <2>9, AgeStable DEF PollNotFound, AgeInv, netVars, histVars
  <2>10. ASSUME PollGivesUp(s) PROVE AgeInv'
    BY <2>10, <1>goto DEF PollGivesUp, Pcs, Built, AgeInv, netVars, flowVars, histVars
  <2>11. ASSUME Remember(s) PROVE AgeInv'
    <3>1. FreshRecord([tx |-> tx[s], at |-> now])
      BY <2>11, <1>now DEF Remember, AgeInv, Built, FreshEnvelope, FreshRecord
    <3>2. \A r \in pending' : FreshRecord(r)
      BY <2>11, <3>1 DEF Remember, Put, AgeInv
    <3>3. QED
      BY <2>11, <3>2, <2>after, <1>goto DEF Remember, Built, netVars, flowVars
  <2>12. ASSUME RememberFails(s) PROVE AgeInv'
    BY <2>12, <2>after, <1>goto DEF RememberFails, Built, AgeInv, netVars, flowVars, histVars
  <2>13. QED
    BY <1>4, <2>1, <2>2, <2>3, <2>5, <2>6, <2>7, <2>8, <2>9, <2>10, <2>11, <2>12 DEF Submit
<1>5. ASSUME NEW s \in Sessions, Abandon(s) PROVE AgeInv'
  BY <1>5, <1>leave DEF Abandon, AgeInv, netVars, histVars
<1>6. ASSUME Network PROVE AgeInv'
  <2>1. ASSUME NEW t \in inflight, Include(t) PROVE AgeInv'
    <3>1. t \in expired => Exposure(t.kind) > 0
      BY <2>1, <1>now, ExposureType DEF TypeOK, Tx, Include, NotExpired, AgeInv, ExpiredIsLate
    <3>2. ExpiredIsLate'
      BY <2>1, <3>1 DEF Include, AgeInv, ExpiredIsLate, flowVars, histVars
    <3>3. QED
      BY <2>1, <3>2 DEF Include, AgeInv, FreshEnvelope, FreshRecord, flowVars, histVars
  <2>2. ASSUME NEW t \in inflight, Evict(t) PROVE AgeInv'
    BY <2>2, AgeStable DEF Evict, AgeInv, flowVars, histVars
  <2>3. QED
    BY <1>6, <2>1, <2>2 DEF Network
<1>7. ASSUME Tick PROVE AgeInv'
  <2>1. \A q \in Sessions : pc[q] \in Built => tx[q] \in Tx
    BY DEF TypeOK, Built
  <2>2. \A q \in Sessions : loaded[q] \union todo[q] \subseteq PendingTransaction
    BY DEF TypeOK
  <2>3. \A t \in Tx : FreshEnvelope(t) => FreshEnvelope(t)'
    BY <1>7, <1>now, TimeoutType DEF Tick, FreshEnvelope, Tx
  <2>4. \A r \in PendingTransaction : FreshRecord(r) => FreshRecord(r)'
    BY <1>7, <1>now, TimeoutType DEF Tick, FreshRecord, PendingTransaction, Tx
  <2>5. ExpiredIsLate'
    <3>1. \A t \in expired : t.maxTime \in Nat
      BY DEF TypeOK, Tx
    <3>2. QED
      BY <1>7, <1>now, <3>1, ExposureType DEF Tick, AgeInv, ExpiredIsLate, netVars, histVars
  <2>6. QED
    BY <1>7, <1>now, <2>1, <2>2, <2>3, <2>4, <2>5
       DEF Tick, AgeInv, TypeOK, netVars, flowVars, histVars
<1>8. QED
  BY <1>1, <1>2, <1>3, <1>4, <1>5, <1>6, <1>7 DEF Next

\* ExpiredIsLate holds of any number of sessions, accounts and steps, for every
\* TTL and every timeout, the shipped ones included.
THEOREM AgeIsEvidence == Spec => []ExpiredIsLate
<1>1. AgeInv => ExpiredIsLate
  BY DEF AgeInv
<1>2. QED
  BY <1>1, AgeInit, AgeStep, TypeCorrect, PTL DEF Spec
\* What a reconciliation settles is on the ledger or was kept for the whole TTL.
SettledInv ==
    \A s \in Sessions : \A r \in settled[s] : r.tx \in applied \/ r.at + TTL <= now

LEMMA SettledStep == TypeOK /\ AgeInv /\ SettledInv /\ [Next]_vars => SettledInv'
<1> SUFFICES ASSUME TypeOK, AgeInv, SettledInv, [Next]_vars PROVE SettledInv'
  OBVIOUS
<1>types. /\ now \in Nat /\ TTL \in Nat
          /\ \A s \in Sessions : settled[s] \subseteq PendingTransaction
          /\ \A r \in PendingTransaction : r.at \in Nat
  BY TimeAssumption DEF TypeOK, PendingTransaction
<1>1. ASSUME \A s \in Sessions : settled'[s] \subseteq settled[s],
             applied \subseteq applied', now' = now \/ now' = now + 1
      PROVE  SettledInv'
  BY <1>1, <1>types DEF SettledInv
<1>2. ASSUME NEW s \in Sessions, Leave(s), UNCHANGED <<now, applied>> PROVE SettledInv'
  BY <1>1, <1>2 DEF Leave, TypeOK
<1>3. CASE UNCHANGED vars
  BY <1>1, <1>3 DEF vars, netVars, flowVars
<1>4. ASSUME NEW s \in Sessions, Reconcile(s) PROVE SettledInv'
  <2>1. CASE (\E j \in Job : Begin(s, j)) \/ \E r \in todo[s] : LookupPending(s, r)
    BY <1>1, <2>1 DEF Begin, LookupPending, netVars
  <2>2. ASSUME NEW r \in todo[s], LookupFound(s, r) PROVE SettledInv'
    BY <2>2 DEF LookupFound, SettledInv, TypeOK, netVars
  <2>3. ASSUME NEW r \in todo[s], LookupExpired(s, r) PROVE SettledInv'
    <3>1. r.at \in Nat /\ r.at <= now /\ asOf[s] \in Nat /\ asOf[s] <= now
      BY <1>types DEF TypeOK, AgeInv, FreshRecord
    <3>2. r.at + TTL <= now
      BY <2>3, <3>1, <1>types DEF LookupExpired, PendingAge
    <3>3. QED
      BY <2>3, <3>2 DEF LookupExpired, SettledInv, TypeOK, netVars
  <2>4. CASE ReconcileBlocked(s)
    BY <1>2, <2>4 DEF ReconcileBlocked, netVars
  <2>5. CASE ReconcileClear(s)
    BY <1>1, <2>5 DEF ReconcileClear, TypeOK, netVars
  <2>6. QED
    BY <1>4, <2>1, <2>2, <2>3, <2>4, <2>5 DEF Reconcile
<1>5. ASSUME NEW s \in Sessions, Prepare(s) PROVE SettledInv'
  BY <1>1, <1>5 DEF Prepare, FetchAccount, BuildEnvelope, Sign, netVars, flowVars
<1>6. ASSUME NEW s \in Sessions, Submit(s) PROVE SettledInv'
  <2>1. ASSUME SeeResult(s) PROVE SettledInv'
    BY <1>1, <1>2, <2>1 DEF SeeResult, netVars, flowVars
  <2>2. QED
    BY <1>1, <1>6, <2>1 DEF Submit, SubmitRefused, PostDelivered, PostLost, RespondIncluded,
       RespondAccepted, RespondLost, PollTerminal, PollNotFound, PollGivesUp, Remember,
       RememberFails, netVars, flowVars
<1>7. ASSUME NEW s \in Sessions, Abandon(s) PROVE SettledInv'
  BY <1>2, <1>7 DEF Abandon, netVars
<1>8. CASE Network \/ Tick
  BY <1>1, <1>8 DEF Network, Include, Evict, Tick, netVars, flowVars
<1>9. QED
  BY <1>3, <1>4, <1>5, <1>6, <1>7, <1>8 DEF Next

LEMMA AgeInvariant == Spec => [](AgeInv /\ SettledInv)
<1>1. Init => SettledInv
  BY DEF Init, SettledInv
<1>2. QED
  BY <1>1, AgeInit, AgeStep, SettledStep, TypeCorrect, PTL DEF Spec

-----------------------------------------------------------------------------
(***************************************************************************)
(* One session at a time: no open record is lost, and no later write       *)
(* overtakes a recorded one.  Both fail for two sessions.                  *)
(***************************************************************************)
OneWriter == \A s, t \in Sessions : s = t

\* Recorded transactions whose outcome the client has not learnt.
Unresolved == remembered \ (reconciled \union expired)

\* Transactions the network has or had.
Known == inflight \union applied

\* While a session reconciles, the file is what it read; what it settled is
\* seen on the ledger or given up.
SnapshotInv ==
    /\ \A s \in Sessions : pc[s] = "reconcile" =>
          /\ loaded[s] = pending
          /\ \A r \in settled[s] : r.tx \in reconciled \union expired
    /\ \A s \in Sessions : pc[s] /= "reconcile" => settled[s] = {}
    /\ reconciled \subseteq applied

\* An unresolved transaction has its record in the file.
RecordInv == \A t \in Unresolved : \E r \in pending : r.tx = t

\* The network's transactions do not run ahead of the account.
SeqInv ==
    /\ \A t \in inflight : t.seq <= seq[t.acct] + 1
    /\ \A t \in applied : t.seq <= seq[t.acct]
    /\ \A s \in Sessions : pc[s] = "build" => base[s] <= seq[job[s].acct]
    /\ \A s \in Sessions : pc[s] \in Built =>
          tx[s].acct = job[s].acct /\ tx[s].seq <= seq[tx[s].acct] + 1

\* From the reconciliation on, the account has no unresolved transaction but
\* the session's own, and the network none with a later sequence number.
WriterInv ==
    /\ \A s \in Sessions : pc[s] \in {"fetch", "build"} =>
          \A t \in Unresolved : t.acct /= job[s].acct
    /\ \A s \in Sessions : pc[s] \in Built =>
          \A t \in Unresolved : t.acct = job[s].acct => t = tx[s]
    /\ \A s \in Sessions : pc[s] = "build" =>
          \A t \in Known : t.acct = job[s].acct => t.seq <= base[s] + 1
    /\ \A s \in Sessions : pc[s] \in Built =>
          \A t \in Known : t.acct = job[s].acct => t.seq <= tx[s].seq

\* No transaction of the network is later than an unresolved one.
OrderInv == \A t1 \in Unresolved, t2 \in Known : t1.acct = t2.acct => t2.seq <= t1.seq

WriteInv == SnapshotInv /\ RecordInv /\ SeqInv /\ WriterInv /\ OrderInv

-----------------------------------------------------------------------------
THEOREM WriteInit == Init => WriteInv
  BY DEF Init, WriteInv, SnapshotInv, RecordInv, SeqInv, WriterInv, OrderInv,
         Unresolved, Known, Built

\* A session that leaves owes nothing: what it knew is in the file.
LEMMA LeaveWriteInv ==
  ASSUME OneWriter, TypeOK, WriteInv, NEW s \in Sessions, Leave(s),
         SnapshotInv', RecordInv', OrderInv',
         UNCHANGED <<seq, inflight, applied>>
  PROVE  WriteInv'
<1>1. \A q \in Sessions : pc'[q] = "idle"
  BY DEF OneWriter, Leave, Goto, TypeOK
<1>2. QED
  BY <1>1 DEF WriteInv, SeqInv, WriterInv, Built

\* A session that moves on within its envelope's life, changing nothing else.
LEMMA MoveWriteInv ==
  ASSUME OneWriter, TypeOK, WriteInv, NEW s \in Sessions, NEW p \in Built,
         pc[s] \in Built, Goto(s, p), UNCHANGED <<netVars, pending>>,
         UNCHANGED <<job, loaded, settled, tx, remembered, expired>>,
         reconciled \subseteq reconciled', reconciled' \subseteq applied
  PROVE  WriteInv'
<1>1. pc'[s] = p /\ \A q \in Sessions : q = s
  BY DEF OneWriter, Goto, TypeOK
<1>2. Unresolved' \subseteq Unresolved /\ Known' = Known
  BY DEF Unresolved, Known, netVars
<1>3. SnapshotInv'
  BY <1>1 DEF WriteInv, SnapshotInv, Built, netVars
<1>4. RecordInv' /\ OrderInv'
  BY <1>2 DEF WriteInv, RecordInv, OrderInv
<1>5. SeqInv' /\ WriterInv'
  BY <1>1, <1>2 DEF WriteInv, SeqInv, WriterInv, Built, netVars
<1>6. QED
  BY <1>3, <1>4, <1>5 DEF WriteInv

-----------------------------------------------------------------------------
LEMMA ReconcileWriteInv ==
  ASSUME OneWriter, TypeOK, WriteInv, NEW s \in Sessions, Reconcile(s)
  PROVE  WriteInv'
<1>one. \A q \in Sessions : q = s
  BY DEF OneWriter
<1>1. ASSUME NEW j \in Job, Begin(s, j) PROVE WriteInv'
  <2>1. pc'[s] = "reconcile" /\ loaded'[s] = pending' /\ settled'[s] = {}
    BY <1>1 DEF Begin, Goto, TypeOK, WriteInv, SnapshotInv
  <2>2. Unresolved' = Unresolved /\ Known' = Known
    BY <1>1 DEF Begin, Unresolved, Known, netVars, histVars
  <2>3. QED
    BY <1>1, <1>one, <2>1, <2>2
       DEF Begin, WriteInv, SnapshotInv, RecordInv, SeqInv, WriterInv, OrderInv,
           Built, netVars, histVars
<1>2. ASSUME NEW r \in todo[s], LookupFound(s, r) \/ LookupExpired(s, r)
             \/ LookupPending(s, r)
      PROVE  WriteInv'
  <2>1. pc' = pc /\ pc[s] = "reconcile" /\ loaded' = loaded /\ UNCHANGED <<netVars, pending>>
    BY <1>2 DEF LookupFound, LookupExpired, LookupPending
  <2>2. Unresolved' \subseteq Unresolved /\ Known' = Known
    BY <1>2 DEF LookupFound, LookupExpired, LookupPending, Unresolved, Known, netVars, histVars
  <2>3. reconciled' \subseteq applied'
    BY <1>2 DEF LookupFound, LookupExpired, LookupPending, WriteInv, SnapshotInv, netVars, histVars
  <2>4. \A q \in settled'[s] : q.tx \in reconciled' \union expired'
    BY <1>2 DEF LookupFound, LookupExpired, LookupPending, TypeOK, WriteInv, SnapshotInv, histVars
  <2>5. SnapshotInv'
    BY <1>one, <2>1, <2>3, <2>4 DEF WriteInv, SnapshotInv
  <2>6. QED
    BY <1>one, <2>1, <2>2, <2>5
       DEF WriteInv, RecordInv, SeqInv, WriterInv, OrderInv, Built, netVars
<1>3. ASSUME pc[s] = "reconcile", SaveRetained(s), UNCHANGED <<netVars, histVars>>
      PROVE  RecordInv'
  <2>1. pending' = Retained(s) \/ pending' = pending
    BY <1>3 DEF SaveRetained
  <2>2. \A r \in pending \ pending' : r.tx \in reconciled \union expired
    BY <1>3, <2>1 DEF Retained, WriteInv, SnapshotInv
  <2>3. QED
    BY <1>3, <2>2 DEF WriteInv, RecordInv, Unresolved, histVars
<1>4. ASSUME ReconcileBlocked(s) PROVE WriteInv'
  <2>1. RecordInv'
    BY <1>3, <1>4 DEF ReconcileBlocked
  <2>2. pc'[s] = "idle" /\ settled'[s] = {}
    BY <1>4 DEF ReconcileBlocked, Leave, Goto, TypeOK
  <2>3. SnapshotInv' /\ OrderInv'
    BY <1>4, <1>one, <2>2
       DEF ReconcileBlocked, WriteInv, SnapshotInv, OrderInv, Unresolved, Known, netVars, histVars
  <2>4. QED
    BY <1>4, <2>1, <2>3, LeaveWriteInv DEF ReconcileBlocked, netVars
<1>5. ASSUME ReconcileClear(s) PROVE WriteInv'
  <2>1. RecordInv'
    BY <1>3, <1>5 DEF ReconcileClear
  <2>2. pc'[s] = "fetch" /\ settled'[s] = {}
    BY <1>5 DEF ReconcileClear, Goto, TypeOK
  <2>3. Unresolved' = Unresolved /\ Known' = Known
    BY <1>5 DEF ReconcileClear, Unresolved, Known, netVars, histVars
  <2>4. SnapshotInv' /\ OrderInv'
    BY <1>5, <1>one, <2>2, <2>3
       DEF ReconcileClear, WriteInv, SnapshotInv, OrderInv, netVars, histVars
  <2>5. ASSUME NEW t \in Unresolved, t.acct = job[s].acct PROVE FALSE
    <3>1. PICK r \in loaded[s] : r.tx = t
      BY <1>5, <2>5 DEF ReconcileClear, WriteInv, RecordInv, SnapshotInv
    <3>2. r \in settled[s]
      BY <1>5, <2>5, <3>1 DEF ReconcileClear, ItemsOf, Retained
    <3>3. QED
      BY <1>5, <3>1, <3>2 DEF ReconcileClear, WriteInv, SnapshotInv, Unresolved
  <2>6. SeqInv' /\ WriterInv'
    BY <1>5, <1>one, <2>2, <2>3, <2>5
       DEF ReconcileClear, WriteInv, SeqInv, WriterInv, Built, netVars
  <2>7. QED
    BY <2>1, <2>4, <2>6 DEF WriteInv
<1>6. QED
  BY <1>1, <1>2, <1>4, <1>5 DEF Reconcile

LEMMA PrepareWriteInv ==
  ASSUME OneWriter, TypeOK, WriteInv, NEW s \in Sessions, Prepare(s)
  PROVE  WriteInv'
<1>one. \A q \in Sessions : q = s
  BY DEF OneWriter
<1>types. /\ seq \in [Accounts -> Nat] /\ base[s] \in Nat
          /\ \A t \in Known : t.seq \in Nat
  BY DEF TypeOK, Known, Tx
<1>1. ASSUME FetchAccount(s) PROVE WriteInv'
  <2>1. pc'[s] = "build" /\ pc[s] = "fetch" /\ base'[s] = seq[job[s].acct]
    BY <1>1 DEF FetchAccount, Goto, TypeOK
  <2>2. job[s] \in Job /\ job[s].acct \in Accounts
    BY <2>1 DEF TypeOK, Job
  <2>3. Unresolved' = Unresolved /\ Known' = Known
    BY <1>1 DEF FetchAccount, Unresolved, Known, netVars, histVars
  <2>4. \A t \in Known : t.seq <= seq[t.acct] + 1
    BY <1>types DEF WriteInv, SeqInv, Known, TypeOK, Tx
  <2>5. SnapshotInv' /\ RecordInv' /\ OrderInv'
    BY <1>1, <1>one, <2>1, <2>3
       DEF FetchAccount, WriteInv, SnapshotInv, RecordInv, OrderInv, netVars, histVars
  <2>6. SeqInv'
    BY <1>1, <1>one, <1>types, <2>1, <2>2 DEF FetchAccount, WriteInv, SeqInv, Built, netVars
  <2>7. WriterInv'
    BY <1>1, <1>one, <2>1, <2>3, <2>4 DEF FetchAccount, WriteInv, WriterInv, Built, netVars
  <2>8. QED
    BY <2>5, <2>6, <2>7 DEF WriteInv
<1>2. ASSUME BuildEnvelope(s) PROVE WriteInv'
  <2>1. pc'[s] = "prepared" /\ pc[s] = "build" /\ tx'[s] = Envelope(job[s], base[s], now)
    BY <1>2 DEF BuildEnvelope, Goto, TypeOK
  <2>2. tx'[s].acct = job[s].acct /\ tx'[s].seq = base[s] + 1
    BY <2>1 DEF Envelope
  <2>3. Unresolved' = Unresolved /\ Known' = Known
    BY <1>2 DEF BuildEnvelope, Unresolved, Known, netVars
  <2>4. SnapshotInv' /\ RecordInv' /\ OrderInv'
    BY <1>2, <1>one, <2>1, <2>3
       DEF BuildEnvelope, WriteInv, SnapshotInv, RecordInv, OrderInv, netVars
  <2>5. job[s].acct \in Accounts
    BY <2>1 DEF TypeOK, Job
  <2>6. SeqInv'
    BY <1>2, <1>one, <1>types, <2>1, <2>2, <2>5
       DEF BuildEnvelope, WriteInv, SeqInv, Built, netVars
  <2>7. WriterInv'
    BY <1>2, <1>one, <2>1, <2>2, <2>3 DEF BuildEnvelope, WriteInv, WriterInv, Built, netVars
  <2>8. QED
    BY <2>4, <2>6, <2>7 DEF WriteInv
<1>3. ASSUME Sign(s) PROVE WriteInv'
  BY <1>3, MoveWriteInv DEF Sign, Built, WriteInv, SnapshotInv, netVars, flowVars, histVars
<1>4. QED
  BY <1>1, <1>2, <1>3 DEF Prepare

LEMMA SubmitWriteInv ==
  ASSUME OneWriter, TypeOK, WriteInv, NEW s \in Sessions, Submit(s)
  PROVE  WriteInv'
<1>one. \A q \in Sessions : q = s
  BY DEF OneWriter
<1>after. AfterSubmit(s) \in Built
  BY DEF AfterSubmit, Built
<1>seen. reconciled \subseteq applied
  BY DEF WriteInv, SnapshotInv
<1>1. ASSUME SubmitRefused(s) PROVE WriteInv'
  BY <1>1, <1>after, <1>seen, MoveWriteInv
     DEF SubmitRefused, Built, netVars, flowVars, histVars
<1>2. ASSUME PostDelivered(s) PROVE WriteInv'
  <2>1. pc[s] = "signed" /\ pc'[s] = "posting"
    BY <1>2 DEF PostDelivered, MayPost, Goto, TypeOK
  <2>2. Unresolved' = Unresolved /\ Known' = Known \union {tx[s]}
    BY <1>2 DEF PostDelivered, Unresolved, Known, flowVars, histVars
  <2>3. tx[s] \in Tx /\ tx[s].acct = job[s].acct /\ tx[s].seq <= seq[tx[s].acct] + 1
    BY <2>1 DEF TypeOK, WriteInv, SeqInv, Built
  <2>4. tx[s].seq \in Nat
    BY <2>3 DEF Tx
  <2>5. SnapshotInv' /\ RecordInv'
    BY <1>2, <1>one, <2>1, <2>2
       DEF PostDelivered, WriteInv, SnapshotInv, RecordInv, flowVars, histVars
  <2>6. SeqInv'
    BY <1>2, <1>one, <2>1, <2>3 DEF PostDelivered, WriteInv, SeqInv, Built, flowVars
  <2>7. WriterInv'
    BY <1>2, <1>one, <2>1, <2>2, <2>3, <2>4
       DEF PostDelivered, WriteInv, WriterInv, Built, flowVars
  <2>8. \A t \in Unresolved : t.acct = tx[s].acct => t = tx[s]
    BY <2>1, <2>3 DEF WriteInv, WriterInv, Built
  <2>9. OrderInv'
    <3>1. \A t1 \in Unresolved, t2 \in Known : t1.acct = t2.acct => t2.seq <= t1.seq
      BY DEF WriteInv, OrderInv
    <3>2. \A t1 \in Unresolved : t1.acct = tx[s].acct => tx[s].seq <= t1.seq
      BY <2>4, <2>8
    <3>3. QED
      BY <2>2, <3>1, <3>2 DEF OrderInv
  <2>10. QED
    BY <2>5, <2>6, <2>7, <2>9 DEF WriteInv
<1>3. ASSUME PostLost(s) PROVE WriteInv'
  BY <1>3, <1>seen, MoveWriteInv DEF PostLost, MayPost, Built, netVars, flowVars, histVars
<1>4. ASSUME pc[s] \in Built, SeeResult(s) PROVE WriteInv'
  <2>1. reconciled' = reconciled \union {tx[s]} /\ reconciled' \subseteq applied
    BY <1>4, <1>seen DEF SeeResult
  <2>2. CASE Leave(s)
    <3>1. Unresolved' \subseteq Unresolved /\ Known' = Known
      BY <1>4 DEF SeeResult, Unresolved, Known, netVars
    <3>2. pc'[s] = "idle" /\ settled'[s] = {}
      BY <2>2 DEF Leave, Goto, TypeOK
    <3>3. SnapshotInv' /\ RecordInv' /\ OrderInv'
      BY <1>4, <1>one, <2>1, <3>1, <3>2
         DEF SeeResult, WriteInv, SnapshotInv, RecordInv, OrderInv, netVars
    <3>4. QED
      BY <1>4, <2>2, <3>3, LeaveWriteInv DEF SeeResult, netVars
  <2>3. CASE Goto(s, AfterSubmit(s)) /\ UNCHANGED flowVars
    BY <1>4, <1>after, <2>1, <2>3, MoveWriteInv DEF SeeResult, flowVars
  <2>4. QED
    BY <1>4, <2>2, <2>3 DEF SeeResult
<1>5. ASSUME RespondIncluded(s) PROVE WriteInv'
  BY <1>4, <1>5 DEF RespondIncluded, Built
<1>6. ASSUME RespondAccepted(s) PROVE WriteInv'
  BY <1>6, <1>seen, MoveWriteInv DEF RespondAccepted, Built, netVars, histVars
<1>7. ASSUME RespondLost(s) PROVE WriteInv'
  BY <1>7, <1>seen, MoveWriteInv DEF RespondLost, Built, netVars, flowVars, histVars
<1>8. ASSUME PollTerminal(s) PROVE WriteInv'
  BY <1>4, <1>8 DEF PollTerminal, Built
<1>9. ASSUME PollNotFound(s) PROVE WriteInv'
  BY <1>9 DEF PollNotFound, WriteInv, SnapshotInv, RecordInv, SeqInv, WriterInv, OrderInv,
              Unresolved, Known, netVars, histVars
<1>10. ASSUME PollGivesUp(s) PROVE WriteInv'
  BY <1>10, <1>seen, MoveWriteInv DEF PollGivesUp, Built, netVars, flowVars, histVars
<1>11. ASSUME Remember(s) PROVE WriteInv'
  <2>1. pc[s] = "uncertain" /\ pc'[s] \in Built /\ tx[s] \in Tx
    BY <1>11, <1>after DEF Remember, Goto, TypeOK
  <2>2. Unresolved' \subseteq Unresolved \union {tx[s]} /\ Known' = Known
    BY <1>11 DEF Remember, Unresolved, Known, netVars
  <2>3. SnapshotInv'
    BY <1>11, <1>one, <2>1 DEF Remember, WriteInv, SnapshotInv, Built, netVars, flowVars
  <2>4. RecordInv'
    <3>1. [tx |-> tx[s], at |-> now] \in pending'
      BY <1>11 DEF Remember, Put
    <3>2. ASSUME NEW t \in Unresolved, t /= tx[s] PROVE \E r \in pending' : r.tx = t
      BY <1>11, <3>2 DEF Remember, Put, WriteInv, RecordInv
    <3>3. QED
      BY <2>2, <3>1, <3>2 DEF RecordInv
  <2>5. SeqInv'
    BY <1>11, <1>one, <2>1 DEF Remember, WriteInv, SeqInv, Built, netVars, flowVars
  <2>6. WriterInv'
    BY <1>11, <1>one, <2>1, <2>2 DEF Remember, WriteInv, WriterInv, Built, netVars, flowVars
  <2>7. \A t \in Known : t.acct = tx[s].acct => t.seq <= tx[s].seq
    BY <2>1 DEF WriteInv, SeqInv, WriterInv, Built
  <2>8. OrderInv'
    BY <2>2, <2>7 DEF WriteInv, OrderInv
  <2>9. QED
    BY <2>3, <2>4, <2>5, <2>6, <2>8 DEF WriteInv
<1>12. ASSUME RememberFails(s) PROVE WriteInv'
  BY <1>12, <1>after, <1>seen, MoveWriteInv
     DEF RememberFails, Built, netVars, flowVars, histVars
<1>13. QED
  BY <1>1, <1>2, <1>3, <1>5, <1>6, <1>7, <1>8, <1>9, <1>10, <1>11, <1>12 DEF Submit

LEMMA OtherWriteInv ==
  ASSUME OneWriter, TypeOK, WriteInv, (\E s \in Sessions : Abandon(s)) \/ Network \/ Tick
  PROVE  WriteInv'
<1>1. ASSUME NEW s \in Sessions, Abandon(s) PROVE WriteInv'
  <2>1. pc'[s] = "idle" /\ settled'[s] = {} /\ \A q \in Sessions : q = s
    BY <1>1 DEF OneWriter, Abandon, Leave, Goto, TypeOK
  <2>2. SnapshotInv' /\ RecordInv' /\ OrderInv'
    BY <1>1, <2>1 DEF Abandon, WriteInv, SnapshotInv, RecordInv, OrderInv,
                      Unresolved, Known, netVars, histVars
  <2>3. QED
    BY <1>1, <2>2, LeaveWriteInv DEF Abandon, netVars
<1>2. ASSUME NEW t \in inflight, Include(t) PROVE WriteInv'
  <2>1. Unresolved' = Unresolved /\ Known' = Known /\ applied \subseteq applied'
    BY <1>2 DEF Include, Unresolved, Known, histVars
  <2>2. t \in Tx /\ t.acct \in Accounts /\ t.seq \in Nat /\ \A a \in Accounts : seq[a] \in Nat
    BY DEF TypeOK, Tx
  <2>3. seq' = [seq EXCEPT ![t.acct] = seq[t.acct] + 1] /\ t.seq = seq[t.acct] + 1
    BY <1>2 DEF Include
  <2>4. \A a \in Accounts : seq'[a] \in Nat /\ seq[a] <= seq'[a]
    BY <2>2, <2>3 DEF TypeOK
  <2>5. SnapshotInv' /\ RecordInv' /\ OrderInv'
    BY <1>2, <2>1 DEF Include, WriteInv, SnapshotInv, RecordInv, OrderInv, Retained,
                      flowVars, histVars
  <2>6. WriterInv'
    BY <1>2, <2>1 DEF Include, WriteInv, WriterInv, flowVars
  <2>7. \A u \in inflight' : u.seq <= seq'[u.acct] + 1
    <3>1. \A u \in inflight : u.acct \in Accounts /\ u.seq \in Nat /\ u.seq <= seq[u.acct] + 1
      BY DEF TypeOK, Tx, WriteInv, SeqInv
    <3>2. QED
      BY <1>2, <2>2, <2>4, <3>1 DEF Include
  <2>8. \A u \in applied' : u.seq <= seq'[u.acct]
    <3>1. \A u \in applied : u.acct \in Accounts /\ u.seq \in Nat /\ u.seq <= seq[u.acct]
      BY DEF TypeOK, Tx, WriteInv, SeqInv
    <3>2. t.seq <= seq'[t.acct]
      BY <2>2, <2>3 DEF TypeOK
    <3>3. QED
      BY <1>2, <2>2, <2>4, <3>1, <3>2 DEF Include
  <2>9. \A q \in Sessions : pc[q] = "build" => base[q] <= seq'[job[q].acct]
    <3>1. \A q \in Sessions : pc[q] = "build" =>
             job[q].acct \in Accounts /\ base[q] \in Nat /\ base[q] <= seq[job[q].acct]
      BY DEF TypeOK, Job, WriteInv, SeqInv
    <3>2. QED
      BY <2>2, <2>4, <3>1
  <2>10. \A q \in Sessions : pc[q] \in Built => tx[q].seq <= seq'[tx[q].acct] + 1
    <3>1. \A q \in Sessions : pc[q] \in Built =>
             tx[q].acct \in Accounts /\ tx[q].seq \in Nat /\ tx[q].seq <= seq[tx[q].acct] + 1
      BY DEF TypeOK, Built, Tx, WriteInv, SeqInv
    <3>2. QED
      BY <2>2, <2>4, <3>1
  <2>11. SeqInv'
    BY <1>2, <2>7, <2>8, <2>9, <2>10 DEF Include, WriteInv, SeqInv, flowVars
  <2>12. QED
    BY <2>5, <2>6, <2>11 DEF WriteInv
<1>3. ASSUME NEW t \in inflight, Evict(t) PROVE WriteInv'
  <2>1. Unresolved' = Unresolved /\ Known' \subseteq Known
    BY <1>3 DEF Evict, Unresolved, Known, histVars
  <2>2. QED
    BY <1>3, <2>1 DEF Evict, WriteInv, SnapshotInv, RecordInv, SeqInv, WriterInv, OrderInv,
                      flowVars, histVars
<1>4. ASSUME Tick PROVE WriteInv'
  BY <1>4 DEF Tick, WriteInv, SnapshotInv, RecordInv, SeqInv, WriterInv, OrderInv,
              Unresolved, Known, netVars, flowVars, histVars
<1>5. QED
  BY <1>1, <1>2, <1>3, <1>4 DEF Network

THEOREM WriteStep == OneWriter /\ TypeOK /\ WriteInv /\ [Next]_vars => WriteInv'
<1> SUFFICES ASSUME OneWriter, TypeOK, WriteInv, [Next]_vars PROVE WriteInv'
  OBVIOUS
<1>1. CASE UNCHANGED vars
  BY <1>1 DEF WriteInv, SnapshotInv, RecordInv, SeqInv, WriterInv, OrderInv, Unresolved,
              Known, vars, netVars, flowVars, histVars
<1>2. CASE Next
  BY <1>2, ReconcileWriteInv, PrepareWriteInv, SubmitWriteInv, OtherWriteInv DEF Next
<1>3. QED
  BY <1>1, <1>2

LEMMA WriteInvariant == OneWriter => (Spec => []WriteInv)
<1> SUFFICES ASSUME OneWriter PROVE Spec => []WriteInv
  OBVIOUS
<1>1. QED
  BY WriteInit, WriteStep, TypeCorrect, PTL DEF Spec

-----------------------------------------------------------------------------
\* ReplacedOnlyIfExposed for one writer.
THEOREM RetryIsReconciled == OneWriter => (Spec => []ReplacedOnlyIfExposed)
<1> SUFFICES ASSUME OneWriter PROVE Spec => []ReplacedOnlyIfExposed
  OBVIOUS
<1>1. TypeOK /\ ExpiredIsLate /\ WriteInv => ReplacedOnlyIfExposed
  <2> SUFFICES ASSUME TypeOK, ExpiredIsLate, WriteInv,
                      NEW t1 \in remembered \intersect applied, NEW t2 \in applied,
                      t1.acct = t2.acct, t1.seq < t2.seq, t1 \notin reconciled,
                      ~(t1 \in expired /\ Exposure(t1.kind) > 0)
               PROVE  FALSE
    BY DEF ReplacedOnlyIfExposed
  <2>1. t1 \notin expired
    BY ExposureType DEF ExpiredIsLate
  <2>2. t1 \in Unresolved /\ t2 \in Known
    BY <2>1 DEF Unresolved, Known
  <2>3. t2.seq <= t1.seq
    BY <2>2 DEF WriteInv, OrderInv
  <2>4. t1.seq \in Nat /\ t2.seq \in Nat
    BY DEF TypeOK, Tx
  <2>5. QED
    BY <2>3, <2>4
<1>2. QED
  BY <1>1, TypeCorrect, AgeIsEvidence, WriteInvariant, PTL

\* OpenRecordsSurvive for one writer.
THEOREM NoOpenRecordLost == OneWriter => (Spec => OpenRecordsSurvive)
<1> SUFFICES ASSUME OneWriter PROVE Spec => OpenRecordsSurvive
  OBVIOUS
<1> DEFINE Kept(r) == \/ r.tx \in applied
                      \/ ~NotExpired(r.tx)
                      \/ Exposure(r.tx.kind) > 0 /\ r.at + TTL <= now
                      \/ \E q \in pending' : q.tx = r.tx /\ q.at >= r.at
<1>1. TypeOK /\ AgeInv /\ SettledInv /\ WriteInv /\ [Next]_vars
        => [\A r \in pending \ pending' : Kept(r)]_vars
  <2> SUFFICES ASSUME TypeOK, AgeInv, SettledInv, WriteInv, Next,
                      NEW r \in pending, r \notin pending'
               PROVE  Kept(r)
    OBVIOUS
  <2>1. ASSUME NEW s \in Sessions, pc[s] = "reconcile", SaveRetained(s) PROVE Kept(r)
    <3>1. r \in settled[s]
      BY <2>1 DEF SaveRetained, Retained, WriteInv, SnapshotInv
    <3>2. CASE r.tx \in applied
      BY <3>2
    <3>3. CASE r.tx \notin applied
      <4>1. r.at + TTL <= now
        BY <3>1, <3>3 DEF SettledInv
      <4>2. r.at \in Nat /\ r.tx.maxTime \in Nat /\ now \in Nat /\ TTL \in Nat
            /\ TimeoutOf(r.tx.kind) \in Nat
        BY TimeAssumption DEF TypeOK, PendingTransaction, Tx, TimeoutOf
      <4>3. r.tx.maxTime <= r.at + TimeoutOf(r.tx.kind)
        BY DEF AgeInv, FreshRecord
      <4>4. CASE TTL > TimeoutOf(r.tx.kind)
        BY <4>1, <4>2, <4>3, <4>4 DEF NotExpired
      <4>5. CASE ~(TTL > TimeoutOf(r.tx.kind))
        BY <4>1, <4>2, <4>5 DEF Exposure
      <4>6. QED
        BY <4>4, <4>5
    <3>4. QED
      BY <3>2, <3>3
  <2>2. ASSUME NEW s \in Sessions, Remember(s) PROVE Kept(r)
    <3>1. r.tx = tx[s] /\ [tx |-> tx[s], at |-> now] \in pending'
      BY <2>2 DEF Remember, Put
    <3>2. r.at <= now /\ r.at \in Nat /\ now \in Nat
      BY DEF AgeInv, FreshRecord, TypeOK, PendingTransaction
    <3>3. QED
      BY <3>1, <3>2
  <2>3. ASSUME NEW s \in Sessions, Reconcile(s) PROVE Kept(r)
    BY <2>1, <2>3 DEF Reconcile, Begin, LookupFound, LookupExpired, LookupPending,
                      ReconcileBlocked, ReconcileClear
  <2>4. ASSUME NEW s \in Sessions, Prepare(s) PROVE Kept(r)
    BY <2>4 DEF Prepare, FetchAccount, BuildEnvelope, Sign
  <2>5. ASSUME NEW s \in Sessions, Submit(s) PROVE Kept(r)
    BY <2>2, <2>5 DEF Submit, SubmitRefused, PostDelivered, PostLost, RespondIncluded,
                      RespondAccepted, RespondLost, PollTerminal, PollNotFound, PollGivesUp,
                      RememberFails, SeeResult
  <2>6. QED
    BY <2>3, <2>4, <2>5 DEF Next, Abandon, Network, Include, Evict, Tick
<1>2. QED
  BY <1>1, AgeInvariant, TypeCorrect, WriteInvariant, PTL DEF Spec, OpenRecordsSurvive

-----------------------------------------------------------------------------
(***************************************************************************)
(* One session implements OneOpenWrite.  The file holds at most one record *)
(* of an account; none of the session's account when it goes on to write,  *)
(* and afterwards its own transaction's only.                              *)
(***************************************************************************)
FileInv ==
    /\ \A r, q \in pending : r.tx.acct = q.tx.acct => r = q
    /\ \A s \in Sessions : pc[s] = "reconcile" =>
          todo[s] \union settled[s] \subseteq ItemsOf(loaded[s], job[s].acct)
    /\ \A s \in Sessions : pc[s] \in {"fetch", "build"} => ItemsOf(pending, job[s].acct) = {}
    /\ \A s \in Sessions : pc[s] \in Built =>
          \A r \in ItemsOf(pending, job[s].acct) : r.tx = tx[s]

THEOREM FileInit == Init => FileInv
  BY DEF Init, FileInv, Built

LEMMA ReconcileFileInv ==
  ASSUME OneWriter, TypeOK, WriteInv, FileInv, NEW s \in Sessions, Reconcile(s)
  PROVE  FileInv'
<1>one. \A q \in Sessions : q = s
  BY DEF OneWriter
<1>1. ASSUME NEW j \in Job, Begin(s, j) PROVE FileInv'
  <2>1. pc[s] = "idle" /\ pc'[s] = "reconcile" /\ job'[s] = j /\ loaded'[s] = pending
        /\ todo'[s] = ItemsOf(pending, j.acct) /\ settled' = settled /\ pending' = pending
    BY <1>1 DEF Begin, Goto, TypeOK
  <2>2. settled[s] = {}
    BY <2>1 DEF WriteInv, SnapshotInv
  <2>3. QED
    BY <1>one, <2>1, <2>2 DEF FileInv, Built
<1>2. ASSUME NEW r \in todo[s], LookupFound(s, r) \/ LookupExpired(s, r)
             \/ LookupPending(s, r)
      PROVE  FileInv'
  <2>1. pc' = pc /\ pc[s] = "reconcile" /\ loaded' = loaded /\ job' = job /\ pending' = pending
    BY <1>2 DEF LookupFound, LookupExpired, LookupPending
  <2>2. todo'[s] \union settled'[s] \subseteq todo[s] \union settled[s]
    BY <1>2 DEF LookupFound, LookupExpired, LookupPending, TypeOK
  <2>3. QED
    BY <1>one, <2>1, <2>2 DEF FileInv, Built
<1>3. ASSUME ReconcileBlocked(s) PROVE FileInv'
  <2>1. pending' \subseteq pending
    BY <1>3 DEF ReconcileBlocked, SaveRetained, Retained, WriteInv, SnapshotInv
  <2>2. pc'[s] = "idle"
    BY <1>3 DEF ReconcileBlocked, Leave, Goto, TypeOK
  <2>3. QED
    BY <1>one, <2>1, <2>2 DEF FileInv, Built
<1>4. ASSUME ReconcileClear(s) PROVE FileInv'
  <2>1. pending' = Retained(s)
    BY <1>4 DEF ReconcileClear, SaveRetained, Retained, WriteInv, SnapshotInv
  <2>2. pending' \subseteq pending
    BY <1>4, <2>1 DEF ReconcileClear, Retained, WriteInv, SnapshotInv
  <2>3. pc'[s] = "fetch" /\ job' = job /\ ItemsOf(pending', job'[s].acct) = {}
    BY <1>4, <2>1 DEF ReconcileClear, Goto, TypeOK
  <2>4. QED
    BY <1>one, <2>2, <2>3 DEF FileInv, Built
<1>5. QED
  BY <1>1, <1>2, <1>3, <1>4 DEF Reconcile

\* A session that moves on and leaves the file and its envelope alone.
LEMMA MoveFileInv ==
  ASSUME OneWriter, TypeOK, FileInv, NEW s \in Sessions, NEW p \in Built,
         pc[s] \in Built, Goto(s, p), UNCHANGED <<pending, job, tx>>
  PROVE  FileInv'
<1>1. pc'[s] = p /\ \A q \in Sessions : q = s
  BY DEF OneWriter, Goto, TypeOK
<1>2. QED
  BY <1>1 DEF FileInv, Built

\* A session that leaves changes nothing in the file.
LEMMA LeaveFileInv ==
  ASSUME OneWriter, TypeOK, FileInv, NEW s \in Sessions, Leave(s), UNCHANGED pending
  PROVE  FileInv'
<1>1. pc'[s] = "idle" /\ \A q \in Sessions : q = s
  BY DEF OneWriter, Leave, Goto, TypeOK
<1>2. QED
  BY <1>1 DEF FileInv, Built

LEMMA PrepareFileInv ==
  ASSUME OneWriter, TypeOK, FileInv, NEW s \in Sessions, Prepare(s)
  PROVE  FileInv'
<1>one. \A q \in Sessions : q = s
  BY DEF OneWriter
<1>1. ASSUME FetchAccount(s) PROVE FileInv'
  <2>1. pc[s] = "fetch" /\ pc'[s] = "build"
    BY <1>1 DEF FetchAccount, Goto, TypeOK
  <2>2. QED
    BY <1>one, <1>1, <2>1 DEF FetchAccount, FileInv, Built
<1>2. ASSUME BuildEnvelope(s) PROVE FileInv'
  <2>1. pc[s] = "build" /\ pc'[s] = "prepared"
    BY <1>2 DEF BuildEnvelope, Goto, TypeOK
  <2>2. QED
    BY <1>one, <1>2, <2>1 DEF BuildEnvelope, FileInv, Built
<1>3. ASSUME Sign(s) PROVE FileInv'
  BY <1>3, MoveFileInv DEF Sign, Built, flowVars
<1>4. QED
  BY <1>1, <1>2, <1>3 DEF Prepare

LEMMA SubmitFileInv ==
  ASSUME OneWriter, TypeOK, WriteInv, FileInv, NEW s \in Sessions, Submit(s)
  PROVE  FileInv'
<1>after. AfterSubmit(s) \in Built
  BY DEF AfterSubmit, Built
<1>1. ASSUME NEW p \in Built, pc[s] \in Built, Goto(s, p), UNCHANGED <<pending, job, tx>>
      PROVE  FileInv'
  BY <1>1, MoveFileInv
<1>2. CASE SubmitRefused(s) \/ PostDelivered(s) \/ PostLost(s) \/ RespondAccepted(s)
           \/ RespondLost(s) \/ PollGivesUp(s) \/ RememberFails(s)
  BY <1>1, <1>2, <1>after DEF SubmitRefused, PostDelivered, PostLost, MayPost, RespondAccepted,
     RespondLost, PollGivesUp, RememberFails, Built, flowVars
<1>3. ASSUME pc[s] \in Built, SeeResult(s) PROVE FileInv'
  BY <1>1, <1>3, <1>after, LeaveFileInv DEF SeeResult, flowVars
<1>4. CASE RespondIncluded(s) \/ PollTerminal(s)
  BY <1>3, <1>4 DEF RespondIncluded, PollTerminal, Built
<1>5. CASE PollNotFound(s)
  BY <1>5 DEF PollNotFound, FileInv
<1>6. CASE Remember(s)
  <2>1. /\ pc[s] = "uncertain" /\ pc'[s] \in Built /\ tx' = tx /\ job' = job
        /\ \A q \in Sessions : q = s
    BY <1>6, <1>after DEF Remember, Goto, TypeOK, OneWriter, flowVars
  <2>2. tx[s].acct = job[s].acct
    BY <2>1 DEF WriteInv, SeqInv, Built
  <2>3. \A r \in pending' : (r \in pending /\ r.tx /= tx[s]) \/ r = [tx |-> tx[s], at |-> now]
    BY <1>6 DEF Remember, Put
  <2>4. \A r \in pending : r.tx.acct = tx[s].acct => r.tx = tx[s]
    BY <2>1, <2>2 DEF FileInv, ItemsOf, Built
  <2>5. \A r \in pending' : r.tx.acct = tx[s].acct => r = [tx |-> tx[s], at |-> now]
    BY <2>3, <2>4
  <2>6. \A r, q \in pending' : r.tx.acct = q.tx.acct => r = q
    BY <2>3, <2>5 DEF FileInv
  <2>7. QED
    BY <2>1, <2>2, <2>5, <2>6 DEF FileInv, ItemsOf, Built
<1>7. QED
  BY <1>2, <1>4, <1>5, <1>6 DEF Submit

THEOREM FileStep == OneWriter /\ TypeOK /\ WriteInv /\ FileInv /\ [Next]_vars => FileInv'
<1> SUFFICES ASSUME OneWriter, TypeOK, WriteInv, FileInv, [Next]_vars PROVE FileInv'
  OBVIOUS
<1>1. CASE UNCHANGED vars
  BY <1>1 DEF FileInv, vars, flowVars
<1>2. ASSUME NEW s \in Sessions, Reconcile(s) \/ Prepare(s) \/ Submit(s) PROVE FileInv'
  BY <1>2, ReconcileFileInv, PrepareFileInv, SubmitFileInv
<1>3. ASSUME NEW s \in Sessions, Abandon(s) PROVE FileInv'
  BY <1>3, LeaveFileInv DEF Abandon
<1>4. CASE Network \/ Tick
  BY <1>4 DEF Network, Include, Evict, Tick, flowVars, FileInv
<1>5. QED
  BY <1>1, <1>2, <1>3, <1>4 DEF Next

-----------------------------------------------------------------------------
Opened == {r.tx : r \in pending}

\* A reconciliation that rewrites the file closes at most one transaction, one
\* that the ledger holds or that is too late but for its exposure.
LEMMA SaveCloses ==
  ASSUME TypeOK, AgeInv, WriteInv, FileInv, NEW s \in Sessions, pc[s] = "reconcile",
         SaveRetained(s), UNCHANGED <<now, netVars>>
  PROVE  [Promise!Next]_(Promise!writeVars)
<1>1. CASE settled[s] = {}
  BY <1>1 DEF SaveRetained, netVars, Promise!writeVars
<1>2. CASE settled[s] /= {}
  <2>1. PICK r \in settled[s] : TRUE
    BY <1>2
  <2>2. pending' = pending \ settled[s]
    BY <1>2 DEF SaveRetained, Retained, WriteInv, SnapshotInv
  <2>3. \A q \in settled[s] : q \in pending /\ q.tx.acct = job[s].acct
    BY DEF FileInv, ItemsOf, WriteInv, SnapshotInv
  <2>4. settled[s] = {r}
    BY <2>1, <2>3 DEF FileInv
  <2>5. r \in pending /\ \A q \in pending : q.tx = r.tx => q = r
    BY <2>1, <2>3 DEF FileInv
  <2>6. Opened' = Opened \ {r.tx} /\ r.tx \in Opened
    BY <2>2, <2>4, <2>5 DEF Opened
  <2>7. r.tx \in applied \/ r.tx.maxTime < now + ExposureOf(r.tx)
    BY <2>1 DEF WriteInv, SnapshotInv, AgeInv, ExpiredIsLate, ExposureOf
  <2>8. Promise!Close(r.tx)
    BY <2>6, <2>7 DEF Promise!Close, Opened, netVars
  <2>9. QED
    BY <2>6, <2>8 DEF Promise!Next, Opened
<1>3. QED
  BY <1>1, <1>2

\* What a session that has an envelope may send and remember.
LEMMA OwnIsOpen ==
  ASSUME TypeOK, WriteInv, FileInv, NEW s \in Sessions, pc[s] \in Built
  PROVE  /\ tx[s] \in Tx /\ tx[s].seq \in Nat
         /\ Promise!Rivals(Opened, tx[s]) = {}
         /\ tx[s].seq <= seq[tx[s].acct] + 1
         /\ \A u \in Promise!Rivals(inflight \union applied, tx[s]) : u.seq <= tx[s].seq
<1>1. tx[s] \in Tx /\ tx[s].seq \in Nat /\ tx[s].acct = job[s].acct
  BY DEF TypeOK, Tx, Built, WriteInv, SeqInv
<1>2. \A r \in pending : r.tx.acct = tx[s].acct => r.tx = tx[s]
  BY <1>1 DEF FileInv, ItemsOf
<1>3. Promise!Rivals(Opened, tx[s]) = {}
  BY <1>2 DEF Promise!Rivals, Opened
<1>4. \A u \in Promise!Rivals(inflight \union applied, tx[s]) : u.seq <= tx[s].seq
  BY <1>1 DEF Promise!Rivals, WriteInv, WriterInv, Known
<1>5. QED
  BY <1>1, <1>3, <1>4 DEF WriteInv, SeqInv

\* Every step of the sessions, the network and the clock is a step of the
\* promise or none.
LEMMA StepKeepsPromise ==
  TypeOK /\ AgeInv /\ WriteInv /\ FileInv /\ [Next]_vars => [Promise!Next]_(Promise!writeVars)
<1> SUFFICES ASSUME TypeOK, AgeInv, WriteInv, FileInv, [Next]_vars
             PROVE  [Promise!Next]_(Promise!writeVars)
  OBVIOUS
<1>quiet. ASSUME UNCHANGED <<now, netVars, pending>> PROVE UNCHANGED Promise!writeVars
  BY <1>quiet DEF netVars, Promise!writeVars
<1>1. CASE UNCHANGED vars
  BY <1>1, <1>quiet DEF vars
<1>2. ASSUME NEW s \in Sessions, Reconcile(s) PROVE [Promise!Next]_(Promise!writeVars)
  <2>1. CASE ReconcileBlocked(s) \/ ReconcileClear(s)
    BY <2>1, SaveCloses DEF ReconcileBlocked, ReconcileClear
  <2>2. CASE (\E j \in Job : Begin(s, j)) \/ \E r \in todo[s] :
               LookupFound(s, r) \/ LookupExpired(s, r) \/ LookupPending(s, r)
    BY <2>2, <1>quiet DEF Begin, LookupFound, LookupExpired, LookupPending
  <2>3. QED
    BY <1>2, <2>1, <2>2 DEF Reconcile
<1>3. ASSUME NEW s \in Sessions, Prepare(s) PROVE [Promise!Next]_(Promise!writeVars)
  BY <1>3, <1>quiet DEF Prepare, FetchAccount, BuildEnvelope, Sign
<1>4. ASSUME NEW s \in Sessions, Submit(s) PROVE [Promise!Next]_(Promise!writeVars)
  <2>1. CASE PostDelivered(s)
    <3>1. pc[s] \in Built /\ UNCHANGED <<now, seq, applied, pending>>
      BY <2>1 DEF PostDelivered, MayPost, Built
    <3>2. CASE tx[s] \in applied
      BY <2>1, <3>1, <3>2, <1>quiet DEF PostDelivered, netVars
    <3>3. CASE tx[s] \notin applied
      <4>1. inflight' = inflight \union {tx[s]}
        BY <2>1, <3>3 DEF PostDelivered
      <4>2. Promise!Send(tx[s])
        BY <3>1, <4>1, OwnIsOpen DEF Promise!Send, Opened
      <4>3. QED
        BY <4>1, <4>2 DEF Promise!Next
    <3>4. QED
      BY <3>2, <3>3
  <2>2. CASE Remember(s)
    <3>1. pc[s] \in Built /\ UNCHANGED <<now, netVars>> /\ pending' = Put(pending, tx[s], now)
      BY <2>2 DEF Remember, Built
    <3>2. Opened' = Opened \union {tx[s]} /\ tx[s] \in Opened'
      <4>1. [tx |-> tx[s], at |-> now] \in pending'
        BY <3>1 DEF Put
      <4>2. \A r \in pending : r.tx = tx[s] \/ r \in pending'
        BY <3>1 DEF Put
      <4>3. \A r \in pending' : r.tx = tx[s] \/ r \in pending
        BY <3>1 DEF Put
      <4>4. tx[s] \in Opened'
        BY <4>1 DEF Opened
      <4>5. \A u : u \in Opened' <=> u \in Opened \union {tx[s]}
        BY <4>2, <4>3, <4>4 DEF Opened
      <4>6. QED
        BY <4>4, <4>5
    <3>3. Promise!Open(tx[s])
      BY <3>1, <3>2, OwnIsOpen DEF Promise!Open, Opened, netVars
    <3>4. \E t \in Opened' : Promise!Open(t)
      BY <3>2, <3>3 DEF Promise!Open
    <3>5. QED
      BY <3>4 DEF Promise!Next, Opened
  <2>3. CASE SubmitRefused(s) \/ PostLost(s) \/ RespondIncluded(s) \/ RespondAccepted(s)
             \/ RespondLost(s) \/ PollTerminal(s) \/ PollNotFound(s) \/ PollGivesUp(s)
             \/ RememberFails(s)
    BY <2>3, <1>quiet DEF SubmitRefused, PostLost, RespondIncluded, RespondAccepted, RespondLost,
       PollTerminal, PollNotFound, PollGivesUp, RememberFails, SeeResult
  <2>4. QED
    BY <1>4, <2>1, <2>2, <2>3 DEF Submit
<1>5. ASSUME NEW s \in Sessions, Abandon(s) PROVE [Promise!Next]_(Promise!writeVars)
  BY <1>5, <1>quiet DEF Abandon
<1>6. ASSUME NEW t \in inflight, Include(t) PROVE Promise!Next
  <2>1. Promise!Include(t)
    BY <1>6 DEF Include, NotExpired, Promise!Include
  <2>2. QED
    BY <2>1 DEF Promise!Next
<1>7. ASSUME NEW t \in inflight, Evict(t) PROVE Promise!Next
  <2>1. Promise!Drop(t)
    BY <1>7 DEF Evict, Promise!Drop
  <2>2. QED
    BY <2>1 DEF Promise!Next
<1>8. ASSUME Tick PROVE Promise!Next
  BY <1>8 DEF Tick, netVars, Promise!Next, Promise!Tick
<1>9. QED
  BY <1>1, <1>2, <1>3, <1>4, <1>5, <1>6, <1>7, <1>8 DEF Next, Network

\* One session implements OneOpenWrite, whatever the network, the gateways and
\* the file system do and whatever the timeouts and the TTL are.
THEOREM OneSessionKeepsPromise == OneWriter => (Spec => ImplementsOneOpenWrite)
<1> SUFFICES ASSUME OneWriter PROVE Spec => ImplementsOneOpenWrite
  OBVIOUS
<1>1. Init => Promise!Init
  BY DEF Init, Promise!Init
<1>2. Spec => []FileInv
  BY FileInit, FileStep, TypeCorrect, WriteInvariant, PTL DEF Spec
<1>3. QED
  BY <1>1, <1>2, AgeInvariant, StepKeepsPromise, TypeCorrect, WriteInvariant, PTL
     DEF Spec, ImplementsOneOpenWrite, Promise!Spec

-----------------------------------------------------------------------------
(***************************************************************************)
(* What the promise is worth, whoever keeps it.                            *)
(***************************************************************************)

\* An open transaction is the account's only open one and its latest: nothing
\* of the account is sent or included after it.
THEOREM PromiseIsKept == Promise!Spec => []Promise!NothingOvertakes
<1>1. Promise!Init => Promise!NothingOvertakes
  BY DEF Promise!Init, Promise!NothingOvertakes
<1>2. Promise!NothingOvertakes /\ [Promise!Next]_(Promise!writeVars) => Promise!NothingOvertakes'
  <2> SUFFICES ASSUME Promise!NothingOvertakes, [Promise!Next]_(Promise!writeVars)
               PROVE  Promise!NothingOvertakes'
    OBVIOUS
  <2>1. CASE UNCHANGED Promise!writeVars
    BY <2>1 DEF Promise!writeVars, Promise!NothingOvertakes, Promise!Rivals
  <2>2. ASSUME NEW t \in inflight', Promise!Send(t) PROVE Promise!NothingOvertakes'
    BY <2>2 DEF Promise!Send, Promise!NothingOvertakes, Promise!Rivals
  <2>3. ASSUME NEW t \in Opened', Promise!Open(t) PROVE Promise!NothingOvertakes'
    BY <2>3 DEF Promise!Open, Promise!NothingOvertakes, Promise!Rivals
  <2>4. ASSUME NEW t \in Opened, Promise!Close(t) PROVE Promise!NothingOvertakes'
    BY <2>4 DEF Promise!Close, Promise!NothingOvertakes, Promise!Rivals
  <2>5. ASSUME NEW t \in inflight, Promise!Include(t) \/ Promise!Drop(t)
        PROVE  Promise!NothingOvertakes'
    BY <2>5 DEF Promise!Include, Promise!Drop, Promise!NothingOvertakes, Promise!Rivals
  <2>6. ASSUME Promise!Tick PROVE Promise!NothingOvertakes'
    BY <2>6 DEF Promise!Tick, Promise!NothingOvertakes, Promise!Rivals
  <2>7. QED
    BY <2>1, <2>2, <2>3, <2>4, <2>5, <2>6 DEF Promise!Next, Opened
<1>3. QED
  BY <1>1, <1>2, PTL DEF Promise!Spec

\* Under the same conditions the client itself never lets anything of an account
\* be sent or included after a transaction whose outcome is open.
THEOREM OpenWritesAreLatest == OneWriter => (Spec => []Promise!NothingOvertakes)
  BY OneSessionKeepsPromise, PromiseIsKept, PTL DEF ImplementsOneOpenWrite
=============================================================================
