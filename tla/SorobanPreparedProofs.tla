---------------------- MODULE SorobanPreparedProofs ----------------------
(***************************************************************************)
(* Safety of prepared Soroban invocations for any number of handles,       *)
(* bodies, entries, keys and networks.  The inductive invariant says of    *)
(* every handle what its private fields stand for, whatever the product    *)
(* assigned to the public ones:                                            *)
(*                                                                         *)
(*   - the reviewed hash is that of an unsigned body some review shows;    *)
(*   - the authorized hash, when there is one, is the hash of that review; *)
(*   - a handle whose signing completed has an authorized hash whose       *)
(*     signing completed.                                                  *)
(*                                                                         *)
(* The bindings then carry these facts over to the public envelope at the  *)
(* moment a key signs or the envelope is submitted.                        *)
(***************************************************************************)
EXTENDS SorobanPrepared, TLAPS

\* What an unsigned body reviewed for a network hashes to.
Unsigned(r) == [body |-> r.body, auth |-> {}, network |-> r.network]

\* What the private fields of a handle stand for.
Bound(p) ==
    /\ \E r \in reviews :
          /\ p.reviewed_hash = Unsigned(r)
          /\ p.authorized_hash \in {None, HashOfReview(r)}
    /\ p.authorized_hash = None <=> p.authorized_envelope = None
    /\ p.envelope_signing_complete => p.authorized_hash \in completed

HandlesBound == \A h \in Handles : handle[h] /= None => Bound(handle[h])

\* A body is reviewed once, for one network.
ReviewedOnce == \A r, q \in reviews : r.body = q.body => r = q

CompletedIsReviewed == \A c \in completed : \E r \in reviews : c = HashOfReview(r)

IInv ==
    /\ TypeOK
    /\ HandlesBound
    /\ ReviewedOnce
    /\ CompletedIsReviewed
    /\ SignedIsReviewed
    /\ SubmittedIsSigned

-----------------------------------------------------------------------------
\* The hash of an envelope for a network is a transaction hash.
LEMMA HashType ==
    ASSUME NEW e \in Envelope, NEW n \in Networks
    PROVE  HashOf(e, n) \in TransactionHash
BY DEF Envelope, TransactionHash, HashOf

\* A handle in use is a PreparedSorobanTransaction.
LEMMA HandleType ==
    ASSUME TypeOK, NEW h \in Handles, handle[h] /= None
    PROVE  handle[h] \in Prepared
BY DEF TypeOK

LEMMA InitEstablishes == Init => IInv
BY DEF Init, IInv, TypeOK, HandlesBound, ReviewedOnce, CompletedIsReviewed,
       SignedIsReviewed, SubmittedIsSigned

-----------------------------------------------------------------------------
\* A preparation adds a review of a body no review has, and binds its handle to it.
LEMMA PrepareStep ==
    ASSUME IInv, NEW h \in Handles, NEW b \in Bodies, NEW n \in Networks,
           Prepare(h, b, n)
    PROVE  IInv'
<1> DEFINE e == [body |-> b, auth |-> {}, sigs |-> {}]
           r == [body |-> b, network |-> n]
           p == [envelope |-> e, network |-> n,
                 reviewed_envelope |-> e, reviewed_hash |-> HashOf(e, n),
                 authorized_envelope |-> None, authorized_hash |-> None,
                 envelope_signing_complete |-> FALSE]
<1>1. /\ handle' = [handle EXCEPT ![h] = p]
      /\ reviews' = reviews \union {r}
      /\ \A q \in reviews : q.body /= b
      /\ UNCHANGED <<now, kind, signed, completed, submitted>>
  BY DEF Prepare
<1>2. e \in Envelope BY DEF Envelope
<1>3. p \in Prepared
  <2>1. HashOf(e, n) \in TransactionHash BY <1>2, HashType
  <2> QED BY <1>2, <2>1 DEF Prepared
<1>4. TypeOK'
  <2> HIDE DEF p
  <2> QED BY <1>1, <1>3 DEF IInv, TypeOK
<1>5. \A x : (HashOfReview(x))' = HashOfReview(x)
  BY <1>1 DEF HashOfReview, Detached
<1>6. HandlesBound'
  <2> SUFFICES ASSUME NEW g \in Handles, handle'[g] /= None
               PROVE  Bound(handle[g])'
    BY DEF HandlesBound
  <2>1. CASE g = h
    <3>1. handle'[g] = p BY <1>1, <2>1 DEF IInv, TypeOK
    <3>2. p.reviewed_hash = Unsigned(r) BY DEF Unsigned, HashOf
    <3>3. r \in reviews' BY <1>1
    <3>4. /\ p.authorized_hash = None
          /\ p.authorized_envelope = None
          /\ p.envelope_signing_complete = FALSE
      OBVIOUS
    <3> HIDE DEF p, r
    <3> QED BY <3>1, <3>2, <3>3, <3>4 DEF Bound, Unsigned
  <2>2. CASE g /= h
    <3>1. handle'[g] = handle[g] BY <1>1, <2>2 DEF IInv, TypeOK
    <3>2. Bound(handle[g]) BY <3>1 DEF IInv, HandlesBound
    <3>3. reviews \subseteq reviews' /\ completed' = completed BY <1>1
    <3> HIDE DEF p, r
    <3> QED BY <1>5, <3>1, <3>2, <3>3 DEF Bound, Unsigned
  <2> QED BY <2>1, <2>2
<1>7. ReviewedOnce' BY <1>1 DEF IInv, ReviewedOnce
<1>8. CompletedIsReviewed' /\ SignedIsReviewed'
  BY <1>1, <1>5 DEF IInv, CompletedIsReviewed, SignedIsReviewed
<1>9. SubmittedIsSigned' BY <1>1 DEF IInv, SubmittedIsSigned
<1> QED BY <1>4, <1>6, <1>7, <1>8, <1>9 DEF IInv

\* A step that leaves the histories alone and, of the private fields, at most
\* copies those of another handle keeps the invariant.
LEMMA HandleStep ==
    ASSUME IInv, NEW h \in Handles, NEW p \in Prepared, Bound(p),
           handle' = [handle EXCEPT ![h] = p],
           UNCHANGED <<now, kind, reviews, signed, completed, submitted>>
    PROVE  IInv'
<1>1. TypeOK' BY DEF IInv, TypeOK
<1>3. \A x : (HashOfReview(x))' = HashOfReview(x)
  BY DEF HashOfReview, Detached
<1>4. HandlesBound'
  <2> SUFFICES ASSUME NEW g \in Handles, handle'[g] /= None
               PROVE  Bound(handle[g])'
    BY DEF HandlesBound
  <2>1. handle'[g] = IF g = h THEN p ELSE handle[g] BY DEF IInv, TypeOK
  <2>2. Bound(handle'[g]) BY <2>1 DEF IInv, HandlesBound
  <2> QED BY <2>2, <1>3 DEF Bound, Unsigned
<1>5. ReviewedOnce' /\ CompletedIsReviewed' /\ SignedIsReviewed' /\ SubmittedIsSigned'
  BY <1>3 DEF IInv, ReviewedOnce, CompletedIsReviewed, SignedIsReviewed, SubmittedIsSigned
<1> QED BY <1>1, <1>4, <1>5 DEF IInv

\* The product clones a handle or assigns its public fields.
LEMMA ProductStep ==
    ASSUME IInv, NEW h \in Handles, Product(h)
    PROVE  IInv'
<1>1. CASE \E g \in Handles : Clone(h, g)
  <2>1. PICK g \in Handles : Clone(h, g) BY <1>1
  <2>2. handle[g] \in Prepared /\ Bound(handle[g])
    BY <2>1, HandleType DEF Clone, IInv, HandlesBound
  <2> QED BY <2>1, <2>2, HandleStep DEF Clone
<1>2. CASE \E b \in Bodies, a \in SUBSET Entries, s \in SUBSET signed :
             AssignEnvelope(h, b, a, s)
  <2>1. PICK b \in Bodies, a \in SUBSET Entries, s \in SUBSET signed :
             AssignEnvelope(h, b, a, s)
    BY <1>2
  <2> DEFINE p == [handle[h] EXCEPT !.envelope = [body |-> b, auth |-> a, sigs |-> s]]
  <2>2. handle[h] \in Prepared /\ Bound(handle[h])
    BY <2>1, HandleType DEF AssignEnvelope, IInv, HandlesBound
  <2>3. [body |-> b, auth |-> a, sigs |-> s] \in Envelope
    BY DEF Envelope, IInv, TypeOK
  <2>4. p \in Prepared BY <2>2, <2>3 DEF Prepared
  <2>5. Bound(p) BY <2>2 DEF Bound, Prepared
  <2>6. handle' = [handle EXCEPT ![h] = p]
    BY <2>1 DEF AssignEnvelope
  <2> QED BY <2>1, <2>4, <2>5, <2>6, HandleStep DEF AssignEnvelope
<1>3. CASE \E n \in Networks : AssignNetwork(h, n)
  <2>1. PICK n \in Networks : AssignNetwork(h, n) BY <1>3
  <2> DEFINE p == [handle[h] EXCEPT !.network = n]
  <2>2. handle[h] \in Prepared /\ Bound(handle[h])
    BY <2>1, HandleType DEF AssignNetwork, IInv, HandlesBound
  <2>3. p \in Prepared BY <2>2 DEF Prepared
  <2>4. Bound(p) BY <2>2 DEF Bound, Prepared
  <2>5. handle' = [handle EXCEPT ![h] = p] BY <2>1 DEF AssignNetwork
  <2> QED BY <2>1, <2>3, <2>4, <2>5, HandleStep DEF AssignNetwork
<1> QED BY <1>1, <1>2, <1>3 DEF Product

-----------------------------------------------------------------------------
\* Authorization starts from the reviewed envelope: its hash is the review's
\* with the detached entries of the reviewed body signed.
LEMMA AuthorizeStep ==
    ASSUME IInv, NEW h \in Handles, Authorize(h)
    PROVE  IInv'
<1>1. PICK a \in SUBSET Entries : AuthorizeSome(h, a) BY DEF Authorize
<1> DEFINE p == handle[h]
           e == [p.envelope EXCEPT !.auth = a]
           q == [p EXCEPT !.envelope = e, !.authorized_envelope = e,
                          !.authorized_hash = HashOf(e, p.network)]
<1>2. p /= None /\ ReviewBinding(p) /\ p.authorized_envelope = None
      /\ a = Detached(p.envelope.body)
  BY <1>1 DEF AuthorizeSome, AuthorizedAuth
<1>3. p \in Prepared /\ Bound(p) BY <1>2, HandleType DEF IInv, HandlesBound
<1>4. e \in Envelope BY <1>3 DEF Prepared, Envelope
<1>5. HashOf(e, p.network) \in TransactionHash BY <1>3, <1>4, HashType DEF Prepared
<1>6. q \in Prepared BY <1>3, <1>4, <1>5 DEF Prepared
<1>7. PICK r \in reviews : p.reviewed_hash = Unsigned(r) BY <1>3 DEF Bound
<1>8. HashOf(p.envelope, p.network) = Unsigned(r)
  BY <1>2, <1>3, <1>7 DEF ReviewBinding, SigningHash, Bound
<1>9. p.envelope.body = r.body /\ p.network = r.network
  BY <1>8 DEF HashOf, Unsigned
<1>10. HashOf(e, p.network) = HashOfReview(r)
  BY <1>2, <1>3, <1>9 DEF HashOf, HashOfReview, Prepared, Envelope
<1>11. Bound(q)
  <2>1. q.reviewed_hash = Unsigned(r) /\ q.authorized_hash = HashOfReview(r)
    BY <1>3, <1>7, <1>10 DEF Prepared
  <2>2. q.authorized_hash /= None /\ q.authorized_envelope /= None
    BY <1>3, <1>4, <1>5, NoneAssumption DEF Prepared
  <2>3. ~q.envelope_signing_complete \/ q.authorized_hash \in completed
    <3>1. ~p.envelope_signing_complete \/ None \in completed
      BY <1>2, <1>3 DEF Bound
    <3>2. None \notin completed BY NoneAssumption DEF IInv, TypeOK
    <3> QED BY <1>3, <3>1, <3>2 DEF Prepared
  <2> QED BY <2>1, <2>2, <2>3 DEF Bound
<1>12. handle' = [handle EXCEPT ![h] = q] BY <1>1 DEF AuthorizeSome
<1>13. UNCHANGED <<now, kind, reviews, signed, completed, submitted>>
  BY <1>1 DEF AuthorizeSome
<1> HIDE DEF q
<1> QED BY <1>6, <1>11, <1>12, <1>13, HandleStep

\* Envelope signing starts from the authorized envelope, so every signature it
\* adds is of the authorized hash, whether or not it completes.
LEMMA SignStep ==
    ASSUME IInv, NEW h \in Handles, NEW keys \in SUBSET Keys, NEW complete \in BOOLEAN,
           SignWith(h, keys, complete)
    PROVE  IInv'
<1> DEFINE p == handle[h]
           hash == HashOf(p.envelope, p.network)
           new == {<<k, hash>> : k \in keys}
           q == [p EXCEPT !.envelope.sigs = @ \union new,
                          !.envelope_signing_complete = complete]
<1>1. p /= None /\ p.authorized_envelope /= None /\ ReviewBinding(p)
  BY DEF SignWith, MaySign
<1>2. p \in Prepared /\ Bound(p) BY <1>1, HandleType DEF IInv, HandlesBound
<1>3. p.envelope \in Envelope /\ hash \in TransactionHash
  BY <1>2, HashType DEF Prepared
<1>4. new \subseteq Keys \X TransactionHash BY <1>3
<1>5. [p.envelope EXCEPT !.sigs = @ \union new] \in Envelope
  <2> HIDE DEF new
  <2> QED BY <1>3, <1>4 DEF Envelope
<1>6. q = [p EXCEPT !.envelope = [p.envelope EXCEPT !.sigs = @ \union new],
                    !.envelope_signing_complete = complete]
  BY <1>2, <1>3 DEF Prepared, Envelope
<1>7. q \in Prepared
  <2> HIDE DEF new
  <2> QED BY <1>2, <1>5, <1>6 DEF Prepared
<1>8. PICK r \in reviews : /\ p.reviewed_hash = Unsigned(r)
                           /\ p.authorized_hash \in {None, HashOfReview(r)}
  BY <1>2 DEF Bound
<1>9. p.authorized_hash = HashOfReview(r) /\ hash = p.authorized_hash
  BY <1>1, <1>2, <1>8 DEF Bound, ReviewBinding, SigningHash
<1>10. /\ handle' = [handle EXCEPT ![h] = q]
       /\ signed' = signed \union new
       /\ completed' = IF complete THEN completed \union {hash} ELSE completed
       /\ UNCHANGED <<now, kind, reviews, submitted>>
  BY DEF SignWith
<1>11. \A x : (HashOfReview(x))' = HashOfReview(x)
  BY <1>10 DEF HashOfReview, Detached
<1>12. TypeOK'
  <2> HIDE DEF q, new, hash
  <2> QED BY <1>3, <1>4, <1>7, <1>10 DEF IInv, TypeOK
<1>13. HandlesBound'
  <2> SUFFICES ASSUME NEW g \in Handles, handle'[g] /= None
               PROVE  Bound(handle[g])'
    BY DEF HandlesBound
  <2>1. completed \subseteq completed' BY <1>10
  <2>2. CASE g = h
    <3>1. handle'[g] = q BY <1>10, <2>2 DEF IInv, TypeOK
    <3>2. /\ q.reviewed_hash = p.reviewed_hash
          /\ q.authorized_hash = p.authorized_hash
          /\ q.authorized_envelope = p.authorized_envelope
          /\ q.envelope_signing_complete = complete
      BY <1>2, <1>6 DEF Prepared
    <3>3. complete => q.authorized_hash \in completed' BY <1>9, <1>10, <3>2
    <3> HIDE DEF q, p
    <3>4. q.authorized_hash = None <=> q.authorized_envelope = None
      BY <1>2, <3>2 DEF Bound
    <3> QED BY <1>8, <1>10, <1>11, <3>1, <3>2, <3>3, <3>4 DEF Bound, Unsigned
  <2>3. CASE g /= h
    <3>1. handle'[g] = handle[g] BY <1>10, <2>3 DEF IInv, TypeOK
    <3>2. Bound(handle[g]) BY <3>1 DEF IInv, HandlesBound
    <3> QED BY <1>10, <1>11, <2>1, <3>1, <3>2 DEF Bound, Unsigned
  <2> QED BY <2>2, <2>3
<1>14. CompletedIsReviewed' BY <1>8, <1>9, <1>10, <1>11 DEF IInv, CompletedIsReviewed
<1>15. SignedIsReviewed' BY <1>8, <1>9, <1>10, <1>11 DEF IInv, SignedIsReviewed
<1>16. ReviewedOnce' /\ SubmittedIsSigned'
  BY <1>10 DEF IInv, ReviewedOnce, SubmittedIsSigned
<1> QED BY <1>12, <1>13, <1>14, <1>15, <1>16 DEF IInv

\* A submission needs a completed handle whose envelope still has its hash.
LEMMA SubmitStep ==
    ASSUME IInv, NEW h \in Handles, NEW n \in Networks, Submit(h, n)
    PROVE  IInv'
<1> DEFINE p == handle[h]
           hash == HashOf(p.envelope, n)
<1>1. /\ p /= None /\ p.envelope_signing_complete
      /\ hash = SigningHash(p)
      /\ submitted' = submitted \union {hash}
      /\ UNCHANGED <<now, kind, handle, reviews, signed, completed>>
  BY DEF Submit, SigningComplete, SubmitBinding
<1>2. Bound(p) BY <1>1 DEF IInv, HandlesBound
<1>3. p.authorized_hash \in completed BY <1>1, <1>2 DEF Bound
<1>4. p.authorized_hash /= None BY <1>3, NoneAssumption DEF IInv, TypeOK
<1>5. hash \in completed BY <1>1, <1>3, <1>4 DEF SigningHash
<1>6. \A x : (HashOfReview(x))' = HashOfReview(x)
  BY <1>1 DEF HashOfReview, Detached
<1> HIDE DEF hash
<1>7. TypeOK' BY <1>1, <1>5 DEF IInv, TypeOK
<1>8. HandlesBound'
  <2> SUFFICES ASSUME NEW g \in Handles, handle'[g] /= None
               PROVE  Bound(handle[g])'
    BY DEF HandlesBound
  <2>1. Bound(handle[g]) BY <1>1 DEF IInv, HandlesBound
  <2> QED BY <1>1, <1>6, <2>1 DEF Bound, Unsigned
<1>9. ReviewedOnce' BY <1>1 DEF IInv, ReviewedOnce
<1>10. CompletedIsReviewed' BY <1>1, <1>6 DEF IInv, CompletedIsReviewed
<1>11. SignedIsReviewed' BY <1>1, <1>6 DEF IInv, SignedIsReviewed
<1>12. SubmittedIsSigned' BY <1>1, <1>5 DEF IInv, SubmittedIsSigned
<1> QED BY <1>7, <1>8, <1>9, <1>10, <1>11, <1>12 DEF IInv

\* Time does not enter the invariant.
LEMMA QuietStep ==
    ASSUME IInv, now' \in Nat,
           UNCHANGED <<kind, handle, reviews, signed, completed, submitted>>
    PROVE  IInv'
<1>1. TypeOK' BY DEF IInv, TypeOK
<1>2. \A x : (HashOfReview(x))' = HashOfReview(x) BY DEF HashOfReview, Detached
<1>3. HandlesBound'
  <2> SUFFICES ASSUME NEW g \in Handles, handle'[g] /= None
               PROVE  Bound(handle[g])'
    BY DEF HandlesBound
  <2>1. Bound(handle[g]) BY DEF IInv, HandlesBound
  <2> QED BY <1>2, <2>1 DEF Bound, Unsigned
<1>4. ReviewedOnce' BY DEF IInv, ReviewedOnce
<1>5. CompletedIsReviewed' BY <1>2 DEF IInv, CompletedIsReviewed
<1>6. SignedIsReviewed' BY <1>2 DEF IInv, SignedIsReviewed
<1>7. SubmittedIsSigned' BY DEF IInv, SubmittedIsSigned
<1> QED BY <1>1, <1>3, <1>4, <1>5, <1>6, <1>7 DEF IInv

LEMMA NextPreserves == IInv /\ [Next]_vars => IInv'
<1> SUFFICES ASSUME IInv, [Next]_vars PROVE IInv'
  OBVIOUS
<1>1. ASSUME NEW h \in Handles, Product(h) PROVE IInv'
  BY <1>1, ProductStep
<1>2. ASSUME NEW h \in Handles, Client(h) PROVE IInv'
  <2>1. CASE \E b \in Bodies, n \in Networks : Prepare(h, b, n)
    BY <2>1, PrepareStep
  <2>2. CASE Authorize(h) BY <2>2, AuthorizeStep
  <2>3. CASE \E keys \in SUBSET Keys \ {{}} : Sign(h, keys) \/ SignPartly(h, keys)
    BY <2>3, SignStep DEF Sign, SignPartly
  <2>4. CASE \E n \in Networks : Submit(h, n) BY <2>4, SubmitStep
  <2> QED BY <1>2, <2>1, <2>2, <2>3, <2>4 DEF Client
<1>3. CASE Tick
  <2>1. now' \in Nat BY <1>3 DEF Tick, IInv, TypeOK
  <2> QED BY <1>3, <2>1, QuietStep DEF Tick
<1>4. CASE UNCHANGED vars
  <2>1. now' \in Nat BY <1>4 DEF vars, IInv, TypeOK
  <2> QED BY <1>4, <2>1, QuietStep DEF vars
<1> QED BY <1>1, <1>2, <1>3, <1>4 DEF Next

\* The inductive invariant holds in every reachable state.
THEOREM PreparedInvariant == Spec => []IInv
BY InitEstablishes, NextPreserves, PTL DEF Spec

\* Every key signs only the hash of a transaction that was reviewed and fully
\* authorized: sign_prepared_soroban after any assignments to the public fields.
THEOREM KeysSignWhatWasReviewed == Spec => []SignedIsReviewed
<1>1. IInv => SignedIsReviewed BY DEF IInv
<1> QED BY <1>1, PreparedInvariant, PTL

\* submit_prepared_soroban hands over only hashes whose signing completed.
THEOREM OnlySignedIsSubmitted == Spec => []SubmittedIsSigned
<1>1. IInv => SubmittedIsSigned BY DEF IInv
<1> QED BY <1>1, PreparedInvariant, PTL

\* All clones of one preparation submit the same transaction.
THEOREM ClonesSubmitOneTransaction == Spec => []OneTransactionPerReview
<1>1. IInv => OneTransactionPerReview
  <2> SUFFICES ASSUME IInv, NEW t1 \in submitted, NEW t2 \in submitted, t1.body = t2.body
               PROVE  t1 = t2
    BY DEF OneTransactionPerReview
  <2>1. PICK r1 \in reviews : t1 = HashOfReview(r1)
    BY DEF IInv, SubmittedIsSigned, CompletedIsReviewed
  <2>2. PICK r2 \in reviews : t2 = HashOfReview(r2)
    BY DEF IInv, SubmittedIsSigned, CompletedIsReviewed
  <2>3. r1.body = r2.body BY <2>1, <2>2 DEF HashOfReview
  <2>4. r1 = r2 BY <2>3 DEF IInv, ReviewedOnce
  <2> QED BY <2>1, <2>2, <2>4
<1> QED BY <1>1, PreparedInvariant, PTL
=============================================================================
