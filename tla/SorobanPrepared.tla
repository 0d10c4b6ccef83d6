-------------------------- MODULE SorobanPrepared --------------------------
(***************************************************************************)
(* The life of a prepared Soroban invocation: simulated and reviewed, its  *)
(* detached authorization entries signed, its envelope signed, submitted.  *)
(*                                                                         *)
(* PreparedSorobanTransaction is Clone and its fields envelope and review  *)
(* are public: a product may keep several handles of one preparation, use  *)
(* them in any order, and assign to those fields.  The private fields bind *)
(* a handle to what was reviewed and, later, to what was authorized.       *)
(*                                                                         *)
(* Transaction content is abstracted to a body (one per simulation: call,  *)
(* footprint, fee, sequence number, time bounds and unsigned entries), the *)
(* set of entries that carry a signature, and the envelope signatures.     *)
(***************************************************************************)
EXTENDS Naturals

CONSTANTS
    Handles,    \* PreparedSorobanTransaction values a product holds
    Bodies,     \* assembled transaction bodies
    Networks,   \* network passphrases
    Entries,    \* authorization entries of a simulation
    Kinds,      \* credential kinds a simulation may return for an entry
    Keys,       \* local and provider keys that sign envelopes
    MaxTime,    \* upper time bound of every body
    MaxNow,     \* bound of the clock
    None        \* no value: Option::None, a handle not in use

ASSUME KindsAssumption ==
    Kinds \subseteq {"source", "address", "contract", "delegated"}
ASSUME TimeAssumption == MaxTime \in Nat /\ MaxNow \in Nat

VARIABLES
    now,        \* wall clock
    kind,       \* body -> entry -> its credential kind
    handle,     \* handle -> PreparedSorobanTransaction
    reviews,    \* history: what was reviewed, body and network
    signed,     \* history: hashes a key has signed, with the key
    completed,  \* history: hashes whose envelope signing completed
    submitted   \* history: hashes handed to the network

vars == <<now, kind, handle, reviews, signed, completed, submitted>>

\* A transaction hash covers the body with its entries, signed or not, and the
\* network, but no envelope signature.
TransactionHash == [body: Bodies, auth: SUBSET Entries, network: Networks]

Envelope == [body: Bodies, auth: SUBSET Entries, sigs: SUBSET (Keys \X TransactionHash)]

Prepared ==
    [envelope: Envelope, network: Networks,
     reviewed_envelope: Envelope, reviewed_hash: TransactionHash,
     authorized_envelope: Envelope \union {None},
     authorized_hash: TransactionHash \union {None},
     envelope_signing_complete: BOOLEAN]

ASSUME NoneAssumption ==
    /\ None \notin Prepared
    /\ None \notin Envelope
    /\ None \notin TransactionHash

\* Mutant: the hash is taken over the envelope with its signatures.
HashOfSigned(e, n) == [body |-> e.body, auth |-> e.auth, sigs |-> e.sigs, network |-> n]

HashOf(e, n) == [body |-> e.body, auth |-> e.auth, network |-> n]

-----------------------------------------------------------------------------
(***************************************************************************)
(* Bindings of a handle p.                                                 *)
(***************************************************************************)

SigningHash(p) ==
    IF p.authorized_hash = None THEN p.reviewed_hash ELSE p.authorized_hash

ExpectedEnvelope(p) ==
    IF p.authorized_envelope = None THEN p.reviewed_envelope ELSE p.authorized_envelope

\* Mutant: a change of the envelope is not noticed before signing.
NoReviewBinding(p) == TRUE

\* assert_review_binding: the exact envelope, signatures included, and its hash.
ReviewBinding(p) ==
    /\ p.envelope = ExpectedEnvelope(p)
    /\ HashOf(p.envelope, p.network) = SigningHash(p)

\* Mutant: a completed handle submits whatever its envelope holds.
NoSubmitBinding(p) == TRUE

\* assert_submit_binding: the hash alone.
SubmitBinding(p) == HashOf(p.envelope, p.network) = SigningHash(p)

\* Entries of a body that carry a detached signature of a Classic account.
Detached(b) == {e \in Entries : kind[b][e] = "address"}

Init ==
    /\ now = 0
    /\ kind \in [Bodies -> [Entries -> Kinds]]
    /\ handle = [h \in Handles |-> None]
    /\ reviews = {} /\ signed = {} /\ completed = {} /\ submitted = {}

-----------------------------------------------------------------------------
(***************************************************************************)
(* prepare_soroban_invoke: a fresh body, unsigned, reviewed for a network. *)
(***************************************************************************)
Prepare(h, b, n) ==
    LET e == [body |-> b, auth |-> {}, sigs |-> {}]
    IN  /\ \A r \in reviews : r.body /= b
        /\ handle' = [handle EXCEPT ![h] =
             [envelope |-> e, network |-> n,
              reviewed_envelope |-> e, reviewed_hash |-> HashOf(e, n),
              authorized_envelope |-> None, authorized_hash |-> None,
              envelope_signing_complete |-> FALSE]]
        /\ reviews' = reviews \union {[body |-> b, network |-> n]}
        /\ UNCHANGED <<now, kind, signed, completed, submitted>>

Clone(h, g) ==
    /\ handle[g] /= None
    /\ handle' = [handle EXCEPT ![h] = handle[g]]
    /\ UNCHANGED <<now, kind, reviews, signed, completed, submitted>>

\* The product assigns the public envelope: any body and entries, and any of the
\* signatures that exist.
AssignEnvelope(h, b, a, s) ==
    /\ handle[h] /= None
    /\ handle' = [handle EXCEPT ![h].envelope = [body |-> b, auth |-> a, sigs |-> s]]
    /\ UNCHANGED <<now, kind, reviews, signed, completed, submitted>>

\* The product assigns the public review, whose network selects the hash.
AssignNetwork(h, n) ==
    /\ handle[h] /= None
    /\ handle' = [handle EXCEPT ![h].network = n]
    /\ UNCHANGED <<now, kind, reviews, signed, completed, submitted>>

-----------------------------------------------------------------------------
(***************************************************************************)
(* authorize_prepared_soroban_with_system_auth.  The entries are signed on *)
(* a copy: a call that fails on any entry changes nothing, so only the     *)
(* call that succeeds is a step.                                           *)
(***************************************************************************)

\* Mutant: every entry is replaced in the envelope as soon as it is signed, and
\* a failing entry ends the call with what there is.
AuthorizedAuthPartly(b) == SUBSET Detached(b)

\* Entries that carry a signature when authorization succeeds.
AuthorizedAuth(b) == {Detached(b)}

AuthorizeSome(h, a) ==
    LET p == handle[h]
        e == [p.envelope EXCEPT !.auth = a]
    IN  /\ p /= None
        /\ ReviewBinding(p)
        /\ p.authorized_envelope = None
        /\ \A x \in Entries : kind[p.envelope.body][x] \in {"source", "address"}
        /\ a \in AuthorizedAuth(p.envelope.body)
        /\ handle' = [handle EXCEPT
             ![h].envelope = e,
             ![h].authorized_envelope = e,
             ![h].authorized_hash = HashOf(e, p.network)]
        /\ UNCHANGED <<now, kind, reviews, signed, completed, submitted>>

Authorize(h) == \E a \in SUBSET Entries : AuthorizeSome(h, a)

-----------------------------------------------------------------------------
(***************************************************************************)
(* sign_prepared_soroban_with_providers: Signing Coordination adds the     *)
(* signatures of keys to the envelope in place, key by key.                *)
(***************************************************************************)

MaySign(p) ==
    /\ p /= None
    /\ p.authorized_envelope /= None
    /\ ~p.envelope_signing_complete
    /\ ReviewBinding(p)
    /\ now <= MaxTime

SignWith(h, keys, complete) ==
    LET p == handle[h]
        new == {<<k, HashOf(p.envelope, p.network)>> : k \in keys}
    IN  /\ MaySign(p)
        /\ handle' = [handle EXCEPT
             ![h].envelope.sigs = @ \union new,
             ![h].envelope_signing_complete = complete]
        /\ signed' = signed \union new
        /\ completed' = IF complete THEN completed \union {HashOf(p.envelope, p.network)}
                        ELSE completed
        /\ UNCHANGED <<now, kind, reviews, submitted>>

Sign(h, keys) == SignWith(h, keys, TRUE)

\* A later key fails or is cancelled: the earlier signatures stay.
SignPartly(h, keys) == SignWith(h, keys, FALSE)

-----------------------------------------------------------------------------
\* Mutant: any handle with an authorized envelope may be submitted.
SigningStarted(p) == p.authorized_envelope /= None

SigningComplete(p) == p.envelope_signing_complete

\* submit_prepared_soroban to an RPC gateway of network n.
Submit(h, n) ==
    LET p == handle[h]
    IN  /\ p /= None
        /\ SigningComplete(p)
        /\ n = p.network
        /\ SubmitBinding(p)
        /\ submitted' = submitted \union {HashOf(p.envelope, n)}
        /\ UNCHANGED <<now, kind, handle, reviews, signed, completed>>

Tick ==
    /\ now < MaxNow
    /\ now' = now + 1
    /\ UNCHANGED <<kind, handle, reviews, signed, completed, submitted>>

Product(h) ==
    \/ \E g \in Handles : Clone(h, g)
    \/ \E b \in Bodies, a \in SUBSET Entries, s \in SUBSET signed : AssignEnvelope(h, b, a, s)
    \/ \E n \in Networks : AssignNetwork(h, n)

Client(h) ==
    \/ \E b \in Bodies, n \in Networks : Prepare(h, b, n)
    \/ Authorize(h)
    \/ \E keys \in SUBSET Keys \ {{}} : Sign(h, keys) \/ SignPartly(h, keys)
    \/ \E n \in Networks : Submit(h, n)

Next == (\E h \in Handles : Product(h) \/ Client(h)) \/ Tick

Spec == Init /\ [][Next]_vars

-----------------------------------------------------------------------------
(***************************************************************************)
(* Properties.                                                             *)
(***************************************************************************)

\* Types of the state.
TypeOK ==
    /\ now \in Nat
    /\ kind \in [Bodies -> [Entries -> Kinds]]
    /\ handle \in [Handles -> Prepared \union {None}]
    /\ reviews \subseteq [body: Bodies, network: Networks]
    /\ signed \subseteq Keys \X TransactionHash
    /\ completed \subseteq TransactionHash /\ submitted \subseteq TransactionHash

\* The hash a review stands for once it is authorized.
HashOfReview(r) == [body |-> r.body, auth |-> Detached(r.body), network |-> r.network]

\* "sign exact prepared transaction": whatever a product assigns to the public
\* fields and whichever clone it uses, a key only ever signs the hash of a body
\* that was reviewed, for the network of the review, with all its detached
\* entries authorized.
SignedIsReviewed == \A s \in signed : \E r \in reviews : s[2] = HashOfReview(r)

\* Only a hash whose signing completed is submitted: an envelope left with part
\* of its signatures, a body assigned later and a changed network are not.
SubmittedIsSigned == submitted \subseteq completed

\* Retrying with clones of one preparation cannot put two different transactions
\* on the ledger: every submission of a reviewed body has the same hash.
OneTransactionPerReview ==
    \A t1, t2 \in submitted : t1.body = t2.body => t1 = t2
=============================================================================
