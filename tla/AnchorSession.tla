--------------------------- MODULE AnchorSession ---------------------------
(***************************************************************************)
(* A SEP-10 session: the client asks an anchor for a challenge, verifies   *)
(* it, has it signed while time passes, and exchanges the signed envelope  *)
(* for a token (prepare_anchor_sep10_challenge and                         *)
(* exchange_anchor_sep10_challenge in anchor_protocol.rs).                 *)
(*                                                                         *)
(* Anything may come back from the endpoint: a challenge of another        *)
(* anchor, for another account or network, expired or malformed.  The      *)
(* envelope that comes back from the signers is any envelope too.          *)
(***************************************************************************)
EXTENDS Integers, FiniteSets, SequencesExt

CONSTANTS
    Anchors,        \* [key, domain, endpoint]: what their stellar.toml says
    Accounts,
    Networks,
    Plans,          \* [weight, medium]: signers and threshold of the accounts on the ledger
    MaxTime         \* bound: clock

Keys == {a.key : a \in Anchors} \union Accounts
Domains == {a.domain : a \in Anchors}
Endpoints == {a.endpoint : a \in Anchors}

AnchorsAssumption == \A a \in Anchors : a.key \notin Accounts
PlansAssumption ==
    \A p \in Plans : \E S \in SUBSET Keys : p.weight \in [S -> Nat] /\ p.medium \in Nat

VARIABLES session, posted, now

vars == <<session, posted, now>>

-----------------------------------------------------------------------------
(***************************************************************************)
(* Challenges.                                                             *)
(***************************************************************************)
\* Operations after the first: the host they name, if they are web_auth_domain,
\* and whose they are.
ExtraOperations ==
    [kind: {"web_auth_domain"}, host: Endpoints, source: {a.key : a \in Anchors}]
    \union [kind: {"other data", "client_domain"}, host: {"none"}, source: {a.key : a \in Anchors}]

\* A first operation that is not "<domain> auth" data has nonce 0.  Bounds without
\* an end have maximum 0.
Bounds == {[min |-> 0, max |-> 0], [min |-> 1, max |-> 2], [min |-> 0, max |-> 1]}

Transactions ==
    [source: {a.key : a \in Anchors}, sequence: {0, 1}, memo: BOOLEAN, bounds: Bounds,
     first: [source: Accounts, domain: Domains, nonce: {0, 48, 64}],
     extra: BoundedSeq(ExtraOperations, 2)]

\* Signatures are bound to the transaction and the network.
Envelope(tx, n, signers) == [tx |-> tx, network |-> n, signers |-> signers]

SignedBy(e, n, k) == e.network = n /\ k \in e.signers

TimeIsBounded(b, time) ==
    /\ b.max /= 0
    /\ b.min <= b.max
    /\ time \in b.min..b.max

\* All are the server's data, exactly one of them names the endpoint, and by its host.
ExtrasNameEndpoint(tx, a) ==
    LET Named(i) == tx.extra[i].kind = "web_auth_domain"
    IN  /\ \A i \in DOMAIN tx.extra :
             /\ tx.extra[i].kind \in {"web_auth_domain", "other data"} /\ tx.extra[i].source = a.key
             /\ Named(i) => tx.extra[i].host = a.endpoint
        /\ \E i \in DOMAIN tx.extra : Named(i) /\ \A k \in DOMAIN tx.extra \ {i} : ~Named(k)

\* verify_sep10_challenge
Verified(e, a, account, n, time) ==
    /\ e.tx.source = a.key /\ e.tx.sequence = 0 /\ ~e.tx.memo
    /\ TimeIsBounded(e.tx.bounds, time)
    /\ e.tx.first.source = account /\ e.tx.first.nonce = 64
    /\ e.tx.first.domain = a.domain
    /\ ExtrasNameEndpoint(e.tx, a)
    /\ SignedBy(e, n, a.key)

\* A passphrase in the answer, if there is one, is that of the local network.
PassphraseFits(stated, n) == stated \in {n, "not stated"}

\* A signer of the account may have no weight, as its threshold may be zero.
SignersOf(p) == DOMAIN p.weight

WeightOf(p, keys) == FoldSet(LAMBDA k, sum : sum + p.weight[k], 0, keys \intersect SignersOf(p))

\* Mutant: the server's signature counts for the client.
ProofWithServer(p, e, a) == e.signers /= {} /\ WeightOf(p, e.signers) >= p.medium

\* What the signatures on an envelope prove of the client, the server's aside.
Proof(p, e, a) ==
    LET satisfied == (e.signers \intersect SignersOf(p)) \ {a.key}
    IN  satisfied /= {} /\ WeightOf(p, satisfied) >= p.medium

-----------------------------------------------------------------------------
Idle == [phase |-> "idle"]

Init == session = Idle /\ posted = {} /\ now = 0

Prepare(a, account, n, stated, e) ==
    /\ session = Idle
    /\ PassphraseFits(stated, n)
    /\ Verified(e, a, account, n, now)
    /\ session' = [phase |-> "verified", anchor |-> a, account |-> account, challenge |-> e]
    /\ UNCHANGED <<posted, now>>

\* Signers add to the challenge; the product may hand over something else.
Sign(e) ==
    /\ session.phase = "verified"
    /\ session' = [phase |-> "signed", anchor |-> session.anchor, account |-> session.account,
                   challenge |-> session.challenge, signed |-> e]
    /\ UNCHANGED <<posted, now>>

SignedEnvelopes ==
    LET c == session.challenge
        other == [c.tx EXCEPT !.sequence = 1]
    IN  {Envelope(tx, c.network, signers) : tx \in {c.tx, other}, signers \in SUBSET Keys}

\* What comes back from the signers is compared with the challenge.
SameChallenge(e) == e.tx = session.challenge.tx

Exchange(p, n) ==
    /\ session.phase = "signed"
    /\ SameChallenge(session.signed)
    /\ SignedBy(session.signed, n, session.anchor.key)
    /\ Proof(p, session.signed, session.anchor)
    /\ posted' = posted \union
         {[envelope |-> session.signed, endpoint |-> session.anchor.endpoint,
           anchor |-> session.anchor, account |-> session.account, network |-> n,
           plan |-> p, time |-> now]}
    /\ session' = Idle
    /\ UNCHANGED now

GiveUp == session /= Idle /\ session' = Idle /\ UNCHANGED <<posted, now>>

Tick == now < MaxTime /\ now' = now + 1 /\ UNCHANGED <<session, posted>>

Next ==
    \/ Tick \/ GiveUp
    \/ /\ session = Idle /\ posted = {}
       /\ \E a \in Anchors, account \in Accounts, n \in Networks,
             stated \in Networks \union {"not stated"} :
            PassphraseFits(stated, n)
              /\ \E m \in Networks, tx \in Transactions, k \in {b.key : b \in Anchors} :
                   Prepare(a, account, n, stated, Envelope(tx, m, {k}))
    \/ /\ session.phase = "verified"
       /\ \E e \in SignedEnvelopes : Sign(e)
    \/ \E p \in Plans, n \in Networks : Exchange(p, n)

Spec == Init /\ [][Next]_vars

-----------------------------------------------------------------------------
(***************************************************************************)
(* Properties.                                                             *)
(***************************************************************************)
\* What is posted is a challenge of the anchor it is posted to, for the account and
\* the home domain of the session, can never be applied to the ledger, and carries
\* both signatures: the server's and a proof by the client's own signers.
PostedIsBound ==
    \A x \in posted :
        LET tx == x.envelope.tx IN
        /\ tx.sequence = 0
        /\ tx.first.source = x.account /\ tx.first.domain = x.anchor.domain
        /\ \A i \in DOMAIN tx.extra :
             tx.extra[i].kind = "web_auth_domain" => tx.extra[i].host = x.endpoint
        /\ SignedBy(x.envelope, x.network, x.anchor.key)
        /\ \E S \in SUBSET ((x.envelope.signers \intersect SignersOf(x.plan)) \ {x.anchor.key}) :
             S /= {} /\ WeightOf(x.plan, S) >= x.plan.medium

\* The challenge is verified again at the exchange: it is not posted when its time
\* is over ("must reject before token exchange when structural/time/server-signature
\* validation fails").
PostedInTime == \A x \in posted : TimeIsBounded(x.envelope.tx.bounds, x.time)
=============================================================================
