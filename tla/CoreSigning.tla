---------------------------- MODULE CoreSigning ----------------------------
(***************************************************************************)
(* Signatures that Core adds to transaction envelopes and authorization    *)
(* entries, with software signers, with external devices that answer       *)
(* later, and under an agent's grant (core/rust transaction.rs,            *)
(* soroban_authorization.rs, message.rs, signer.rs, agent_access.rs).      *)
(*                                                                         *)
(* A host works on one document at a time and may take up another one      *)
(* while a device still signs; the answer can then arrive for a document,  *)
(* a network or a key it was not made for.  Other wallets add signatures   *)
(* of their own.                                                           *)
(*                                                                         *)
(* Hashes are injective: what is signed is the preimage itself.  An        *)
(* Ed25519 key has several valid signatures for one preimage: "nonce"      *)
(* tells them apart.                                                       *)
(***************************************************************************)
EXTENDS Naturals, FiniteSets, SequencesExt

CONSTANTS
    Keys,           \* Ed25519 keys
    HintOf,         \* [Keys -> hints]: the last four bytes
    Networks,
    Transactions,   \* contents of transaction envelopes
    Entries,        \* authorization entries
    Grants,         \* agent capabilities
    MaxSignatures,  \* bound: 20 in a transaction envelope; in the code an entry has no limit
    MaxAnswers,     \* bound: answers of devices that wait
    MaxTime         \* bound: clock

Nonces == 1..2
Documents == Transactions \union Entries

ASSUME HintAssumption == HintOf \in [Keys -> Nat]
ASSUME DocumentAssumption ==
    /\ \A t \in Transactions :
         /\ t.form \in {"V0", "V1", "FeeBump"}
         /\ t.fee \in Nat
         /\ \A i \in DOMAIN t.operations : t.operations[i].type \in STRING
    /\ \A e \in Entries :
         /\ e.form = "entry"
         /\ e.credentials \in {"source", "address", "addressV2", "delegates"}
         /\ e.payload \in {"void", "vector", "none", "custom"}
ASSUME GrantAssumption ==
    \A g \in Grants : g.key \in Keys /\ g.allowed \subseteq STRING /\ g.maxOperations \in Nat /\ g.maxFee \in Nat

VARIABLES
    document,   \* what the host works on: content, payload and signatures
    added,      \* <<key, network>> that Core signed it for
    answers,    \* signatures of devices that the host has not used yet
    messages,   \* signatures made for messages
    granted,    \* what was signed under a grant, and when
    now

vars == <<document, added, answers, messages, granted, now>>

-----------------------------------------------------------------------------
(***************************************************************************)
(* What is signed.                                                         *)
(***************************************************************************)
IsTransaction(c) == c.form \in {"V0", "V1", "FeeBump"}

\* An envelope of the first form is hashed as the V1 envelope of its content.
Hashed(c) == IF c.form = "V0" THEN [c EXCEPT !.form = "V1"] ELSE c

\* Credentials of the first kind do not name the address.
Preimage(c, n) ==
    IF IsTransaction(c) THEN <<"transaction", n, Hashed(c)>>
    ELSE IF c.credentials = "address" THEN <<"authorization", n, c.invocation>>
    ELSE <<"authorization with address", n, c.address, c.invocation>>

\* A message is any sequence of bytes, a preimage among them.
Texts == {<<"hello">>} \union {Preimage(c, n) : c \in Documents, n \in Networks}

\* Mutant: a message is signed as it is.
MessagePayloadRaw(t) == t

MessagePayload(t) == <<"Stellar Signed Message:", t>>

Signature(k, over, nonce) == [key |-> k, over |-> over, nonce |-> nonce]
Garbage == Signature("nobody", <<"garbage">>, 1)

\* verify_strict
Verifies(k, over, s) == s.key = k /\ s.over = over

Decorated(hint, s) == [hint |-> hint, signature |-> s]

-----------------------------------------------------------------------------
(***************************************************************************)
(* Signer keys a document satisfies.                                       *)
(***************************************************************************)
SatisfiesKey(d, n, k) ==
    \E i \in DOMAIN d.signatures :
        /\ d.signatures[i].hint = HintOf[k]
        /\ Verifies(k, Preimage(d.content, n), d.signatures[i].signature)

SatisfiesPreAuth(d, n, over) == Preimage(d.content, n) = over

-----------------------------------------------------------------------------
(***************************************************************************)
(* Adding a signature.                                                     *)
(***************************************************************************)
\* Only a direct credential of a classic account is signed by its key.
MaySign(c) ==
    ~IsTransaction(c) => c.credentials \in {"address", "addressV2"} /\ c.address \in Keys

\* Mutant: a payload Core does not know is replaced.
MayAppendAnyway(d) == TRUE

\* A vector that is missing is malformed, any other value is not Core's.
MayAppend(d) == ~IsTransaction(d.content) => d.payload \in {"void", "vector"}

\* Mutant: the hint is that of a fixed key.
DecoratedByKeyFixed(k, s) == Decorated(0, s)

DecoratedByKey(k, s) == Decorated(HintOf[k], s)

\* Mutant: what a signer returns is not verified.
AcceptedUnverified(d, n, k, s) ==
    /\ MaySign(d.content) /\ MayAppend(d)
    /\ ~Contains(d.signatures, DecoratedByKey(k, s))
    /\ Len(d.signatures) < MaxSignatures

\* Mutant: an envelope takes any number of signatures.
AcceptedUnbounded(d, n, k, s) ==
    /\ MaySign(d.content)
    /\ Verifies(k, Preimage(d.content, n), s)
    /\ MayAppend(d)
    /\ ~Contains(d.signatures, DecoratedByKey(k, s))

Accepted(d, n, k, s) ==
    /\ MaySign(d.content)
    /\ Verifies(k, Preimage(d.content, n), s)
    /\ MayAppend(d)
    /\ ~Contains(d.signatures, DecoratedByKey(k, s))
    /\ Len(d.signatures) < MaxSignatures

Signed(d, k, s) ==
    [d EXCEPT !.signatures = Append(@, DecoratedByKey(k, s)),
              !.payload = IF IsTransaction(d.content) THEN @ ELSE "vector"]

Add(n, k, s) ==
    /\ Accepted(document, n, k, s)
    /\ document' = Signed(document, k, s)
    /\ added' = Append(added, <<k, n>>)

\* A software signer is deterministic.
SignWithSoftware(k, n) ==
    /\ Add(n, k, Signature(k, Preimage(document.content, n), 1))
    /\ UNCHANGED <<answers, messages, granted, now>>

\* prepare_*_signing hands the request out, a device answers.
DeviceAnswers(k, n, nonce) ==
    /\ Cardinality(answers) < MaxAnswers
    /\ ~IsTransaction(document.content) => document.content.credentials /= "source"
    /\ answers' = answers \union {Signature(k, Preimage(document.content, n), nonce)}
    /\ UNCHANGED <<document, added, messages, granted, now>>

\* The host claims a key and a network for an answer it has.
ApplySignature(s, k, n) ==
    /\ Add(n, k, s)
    /\ answers' = answers \ {s}
    /\ UNCHANGED <<messages, granted, now>>

SignMessage(k, t) ==
    LET s == Signature(k, MessagePayload(t), 1) IN
    /\ Verifies(k, MessagePayload(t), s)
    /\ messages = {}
    /\ messages' = {s}
    /\ UNCHANGED <<document, added, answers, granted, now>>

-----------------------------------------------------------------------------
(***************************************************************************)
(* Agents.                                                                 *)
(***************************************************************************)
NoSource == [key |-> "none", muxed |-> FALSE]

\* A muxed account is its key.
SourceKey(a) == a.key

\* Mutant: an operation's own source is not looked at.
OperationSourceIgnored(c, i) == SourceKey(c.source)

\* An operation without a source has the transaction's.
OperationSource(c, i) ==
    IF c.operations[i].source = NoSource THEN SourceKey(c.source)
    ELSE SourceKey(c.operations[i].source)

\* Checked when the grant is made.
ValidGrant(g) == g.allowed /= {} /\ g.maxOperations > 0

AgentMay(g, d, n, time) ==
    LET c == d.content IN
    /\ n = g.network
    /\ time < g.expires
    /\ c.form = "V1"
    /\ d.signatures = <<>>
    /\ SourceKey(c.source) = g.key
    /\ c.fee <= g.maxFee
    /\ Len(c.operations) \in 1..g.maxOperations
    /\ \A i \in DOMAIN c.operations :
         OperationSource(c, i) = g.key /\ c.operations[i].type \in g.allowed

AgentSigns(g, n) ==
    /\ ValidGrant(g)
    /\ AgentMay(g, document, n, now)
    /\ Add(n, g.key, Signature(g.key, Preimage(document.content, n), 1))
    /\ granted' = granted \union
         {[grant |-> g, content |-> document.content, network |-> n, time |-> now]}
    /\ UNCHANGED <<answers, messages, now>>

-----------------------------------------------------------------------------
(***************************************************************************)
(* The host and the others.                                                *)
(***************************************************************************)
Fresh(c) ==
    [content |-> c, payload |-> IF IsTransaction(c) THEN "vector" ELSE c.payload,
     signatures |-> <<>>]

Init ==
    /\ document \in {Fresh(c) : c \in Documents}
    /\ added = <<>> /\ answers = {} /\ messages = {} /\ granted = {} /\ now = 0

\* The host takes up another document; the devices keep signing the first.
TakeUp(c) ==
    /\ document' = Fresh(c)
    /\ added' = <<>>
    /\ UNCHANGED <<answers, messages, granted, now>>

\* Another wallet signs, or something that is no signature is put in.
CosignerAdds(k, n, s) ==
    /\ s \in {Signature(k, Preimage(document.content, n), 1), Garbage}
    /\ IsTransaction(document.content)
    /\ Len(document.signatures) < MaxSignatures
    /\ document' = [document EXCEPT !.signatures = Append(@, Decorated(HintOf[k], s))]
    /\ UNCHANGED <<added, answers, messages, granted, now>>

Tick == now < MaxTime /\ now' = now + 1 /\ UNCHANGED <<document, added, answers, messages, granted>>

Next ==
    \/ Tick
    \/ \E c \in Documents : TakeUp(c)
    \/ \E k \in Keys :
        \/ \E n \in Networks :
            \/ SignWithSoftware(k, n)
            \/ \E nonce \in Nonces : DeviceAnswers(k, n, nonce)
            \/ \E s \in answers : ApplySignature(s, k, n)
            \/ CosignerAdds(k, n, Garbage)
            \/ CosignerAdds(k, n, Signature(k, Preimage(document.content, n), 1))
        \/ \E t \in Texts : SignMessage(k, t)
    \/ \E g \in Grants, n \in Networks : AgentSigns(g, n)

Spec == Init /\ [][Next]_vars

-----------------------------------------------------------------------------
(***************************************************************************)
(* Properties.                                                             *)
(***************************************************************************)
TypeOK ==
    /\ document.content \in Documents
    /\ document.payload \in {"void", "vector", "none", "custom"}
    /\ Len(document.signatures) <= MaxSignatures
    /\ added \in BoundedSeq(Keys \X Networks, MaxSignatures)
    /\ Cardinality(answers) <= MaxAnswers
    /\ \A a \in granted : a.grant \in Grants /\ a.content \in Transactions /\ a.time \in 0..MaxTime
    /\ now \in 0..MaxTime

\* Whatever order devices answer in and whichever document they answer for, a key
\* that Core reports as signed is one the network, which looks the signature up by
\* its hint, finds satisfied on that document.
SignedIsSatisfied ==
    \A i \in DOMAIN added : SatisfiesKey(document, added[i][2], added[i][1])

\* A grant bounds everything that is ever signed under it: the network, the time,
\* the fee, the operations, and the accounts whose authorization the transaction
\* needs, through muxed sources and operations with sources of their own.
AgentWithinGrant ==
    \A a \in granted :
        LET g == a.grant
            sources == {a.content.source} \union
                       ({a.content.operations[i].source : i \in DOMAIN a.content.operations} \ {NoSource})
        IN  /\ {s.key : s \in sources} = {g.key}
            /\ a.network = g.network /\ a.time < g.expires
            /\ a.content.fee <= g.maxFee
            /\ Len(a.content.operations) \in 1..g.maxOperations
            /\ {a.content.operations[i].type : i \in DOMAIN a.content.operations} \subseteq g.allowed

\* A signature for a message, whatever its bytes are, is one for no transaction
\* and no authorization.
MessagesAuthorizeNothing ==
    \A s \in messages, c \in Documents, n \in Networks : s.over /= Preimage(c, n)

\* Signatures that are on a document stay, in their order, until the host puts the
\* document away, and a signature payload that is not Core's is not touched.
SignaturesAreKept ==
    [][\/ document'.content = document.content
          /\ IsPrefix(document.signatures, document'.signatures)
          /\ document.payload \in {"none", "custom"} => document' = document
       \/ document' \in {Fresh(c) : c \in Documents}]_vars

\* "signer has already signed this transaction": one signer signs a document for
\* one network once.
OneSignaturePerSigner == IsInjective(added)
=============================================================================
