------------------------------ MODULE CoreProofs ------------------------------
(***************************************************************************)
(* Proofs about Core's signatures for any keys, hints, networks,           *)
(* documents, grants and bounds: keys reported as signed are satisfied,    *)
(* agents stay within their grants, signatures are kept, and messages      *)
(* authorize nothing.  Then about protected signers, for any material and  *)
(* passcodes: a signer keeps its account, and codes say what is so.        *)
(***************************************************************************)
EXTENDS MCCore, TLAPS

\* Whatever may be in the place of a signature.
Overs == {Preimage(c, n) : c \in Documents, n \in Networks} \union {<<"garbage">>}
Made == {Signature(k, over, nonce) : k \in Keys \union {"nobody"}, over \in Overs, nonce \in Nonces}
Stored == {Decorated(h, s) : h \in Nat, s \in Made}

Types ==
    /\ document \in [content : Documents, payload : {"void", "vector", "none", "custom"},
                     signatures : Seq(Stored)]
    /\ added \in Seq(Keys \X Networks)
    /\ answers \subseteq Made

\* The signature of each key Core reports is there.
Reported(d, k, n) ==
    \E i \in 1 .. Len(d.signatures) :
        /\ d.signatures[i].hint = HintOf[k]
        /\ d.signatures[i].signature.key = k
        /\ d.signatures[i].signature.over = Preimage(d.content, n)

AllReported == \A i \in 1 .. Len(added) : Reported(document, added[i][1], added[i][2])

\* Envelopes have no payload of another kind.
EnvelopesHaveNoPayload == IsTransaction(document.content) => document.payload = "vector"

IInv == Types /\ AllReported /\ EnvelopesHaveNoPayload

----------------------------------------------------------------------------
\* A fresh document is of the right type.
LEMMA FreshForm ==
    ASSUME NEW c \in Documents
    PROVE  /\ Fresh(c) \in [content : Documents, payload : {"void", "vector", "none", "custom"},
                            signatures : Seq(Stored)]
           /\ Fresh(c).signatures = <<>> /\ Fresh(c).content = c
           /\ IsTransaction(c) => Fresh(c).payload = "vector"
<1>1. (IF IsTransaction(c) THEN "vector" ELSE c.payload) \in {"void", "vector", "none", "custom"}
  BY DocumentAssumption DEF Documents, IsTransaction
<1>2. <<>> \in Seq(Stored)
  OBVIOUS
<1> QED
  BY <1>1, <1>2 DEF Fresh

\* Appending keeps what is reported; the appended signature reports its key.
LEMMA AppendReports ==
    ASSUME NEW d \in [content : Documents, payload : {"void", "vector", "none", "custom"},
                      signatures : Seq(Stored)],
           NEW e \in [content : Documents, payload : {"void", "vector", "none", "custom"},
                      signatures : Seq(Stored)],
           NEW x \in Stored,
           e.signatures = Append(d.signatures, x), e.content = d.content
    PROVE  /\ \A k, n : Reported(d, k, n) => Reported(e, k, n)
           /\ \A k \in Keys, n \in Networks, s \in Made :
                 x = Decorated(HintOf[k], s) /\ Verifies(k, Preimage(d.content, n), s)
                     => Reported(e, k, n)
<1>1. /\ Len(e.signatures) = Len(d.signatures) + 1
      /\ \A i \in 1 .. Len(d.signatures) : e.signatures[i] = d.signatures[i]
      /\ e.signatures[Len(d.signatures) + 1] = x
      /\ Len(d.signatures) \in Nat
  OBVIOUS
<1>2. ASSUME NEW k, NEW n, Reported(d, k, n) PROVE Reported(e, k, n)
  <2>1. PICK i \in 1 .. Len(d.signatures) :
            /\ d.signatures[i].hint = HintOf[k]
            /\ d.signatures[i].signature.key = k
            /\ d.signatures[i].signature.over = Preimage(d.content, n)
    BY <1>2 DEF Reported
  <2>2. i \in 1 .. Len(e.signatures) /\ e.signatures[i] = d.signatures[i]
    BY <1>1
  <2> QED
    BY <2>1, <2>2 DEF Reported
<1>3. ASSUME NEW k \in Keys, NEW n \in Networks, NEW s \in Made,
             x = Decorated(HintOf[k], s), Verifies(k, Preimage(d.content, n), s)
      PROVE  Reported(e, k, n)
  <2>1. Len(d.signatures) + 1 \in 1 .. Len(e.signatures)
    BY <1>1
  <2>2. x.hint = HintOf[k] /\ x.signature = s
    BY <1>3 DEF Decorated
  <2> QED
    BY <1>1, <1>3, <2>1, <2>2 DEF Reported, Verifies
<1> QED
  BY <1>2, <1>3

\* Core adding a signature keeps the invariant and the signatures before it.
LEMMA AddKeeps ==
    ASSUME IInv, NEW k \in Keys, NEW n \in Networks, NEW s \in Made, Add(n, k, s)
    PROVE  /\ document' \in [content : Documents, payload : {"void", "vector", "none", "custom"},
                             signatures : Seq(Stored)]
           /\ added' \in Seq(Keys \X Networks)
           /\ AllReported' /\ EnvelopesHaveNoPayload'
           /\ document'.content = document.content
           /\ document'.signatures = Append(document.signatures, DecoratedByKey(k, s))
           /\ document.payload \notin {"none", "custom"}
<1> USE DEF IInv
<1>1. DecoratedByKey(k, s) \in Stored
  BY HintAssumption DEF DecoratedByKey, Stored
<1>2. /\ document'.content = document.content
      /\ document'.signatures = Append(document.signatures, DecoratedByKey(k, s))
      /\ document'.payload = IF IsTransaction(document.content) THEN document.payload ELSE "vector"
      /\ DOMAIN document' = {"content", "payload", "signatures"}
  BY DEF Add, Signed, Types
<1>3. document' \in [content : Documents, payload : {"void", "vector", "none", "custom"},
                     signatures : Seq(Stored)]
  <2>1. Append(document.signatures, DecoratedByKey(k, s)) \in Seq(Stored)
    BY <1>1 DEF Types
  <2>2. document' = [content |-> document.content, payload |-> document'.payload,
                     signatures |-> Append(document.signatures, DecoratedByKey(k, s))]
    BY DEF Add, Signed, Types
  <2>3. document'.payload \in {"void", "vector", "none", "custom"}
    BY <1>2 DEF Types
  <2> QED
    BY <2>1, <2>2, <2>3 DEF Types
<1>4. added' = Append(added, <<k, n>>) /\ added' \in Seq(Keys \X Networks)
  BY DEF Add, Types
<1>5. AllReported'
  <2>1. Reported(document', k, n)
    <3>1. Verifies(k, Preimage(document.content, n), s)
      BY DEF Add, Accepted
    <3> QED
      BY <1>1, <1>2, <1>3, <3>1, AppendReports DEF DecoratedByKey, Types
  <2>2. \A i \in 1 .. Len(added) : Reported(document', added[i][1], added[i][2])
    BY <1>1, <1>2, <1>3, AppendReports DEF AllReported, Types
  <2>3. /\ Len(added') = Len(added) + 1 /\ Len(added) \in Nat
        /\ \A i \in 1 .. Len(added) : added'[i] = added[i]
        /\ added'[Len(added) + 1] = <<k, n>>
    BY <1>4 DEF Types
  <2>4. ASSUME NEW i \in 1 .. Len(added') PROVE Reported(document', added'[i][1], added'[i][2])
    <3>1. i \in 1 .. Len(added) \/ i = Len(added) + 1
      BY <2>3
    <3> QED
      BY <2>1, <2>2, <2>3, <3>1
  <2> QED
    BY <2>4 DEF AllReported, Reported
<1>6. document.payload \notin {"none", "custom"}
  BY DEF Add, Accepted, MayAppend, EnvelopesHaveNoPayload, Types
<1>7. EnvelopesHaveNoPayload'
  <2>1. IsTransaction(document'.content) <=> IsTransaction(document.content)
    BY <1>2
  <2> QED
    BY <1>2, <2>1 DEF EnvelopesHaveNoPayload
<1> QED
  BY <1>2, <1>3, <1>4, <1>5, <1>6, <1>7

\* A signature over the document at hand is one that may be in the place of a signature.
LEMMA DocumentSignature ==
    ASSUME Types, NEW k \in Keys, NEW n \in Networks, NEW nonce \in Nonces
    PROVE  Signature(k, Preimage(document.content, n), nonce) \in Made
<1>1. Preimage(document.content, n) \in Overs
  BY DEF Types, Overs
<1> QED
  BY <1>1 DEF Made

LEMMA GarbageIsMade == Garbage \in Made
<1>1. <<"garbage">> \in Overs /\ 1 \in Nonces
  BY DEF Overs, Nonces
<1> QED
  BY <1>1 DEF Garbage, Made

\* What another wallet puts in keeps the invariant.
LEMMA CosignerKeeps ==
    ASSUME IInv, NEW k \in Keys, NEW n \in Networks, NEW s, CosignerAdds(k, n, s)
    PROVE  /\ IInv'
           /\ document'.content = document.content
           /\ IsTransaction(document.content)
           /\ document'.signatures = Append(document.signatures, Decorated(HintOf[k], s))
           /\ Decorated(HintOf[k], s) \in Stored
<1> USE DEF IInv, Types
<1>1. s \in Made
  BY DocumentSignature, GarbageIsMade DEF CosignerAdds, Nonces
<1>2. Decorated(HintOf[k], s) \in Stored
  BY <1>1, HintAssumption DEF Stored
<1>3. /\ document' = [document EXCEPT !.signatures = Append(@, Decorated(HintOf[k], s))]
      /\ UNCHANGED <<added, answers>> /\ IsTransaction(document.content)
  BY DEF CosignerAdds
<1>4. /\ document'.content = document.content /\ document'.payload = document.payload
      /\ document'.signatures = Append(document.signatures, Decorated(HintOf[k], s))
  BY <1>3
<1>5. document' \in [content : Documents, payload : {"void", "vector", "none", "custom"},
                     signatures : Seq(Stored)]
  <2>1. Append(document.signatures, Decorated(HintOf[k], s)) \in Seq(Stored)
    BY <1>2
  <2>2. document' = [content |-> document.content, payload |-> document.payload,
                     signatures |-> Append(document.signatures, Decorated(HintOf[k], s))]
    BY <1>3
  <2> QED
    BY <2>1, <2>2
<1>6. \A l, m : Reported(document, l, m) => Reported(document', l, m)
  BY <1>2, <1>4, <1>5, AppendReports
<1>7. AllReported'
  BY <1>3, <1>6 DEF AllReported, Reported
<1>8. EnvelopesHaveNoPayload'
  BY <1>4 DEF EnvelopesHaveNoPayload
<1> QED
  BY <1>2, <1>3, <1>4, <1>5, <1>7, <1>8

\* Every action that is no signature of Core on the document is one of these.
Signing ==
    \E k \in Keys, n \in Networks, s \in Made :
        Add(n, k, s) /\ answers' \subseteq answers

LEMMA SigningActions ==
    ASSUME IInv, NEW k \in Keys, NEW n \in Networks
    PROVE  /\ SignWithSoftware(k, n) => Signing
           /\ \A s \in answers : ApplySignature(s, k, n) => Signing
<1>1. SignWithSoftware(k, n) => Signing
  BY DocumentSignature DEF SignWithSoftware, Signing, IInv, Nonces
<1>2. \A s \in answers : ApplySignature(s, k, n) => Signing
  BY DEF ApplySignature, Signing, IInv, Types
<1> QED
  BY <1>1, <1>2

LEMMA AgentSigning ==
    ASSUME IInv, NEW g \in Grants, NEW n \in Networks, AgentSigns(g, n), g.key \in Keys
    PROVE  Signing
BY DocumentSignature DEF AgentSigns, Signing, IInv, Nonces

\* The steps that leave the document and what was reported alone, and only take answers in.
Aside ==
    /\ UNCHANGED <<document, added>>
    /\ answers' \subseteq Made

TakesUp == \E c \in Documents : TakeUp(c)

Cosigns == \E s : \E k \in Keys, n \in Networks : CosignerAdds(k, n, s)

\* Every step signs, cosigns, takes a document up, or leaves it alone.
LEMMA StepForms ==
    ASSUME IInv, [Next]_vars
    PROVE  Signing \/ Cosigns \/ TakesUp \/ Aside
<1> USE DEF IInv, Types
<1>1. CASE Tick
  BY <1>1 DEF Tick, Aside
<1>2. ASSUME NEW c \in Documents, TakeUp(c) PROVE TakesUp
  BY <1>2 DEF TakesUp
<1>3. ASSUME NEW k \in Keys, NEW n \in Networks, SignWithSoftware(k, n) PROVE Signing
  BY <1>3, SigningActions
<1>4. ASSUME NEW k \in Keys, NEW n \in Networks, NEW nonce \in Nonces, DeviceAnswers(k, n, nonce)
      PROVE  Aside
  BY <1>4, DocumentSignature DEF DeviceAnswers, Aside
<1>5. ASSUME NEW k \in Keys, NEW n \in Networks, NEW s \in answers, ApplySignature(s, k, n)
      PROVE  Signing
  BY <1>5, SigningActions
<1>6. ASSUME NEW k \in Keys, NEW n \in Networks, NEW s, CosignerAdds(k, n, s) PROVE Cosigns
  BY <1>6 DEF Cosigns
<1>7. ASSUME NEW k \in Keys, NEW t \in Texts, SignMessage(k, t) PROVE Aside
  BY <1>7 DEF SignMessage, Aside
<1>8. ASSUME NEW g \in Grants, NEW n \in Networks, AgentSigns(g, n) PROVE Signing
  BY <1>8, AgentSigning, GrantAssumption
<1>9. CASE UNCHANGED vars
  BY <1>9 DEF vars, Aside
<1> QED
  BY <1>1, <1>2, <1>3, <1>4, <1>5, <1>6, <1>7, <1>8, <1>9 DEF Next

LEMMA Step ==
    ASSUME IInv, [Next]_vars
    PROVE  IInv'
<1>1. CASE Signing
  <2>1. PICK k \in Keys, n \in Networks, s \in Made : Add(n, k, s) /\ answers' \subseteq answers
    BY <1>1 DEF Signing
  <2> QED
    BY <2>1, AddKeeps DEF IInv, Types
<1>2. CASE Cosigns
  BY <1>2, CosignerKeeps DEF Cosigns
<1>3. CASE TakesUp
  <2>1. PICK c \in Documents : document' = Fresh(c) /\ added' = <<>> /\ answers' = answers
    BY <1>3 DEF TakesUp, TakeUp
  <2>2. added' \in Seq(Keys \X Networks) /\ Len(added') = 0
    BY <2>1
  <2>3. AllReported'
    BY <2>2 DEF AllReported
  <2>4. Types' /\ EnvelopesHaveNoPayload'
    BY <2>1, <2>2, FreshForm DEF IInv, Types, EnvelopesHaveNoPayload
  <2> QED
    BY <2>3, <2>4 DEF IInv
<1>4. CASE Aside
  BY <1>4 DEF Aside, IInv, Types, AllReported, Reported, EnvelopesHaveNoPayload
<1> QED
  BY <1>1, <1>2, <1>3, <1>4, StepForms

LEMMA Invariance == Spec => []IInv
<1>1. Init => IInv
  <2> SUFFICES ASSUME Init PROVE IInv
    OBVIOUS
  <2>1. PICK c \in Documents : document = Fresh(c)
    BY DEF Init
  <2>2. added \in Seq(Keys \X Networks) /\ Len(added) = 0 /\ answers \subseteq Made
    BY DEF Init
  <2>3. AllReported
    BY <2>2 DEF AllReported
  <2> QED
    BY <2>1, <2>2, <2>3, FreshForm DEF IInv, Types, EnvelopesHaveNoPayload
<1>2. IInv /\ [Next]_vars => IInv'
  BY Step
<1> QED
  BY <1>1, <1>2, PTL DEF Spec

\* A key Core reports as signed (attach_signature and the apply functions) is one the network
\* finds satisfied on the document, whatever devices, cosigners and the host did before.
THEOREM ReportedKeysAreSatisfied == Spec => []SignedIsSatisfied
<1>1. IInv => SignedIsSatisfied
  <2> SUFFICES ASSUME IInv, NEW i \in DOMAIN added
               PROVE  SatisfiesKey(document, added[i][2], added[i][1])
    BY DEF SignedIsSatisfied
  <2>1. i \in 1 .. Len(added)
    BY DEF IInv, Types
  <2>2. Reported(document, added[i][1], added[i][2])
    BY <2>1 DEF IInv, AllReported
  <2>3. DOMAIN document.signatures = 1 .. Len(document.signatures)
    BY DEF IInv, Types
  <2> QED
    BY <2>2, <2>3 DEF Reported, SatisfiesKey, Verifies
<1> QED
  BY <1>1, Invariance, PTL

\* Signatures on a document stay, in their order, until the host puts it away, and a payload
\* that is not Core's is not touched.
THEOREM SignaturesStay == Spec => SignaturesAreKept
<1> DEFINE Kept ==
        \/ /\ document'.content = document.content
           /\ IsPrefix(document.signatures, document'.signatures)
           /\ document.payload \in {"none", "custom"} => document' = document
        \/ document' \in {Fresh(c) : c \in Documents}
<1>1. ASSUME NEW q \in Seq(Stored), NEW x \in Stored PROVE IsPrefix(q, Append(q, x))
  <2>1. Len(Append(q, x)) = Len(q) + 1 /\ Len(q) \in Nat
    OBVIOUS
  <2>2. SubSeq(Append(q, x), 1, Len(q)) = SubSeq(q, 1, Len(q))
    BY <2>1
  <2> QED
    BY <2>1, <2>2 DEF IsPrefix
<1>2. IInv /\ [Next]_vars => [Kept]_vars
  <2> SUFFICES ASSUME IInv, [Next]_vars PROVE Kept
    OBVIOUS
  <2>1. CASE Signing
    <3>1. PICK k \in Keys, n \in Networks, s \in Made : Add(n, k, s)
      BY <2>1 DEF Signing
    <3>2. DecoratedByKey(k, s) \in Stored /\ document.signatures \in Seq(Stored)
      BY HintAssumption DEF DecoratedByKey, Stored, IInv, Types
    <3> QED
      BY <1>1, <3>1, <3>2, AddKeeps
  <2>2. CASE Cosigns
    <3>1. PICK s : \E k \in Keys, n \in Networks : CosignerAdds(k, n, s)
      BY <2>2 DEF Cosigns
    <3>2. PICK k \in Keys, n \in Networks : CosignerAdds(k, n, s)
      BY <3>1
    <3> QED
      BY <1>1, <3>2, CosignerKeeps DEF IInv, Types, EnvelopesHaveNoPayload
  <2>3. CASE TakesUp
    BY <2>3 DEF TakesUp, TakeUp
  <2>4. CASE Aside
    <3>1. Len(document.signatures) <= Len(document.signatures)
      BY DEF IInv, Types
    <3> QED
      BY <2>4, <3>1 DEF Aside, IsPrefix
  <2> QED
    BY <2>1, <2>2, <2>3, <2>4, StepForms
<1> QED
  BY <1>2, Invariance, PTL DEF Spec, SignaturesAreKept

----------------------------------------------------------------------------
\* A grant (AgentCapability.validate_transaction) bounds everything ever signed under it.
THEOREM AgentsStayWithin == Spec => []AgentWithinGrant
<1>1. Init => AgentWithinGrant
  BY DEF Init, AgentWithinGrant
<1>2. ASSUME NEW g \in Grants, NEW n \in Networks, AgentMay(g, document, n, now)
      PROVE  LET c == document.content
                 sources == {c.source} \union
                            ({c.operations[i].source : i \in DOMAIN c.operations} \ {NoSource})
             IN  /\ {s.key : s \in sources} = {g.key}
                 /\ {c.operations[i].type : i \in DOMAIN c.operations} \subseteq g.allowed
  BY <1>2 DEF AgentMay, OperationSource, SourceKey
<1>3. AgentWithinGrant /\ [Next]_vars => AgentWithinGrant'
  <2> SUFFICES ASSUME AgentWithinGrant, [Next]_vars PROVE AgentWithinGrant'
    OBVIOUS
  <2>1. ASSUME NEW g \in Grants, NEW n \in Networks, AgentSigns(g, n) PROVE AgentWithinGrant'
    <3>1. /\ AgentMay(g, document, n, now)
          /\ granted' = granted \union
                {[grant |-> g, content |-> document.content, network |-> n, time |-> now]}
      BY <2>1 DEF AgentSigns
    <3>2. /\ n = g.network /\ now < g.expires /\ document.content.fee <= g.maxFee
          /\ Len(document.content.operations) \in 1 .. g.maxOperations
      BY <3>1 DEF AgentMay
    <3> DEFINE new == [grant |-> g, content |-> document.content, network |-> n, time |-> now]
               Within(a) ==
                   LET sources == {a.content.source} \union
                                  ({a.content.operations[i].source : i \in DOMAIN a.content.operations} \ {NoSource})
                   IN  /\ {s.key : s \in sources} = {a.grant.key}
                       /\ a.network = a.grant.network /\ a.time < a.grant.expires
                       /\ a.content.fee <= a.grant.maxFee
                       /\ Len(a.content.operations) \in 1 .. a.grant.maxOperations
                       /\ {a.content.operations[i].type : i \in DOMAIN a.content.operations}
                              \subseteq a.grant.allowed
    <3>3. new.grant = g /\ new.content = document.content /\ new.network = n /\ new.time = now
      OBVIOUS
    <3> HIDE DEF new
    <3>4. Within(new)
      BY <1>2, <3>1, <3>2, <3>3
    <3>5. \A a \in granted : Within(a)
      BY DEF AgentWithinGrant
    <3>6. granted' = granted \union {new}
      BY <3>1 DEF new
    <3> HIDE DEF Within
    <3>7. \A a \in granted' : Within(a)
      BY <3>4, <3>5, <3>6
    <3> QED
      BY <3>7 DEF AgentWithinGrant, Within
  <2>2. CASE granted' = granted
    BY <2>2 DEF AgentWithinGrant
  <2>3. (\E g \in Grants, n \in Networks : AgentSigns(g, n)) \/ granted' = granted
    BY DEF Next, Tick, TakeUp, SignWithSoftware, DeviceAnswers, ApplySignature, CosignerAdds,
           SignMessage, vars
  <2> QED
    BY <2>1, <2>2, <2>3
<1> QED
  BY <1>1, <1>3, PTL DEF Spec

\* The signature of a message authorizes no transaction and no invocation, on any network,
\* whatever the bytes of the message are.
THEOREM MessagesAreApart == Spec => []MessagesAuthorizeNothing
<1>1. Init => MessagesAuthorizeNothing
  BY DEF Init, MessagesAuthorizeNothing
<1>2. MessagesAuthorizeNothing /\ [Next]_vars => MessagesAuthorizeNothing'
  <2> SUFFICES ASSUME MessagesAuthorizeNothing, [Next]_vars PROVE MessagesAuthorizeNothing'
    OBVIOUS
  <2>1. ASSUME NEW k \in Keys, NEW t \in Texts, SignMessage(k, t)
        PROVE  MessagesAuthorizeNothing'
    <3>1. messages' = {Signature(k, MessagePayload(t), 1)}
      BY <2>1 DEF SignMessage
    <3>2. Signature(k, MessagePayload(t), 1).over[1] = "Stellar Signed Message:"
      BY DEF Signature, MessagePayload
    <3>3. ASSUME NEW c \in Documents, NEW n \in Networks
          PROVE  Preimage(c, n)[1] # "Stellar Signed Message:"
      <4>1. CASE IsTransaction(c)
        BY <4>1 DEF Preimage
      <4>2. CASE ~IsTransaction(c) /\ c.credentials = "address"
        BY <4>2 DEF Preimage
      <4>3. CASE ~IsTransaction(c) /\ c.credentials # "address"
        BY <4>3 DEF Preimage
      <4> QED
        BY <4>1, <4>2, <4>3
    <3> QED
      BY <3>1, <3>2, <3>3 DEF MessagesAuthorizeNothing
  <2>2. CASE messages' = messages
    BY <2>2 DEF MessagesAuthorizeNothing
  <2>3. (\E k \in Keys, t \in Texts : SignMessage(k, t)) \/ messages' = messages
    BY DEF Next, Tick, TakeUp, SignWithSoftware, DeviceAnswers, ApplySignature, CosignerAdds,
           AgentSigns, vars
  <2> QED
    BY <2>1, <2>2, <2>3
<1> QED
  BY <1>1, <1>2, PTL DEF Spec

-----------------------------------------------------------------------------
(***************************************************************************)
(* Protected signers, for any passcodes, seeds, phrases, ambiguous phrases *)
(* and numbers of accounts and envelopes.  Two facts about what a host     *)
(* stores carry everything: what an envelope holds signs for the account   *)
(* it was made for, and its salt is its own.                               *)
(***************************************************************************)
EnvelopeKept(e) ==
    /\ e \in Signers!Envelope
    /\ e.salt = e.id
    /\ e.body \in Signers!Materials => Signers!PublicKey(e.body) = Signers!PublicKey(e.origin)

SignersInv ==
    /\ \A e \in envelopes : EnvelopeKept(e)
    /\ made \in 0..MaxEnvelopes
    /\ Signers!MaterialNeedsPasscode

LEMMA MaterialForms ==
    ASSUME NEW m \in Signers!Materials
    PROVE  /\ m.kind \in {"secret", "mnemonic"}
           /\ Signers!Resolved(m) \in Signers!Materials
           /\ Signers!PublicKey(Signers!Resolved(m)) = Signers!PublicKey(m)
           /\ Signers!Derivable(m) => Signers!Derivable(Signers!Resolved(m))
           /\ Signers!Garbled /= m /\ Signers!Foreign /= m
           /\ Signers!PublicKey(m) /= Signers!ContractAddress
  BY DEF Signers!Materials, Signers!Languages, Signers!Resolved, Signers!PublicKey,
         Signers!Derivable, Signers!LanguageKnown, Signers!Garbled, Signers!Foreign,
         Signers!ContractAddress

LEMMA ExpectedForms ==
    ASSUME NEW x \in Signers!Expected
    PROVE  x /= Signers!NoKey
  BY DEF Signers!Expected, Signers!PublicKeys, Signers!PublicKey, Signers!NoKey,
         Signers!ContractAddress, Signers!Materials

LEMMA EnvelopeForms ==
    ASSUME NEW e \in Signers!Envelope
    PROVE  /\ e.pass \in Passes /\ e.pass /= Signers!Empty
           /\ e.salt \in 1..MaxEnvelopes /\ e.id \in 1..MaxEnvelopes
           /\ e.origin \in Signers!Materials
           /\ e.body \in Signers!Materials \union {Signers!Garbled, Signers!Foreign}
           /\ Signers!UnlockKey(e, e.pass) /= Signers!ShortKey
           /\ \A w : Signers!UnlockKey(e, w) = Signers!UnlockKey(e, e.pass) => w = e.pass
  BY SignersAssumption
     DEF Signers!Envelope, Signers!Bodies, Signers!PassesAssumption, Signers!UnlockKey,
         Signers!ShortKey

\* What a passcode opens: the material of the expected account, under its passcode only.
LEMMA Opened ==
    ASSUME NEW e \in Signers!Envelope, NEW w, NEW x,
           Signers!Succeeds(Signers!Reveal(e, w, x))
    PROVE  /\ w = e.pass /\ Signers!Supported(e)
           /\ Signers!Reveal(e, w, x) = Signers!Ok(e.body)
           /\ e.body \in Signers!Materials /\ Signers!Derivable(e.body)
           /\ x = Signers!PublicKey(e.body)
<1> DEFINE d == Signers!DecryptWithPasscode(e, w)
<1>1. /\ Signers!Succeeds(d) /\ Signers!Reveal(e, w, x) = d
      /\ d.value /= Signers!Foreign /\ Signers!Derivable(d.value)
      /\ Signers!PublicKey(d.value) = x
  BY DEF Signers!Reveal, Signers!Identified, Signers!Succeeds, Signers!Fail
<1>2. /\ d = Signers!Ok(e.body) /\ w = e.pass /\ Signers!Supported(e)
      /\ e.body /= Signers!Garbled
  BY <1>1, EnvelopeForms
     DEF Signers!DecryptWithPasscode, Signers!AsPasscode, Signers!Decrypt, Signers!Succeeds,
         Signers!Fail
<1> QED BY <1>1, <1>2, EnvelopeForms DEF Signers!Ok

\* What protecting material yields.
LEMMA Protected ==
    ASSUME NEW m, NEW w \in Signers!AnyPasscode, NEW x, NEW n,
           Signers!Succeeds(Signers!Protect(m, w, x, n))
    PROVE  /\ Signers!Protect(m, w, x, n) = Signers!Ok(Signers!Seal(m, w, n))
           /\ Signers!Derivable(m) /\ w \in Passes
  BY DEF Signers!Protect, Signers!Succeeds, Signers!Fail, Signers!ExpectedSigner,
         Signers!AnyPasscode

LEMMA SealedIsKept ==
    ASSUME NEW m \in Signers!Materials, NEW w \in Passes, NEW n \in 1..MaxEnvelopes,
           NEW o \in Signers!Materials, Signers!PublicKey(o) = Signers!PublicKey(m)
    PROVE  EnvelopeKept([Signers!Seal(m, w, n) EXCEPT !.origin = o])
<1>1. /\ Signers!Resolved(m) \in Signers!Materials
      /\ Signers!PublicKey(Signers!Resolved(m)) = Signers!PublicKey(m)
  BY MaterialForms
<1> DEFINE e == [form |-> "wrapped", kdf |-> "argon2id", pass |-> w, salt |-> n,
                 body |-> Signers!Resolved(m), id |-> n, origin |-> o]
<1>2. [Signers!Seal(m, w, n) EXCEPT !.origin = o] = e BY DEF Signers!Seal
<1>3. EnvelopeKept(e)
  BY <1>1 DEF EnvelopeKept, Signers!Envelope, Signers!Bodies, Signers!Forms, Signers!Kdfs
<1> QED BY <1>2, <1>3

\* A stored protection: one envelope more, for the material that was protected.
LEMMA StoreKeeps ==
    ASSUME SignersInv, made < MaxEnvelopes,
           NEW m \in Signers!Materials, NEW w \in Signers!AnyPasscode, NEW x,
           NEW o \in Signers!Materials, Signers!PublicKey(o) = Signers!PublicKey(m),
           Signers!Store(Signers!Protect(m, w, x, made + 1), o),
           typed \subseteq typed', revealed' = revealed
    PROVE  SignersInv'
<1>1. made + 1 \in 1..MaxEnvelopes /\ made' = made + 1
  BY SignersAssumption DEF SignersInv, Signers!Store, Signers!IndexAssumption
<1> DEFINE e == [Signers!Seal(m, w, made + 1) EXCEPT !.origin = o]
<1>2. w \in Passes /\ envelopes' = envelopes \union {e}
  BY Protected DEF Signers!Store, Signers!Ok
<1>3. EnvelopeKept(e) BY <1>1, <1>2, SealedIsKept
<1> HIDE DEF e
<1>4. \A f \in envelopes' : EnvelopeKept(f) BY <1>2, <1>3 DEF SignersInv
<1>5. Signers!MaterialNeedsPasscode' BY <1>2 DEF SignersInv, Signers!MaterialNeedsPasscode
<1> QED BY <1>1, <1>4, <1>5 DEF SignersInv

LEMMA SignersInit == Signers!Init => SignersInv
  BY SignersAssumption
     DEF Signers!Init, SignersInv, Signers!MaterialNeedsPasscode, Signers!IndexAssumption

LEMMA DamageKeeps ==
    ASSUME SignersInv, NEW e \in envelopes, Signers!Damage(e)
    PROVE  SignersInv'
<1>1. PICK d \in {[e EXCEPT !.form = "unsupported"], [e EXCEPT !.body = Signers!Garbled],
                  [e EXCEPT !.body = Signers!Foreign]} :
        envelopes' = (envelopes \ {e}) \union {d}
  BY DEF Signers!Damage
<1>2. EnvelopeKept(e) BY DEF SignersInv
<1>3. EnvelopeKept(d) /\ d.pass = e.pass /\ d.origin = e.origin
  <2>1. Signers!Garbled \notin Signers!Materials /\ Signers!Foreign \notin Signers!Materials
    BY MaterialForms
  <2> QED
    BY <1>1, <1>2, <2>1 DEF EnvelopeKept, Signers!Envelope, Signers!Bodies, Signers!Forms
<1>4. \A f \in envelopes' : EnvelopeKept(f) BY <1>1, <1>3 DEF SignersInv
<1>5. Signers!MaterialNeedsPasscode'
  BY <1>1, <1>3 DEF Signers!Damage, SignersInv, Signers!MaterialNeedsPasscode
<1> QED BY <1>4, <1>5 DEF SignersInv, Signers!Damage

THEOREM SignersStep == SignersInv /\ [Signers!Next]_signerVars => SignersInv'
<1> SUFFICES ASSUME SignersInv, [Signers!Next]_signerVars PROVE SignersInv' OBVIOUS
<1>0. CASE UNCHANGED signerVars
  BY <1>0 DEF signerVars, SignersInv, Signers!MaterialNeedsPasscode
<1>1. ASSUME NEW m \in Signers!Materials, NEW w \in Signers!AnyPasscode, NEW x,
             Signers!ProtectMaterial(m, w, x)
      PROVE  SignersInv'
  BY <1>1, StoreKeeps DEF Signers!ProtectMaterial, Signers!Types
<1>2. ASSUME NEW m \in Signers!Materials, NEW w \in Passes, Signers!RestoreLegacy(m, w)
      PROVE  SignersInv'
  <2> DEFINE e == [form |-> "legacy", kdf |-> "scrypt", pass |-> w, salt |-> made + 1,
                   body |-> m, id |-> made + 1, origin |-> m]
  <2>1. made + 1 \in 1..MaxEnvelopes /\ made' = made + 1 /\ envelopes' = envelopes \union {e}
        /\ revealed' = revealed /\ typed' = typed
    BY <1>2, SignersAssumption DEF SignersInv, Signers!RestoreLegacy, Signers!IndexAssumption
  <2>2. EnvelopeKept(e)
    BY <2>1 DEF EnvelopeKept, Signers!Envelope, Signers!Bodies, Signers!Forms, Signers!Kdfs
  <2> HIDE DEF e
  <2> QED BY <2>1, <2>2 DEF SignersInv, Signers!MaterialNeedsPasscode
<1>3. CASE Signers!Leave
  BY <1>3 DEF Signers!Leave, SignersInv, Signers!MaterialNeedsPasscode
<1>4. ASSUME NEW e \in envelopes, NEW w \in Signers!AnyPasscode, NEW x,
             NEW new \in Signers!AnyPasscode, Signers!ReprotectEnvelope(e, w, new, x)
      PROVE  SignersInv'
  <2>1. EnvelopeKept(e) /\ e \in Signers!Envelope BY DEF SignersInv, EnvelopeKept
  <2> DEFINE r == Signers!Reveal(e, w, x)
             p == Signers!Protect(Signers!Resolved(e.body), new, x, made + 1)
  <2>2. /\ made < MaxEnvelopes /\ typed \subseteq typed' /\ revealed' = revealed
        /\ Signers!Store(Signers!Reprotect(e, w, new, x, made + 1), e.origin)
    BY <1>4 DEF Signers!ReprotectEnvelope, Signers!Types
  <2>3. Signers!Succeeds(r)
    BY <2>2 DEF Signers!Store, Signers!Reprotect
  <2>4. r = Signers!Ok(e.body) /\ e.body \in Signers!Materials
    BY <2>1, <2>3, Opened
  <2>5. Signers!Reprotect(e, w, new, x, made + 1) = p
    BY <2>3, <2>4 DEF Signers!Reprotect, Signers!Ok
  <2>6. /\ Signers!Resolved(e.body) \in Signers!Materials /\ e.origin \in Signers!Materials
        /\ Signers!PublicKey(e.origin) = Signers!PublicKey(Signers!Resolved(e.body))
    BY <2>1, <2>4, MaterialForms, EnvelopeForms DEF EnvelopeKept
  <2> HIDE DEF r, p
  <2>7. Signers!Store(Signers!Protect(Signers!Resolved(e.body), new, x, made + 1), e.origin)
    BY <2>2, <2>5 DEF p
  <2> QED BY <2>2, <2>6, <2>7, StoreKeeps
<1>5. ASSUME NEW e \in envelopes, NEW w \in Signers!AnyPasscode, NEW x,
             NEW i \in Signers!Indices, Signers!DeriveSigner(e, w, x, i)
      PROVE  SignersInv'
  <2>1. EnvelopeKept(e) /\ e \in Signers!Envelope BY DEF SignersInv, EnvelopeKept
  <2> DEFINE r == Signers!Reveal(e, w, x)
             m == [Signers!Resolved(e.body) EXCEPT !.index = i]
             o == [e.origin EXCEPT !.index = i]
  <2>2. /\ made < MaxEnvelopes /\ typed \subseteq typed' /\ revealed' = revealed
        /\ Signers!Store(Signers!DeriveMnemonicSigner(e, w, x, i, made + 1), o)
    BY <1>5 DEF Signers!DeriveSigner, Signers!Types
  <2>3. Signers!Succeeds(r)
    BY <2>2 DEF Signers!Store, Signers!DeriveMnemonicSigner
  <2>4. r = Signers!Ok(e.body) /\ e.body \in Signers!Materials
    BY <2>1, <2>3, Opened
  <2>5. /\ e.body.kind /= "secret"
        /\ Signers!DeriveMnemonicSigner(e, w, x, i, made + 1) = Signers!Protect(m, w, Signers!NoKey, made + 1)
    BY <2>2, <2>3, <2>4
       DEF Signers!DeriveMnemonicSigner, Signers!Ok, Signers!Store, Signers!Succeeds, Signers!Fail
  <2>6. e.body.kind = "mnemonic" /\ e.origin \in Signers!Materials
        /\ Signers!PublicKey(e.body) = Signers!PublicKey(e.origin)
    BY <2>1, <2>4, <2>5, MaterialForms, EnvelopeForms DEF EnvelopeKept
  <2>7. e.origin.kind = "mnemonic" /\ e.origin.root = e.body.root
    BY <2>6 DEF Signers!PublicKey
  <2>8. /\ m \in Signers!Materials /\ o \in Signers!Materials
        /\ Signers!PublicKey(o) = Signers!PublicKey(m)
    BY <2>4, <2>6, <2>7 DEF Signers!Materials, Signers!Languages, Signers!Resolved, Signers!PublicKey
  <2> HIDE DEF m, o, r
  <2>9. Signers!Store(Signers!Protect(m, w, Signers!NoKey, made + 1), o) BY <2>2, <2>5
  <2> QED BY <2>2, <2>8, <2>9, StoreKeeps
<1>6. ASSUME NEW e \in envelopes, NEW w, NEW x, Signers!HandOutKey(e, w, x)
      PROVE  SignersInv'
  BY <1>6 DEF Signers!HandOutKey, Signers!Types, SignersInv, Signers!MaterialNeedsPasscode
<1>7. ASSUME NEW e \in envelopes, NEW w, NEW x, Signers!RevealMaterial(e, w, x)
      PROVE  SignersInv'
  <2>1. EnvelopeKept(e) /\ e \in Signers!Envelope BY DEF SignersInv, EnvelopeKept
  <2> DEFINE r == Signers!Reveal(e, w, x)
  <2>2. /\ Signers!Succeeds(r) /\ revealed' = revealed \union {r.value}
        /\ typed' = typed \union {w} /\ envelopes' = envelopes /\ made' = made
    BY <1>7 DEF Signers!RevealMaterial, Signers!Types
  <2>3. r = Signers!Ok(e.body) /\ e.body \in Signers!Materials /\ w = e.pass
    BY <2>1, <2>2, Opened
  <2>4. r.value = e.body /\ Signers!PublicKey(e.origin) = Signers!PublicKey(e.body)
    BY <2>1, <2>3 DEF Signers!Ok, EnvelopeKept
  <2> HIDE DEF r
  <2> QED BY <2>2, <2>3, <2>4 DEF SignersInv, Signers!MaterialNeedsPasscode
<1> QED
  BY <1>0, <1>1, <1>2, <1>3, <1>4, <1>5, <1>6, <1>7, DamageKeeps DEF Signers!Next

LEMMA KeptSigners ==
    ASSUME SignersInv
    PROVE  Signers!SignerKept /\ Signers!KeyOpensOne /\ Signers!MaterialNeedsPasscode
<1>1. ASSUME NEW e \in envelopes, NEW w \in Signers!AnyPasscode, NEW x \in Signers!Expected,
             Signers!Succeeds(Signers!Reveal(e, w, x))
      PROVE  /\ Signers!PublicKey(Signers!Reveal(e, w, x).value) = Signers!PublicKey(e.origin)
             /\ x = Signers!PublicKey(e.origin)
  <2>1. EnvelopeKept(e) BY DEF SignersInv
  <2> QED BY <1>1, <2>1, Opened DEF EnvelopeKept, Signers!Ok
<1>2. ASSUME NEW k \in keys, NEW e \in envelopes, NEW f \in envelopes,
             Signers!Decrypt(e, k).code = "Ok", Signers!Decrypt(f, k).code = "Ok"
      PROVE  e.id = f.id
  <2>1. k = Signers!UnlockKey(e, e.pass) /\ k = Signers!UnlockKey(f, f.pass)
    BY <1>2 DEF Signers!Decrypt, Signers!Fail
  <2> QED BY <2>1 DEF Signers!UnlockKey, SignersInv, EnvelopeKept
<1>3. Signers!SignerKept BY <1>1 DEF Signers!SignerKept
<1>4. Signers!KeyOpensOne BY <1>2 DEF Signers!KeyOpensOne
<1> QED BY <1>3, <1>4 DEF SignersInv

LEMMA AgreeingPaths ==
    ASSUME SignersInv
    PROVE  Signers!PathsAgree
<1> SUFFICES ASSUME NEW e \in envelopes, NEW w \in Signers!AnyPasscode, NEW x \in Signers!Expected
             PROVE  LET c == Signers!DeriveUnlockKey(e, w, x).code
                    IN  /\ Signers!Reveal(e, w, x).code = c
                        /\ Signers!Reprotect(e, w, w, x, 1).code = c
                        /\ Signers!SignWithPasscode(e, w, x, TRUE).code = c
  BY DEF Signers!PathsAgree
<1> DEFINE d == Signers!DeriveUnlockKey(e, w, x)
           r == Signers!Reveal(e, w, x)
<1>1. e \in Signers!Envelope BY DEF SignersInv, EnvelopeKept
<1>2. r.code = d.code
  <2>1. CASE w = Signers!Empty
    BY <1>1, <2>1, EnvelopeForms
       DEF Signers!Reveal, Signers!DeriveUnlockKey, Signers!DecryptWithPasscode,
           Signers!Identified, Signers!AsPasscode, Signers!Decrypt, Signers!Succeeds,
           Signers!Fail
  <2>2. CASE w /= Signers!Empty
    <3> DEFINE a == Signers!AsPasscode(Signers!Decrypt(e, Signers!UnlockKey(e, w)))
               i == Signers!Identified(a, x)
    <3>1. Signers!DecryptWithPasscode(e, w) = a
      BY <2>2 DEF Signers!DecryptWithPasscode, Signers!AsPasscode, Signers!Decrypt, Signers!Fail
    <3>2. r = i BY <3>1 DEF Signers!Reveal
    <3>3. d = IF Signers!Succeeds(i) THEN Signers!Ok(Signers!UnlockKey(e, w)) ELSE i
      BY <2>2 DEF Signers!DeriveUnlockKey
    <3> HIDE DEF a, i
    <3>4. CASE Signers!Succeeds(i)
      BY <3>2, <3>3, <3>4 DEF Signers!Succeeds, Signers!Ok
    <3>5. CASE ~Signers!Succeeds(i)
      <4>1. d = i BY <3>3, <3>5
      <4> QED BY <3>2, <4>1
    <3> QED BY <3>4, <3>5
  <2> QED BY <2>1, <2>2
<1>3. CASE ~Signers!Succeeds(r)
  <2>1. ~Signers!Succeeds(d) BY <1>2, <1>3 DEF Signers!Succeeds
  <2> QED BY <1>2, <1>3, <2>1 DEF Signers!Reprotect, Signers!SignWithPasscode
<1>4. CASE Signers!Succeeds(r)
  <2>1. /\ w = e.pass /\ Signers!Supported(e) /\ r = Signers!Ok(e.body)
        /\ e.body \in Signers!Materials /\ Signers!Derivable(e.body)
        /\ x = Signers!PublicKey(e.body)
    BY <1>1, <1>4, Opened
  <2>2. d.code = "Ok" /\ Signers!Succeeds(d) BY <1>2, <1>4 DEF Signers!Succeeds
  <2>3. Signers!Reprotect(e, w, w, x, 1).code = "Ok"
    <3> DEFINE m == Signers!Resolved(e.body)
    <3>1. Signers!Reprotect(e, w, w, x, 1) = Signers!Protect(m, w, x, 1)
      BY <1>4, <2>1 DEF Signers!Reprotect, Signers!Ok
    <3>2. /\ Signers!Derivable(m) /\ w /= Signers!Empty /\ x /= Signers!NoKey
          /\ x /= Signers!ContractAddress /\ Signers!PublicKey(m) = x
      BY <1>1, <2>1, MaterialForms, EnvelopeForms, ExpectedForms
    <3> HIDE DEF m
    <3>3. Signers!ExpectedSigner(m, x) = "Ok" BY <3>2 DEF Signers!ExpectedSigner
    <3> QED BY <3>1, <3>2, <3>3 DEF Signers!Protect, Signers!Ok
  <2>4. Signers!SignWithPasscode(e, w, x, TRUE).code = "Ok"
    <3> DEFINE k == Signers!UnlockKey(e, w)
    <3>1. d = Signers!Ok(k) /\ k /= Signers!ShortKey
      BY <1>1, <2>1, <2>2, EnvelopeForms DEF Signers!DeriveUnlockKey, Signers!Succeeds, Signers!Fail
    <3>2. Signers!SignWithPasscode(e, w, x, TRUE) = Signers!Unlock(e, k, x)
      BY <2>2, <3>1 DEF Signers!SignWithPasscode, Signers!Sign, Signers!Ok
    <3>3. Signers!Decrypt(e, k) = Signers!Ok(e.body)
      BY <2>1, MaterialForms DEF Signers!Decrypt
    <3>4. e.body /= Signers!Foreign /\ x /= Signers!ContractAddress
      BY <2>1, MaterialForms
    <3>5. Signers!Identified(Signers!Ok(e.body), x) = Signers!Ok(e.body)
      BY <2>1, <3>4 DEF Signers!Identified, Signers!Ok, Signers!Succeeds
    <3>6. k /= Signers!ShortKey BY <3>1
    <3> HIDE DEF k
    <3>7. Signers!Unlock(e, k, x) = Signers!Ok(e.body)
      BY <3>3, <3>5, <3>6 DEF Signers!Unlock
    <3>8. Signers!Ok(e.body).code = "Ok" BY DEF Signers!Ok
    <3> QED BY <3>2, <3>7, <3>8, Zenon
  <2> QED BY <1>2, <2>2, <2>3, <2>4
<1> QED BY <1>3, <1>4

LEMMA GuidingCodes ==
    ASSUME SignersInv
    PROVE  Signers!CodesGuide
<1> SUFFICES ASSUME NEW e \in envelopes, NEW x \in Signers!PublicKeys, NEW k \in keys,
                    NEW w \in Signers!AnyPasscode
             PROVE  /\ e.body /= Signers!Garbled
                         => Signers!DeriveUnlockKey(e, e.pass, x).code /= "InvalidPasscode"
                    /\ e.body /= Signers!Garbled
                         => Signers!Unlock(e, Signers!UnlockKey(e, e.pass), x).code /= "InvalidUnlockKey"
                    /\ Signers!Unlock(e, k, x).code = "InvalidProtectedData"
                         => \A v \in Passes, y \in Signers!PublicKeys :
                              ~Signers!Succeeds(Signers!DeriveUnlockKey(e, v, y))
  BY DEF Signers!CodesGuide
<1>1. e \in Signers!Envelope BY DEF SignersInv, EnvelopeKept
<1> DEFINE key == Signers!UnlockKey(e, e.pass)
<1>2. ASSUME e.body /= Signers!Garbled
      PROVE  /\ Signers!DeriveUnlockKey(e, e.pass, x).code /= "InvalidPasscode"
             /\ Signers!Unlock(e, key, x).code /= "InvalidUnlockKey"
  <2>1. e.pass /= Signers!Empty /\ key /= Signers!ShortKey BY <1>1, EnvelopeForms
  <2> DEFINE d == Signers!Decrypt(e, key)
  <2>2. d.code \in {"Ok", "InvalidProtectedData"}
    BY <1>2 DEF Signers!Decrypt, Signers!Fail, Signers!Ok
  <2>3. Signers!AsPasscode(d) = d BY <2>2 DEF Signers!AsPasscode
  <2>4. Signers!Identified(d, x).code \in
          {"Ok", "InvalidProtectedData", "InvalidInput", "IdentityMismatch"}
    BY <2>2 DEF Signers!Identified, Signers!Succeeds, Signers!Fail
  <2> HIDE DEF d, key
  <2> QED
    BY <2>1, <2>3, <2>4 DEF Signers!DeriveUnlockKey, Signers!Unlock, Signers!Ok, d, key
<1>3. ASSUME Signers!Unlock(e, k, x).code = "InvalidProtectedData",
             NEW v \in Passes, NEW y \in Signers!PublicKeys,
             Signers!Succeeds(Signers!DeriveUnlockKey(e, v, y))
      PROVE  FALSE
  <2> DEFINE d == Signers!Decrypt(e, k)
  <2>1. /\ ~Signers!Supported(e) \/ e.body = Signers!Foreign \/ ~Signers!Derivable(e.body)
    BY <1>3 DEF Signers!Unlock, Signers!Identified, Signers!Decrypt, Signers!Succeeds,
       Signers!Fail, Signers!Ok
  <2> DEFINE a == Signers!AsPasscode(Signers!Decrypt(e, Signers!UnlockKey(e, v)))
  <2>2. Signers!Succeeds(Signers!Identified(a, y))
    BY <1>3 DEF Signers!DeriveUnlockKey, Signers!Succeeds, Signers!Fail
  <2>3. Signers!Succeeds(a) /\ a.value /= Signers!Foreign /\ Signers!Derivable(a.value)
    BY <2>2 DEF Signers!Identified, Signers!Succeeds, Signers!Fail
  <2>4. Signers!Supported(e) /\ a.value = e.body
    BY <2>3 DEF Signers!AsPasscode, Signers!Decrypt, Signers!Succeeds, Signers!Fail, Signers!Ok
  <2> QED BY <2>1, <2>3, <2>4
<1> QED BY <1>2, <1>3

\* Neither an entry that is not a direct account's nor anything else makes a call
\* of the native binding fail with a code the binding cannot say.
LEMMA SurvivingCodes == SignersInv => Signers!CodesSurvive
<1> SUFFICES ASSUME NEW call \in Signers!NativeOffers, NEW c \in Signers!CodesOf(call)
             PROVE  c /= "InvalidAuthorization"
  BY DEF Signers!CodesSurvive, Signers!CodeAt, Signers!NativeCode, Signers!SdkCode,
         Signers!Offers, Signers!Layers
<1> DEFINE Said == {"Ok", "InvalidInput", "InvalidPasscode", "InvalidUnlockKey",
                    "InvalidProtectedData", "IdentityMismatch", "InvalidTransaction",
                    "InvalidMessageSignature"}
<1>1. \A e, k : Signers!Decrypt(e, k).code \in Said
  BY DEF Signers!Decrypt, Signers!Fail, Signers!Ok
<1>2. \A r, x : r.code \in Said => Signers!Identified(r, x).code \in Said
  BY DEF Signers!Identified, Signers!Fail
<1>3. \A r : r.code \in Said => Signers!AsPasscode(r).code \in Said
  BY DEF Signers!AsPasscode, Signers!Fail
<1>4. \A e, w : Signers!DecryptWithPasscode(e, w).code \in Said
  BY <1>1, <1>3 DEF Signers!DecryptWithPasscode, Signers!Fail
<1>5. \A e, k, x : Signers!Unlock(e, k, x).code \in Said
  BY <1>1, <1>2 DEF Signers!Unlock, Signers!Fail
<1>6. \A e, w, x : Signers!DeriveUnlockKey(e, w, x).code \in Said
  <2> SUFFICES ASSUME NEW e, NEW w, NEW x PROVE Signers!DeriveUnlockKey(e, w, x).code \in Said
    OBVIOUS
  <2> DEFINE r == Signers!Identified(Signers!AsPasscode(Signers!Decrypt(e, Signers!UnlockKey(e, w))), x)
  <2>1. r.code \in Said BY <1>1, <1>2, <1>3
  <2> HIDE DEF r
  <2> QED BY <2>1 DEF Signers!DeriveUnlockKey, Signers!Fail, Signers!Ok, r
<1>7. \A e, w, x : Signers!Reveal(e, w, x).code \in Said
  BY <1>2, <1>4 DEF Signers!Reveal
<1>8. \A e, k, x : Signers!Sign(e, k, x, FALSE).code \in Said
  BY <1>5 DEF Signers!Sign, Signers!Fail
<1>9. \A m, w, x, n : Signers!Protect(m, w, x, n).code \in Said
  BY DEF Signers!Protect, Signers!ExpectedSigner, Signers!Fail, Signers!Ok
<1>10. \A e, w, x, i, n : Signers!DeriveMnemonicSigner(e, w, x, i, n).code \in Said
  BY <1>7, <1>9 DEF Signers!DeriveMnemonicSigner, Signers!Fail
<1>11. Signers!VerifyMessage(FALSE).code \in Said
  BY DEF Signers!VerifyMessage, Signers!Fail
<1>12. call \in {"protect", "derive-signer", "reprotect", "derive-key", "validate-key",
                 "sign", "reveal", "verify-message"}
  BY DEF Signers!NativeOffers, Signers!Calls
<1> HIDE DEF Said
<1>13. c \in Said
  <2>1. CASE call = "protect" BY <1>9, <2>1 DEF Signers!CodesOf
  <2>2. CASE call \in {"derive-signer", "reprotect"}
    <3>2. \A n : \A e, w, x : Signers!DeriveMnemonicSigner(e, w, x, n, 1).code \in Said
      BY <1>10, Zenon
    <3>3. \A e, w, x : Signers!DeriveMnemonicSigner(e, w, x, MaxIndex + 1, 1).code \in Said
      BY <3>2, Zenon
    <3>4. CASE call = "derive-signer" BY <3>3, <3>4 DEF Signers!CodesOf
    <3>5. CASE call = "reprotect" BY <3>3, <3>5 DEF Signers!CodesOf
    <3> QED BY <2>2, <3>4, <3>5
  <2>3. CASE call = "derive-key" BY <1>6, <2>3 DEF Signers!CodesOf
  <2>4. CASE call = "validate-key" BY <1>5, <2>4 DEF Signers!CodesOf
  <2>5. CASE call = "sign"
    BY <1>5, <2>5 DEF Signers!CodesOf, Signers!Sign, Signers!Fail, Said
  <2>6. CASE call = "reveal" BY <1>7, <2>6 DEF Signers!CodesOf
  <2>7. CASE call = "verify-message"
    BY <2>7 DEF Signers!CodesOf, Signers!VerifyMessage, Signers!Fail, Said
  <2> QED BY <1>12, <2>1, <2>2, <2>3, <2>4, <2>5, <2>6, <2>7
<1> QED BY <1>13 DEF Said

LEMMA SignersKeep == MCSpec => []SignersInv
<1>1. MCInit => SignersInv BY SignersInit DEF MCInit
<1>2. SignersInv /\ [MCNext]_allVars => SignersInv'
  <2>1. [MCNext]_allVars => [Signers!Next]_signerVars
    BY DEF MCNext, allVars
  <2> QED BY <2>1, SignersStep
<1> QED BY <1>1, <1>2, PTL DEF MCSpec

\* client_api.rs reprotect_signer, derive_mnemonic_signer and reveal_signing_material:
\* however an envelope came about, it opens to its own account's material; an unlock
\* key opens one envelope; and nothing is revealed without a passcode.
THEOREM SignersStayTheirs == MCSpec => []SignersAreKept
<1>1. SignersInv => SignersAreKept BY KeptSigners DEF SignersAreKept
<1> QED BY <1>1, SignersKeep, PTL

\* protected_signer.rs and the bindings: every path that takes a passcode accepts and
\* refuses alike, and what a code says about another passcode or key is true.
THEOREM CodesCanBeTrusted == MCSpec => []CodesGuide
<1>1. SignersInv => CodesGuide
  BY AgreeingPaths, GuidingCodes, SurvivingCodes DEF CodesGuide
<1> QED BY <1>1, SignersKeep, PTL
=============================================================================
