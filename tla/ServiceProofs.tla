----------------------------- MODULE ServiceProofs -----------------------------
(***************************************************************************)
(* Proofs about what a wallet talks to.                                    *)
(*                                                                         *)
(* The protection domain on Android, for any number of signers, key pairs  *)
(* and re-protections: TypeOK whether or not commits fail, and, where they *)
(* do not, that the pair named on disk exists and that a removed domain    *)
(* makes no signature.  Then SEP-10 sessions and transfers at an anchor,   *)
(* for any anchors, documents and answers; the history cache, for any      *)
(* number of operations, any page and any window of whole pages; and       *)
(* customer requests, for any options, names and numbers of fields.        *)
(***************************************************************************)
EXTENDS MCServices, Sequences, FiniteSetTheorems, WellFoundedInduction, TLAPS


\* What each thread may be in the middle of.
MainStates ==
    {Idle}
        \cup [at : {"commit"}, alias : Aliases, previous : Aliases \cup {None}]
        \cup [at : {"retire"}, alias : Aliases, previous : Aliases \cup {None}]
        \cup [at : {"discard"}, alias : Aliases]
        \cup [at : {"signed"}, ok : BOOLEAN, wrapped : 0 .. MaxVersion, envelope : 0 .. MaxVersion]

NativeStates ==
    {Idle}
        \cup [at : {"register"}, signer : Signers, record : Record]
        \cup [at : {"clear", "delete"}, alias : Aliases \cup {None}]

Types ==
    /\ TypeOK
    /\ main \in MainStates
    /\ native \in NativeStates

\* The names of pairs that an enrolment in progress holds.
Pending ==
    {a \in Aliases :
        \/ prompt # None /\ prompt.kind = "domain" /\ prompt.alias = a
        \/ main.at \in {"commit", "discard"} /\ main.alias = a}

\* A pending pair is not the one in use and is not being removed, ...
PendingIsApart ==
    \A a \in Pending :
        /\ a # disk.active
        /\ native.at \in {"clear", "delete"} => native.alias # a

\* ... it exists until it is committed or discarded, ...
PendingExists ==
    /\ (prompt # None /\ prompt.kind = "domain") => prompt.alias \in keys
    /\ main.at = "commit" => main.alias \in keys

\* ... and the pair deleted after a commit, or after the preferences were cleared, is not in use.
RetiredIsNotActive ==
    /\ main.at = "commit" => main.previous # main.alias
    /\ (main.at = "retire" /\ disk.active # None) => main.previous # disk.active
    /\ (native.at = "delete" /\ disk.active # None) => native.alias # disk.active

\* Commits never leave the disk behind.
DiskFollows == memory = disk

IInv ==
    /\ Types
    /\ DiskFollows
    /\ PendingIsApart
    /\ PendingExists
    /\ RetiredIsNotActive
    /\ DurableDomainHasItsKey

\* A domain that is closed, or about to be, has no registered signer, ...
ClosedIsEmpty == (closed \/ native.at = "delete") => \A s \in Signers : memory.signers[s] = None

\* ... and a signing prompt that still finds its pair holds the one in use, or the one that a
\* removal is about to delete.
PromptIsOfTheDomain ==
    (prompt # None /\ prompt.kind = "sign") =>
        /\ closed => prompt.alias \notin keys
        /\ native.at = "clear" => native.alias = disk.active
        /\ native.at = "delete" => disk.active = None
        /\ prompt.alias \in keys =>
              prompt.alias = IF native.at = "delete" THEN native.alias ELSE disk.active

CInv ==
    /\ Types
    /\ DiskFollows
    /\ ClosedIsEmpty
    /\ PromptIsOfTheDomain

----------------------------------------------------------------------------
\* The initial state has the types.
LEMMA InitTypes == Init => Types
<1> SUFFICES ASSUME Init PROVE Types
  OBVIOUS
<1>1. memory \in Preferences /\ disk \in Preferences
  BY DEF Init, Cleared, Preferences
<1>2. version \in [Signers -> 0 .. MaxVersion]
  BY MaxVersionIsNat DEF Init
<1>3. main \in MainStates /\ native \in NativeStates
  BY DEF Init, MainStates, NativeStates
<1>4. keys \subseteq spent /\ spent \subseteq Aliases /\ spoiled \subseteq spent
  BY DEF Init
<1>5. prompt \in Prompts \cup {None} /\ busy \in BOOLEAN /\ closed \in BOOLEAN
  BY DEF Init
<1>6. ((prompt # None \/ main # Idle) <=> busy) /\ ~(prompt # None /\ main # Idle)
  BY DEF Init
<1> QED
  BY <1>1, <1>2, <1>3, <1>4, <1>5, <1>6 DEF Types, TypeOK

\* Every action keeps the types, commits that fail included.
LEMMA TypesInvariant == Spec => []Types
<1>1. Init => Types
  BY InitTypes
<1>2. Types /\ [Next]_vars => Types'
  <2> SUFFICES ASSUME Types, [Next]_vars PROVE Types'
    OBVIOUS
  <2> USE MaxVersionIsNat, NoneIsNoAlias, NoneIsNoPrompt
  <2> USE DEF Types, TypeOK, Idle
  <2>1. CASE InitializeSystemAuth
    BY <2>1 DEF InitializeSystemAuth, Prompts, MainStates, NativeStates
  <2>2. ASSUME NEW s \in Signers, BeginRegister(s) PROVE Types'
    BY <2>2 DEF BeginRegister, HasDomain, NativeStates, Record, Preferences
  <2>3. CASE StoreRegistration
    <3>1. native.signer \in Signers /\ native.record \in Record
      BY <2>3 DEF StoreRegistration, NativeStates
    <3>2. [memory EXCEPT !.signers[native.signer] = native.record] \in Preferences
      BY <3>1 DEF Preferences
    <3> QED
      BY <2>3, <3>2 DEF StoreRegistration, Commit, NativeStates
  <2>4. ASSUME NEW s \in Signers, RemoveSigner(s) PROVE Types'
    BY <2>4 DEF RemoveSigner, Commit, NativeStates, Preferences
  <2>5. CASE BeginRemoveDomain
    BY <2>5 DEF BeginRemoveDomain, NativeStates, Preferences
  <2>6. CASE ClearPreferences
    BY <2>6 DEF ClearPreferences, Commit, Cleared, NativeStates, Preferences
  <2>7. CASE DeleteDomainKey
    BY <2>7 DEF DeleteDomainKey, NativeStates
  <2>8. ASSUME NEW s \in Signers, SignWithSystemAuth(s) PROVE Types'
    BY <2>8 DEF SignWithSystemAuth, HasDomain, Opens, Prompts, Preferences, Record
  <2>9. CASE PromptError
    BY <2>9 DEF PromptError
  <2>10. CASE FinishSign
    BY <2>10 DEF FinishSign, MainStates, Prompts, Opens
  <2>11. CASE BeginFinishDomain
    BY <2>11 DEF BeginFinishDomain, MainStates, Prompts, Opens, Preferences
  <2>12. CASE CommitDomain
    BY <2>12 DEF CommitDomain, Commit, Cleared, MainStates, Preferences
  <2>13. CASE EndFinishDomain
    <3>1. main # Idle
      BY <2>13 DEF EndFinishDomain
    <3> QED
      BY <2>13, <3>1 DEF EndFinishDomain, MainStates
  <2>14. CASE EndFinishSign
    <3>1. main # Idle
      BY <2>14 DEF EndFinishSign
    <3> QED
      BY <2>14, <3>1 DEF EndFinishSign, MainStates
  <2>15. CASE RotatePasscode
    BY <2>15 DEF RotatePasscode
  <2>16. CASE BiometricsChange
    BY <2>16 DEF BiometricsChange
  <2>17. CASE Crash
    BY <2>17 DEF Crash, MainStates, NativeStates
  <2>18. CASE UNCHANGED vars
    BY <2>18 DEF vars
  <2> QED
    BY <2>1, <2>2, <2>3, <2>4, <2>5, <2>6, <2>7, <2>8, <2>9, <2>10, <2>11, <2>12, <2>13, <2>14,
       <2>15, <2>16, <2>17, <2>18 DEF Next, NativeThread, MainThread
<1> QED
  BY <1>1, <1>2, PTL DEF Spec

\* Type correctness, whether or not commits fail.
THEOREM TypesAreKept == Spec => []TypeOK
BY TypesInvariant, PTL DEF Types

\* A failed commit is the only way for the memory to differ from the disk.
LEMMA CommitsAreDurable ==
    ASSUME WritesFail = FALSE, memory = disk,
           NEW edited, NEW written \in BOOLEAN, Commit(edited, written)
    PROVE  written /\ memory' = edited /\ disk' = edited
BY DEF Commit

\* Where commits do not fail, every step keeps the disk and the pairs together.
LEMMA DomainStep ==
    ASSUME WritesFail = FALSE, IInv, Types', [Next]_vars
    PROVE  IInv'
<1> USE DEF IInv, DiskFollows, PendingIsApart, PendingExists, RetiredIsNotActive,
            DurableDomainHasItsKey, Pending, Idle
<1>1. CASE InitializeSystemAuth
  <2>1. main = Idle /\ disk.active \in Aliases \cup {None} /\ keys \subseteq spent
    BY <1>1 DEF InitializeSystemAuth, Types, TypeOK, Preferences
  <2> QED
    BY <1>1, <2>1, NoneIsNoAlias DEF InitializeSystemAuth
<1>2. ASSUME NEW s \in Signers, BeginRegister(s) PROVE IInv'
  BY <1>2 DEF BeginRegister
<1>3. CASE StoreRegistration
  <2>1. disk' = [disk EXCEPT !.signers[native.signer] = native.record] /\ memory' = disk'
    BY <1>3, CommitsAreDurable DEF StoreRegistration
  <2>2. disk'.active = disk.active
    BY <2>1 DEF Types, TypeOK, Preferences
  <2> QED
    BY <1>3, <2>1, <2>2 DEF StoreRegistration
<1>4. ASSUME NEW s \in Signers, RemoveSigner(s) PROVE IInv'
  <2>1. disk' = [disk EXCEPT !.signers[s] = None] /\ memory' = disk'
    BY <1>4, CommitsAreDurable DEF RemoveSigner
  <2>2. disk'.active = disk.active
    BY <2>1 DEF Types, TypeOK, Preferences
  <2> QED
    BY <1>4, <2>1, <2>2 DEF RemoveSigner
<1>5. CASE BeginRemoveDomain
  BY <1>5 DEF BeginRemoveDomain
<1>6. CASE ClearPreferences
  <2>1. disk' = Cleared /\ memory' = Cleared /\ native' = [native EXCEPT !.at = "delete"]
    BY <1>6, CommitsAreDurable DEF ClearPreferences
  <2>2. disk'.active = None
    BY <2>1 DEF Cleared
  <2>3. native'.alias = native.alias
    BY <1>6, <2>1 DEF ClearPreferences, Types, NativeStates
  <2> QED
    BY <1>6, <2>1, <2>2, <2>3, NoneIsNoAlias DEF ClearPreferences
<1>7. CASE DeleteDomainKey
  BY <1>7 DEF DeleteDomainKey, Types, TypeOK, Prompts, MainStates
<1>8. ASSUME NEW s \in Signers, SignWithSystemAuth(s) PROVE IInv'
  BY <1>8 DEF SignWithSystemAuth, Types, TypeOK
<1>9. CASE PromptError
  BY <1>9 DEF PromptError, Types, TypeOK, Prompts
<1>10. CASE FinishSign
  BY <1>10 DEF FinishSign
<1>11. CASE BeginFinishDomain
  BY <1>11 DEF BeginFinishDomain, Types, TypeOK, Prompts, Opens
<1>12. CASE CommitDomain
  <2>1. disk' = [Cleared EXCEPT !.active = main.alias] /\ memory' = disk'
        /\ main' = [main EXCEPT !.at = "retire"]
    BY <1>12, CommitsAreDurable DEF CommitDomain
  <2>2. disk'.active = main.alias
    BY <2>1 DEF Cleared
  <2>3. main'.at = "retire" /\ main'.previous = main.previous /\ prompt = None
    BY <1>12, <2>1 DEF CommitDomain, Types, TypeOK, MainStates
  <2> QED
    BY <1>12, <2>1, <2>2, <2>3 DEF CommitDomain, Types, MainStates
<1>13. CASE EndFinishDomain
  <2>1. prompt = None
    BY <1>13 DEF EndFinishDomain, Types, TypeOK
  <2> QED
    BY <1>13, <2>1 DEF EndFinishDomain, Types, MainStates
<1>14. CASE EndFinishSign
  BY <1>14 DEF EndFinishSign
<1>15. CASE RotatePasscode
  BY <1>15 DEF RotatePasscode
<1>16. CASE BiometricsChange
  BY <1>16 DEF BiometricsChange
<1>17. CASE Crash
  BY <1>17 DEF Crash
<1>18. CASE UNCHANGED vars
  BY <1>18 DEF vars
<1> QED
  BY <1>1, <1>2, <1>3, <1>4, <1>5, <1>6, <1>7, <1>8, <1>9, <1>10, <1>11, <1>12, <1>13, <1>14,
     <1>15, <1>16, <1>17, <1>18 DEF Next, NativeThread, MainThread

\* A restart finds the pair that the preferences on disk name, at whatever point of the two
\* threads the process ended (WalletUnlockKeyStore.finishDomainEnrollment, deleteDomain).
THEOREM DurableDomain ==
    ASSUME WritesFail = FALSE
    PROVE  Spec => []DurableDomainHasItsKey
<1>1. Init => IInv
  BY InitTypes DEF Init, IInv, DiskFollows, PendingIsApart, PendingExists, RetiredIsNotActive,
                   DurableDomainHasItsKey, Pending, Idle, Cleared
<1>2. IInv /\ Types' /\ [Next]_vars => IInv'
  BY DomainStep
<1>3. IInv => DurableDomainHasItsKey
  BY DEF IInv
<1> QED
  BY <1>1, <1>2, <1>3, TypesInvariant, PTL DEF Spec

\* Where commits do not fail, a signing prompt outlives the domain only without its pair.
LEMMA ClosedStep ==
    ASSUME WritesFail = FALSE, CInv, Types', [Next]_vars
    PROVE  CInv'
<1> USE DEF CInv, DiskFollows, ClosedIsEmpty, PromptIsOfTheDomain, Idle
<1>1. CASE InitializeSystemAuth
  BY <1>1 DEF InitializeSystemAuth
<1>2. ASSUME NEW s \in Signers, BeginRegister(s) PROVE CInv'
  BY <1>2 DEF BeginRegister
<1>3. CASE StoreRegistration
  <2>1. disk' = [disk EXCEPT !.signers[native.signer] = native.record] /\ memory' = disk'
    BY <1>3, CommitsAreDurable DEF StoreRegistration
  <2>2. disk'.active = disk.active
    BY <2>1 DEF Types, TypeOK, Preferences
  <2> QED
    BY <1>3, <2>1, <2>2 DEF StoreRegistration
<1>4. ASSUME NEW s \in Signers, RemoveSigner(s) PROVE CInv'
  <2>1. disk' = [disk EXCEPT !.signers[s] = None] /\ memory' = disk'
    BY <1>4, CommitsAreDurable DEF RemoveSigner
  <2>2. disk'.active = disk.active /\ disk'.signers = [disk.signers EXCEPT ![s] = None]
    BY <2>1 DEF Types, TypeOK, Preferences
  <2>3. \A t \in Signers : disk.signers[t] = None => disk'.signers[t] = None
    BY <2>2 DEF Types, TypeOK, Preferences
  <2> QED
    BY <1>4, <2>1, <2>2, <2>3 DEF RemoveSigner
<1>5. CASE BeginRemoveDomain
  BY <1>5 DEF BeginRemoveDomain
<1>6. CASE ClearPreferences
  <2>1. disk' = Cleared /\ memory' = Cleared /\ native' = [native EXCEPT !.at = "delete"]
    BY <1>6, CommitsAreDurable DEF ClearPreferences
  <2>2. disk'.active = None /\ \A s \in Signers : memory'.signers[s] = None
    BY <2>1 DEF Cleared
  <2>3. native'.alias = native.alias /\ native'.at = "delete"
    BY <1>6, <2>1 DEF ClearPreferences, Types, NativeStates
  <2> QED
    BY <1>6, <2>1, <2>2, <2>3 DEF ClearPreferences
<1>7. CASE DeleteDomainKey
  BY <1>7 DEF DeleteDomainKey
<1>8. ASSUME NEW s \in Signers, SignWithSystemAuth(s) PROVE CInv'
  BY <1>8 DEF SignWithSystemAuth
<1>9. CASE PromptError
  BY <1>9 DEF PromptError
<1>10. CASE FinishSign
  BY <1>10 DEF FinishSign
<1>11. CASE BeginFinishDomain
  BY <1>11 DEF BeginFinishDomain
<1>12. CASE CommitDomain
  <2>1. disk' = [Cleared EXCEPT !.active = main.alias] /\ memory' = disk'
    BY <1>12, CommitsAreDurable DEF CommitDomain
  <2>2. \A s \in Signers : memory'.signers[s] = None
    BY <2>1 DEF Cleared
  <2>3. prompt' = None
    BY <1>12 DEF CommitDomain, Types, TypeOK
  <2> QED
    BY <1>12, <2>1, <2>2, <2>3 DEF CommitDomain
<1>13. CASE EndFinishDomain
  <2>1. prompt' = None
    BY <1>13 DEF EndFinishDomain, Types, TypeOK
  <2> QED
    BY <1>13, <2>1 DEF EndFinishDomain
<1>14. CASE EndFinishSign
  BY <1>14 DEF EndFinishSign
<1>15. CASE RotatePasscode
  BY <1>15 DEF RotatePasscode
<1>16. CASE BiometricsChange
  BY <1>16 DEF BiometricsChange
<1>17. CASE Crash
  BY <1>17 DEF Crash
<1>18. CASE UNCHANGED vars
  BY <1>18 DEF vars
<1> QED
  BY <1>1, <1>2, <1>3, <1>4, <1>5, <1>6, <1>7, <1>8, <1>9, <1>10, <1>11, <1>12, <1>13, <1>14,
     <1>15, <1>16, <1>17, <1>18 DEF Next, NativeThread, MainThread

\* Only the callback of a signing prompt makes a signature.
LEMMA SignaturesAreOfPrompts ==
    ASSUME CInv, Next, main' # main, main'.at = "signed", main'.ok
    PROVE  prompt # None /\ prompt.kind = "sign" /\ prompt.alias \in keys
<1>1. CASE FinishSign
  BY <1>1 DEF FinishSign, Opens
<1>2. CASE BeginFinishDomain
  BY <1>2 DEF BeginFinishDomain
<1>3. CASE CommitDomain
  BY <1>3 DEF CommitDomain, CInv, Types, MainStates
<1>4. CASE EndFinishDomain \/ EndFinishSign \/ Crash
  BY <1>4 DEF EndFinishDomain, EndFinishSign, Crash, Idle
<1>5. CASE NativeThread
  BY <1>5 DEF NativeThread, InitializeSystemAuth, StoreRegistration, BeginRemoveDomain,
              ClearPreferences, DeleteDomainKey, BeginRegister, RemoveSigner, SignWithSystemAuth
<1>6. CASE PromptError \/ RotatePasscode \/ BiometricsChange
  BY <1>6 DEF PromptError, RotatePasscode, BiometricsChange
<1> QED
  BY <1>1, <1>2, <1>3, <1>4, <1>5, <1>6 DEF Next, MainThread

\* After deleteDomain has reported success no signature is made by system authorization before
\* a signer is registered again, even by the prompt of a session begun before the removal.
THEOREM RemovedDomain ==
    ASSUME WritesFail = FALSE
    PROVE  Spec => RemovedDomainIsClosed
<1>1. Init => CInv
  BY InitTypes DEF Init, CInv, DiskFollows, ClosedIsEmpty, PromptIsOfTheDomain, Idle, Cleared
<1>2. CInv /\ Types' /\ [Next]_vars => CInv'
  BY ClosedStep
<1>3. CInv /\ [Next]_vars => [main' # main /\ main'.at = "signed" /\ main'.ok => ~closed]_vars
  BY SignaturesAreOfPrompts DEF CInv, PromptIsOfTheDomain, vars
<1> QED
  BY <1>1, <1>2, <1>3, TypesInvariant, PTL DEF Spec, RemovedDomainIsClosed

-----------------------------------------------------------------------------
(***************************************************************************)
(* SEP-10 sessions.                                                        *)
(***************************************************************************)
\* A session that holds a challenge holds one that was verified for its anchor, account and
\* network, at some time.
SessionIsVerified ==
    \/ session = Session!Idle
    \/ /\ session.phase \in {"verified", "signed"}
       /\ \E n, t : Session!Verified(session.challenge, session.anchor, session.account, n, t)

SessionInv == SessionIsVerified /\ Session!PostedIsBound

-----------------------------------------------------------------------------
\* What a verified challenge says to those who compare transactions only.
LEMMA VerifiedSays ==
    ASSUME NEW e, NEW a, NEW account, NEW n, NEW t, Session!Verified(e, a, account, n, t)
    PROVE  /\ e.tx.sequence = 0
           /\ e.tx.first.source = account /\ e.tx.first.domain = a.domain
           /\ \A i \in DOMAIN e.tx.extra :
                e.tx.extra[i].kind = "web_auth_domain" => e.tx.extra[i].host = a.endpoint
BY DEF Session!Verified, Session!ExtrasNameEndpoint

\* A proof is one by signers other than the server.
LEMMA ProofIsOwn ==
    ASSUME NEW p, NEW e, NEW a, Session!Proof(p, e, a)
    PROVE  \E S \in SUBSET ((e.signers \intersect Session!SignersOf(p)) \ {a.key}) :
             S # {} /\ Session!WeightOf(p, S) >= p.medium
<1> DEFINE S == (e.signers \intersect Session!SignersOf(p)) \ {a.key}
<1>1. S # {} /\ Session!WeightOf(p, S) >= p.medium
  BY DEF Session!Proof
<1>2. S \in SUBSET ((e.signers \intersect Session!SignersOf(p)) \ {a.key})
  OBVIOUS
<1> HIDE DEF S
<1> QED
  BY <1>1, <1>2

LEMMA ExchangeIsBound ==
    ASSUME SessionInv, NEW p \in Plans, NEW n \in Networks, Session!Exchange(p, n)
    PROVE  SessionInv'
<1> DEFINE x == [envelope |-> session.signed, endpoint |-> session.anchor.endpoint,
                 anchor |-> session.anchor, account |-> session.account, network |-> n,
                 plan |-> p, time |-> now]
<1>1. posted' = posted \union {x} /\ session' = Session!Idle
  BY DEF Session!Exchange
<1>2. session.phase = "signed"
  BY DEF Session!Exchange
<1>3. session # Session!Idle
  BY <1>2 DEF Session!Idle
<1>4. PICK m, t : Session!Verified(session.challenge, session.anchor, session.account, m, t)
  BY <1>3 DEF SessionInv, SessionIsVerified
<1>5. session.signed.tx = session.challenge.tx
  BY DEF Session!Exchange, Session!SameChallenge
<1>6. /\ x.envelope.tx.sequence = 0
      /\ x.envelope.tx.first.source = x.account
      /\ x.envelope.tx.first.domain = x.anchor.domain
      /\ \A i \in DOMAIN x.envelope.tx.extra :
           x.envelope.tx.extra[i].kind = "web_auth_domain"
             => x.envelope.tx.extra[i].host = x.endpoint
  BY <1>4, <1>5, VerifiedSays
<1>7. Session!SignedBy(x.envelope, x.network, x.anchor.key)
  BY DEF Session!Exchange
<1>8. \E S \in SUBSET ((x.envelope.signers \intersect Session!SignersOf(x.plan)) \ {x.anchor.key}) :
         S # {} /\ Session!WeightOf(x.plan, S) >= x.plan.medium
  BY ProofIsOwn DEF Session!Exchange
<1> HIDE DEF x
<1> QED
  BY <1>1, <1>6, <1>7, <1>8 DEF SessionInv, SessionIsVerified, Session!PostedIsBound

LEMMA SessionStep ==
    ASSUME SessionInv, [Session!Next]_sessionVars
    PROVE  SessionInv'
<1>1. CASE Session!Tick \/ UNCHANGED sessionVars
  BY <1>1 DEF Session!Tick, sessionVars, SessionInv, SessionIsVerified, Session!PostedIsBound
<1>2. CASE Session!GiveUp
  BY <1>2 DEF Session!GiveUp, SessionInv, SessionIsVerified, Session!PostedIsBound
<1>3. ASSUME NEW a, NEW account, NEW n, NEW stated, NEW e, Session!Prepare(a, account, n, stated, e)
      PROVE  SessionInv'
  <2>1. /\ session' = [phase |-> "verified", anchor |-> a, account |-> account, challenge |-> e]
        /\ posted' = posted /\ Session!Verified(e, a, account, n, now)
    BY <1>3 DEF Session!Prepare
  <2>2. SessionIsVerified'
    BY <2>1 DEF SessionIsVerified
  <2> QED
    BY <2>1, <2>2 DEF SessionInv, Session!PostedIsBound
<1>4. ASSUME NEW e, Session!Sign(e) PROVE SessionInv'
  <2>1. /\ session' = [phase |-> "signed", anchor |-> session.anchor, account |-> session.account,
                       challenge |-> session.challenge, signed |-> e]
        /\ posted' = posted /\ session.phase = "verified"
    BY <1>4 DEF Session!Sign
  <2>2. session # Session!Idle
    BY <2>1 DEF Session!Idle
  <2>3. SessionIsVerified'
    BY <2>1, <2>2 DEF SessionInv, SessionIsVerified
  <2> QED
    BY <2>1, <2>3 DEF SessionInv, Session!PostedIsBound
<1> QED
  BY <1>1, <1>2, <1>3, <1>4, ExchangeIsBound DEF Session!Next

\* exchange_anchor_sep10_challenge: whatever challenge an endpoint sends and whatever envelope
\* the signers return, what is posted is the anchor's challenge for the account, cannot be
\* applied to the ledger, and is proved by signers of the client.
THEOREM PostedChallengesAreBound == MCSpec => []PostedIsBound
<1>1. MCInit => SessionInv
  BY DEF MCInit, Session!Init, SessionInv, SessionIsVerified, Session!PostedIsBound
<1>2. SessionInv /\ [MCNext]_allVars => SessionInv'
  BY SessionStep DEF MCNext, allVars, sessionVars
<1>3. SessionInv => PostedIsBound
  BY DEF SessionInv, PostedIsBound
<1> QED
  BY <1>1, <1>2, <1>3, PTL DEF MCSpec

-----------------------------------------------------------------------------
(***************************************************************************)
(* Transfers at an anchor.                                                 *)
(***************************************************************************)
\* select_anchor_transfer_protocol, whatever a discovery found.
LEMMA SelectionCanRun == Choice!SelectedCanRun
<1> SUFFICES ASSUME NEW kind \in Choice!Kinds
             PROVE  LET p == Choice!SelectTransfer(caps, kind)
                        usable == {q \in Choice!Protocols : Choice!Executable(caps, q, kind)}
                    IN  /\ p = Choice!Refused <=> usable = {}
                        /\ "sep24" \in usable => p = "sep24"
                        /\ p /= Choice!Refused => p \in usable
  BY DEF Choice!SelectedCanRun
<1> DEFINE p == Choice!SelectTransfer(caps, kind)
           usable == {q \in Choice!Protocols : Choice!Executable(caps, q, kind)}
<1>1. "sep24" \in usable <=> caps.sep24 /\ caps.twentyFour[kind] /\ caps.sep10
  BY DEF Choice!Protocols, Choice!Executable, Choice!TransferRequiresSep10
<1>2. "sep6" \in usable <=> caps.sep6 /\ caps.six[kind].enabled /\ (caps.six[kind].auth => caps.sep10)
  BY DEF Choice!Protocols, Choice!Executable, Choice!TransferRequiresSep10
<1>3. \A q \in usable : q \in {"sep24", "sep6"}
  BY DEF Choice!Protocols
<1>4. p = IF "sep24" \in usable THEN "sep24" ELSE IF "sep6" \in usable THEN "sep6" ELSE "refused"
  BY <1>1, <1>2 DEF Choice!SelectTransfer, Choice!Refused
<1> HIDE DEF p, usable
<1> QED
  BY <1>3, <1>4 DEF p, usable, Choice!Refused

\* Counting is the same in an instance.
LEMMA CountsAreTheSame == \A S : Choice!Cardinality(S) = Cardinality(S)
BY DEF Choice!Cardinality, Cardinality

\* select_anchor_status_protocol, whatever a discovery found.
LEMMA StatusHasOnePlace == Choice!StatusIsNotGuessed
<1> DEFINE p == Choice!SelectStatus(caps, "not given")
           candidates == Choice!StatusCandidates(caps)
<1>1. /\ candidates \subseteq Choice!Protocols
      /\ "sep24" \in candidates <=>
           caps.sep24 /\ caps.sep10 /\ \E k \in Choice!Kinds : caps.twentyFour[k]
      /\ "sep6" \in candidates <=>
           /\ caps.sep6 /\ caps.lookup.enabled /\ (caps.lookup.auth => caps.sep10)
           /\ \E k \in Choice!Kinds : caps.six[k].enabled
  BY DEF Choice!StatusCandidates, Choice!Protocols
<1>2. IsFiniteSet(candidates)
  <2>1. IsFiniteSet({}) /\ IsFiniteSet({"sep24"})
    BY FS_EmptySet, FS_Singleton
  <2>2. IsFiniteSet({"sep24"} \cup {"sep6"})
    BY <2>1, FS_Singleton, FS_Union
  <2>3. candidates \subseteq {"sep24"} \cup {"sep6"}
    BY <1>1 DEF Choice!Protocols
  <2> HIDE DEF candidates
  <2> QED
    BY <2>2, <2>3, FS_Subset
<1>3. p # Choice!Refused => Cardinality(candidates) = 1 /\ p \in candidates
  <2>1. "not given" \notin Choice!Protocols
    BY DEF Choice!Protocols
  <2>2. CASE Cardinality(candidates) = 1
    <3>1. p = CHOOSE q \in Choice!StatusCandidates(caps) : TRUE
      BY <2>1, <2>2, CountsAreTheSame DEF Choice!SelectStatus
    <3>2. candidates # {}
      BY <2>2, FS_EmptySet
    <3> QED
      BY <2>2, <3>1, <3>2
  <2>3. CASE Cardinality(candidates) # 1
    BY <2>1, <2>3, CountsAreTheSame DEF Choice!SelectStatus
  <2> QED
    BY <2>2, <2>3
<1>4. p # Choice!Refused => \A q \in candidates : q = p
  <2>1. Cardinality(candidates) = 1 => \E x : candidates = {x}
    BY <1>2, FS_Singleton
  <2> HIDE DEF candidates, p
  <2> QED
    BY <1>3, <2>1
<1>5. ASSUME NEW q \in candidates PROVE Choice!StatusIsValid(caps, q)
  <2>1. CASE q = "sep24"
    BY <1>1, <1>5, <2>1 DEF Choice!StatusIsValid
  <2>2. CASE q = "sep6"
    BY <1>1, <1>5, <2>2 DEF Choice!StatusIsValid
  <2> QED
    BY <1>1, <1>5, <2>1, <2>2 DEF Choice!Protocols
<1>6. ASSUME NEW q \in Choice!Protocols, Choice!StatusIsValid(caps, q),
             NEW k \in Choice!Kinds, Choice!Executable(caps, q, k)
      PROVE  q \in candidates
  <2>1. CASE q = "sep24"
    BY <1>1, <1>6, <2>1 DEF Choice!StatusIsValid, Choice!Executable
  <2>2. CASE q = "sep6"
    BY <1>1, <1>6, <2>2 DEF Choice!StatusIsValid, Choice!Executable
  <2> HIDE DEF candidates
  <2> QED
    BY <2>1, <2>2 DEF Choice!Protocols
<1> HIDE DEF candidates
<1>7. p # Choice!Refused =>
        /\ Choice!StatusIsValid(caps, p)
        /\ \A q \in Choice!Protocols \ {p} :
             ~(Choice!StatusIsValid(caps, q) /\ \E k \in Choice!Kinds : Choice!Executable(caps, q, k))
  <2> HIDE DEF p
  <2> QED
    BY <1>3, <1>4, <1>5, <1>6
<1> QED
  BY <1>7 DEF Choice!StatusIsNotGuessed

\* sep6_request_fields, for any advertised methods and types and whatever the caller gives.
LEMMA FieldsFollowInfo ==
    ASSUME NEW info, NEW given, Forms!RequestFields(info, given) # {Forms!Refused}
    PROVE  LET fields == Forms!RequestFields(info, given)
               added == fields \ given
           IN  /\ given \subseteq fields
               /\ "funding_method" \in added => info.methods = "one"
               /\ "type" \in added => info.methods = "absent" /\ info.types = "one"
               /\ info.methods \in {"one", "many"} => "funding_method" \in fields
<1>1. CASE "funding_method" \in given
  BY <1>1 DEF Forms!RequestFields
<1>2. CASE "funding_method" \notin given /\ info.methods # "absent"
  <2>1. Forms!RequestFields(info, given) =
          IF info.methods = "one" THEN given \cup {"funding_method"} ELSE given
    BY <1>2 DEF Forms!RequestFields, Forms!FilledIn
  <2>2. info.methods # "many"
    BY <1>2 DEF Forms!RequestFields, Forms!FilledIn
  <2> QED
    BY <1>2, <2>1, <2>2
<1>3. CASE "funding_method" \notin given /\ info.methods = "absent"
  <2>1. CASE "type" \in given
    BY <1>3, <2>1 DEF Forms!RequestFields
  <2>2. CASE "type" \notin given
    <3>1. Forms!RequestFields(info, given) =
            IF info.types = "one" THEN given \cup {"type"} ELSE given
      BY <1>3, <2>2 DEF Forms!RequestFields, Forms!FilledIn
    <3> QED
      BY <1>3, <2>2, <3>1
  <2> QED
    BY <2>1, <2>2
<1> QED
  BY <1>1, <1>2, <1>3

LEMMA FormsStep ==
    ASSUME Forms!FieldsAreUnambiguous, Forms!Next
    PROVE  Forms!FieldsAreUnambiguous'
<1>1. CASE UNCHANGED transfer
  BY <1>1 DEF Forms!FieldsAreUnambiguous
<1>2. ASSUME NEW kind, NEW p, NEW token, NEW given, NEW id, Forms!Start(kind, p, token, given, id)
      PROVE  Forms!FieldsAreUnambiguous'
  <2> DEFINE info == caps.six[kind]
  <2>1. transfer' = [protocol |-> p, kind |-> kind, id |-> id, given |-> given, info |-> info,
                     token |-> token,
                     fields |-> IF p = "sep6" THEN Forms!RequestFields(info, given) ELSE given]
    BY <1>2 DEF Forms!Start
  <2>2. p = "sep6" => Forms!RequestFields(info, given) # {Forms!Refused}
    BY <1>2 DEF Forms!Start
  <2>3. /\ transfer'.protocol = p /\ transfer'.given = given /\ transfer'.info = info
        /\ p = "sep6" => transfer'.fields = Forms!RequestFields(info, given)
    BY <2>1
  <2> HIDE DEF info
  <2> QED
    BY <2>2, <2>3, FieldsFollowInfo DEF Forms!FieldsAreUnambiguous
<1> QED
  BY <1>1, <1>2 DEF Forms!Next, Forms!Discover, Forms!Lookup, Forms!PayAtOnce, Forms!Pay,
                    Forms!Done, Forms!vars

-----------------------------------------------------------------------------
\* PaymentMemo::from_anchor_fields says what the fields say.
LEMMA MemoSaysItsFields ==
    ASSUME NEW m, Withdrawal!PaymentMemo(m) # Withdrawal!Nothing
    PROVE  LET memo == Withdrawal!PaymentMemo(m)
           IN  /\ (memo.kind = "none") = (m.type = "absent" /\ m.value = "absent")
               /\ memo.kind # "none" => memo = [kind |-> m.type, value |-> m.value]
<1>1. CASE m.type = "absent" /\ m.value = "absent"
  BY <1>1 DEF Withdrawal!PaymentMemo
<1>2. CASE /\ ~(m.type = "absent" /\ m.value = "absent")
           /\ \/ m.type = "text" /\ m.value # "absent"
              \/ m.type = "id" /\ m.value = "42"
              \/ m.type = "hash" /\ m.value = "32 bytes"
  <2>1. Withdrawal!PaymentMemo(m) = [kind |-> m.type, value |-> m.value]
    BY <1>2 DEF Withdrawal!PaymentMemo
  <2>2. [kind |-> m.type, value |-> m.value].kind # "none"
    BY <1>2
  <2> QED
    BY <1>2, <2>1, <2>2
<1>3. CASE ~\/ m.type = "absent" /\ m.value = "absent"
            \/ m.type = "text" /\ m.value # "absent"
            \/ m.type = "id" /\ m.value = "42"
            \/ m.type = "hash" /\ m.value = "32 bytes"
  BY <1>3 DEF Withdrawal!PaymentMemo
<1> QED
  BY <1>1, <1>2, <1>3

\* A report belongs to the transfer that was started, whose start lies behind.
PaymentInv ==
    /\ Withdrawal!PaymentIsAskedFor
    /\ report # Withdrawal!Nothing => transfer # Withdrawal!Nothing

LEMMA WithdrawalStep ==
    ASSUME PaymentInv, Withdrawal!Next
    PROVE  PaymentInv'
<1>1. CASE UNCHANGED <<transfer, report, payment>>
  BY <1>1 DEF PaymentInv, Withdrawal!PaymentIsAskedFor
<1>2. ASSUME NEW kind, NEW p, NEW token, NEW given, NEW id,
             Withdrawal!Start(kind, p, token, given, id)
      PROVE  PaymentInv'
  <2>1. /\ transfer = Withdrawal!Nothing
        /\ report' = report /\ payment' = payment
    BY <1>2 DEF Withdrawal!Start
  <2> QED
    BY <2>1 DEF PaymentInv, Withdrawal!PaymentIsAskedFor
<1>3. ASSUME NEW requested, NEW token, NEW t, Withdrawal!Lookup(requested, token, t)
      PROVE  PaymentInv'
  <2>1. /\ transfer # Withdrawal!Nothing /\ payment = Withdrawal!Nothing
        /\ t.id = transfer.id
        /\ report' = [protocol |-> Withdrawal!SelectStatus(caps, requested),
                      requested |-> requested, transaction |-> t]
        /\ transfer' = transfer /\ payment' = payment
    BY <1>3 DEF Withdrawal!Lookup, Withdrawal!ExpectedTransaction
  <2> QED
    BY <2>1 DEF PaymentInv, Withdrawal!PaymentIsAskedFor
<1>4. ASSUME NEW r, NEW requested, Withdrawal!PayAtOnce(r, requested)
      PROVE  PaymentInv'
  <2>1. /\ report = Withdrawal!Nothing /\ report' = report /\ transfer' = transfer
        /\ Withdrawal!ImmediatePayment(r, requested) # Withdrawal!Nothing
        /\ payment' = [of |-> r, memo |-> Withdrawal!ImmediatePayment(r, requested).memo]
    BY <1>4 DEF Withdrawal!PayAtOnce
  <2>2. /\ r.destination = "classic" /\ Withdrawal!PaymentMemo(r.memo) # Withdrawal!Nothing
        /\ payment' = [of |-> r, memo |-> Withdrawal!PaymentMemo(r.memo)]
    BY <2>1 DEF Withdrawal!ImmediatePayment
  <2>3. payment'.of = r /\ payment'.memo = Withdrawal!PaymentMemo(r.memo)
    BY <2>2
  <2> QED
    BY <2>1, <2>2, <2>3, MemoSaysItsFields DEF PaymentInv, Withdrawal!PaymentIsAskedFor
<1>5. CASE Withdrawal!Pay
  <2> DEFINE t == report.transaction
  <2>1. /\ report # Withdrawal!Nothing /\ report' = report /\ transfer' = transfer
        /\ Withdrawal!PaymentOf(t) # Withdrawal!Nothing
        /\ payment' = [of |-> t, memo |-> Withdrawal!PaymentOf(t).memo]
    BY <1>5 DEF Withdrawal!Pay
  <2>2. /\ t.destination = "classic" /\ t.from = Account /\ t.kind = "withdraw" /\ t.amount
        /\ Withdrawal!PaymentMemo(t.memo) # Withdrawal!Nothing
        /\ payment' = [of |-> t, memo |-> Withdrawal!PaymentMemo(t.memo)]
    BY <2>1 DEF Withdrawal!PaymentOf
  <2>3. payment'.of = t /\ payment'.memo = Withdrawal!PaymentMemo(t.memo)
    BY <2>2
  <2>4. PaymentInv
    OBVIOUS
  <2> QED
    BY <2>1, <2>2, <2>3, <2>4, MemoSaysItsFields DEF PaymentInv, Withdrawal!PaymentIsAskedFor
<1> QED
  BY <1>1, <1>2, <1>3, <1>4, <1>5 DEF Withdrawal!Next, Withdrawal!Discover, Withdrawal!Done,
                                      Withdrawal!vars

-----------------------------------------------------------------------------
TransfersInv ==
    /\ part = "forms" => Forms!FieldsAreUnambiguous
    /\ part = "payment" => PaymentInv

\* anchor_protocol.rs: whatever anchors publish and answer, the protocol that is selected can be
\* executed, a status is looked up in the only place there is, a SEP-6 request is filled in
\* without a choice, and a withdrawal is paid as the transaction that was asked for says.
THEOREM TransfersAreDetermined == MCSpec => []TransferIsDetermined
<1>1. MCInit => TransfersInv
  BY DEF MCInit, Choice!Init, TransfersInv, PaymentInv, Forms!FieldsAreUnambiguous, Forms!Nothing,
         Withdrawal!PaymentIsAskedFor, Withdrawal!Nothing, Choice!Nothing
<1>2. TransfersInv /\ [MCNext]_allVars => TransfersInv'
  <2> SUFFICES ASSUME TransfersInv, [MCNext]_allVars PROVE TransfersInv'
    OBVIOUS
  <2>1. part' = part
    BY DEF MCNext, allVars
  <2>2. CASE UNCHANGED transferVars
    BY <2>1, <2>2 DEF TransfersInv, PaymentInv, transferVars, Forms!FieldsAreUnambiguous,
                      Withdrawal!PaymentIsAskedFor
  <2>3. CASE part = "choice"
    BY <2>1, <2>3 DEF TransfersInv
  <2>4. CASE part = "forms" /\ Forms!Next
    BY <2>1, <2>4, FormsStep DEF TransfersInv
  <2>5. CASE part = "payment" /\ Withdrawal!Next
    BY <2>1, <2>5, WithdrawalStep DEF TransfersInv
  <2> QED
    BY <2>2, <2>3, <2>4, <2>5 DEF MCNext, allVars
<1>3. TransfersInv => TransferIsDetermined
  BY SelectionCanRun, StatusHasOnePlace DEF TransfersInv, TransferIsDetermined, PaymentInv
<1> QED
  BY <1>1, <1>2, <1>3, PTL DEF MCSpec

-----------------------------------------------------------------------------
(***************************************************************************)
(* The history cache.  Rows above another, the newest of a set of rows,    *)
(* pages of consecutive operations.                                        *)
(***************************************************************************)
Above(S, o) == {x \in S : x > o}
Recent(S) == {o \in S : Cardinality(Above(S, o)) < CacheLimit}

LEMMA LimitsArePositive ==
    /\ MaxHead \in Nat \ {0} /\ SharedHead \in Nat \ {0}
    /\ Page \in Nat \ {0} /\ CacheLimit \in Nat \ {0} /\ CacheLimit % Page = 0
BY HistoryAssumption
   DEF Alone!LimitsAreCounts, Together!LimitsAreCounts, Alone!WindowIsPages

LEMMA LeastNumber ==
    ASSUME NEW T, T \subseteq Nat, T # {}
    PROVE  \E x \in T : \A y \in T : x <= y
<1>1. IsWellFoundedOn(OpToRel(<, Nat), Nat)
  BY NatLessThanWellFounded
<1>2. PICK x \in T : \A y \in T : ~(<<y, x>> \in OpToRel(<, Nat))
  BY <1>1, WFMin
<1>3. \A y \in T : ~(y < x)
  BY <1>2 DEF OpToRel
<1> QED
  BY <1>3

LEMMA GreatestNumber ==
    ASSUME NEW n \in Nat, NEW T, T \subseteq 0..n, T # {}
    PROVE  \E x \in T : \A y \in T : y <= x
<1> DEFINE U == {n - y : y \in T}
<1>1. U \subseteq Nat /\ U # {}
  <2>1. \A y \in T : n - y \in Nat /\ n - y \in U
    OBVIOUS
  <2> QED
    BY <2>1
<1>2. PICK u \in U : \A v \in U : u <= v
  <2> HIDE DEF U
  <2> QED
    BY <1>1, LeastNumber
<1>3. PICK x \in T : u = n - x
  OBVIOUS
<1>4. ASSUME NEW y \in T PROVE y <= x
  <2>1. n - y \in U
    OBVIOUS
  <2>2. n - x <= n - y
    BY <1>2, <1>3, <2>1
  <2> QED
    BY <2>2
<1> QED
  BY <1>4

\* Rows of a finite table.
LEMMA RowsAreFinite ==
    ASSUME NEW n \in Nat, NEW S \in SUBSET (1..n)
    PROVE  /\ IsFiniteSet(S) /\ Cardinality(S) \in Nat
           /\ \A T \in SUBSET S : IsFiniteSet(T) /\ Cardinality(T) \in Nat /\ Cardinality(T) <= Cardinality(S)
<1>1. IsFiniteSet(1..n)
  BY FS_Interval
<1>2. IsFiniteSet(S)
  BY <1>1, FS_Subset
<1> QED
  BY <1>2, FS_Subset, FS_CardinalityType

LEMMA FewerRows ==
    ASSUME NEW n \in Nat, NEW S, NEW T, S \subseteq T, T \subseteq 1..n
    PROVE  /\ Cardinality(S) \in Nat /\ Cardinality(T) \in Nat
           /\ Cardinality(S) <= Cardinality(T)
BY RowsAreFinite

\* The newest rows: nothing newer is left out, they fill the window or are all, and no more.
LEMMA RecentRows ==
    ASSUME NEW n \in Nat, NEW S \in SUBSET (1..n)
    PROVE  /\ Recent(S) \subseteq S
           /\ \A o \in Recent(S), x \in S : x > o => x \in Recent(S)
           /\ \A o \in S \ Recent(S) : Cardinality(Above(Recent(S), o)) >= CacheLimit
           /\ Cardinality(Recent(S)) <= CacheLimit
<1> DEFINE N == Recent(S)
<1>1. N \subseteq S
  BY DEF Recent
<1>2. \A o \in Int : Above(S, o) \in SUBSET (1..n) /\ Above(N, o) \in SUBSET (1..n)
  BY <1>1 DEF Above
<1>3. \A T \in SUBSET (1..n) : IsFiniteSet(T) /\ Cardinality(T) \in Nat
  BY RowsAreFinite
<1>4. CacheLimit \in Nat \ {0}
  BY LimitsArePositive
<1>5. ASSUME NEW o \in N, NEW x \in S, x > o PROVE x \in N
  <2>1. o \in 1..n /\ x \in 1..n
    BY <1>1
  <2>2. Above(S, x) \subseteq Above(S, o)
    <3>1. ASSUME NEW z \in S, z > x PROVE z > o
      <4>1. z \in 1..n
        OBVIOUS
      <4> QED
        BY <1>5, <2>1, <3>1, <4>1
    <3> QED
      BY <3>1 DEF Above
  <2>3. Cardinality(Above(S, x)) <= Cardinality(Above(S, o))
    BY <1>2, <2>1, <2>2, FewerRows
  <2>4. Cardinality(Above(S, o)) < CacheLimit
    BY <1>5 DEF Recent
  <2> QED
    BY <1>2, <1>3, <1>4, <2>1, <2>3, <2>4 DEF Recent
<1>6. ASSUME NEW o \in S \ N, Cardinality(Above(N, o)) < CacheLimit PROVE FALSE
  <2> DEFINE A == Above(S, o)
             B == Above(N, o)
  <2>1. o \in 1..n /\ Cardinality(A) >= CacheLimit
    <3>1. o \in 1..n
      OBVIOUS
    <3>2. ~(Cardinality(A) < CacheLimit)
      BY DEF Recent
    <3>3. Cardinality(A) \in Nat
      BY <1>2, <1>3, <3>1
    <3> QED
      BY <1>4, <3>1, <3>2, <3>3
  <2>2. A \ B # {}
    <3>1. B \in SUBSET A
      BY <1>1 DEF Above
    <3>2. A # B
      BY <1>2, <1>3, <1>4, <1>6, <2>1
    <3> QED
      BY <3>1, <3>2
  <2>3. A \ B \subseteq 0..n
    BY <1>2, <2>1
  <2>4. PICK y \in A \ B : \A z \in A \ B : z <= y
    <3> HIDE DEF A, B
    <3> QED
      BY <2>2, <2>3, GreatestNumber
  <2>5. y \in S /\ y > o /\ y \notin N /\ y \in 1..n
    BY <1>2, <2>1, <2>4 DEF Above
  <2>6. Above(S, y) \subseteq B
    <3> SUFFICES ASSUME NEW z \in S, z > y PROVE z \in B
      BY DEF Above
    <3>1. z \in A
      BY <2>1, <2>5 DEF Above
    <3>2. ~(z <= y)
      BY <2>5
    <3> HIDE DEF A, B
    <3> QED
      BY <2>4, <3>1, <3>2
  <2>7. Cardinality(Above(S, y)) <= Cardinality(B)
    BY <1>2, <2>1, <2>6, FewerRows
  <2>8. ~(Cardinality(Above(S, y)) < CacheLimit)
    BY <2>5 DEF Recent
  <2>9. Cardinality(Above(S, y)) \in Nat /\ Cardinality(B) \in Nat
    BY <1>2, <1>3, <2>1, <2>5
  <2> QED
    BY <1>4, <1>6, <2>7, <2>8, <2>9
<1>7. Cardinality(N) <= CacheLimit
  <2>1. N \in SUBSET (1..n)
    BY <1>1
  <2>2. CASE N = {}
    BY <1>4, <2>2, FS_EmptySet
  <2>3. CASE N # {}
    <3>1. PICK o \in N : \A y \in N : o <= y
      BY <2>1, <2>3, LeastNumber
    <3>2. N \ {o} \subseteq Above(S, o)
      BY <1>1, <2>1, <3>1 DEF Above
    <3>3. Cardinality(N \ {o}) <= Cardinality(Above(S, o))
      BY <1>2, <2>1, <3>2, FewerRows
    <3>4. Cardinality(N \ {o}) = Cardinality(N) - 1
      BY <1>3, <2>1, FS_RemoveElement
    <3>5. Cardinality(Above(S, o)) < CacheLimit
      BY <3>1 DEF Recent
    <3>6. Cardinality(N) \in Nat /\ Cardinality(Above(S, o)) \in Nat
      BY <1>2, <1>3, <2>1
    <3> QED
      BY <1>4, <3>3, <3>4, <3>5, <3>6
  <2> QED
    BY <2>2, <2>3
<1>8. \A o \in S \ N : Cardinality(Above(N, o)) >= CacheLimit
  <2> SUFFICES ASSUME NEW o \in S \ N PROVE Cardinality(Above(N, o)) >= CacheLimit
    OBVIOUS
  <2>1. Cardinality(Above(N, o)) \in Nat
    BY <1>2, <1>3
  <2> QED
    BY <1>4, <1>6, <2>1
<1> QED
  BY <1>1, <1>5, <1>7, <1>8

\* A row that is there, or gave way to newer ones.
KeptIn(c, f, y) == y \in c \/ (~f /\ Cardinality(Above(c, y)) >= CacheLimit)

\* From low up to the newest row everything is there, missing, or below the window.
CoveredBy(low, c, f, p) ==
    \A b \in c : \A o \in low..b : o \in c \/ o \in p \/ KeptIn(c \union p, f, o)

LEMMA KeptGrows ==
    ASSUME NEW n \in Nat, NEW c, NEW d, c \subseteq d, d \subseteq 1..n, NEW f, NEW y, KeptIn(c, f, y)
    PROVE  KeptIn(d, f, y)
<1>1. CASE y \in c
  BY <1>1 DEF KeptIn
<1>2. CASE y \notin c
  <2>1. Above(c, y) \subseteq Above(d, y) /\ Above(d, y) \subseteq 1..n
    BY DEF Above
  <2>2. ~f /\ Cardinality(Above(c, y)) >= CacheLimit
    BY <1>2 DEF KeptIn
  <2>3. Cardinality(Above(d, y)) >= CacheLimit
    BY <2>1, <2>2, FewerRows, LimitsArePositive
  <2> QED
    BY <2>2, <2>3 DEF KeptIn
<1> QED
  BY <1>1, <1>2

\* What is below a row that gave way has given way.
LEMMA KeptBelow ==
    ASSUME NEW n \in Nat, NEW c \in SUBSET (1..n), NEW f, NEW y \in Nat, NEW o \in Nat, o <= y,
           KeptIn(c, f, y), y \notin c
    PROVE  KeptIn(c, f, o)
<1>1. Above(c, y) \subseteq Above(c, o)
  <2>1. ASSUME NEW z \in c, z > y PROVE z > o
    <3>1. z \in 1..n
      OBVIOUS
    <3> QED
      BY <2>1, <3>1
  <2> QED
    BY <2>1 DEF Above
<1>2. Above(c, o) \subseteq 1..n
  BY DEF Above
<1>3. Cardinality(Above(c, o)) >= CacheLimit
  BY <1>1, <1>2, FewerRows, LimitsArePositive DEF KeptIn
<1> QED
  BY <1>3 DEF KeptIn

LEMMA KeptRecent ==
    ASSUME NEW n \in Nat, NEW c \in SUBSET (1..n), NEW p \in SUBSET (1..n), NEW y \in Nat,
           KeptIn(c \union p, FALSE, y)
    PROVE  y \in p \/ KeptIn(Recent(c) \union p, FALSE, y)
<1> DEFINE d == Recent(c)
<1>1. d \subseteq c /\ \A o \in c \ d : Cardinality(Above(d, o)) >= CacheLimit
  BY RecentRows
<1>2. ASSUME NEW z \in c \ d, y <= z PROVE KeptIn(d \union p, FALSE, y)
  <2>1. KeptIn(d, FALSE, z) /\ z \in Nat
    BY <1>1 DEF KeptIn
  <2>2. KeptIn(d, FALSE, y)
    BY <1>1, <1>2, <2>1, KeptBelow
  <2> QED
    BY <1>1, <2>2, KeptGrows
<1>3. CASE \A z \in c : y <= z => z \in d
  <2>1. CASE y \in c
    BY <1>3, <2>1 DEF KeptIn
  <2>2. CASE y \notin c /\ y \notin p
    <3>1. Above(c \union p, y) \subseteq Above(d \union p, y)
      <4>1. ASSUME NEW z \in c, z > y PROVE z \in d
        <5>1. z \in 1..n
          OBVIOUS
        <5>2. y <= z
          BY ONLY <4>1, <5>1, y \in Nat, n \in Nat
        <5> QED
          BY <1>3, <5>2
      <4> HIDE DEF d
      <4> SUFFICES ASSUME NEW z \in c \union p, z > y PROVE z \in d \union p
        BY DEF Above
      <4> QED
        BY <4>1
    <3>2. Above(d \union p, y) \subseteq 1..n
      BY <1>1 DEF Above
    <3>3. Cardinality(Above(c \union p, y)) >= CacheLimit
      BY <2>2 DEF KeptIn
    <3> DEFINE more == Above(d \union p, y)
               some == Above(c \union p, y)
    <3>4. /\ Cardinality(some) \in Nat /\ Cardinality(more) \in Nat
          /\ Cardinality(some) <= Cardinality(more)
      <4> HIDE DEF more, some
      <4> QED
        BY <3>1, <3>2, FewerRows DEF more, some
    <3>5. Cardinality(more) >= CacheLimit
      <4> HIDE DEF more
      <4> QED
        BY <3>3, <3>4, LimitsArePositive
    <3> QED
      BY <3>5 DEF KeptIn
  <2> QED
    BY <2>1, <2>2
<1> QED
  BY <1>2, <1>3

LEMMA CoveredMissing ==
    ASSUME NEW low \in Nat \ {0}, NEW n \in Nat, NEW c \in SUBSET (1..n), NEW f, NEW p \in SUBSET (1..n),
           NEW q \in SUBSET (1..n), p \subseteq c \union q, CoveredBy(low, c, f, p)
    PROVE  CoveredBy(low, c, f, q)
<1> SUFFICES ASSUME NEW b \in c, NEW o \in low..b
             PROVE  o \in c \/ o \in q \/ KeptIn(c \union q, f, o)
  BY DEF CoveredBy
<1>1. CASE o \in c \/ o \in p
  BY <1>1
<1>2. CASE KeptIn(c \union p, f, o)
  <2>1. c \union p \subseteq c \union q /\ c \union q \subseteq 1..n
    OBVIOUS
  <2> QED
    BY <1>2, <2>1, KeptGrows
<1> QED
  BY <1>1, <1>2 DEF CoveredBy

LEMMA CoveredRecent ==
    ASSUME NEW low \in Nat \ {0}, NEW n \in Nat, NEW c \in SUBSET (1..n), NEW p \in SUBSET (1..n), CoveredBy(low, c, FALSE, p)
    PROVE  CoveredBy(low, Recent(c), FALSE, p)
<1> SUFFICES ASSUME NEW b \in Recent(c), NEW o \in low..b
             PROVE  o \in Recent(c) \/ o \in p \/ KeptIn(Recent(c) \union p, FALSE, o)
  BY DEF CoveredBy
<1>1. b \in c
  BY RecentRows
<1>2. o \in p \/ KeptIn(c \union p, FALSE, o)
  BY <1>1 DEF CoveredBy, KeptIn
<1>3. o \in Nat
  BY <1>1
<1> QED
  BY <1>2, <1>3, KeptRecent

\* New rows leave nothing out, if below them everything is missing or was there before.
LEMMA CoveredMore ==
    ASSUME NEW low \in Nat \ {0}, NEW n \in Nat, NEW c \in SUBSET (1..n), NEW r \in SUBSET (1..n), NEW f,
           NEW p \in SUBSET (1..n), NEW q \in SUBSET (1..n), p \subseteq c \union r \union q,
           CoveredBy(low, c, f, p),
           \A b \in r : \A o \in low..b :
               \/ o \in r \/ o \in q \/ KeptIn(c \union r \union q, f, o)
               \/ \E s \in c : o <= s
    PROVE  CoveredBy(low, c \union r, f, q)
<1> SUFFICES ASSUME NEW b \in c \union r, NEW o \in low..b
             PROVE  o \in c \union r \/ o \in q \/ KeptIn(c \union r \union q, f, o)
  BY DEF CoveredBy
<1>1. ASSUME NEW s \in c, o <= s
      PROVE  o \in c \union r \/ o \in q \/ KeptIn(c \union r \union q, f, o)
  <2>1. o \in low..s
    BY <1>1
  <2>2. o \in c \/ o \in p \/ KeptIn(c \union p, f, o)
    BY <2>1 DEF CoveredBy
  <2>3. c \union p \subseteq c \union r \union q /\ c \union r \union q \subseteq 1..n
    OBVIOUS
  <2>4. KeptIn(c \union p, f, o) => KeptIn(c \union r \union q, f, o)
    BY <2>3, KeptGrows
  <2> QED
    BY <2>2, <2>4
<1>2. CASE b \in c
  BY <1>1, <1>2
<1>3. CASE b \in r
  BY <1>1, <1>3
<1> QED
  BY <1>2, <1>3

\* A walk from the head: what it has stored is kept and the rest of its window is missing, so
\* what is below has newer rows enough.
LEMMA WindowIsEnough ==
    ASSUME NEW n \in Nat, NEW c \in SUBSET (1..n), NEW lo \in Nat, NEW top \in 0..n,
           NEW o \in Nat, o < lo, o + CacheLimit <= top,
           \A y \in lo..top : KeptIn(c, FALSE, y),
           \A x \in 1..n : x < lo /\ x + CacheLimit > top => x \in c
    PROVE  KeptIn(c, FALSE, o)
<1>1. CacheLimit \in Nat \ {0}
  BY LimitsArePositive
<1>2. ASSUME NEW y \in lo..top, y \notin c PROVE KeptIn(c, FALSE, o)
  <2>1. KeptIn(c, FALSE, y) /\ y \in Nat /\ o <= y
    <3>1. y \in Int /\ lo <= y
      OBVIOUS
    <3>2. KeptIn(c, FALSE, y)
      OBVIOUS
    <3>3. y \in Nat /\ o <= y
      BY ONLY <3>1, lo \in Nat, o \in Nat, o < lo
    <3> QED
      BY <3>2, <3>3
  <2> QED
    BY <1>2, <2>1, KeptBelow
<1>3. CASE \A y \in lo..top : y \in c
  <2> DEFINE rows == top - CacheLimit + 1..top
  <2>1. rows \subseteq Above(c, o)
    <3> SUFFICES ASSUME NEW x \in rows PROVE x \in c /\ x > o
      BY DEF Above
    <3>1. x \in 1..n /\ x > o /\ x <= top /\ x + CacheLimit > top
      BY <1>1
    <3> QED
      BY <1>3, <3>1
  <2>2. Above(c, o) \subseteq 1..n
    BY DEF Above
  <2>3. Cardinality(rows) = CacheLimit
    BY <1>1, FS_Interval
  <2>4. Cardinality(rows) <= Cardinality(Above(c, o))
    <3> HIDE DEF rows
    <3> QED
      BY <2>1, <2>2, FewerRows
  <2> QED
    BY <1>1, <2>3, <2>4 DEF KeptIn
<1> QED
  BY <1>2, <1>3

-----------------------------------------------------------------------------
\* Pages are consecutive operations.
NewestOf(S, n) == {o \in S : Cardinality({x \in S : x > o}) < n}
OldestOf(S, n) == {o \in S : Cardinality({x \in S : x < o}) < n}

LEMMA HistoryCounts ==
    /\ \A S : Together!Cardinality(S) = Cardinality(S)
    /\ \A S : Alone!Cardinality(S) = Cardinality(S)
BY DEF Together!Cardinality, Alone!Cardinality, Cardinality

LEMMA NewestRows ==
    /\ \A S, n : /\ Together!Newest(S, n) = NewestOf(S, n) /\ Alone!Newest(S, n) = NewestOf(S, n)
               /\ Together!Oldest(S, n) = OldestOf(S, n) /\ Alone!Oldest(S, n) = OldestOf(S, n)
    /\ \A S : Recent(S) = NewestOf(S, CacheLimit)
BY HistoryCounts
   DEF Together!Newest, Alone!Newest, Together!Oldest, Alone!Oldest, NewestOf, OldestOf, Recent, Above

LEMMA OldestOfRun ==
    ASSUME NEW a \in Nat, NEW b \in Nat, NEW k \in Nat \ {0}
    PROVE  OldestOf(a..b, k) = a..(IF b < a + k THEN b ELSE a + k - 1)
<1>1. ASSUME NEW o \in a..b PROVE Cardinality({x \in a..b : x < o}) = o - a
  <2>1. {x \in a..b : x < o} = a..o - 1
    OBVIOUS
  <2>2. Cardinality(a..o - 1) = o - a
    <3>1. o \in Int /\ o - 1 \in Int /\ a \in Int /\ a <= o
      OBVIOUS
    <3>2. Cardinality(a..o - 1) = IF a > o - 1 THEN 0 ELSE (o - 1) - a + 1
      BY <3>1, FS_Interval
    <3> QED
      BY <3>1, <3>2
  <2> QED
    BY <2>1, <2>2
<1>2. OldestOf(a..b, k) = {o \in a..b : o - a < k}
  BY <1>1 DEF OldestOf
<1>3. {o \in a..b : o - a < k} = a..(IF b < a + k THEN b ELSE a + k - 1)
  OBVIOUS
<1> QED
  BY <1>2, <1>3

LEMMA NewestOfRun ==
    ASSUME NEW a \in Nat, NEW b \in Nat, NEW k \in Nat \ {0}
    PROVE  NewestOf(a..b, k) = (IF b < a + k THEN a ELSE b + 1 - k)..b
<1>1. ASSUME NEW o \in a..b PROVE Cardinality({x \in a..b : x > o}) = b - o
  <2>1. {x \in a..b : x > o} = o + 1..b
    OBVIOUS
  <2>2. Cardinality(o + 1..b) = b - o
    <3>1. o \in Int /\ o + 1 \in Int /\ b \in Int /\ o <= b
      OBVIOUS
    <3>2. Cardinality(o + 1..b) = IF o + 1 > b THEN 0 ELSE b - (o + 1) + 1
      BY <3>1, FS_Interval
    <3> QED
      BY <3>1, <3>2
  <2> QED
    BY <2>1, <2>2
<1>2. NewestOf(a..b, k) = {o \in a..b : b - o < k}
  BY <1>1 DEF NewestOf
<1>3. {o \in a..b : b - o < k} = (IF b < a + k THEN a ELSE b + 1 - k)..b
  OBVIOUS
<1> QED
  BY <1>2, <1>3

LEMMA RunIsEmpty == ASSUME NEW a \in Int, NEW b \in Int PROVE a..b = {} <=> b < a
OBVIOUS

LEMMA EndsOfRun ==
    ASSUME NEW a \in Int, NEW b \in Int, a <= b
    PROVE  /\ Together!Min(a..b) = a /\ Together!Max(a..b) = b
           /\ Alone!Min(a..b) = a /\ Alone!Max(a..b) = b
BY DEF Together!Min, Together!Max, Alone!Min, Alone!Max

LEMMA LesserOfTwo ==
    ASSUME NEW a \in Int, NEW b \in Int, a <= b
    PROVE  Together!Min({a, b}) = a /\ Alone!Min({a, b}) = a
BY DEF Together!Min, Alone!Min

-----------------------------------------------------------------------------
(***************************************************************************)
(* Two workers on one cache, in one mode.  While no request fails, what a  *)
(* walk from the head has yet to store is missing, and from some row, or   *)
(* the first operation, up to the newest row everything is there, missing  *)
(* or below the window, so that nothing is missing when no walk is left.   *)
(* A request that fails while the workers keep apart leaves one run of     *)
(* rows, from the oldest of which this holds again.                        *)
(***************************************************************************)
Both == {"w1", "w2"}
FromTop == SharedHead + 1
Places == {"idle", "fetch", "store", "trim", "turn", "last"}
Walks == {"bootstrap", "refill", "newer", "older", "backfill"}
JobType ==
    [at : Places, walk : Walks, cursor : Nat \ {0}, fetched : Nat, records : SUBSET Nat, seen : Nat,
     steady : BOOLEAN]

Downward(j) == j.walk \in {"bootstrap", "refill"}

\* The rows that a walk from the head has yet to store.
Region(j, f) ==
    {x \in 1..SharedHead :
        /\ Downward(j) /\ (f \/ x + CacheLimit > j.seen)
        /\ \/ j.at = "fetch" /\ j.cursor # FromTop /\ x < j.cursor
           \/ j.at = "store" /\ \E r \in j.records : x <= r
           \/ j.at = "trim" /\ \A r \in j.records : x < r}

\* Where a walk stands: next to rows that are kept.
Standing(j, c, f) ==
    IF Downward(j)
    THEN /\ \A y \in j.cursor..j.seen : KeptIn(c, f, y)
         /\ IF j.cursor = FromTop THEN j.fetched = 0 ELSE j.cursor + j.fetched = j.seen + 1
    ELSE j.cursor # FromTop /\ KeptIn(c, f, j.cursor)

\* The page it holds is next to where it stands.
PageIsNext(j, lo, hi) ==
    IF j.walk = "newer" THEN lo = j.cursor + 1
    ELSE /\ hi = IF j.cursor = FromTop THEN j.seen ELSE j.cursor - 1
         /\ lo = 1 \/ hi - lo + 1 = Page

\* Below low there is no row, and no walk comes from there or from the head.
Rises(low, j) ==
    low > 1 =>
        /\ j.at \in {"fetch", "store", "trim"} => ~Downward(j) /\ low <= j.cursor
        /\ j.at = "trim" => \A x \in j.records : low <= x
LowFits(low, c) == low > 1 => c # {} /\ \A x \in c : low <= x

JobOk(j, c, f, h) ==
    /\ j \in JobType /\ (j.cursor <= h \/ j.cursor = FromTop) /\ j.seen <= h
    /\ ~f => j.walk \in {"bootstrap", "newer"}
    /\ j.at \in {"fetch", "store", "trim"} => Standing(j, c, f)
    /\ j.at \in {"store", "trim"} =>
         \E lo, hi \in 1..h : lo <= hi /\ j.records = lo..hi /\ PageIsNext(j, lo, hi)
    /\ j.at = "trim" => \A r \in j.records : KeptIn(c, f, r)

Missing == Region(job["w1"], full) \union Region(job["w2"], full)

TogetherFrom(low) ==
    /\ head \in 0..SharedHead /\ cache \subseteq 1..head /\ full \in BOOLEAN
    /\ job \in [Both -> JobType]
    /\ \A w \in Both : JobOk(job[w], cache, full, head) /\ Rises(low, job[w])
    /\ LowFits(low, cache) /\ CoveredBy(low, cache, full, Missing)
    /\ full \/ Cardinality(cache) <= CacheLimit \/ ~Together!AtRest \/ Together!Contiguous(cache)

LEMMA RegionRows == \A j, f : Region(j, f) \in SUBSET (1..SharedHead)
BY DEF Region

\* A page after c is empty or begins there; one before c is empty, or runs to its end t from a
\* page below or from the first operation.
LEMMA PageUp ==
    ASSUME NEW c \in Nat, NEW h \in Nat
    PROVE  LET r == OldestOf({o \in 1..h : o > c}, Page)
           IN  IF h <= c THEN r = {}
               ELSE \E hi \in c + 1..h : r = c + 1..hi /\ (hi = h \/ hi - c = Page)
<1>1. Page \in Nat \ {0}
  BY LimitsArePositive
<1>2. {o \in 1..h : o > c} = c + 1..h
  OBVIOUS
<1> DEFINE hi == IF h < c + 1 + Page THEN h ELSE c + Page
<1>3. OldestOf(c + 1..h, Page) = c + 1..(IF h < c + 1 + Page THEN h ELSE c + 1 + Page - 1)
  BY <1>1, OldestOfRun
<1>4. OldestOf(c + 1..h, Page) = c + 1..hi
  BY <1>1, <1>3
<1>5. hi \in Nat /\ IF h <= c THEN hi < c + 1 ELSE hi \in c + 1..h /\ (hi = h \/ hi - c = Page)
  BY ONLY <1>1, c \in Nat, h \in Nat
<1> HIDE DEF hi
<1>6. h <= c => c + 1..hi = {}
  BY <1>5, RunIsEmpty
<1> QED
  BY <1>2, <1>4, <1>5, <1>6

LEMMA PageDown ==
    ASSUME NEW c \in Nat \ {0}, NEW h \in Nat
    PROVE  LET r == NewestOf({o \in 1..h : o < c}, Page)
               t == IF c <= h THEN c - 1 ELSE h
           IN  IF t = 0 THEN r = {}
               ELSE \E lo \in 1..t : r = lo..t /\ (lo = 1 \/ t - lo + 1 = Page) /\ t - lo + 1 <= Page
<1> DEFINE t == IF c <= h THEN c - 1 ELSE h
           lo == IF t < 1 + Page THEN 1 ELSE t + 1 - Page
<1>1. Page \in Nat \ {0}
  BY LimitsArePositive
<1>2. {o \in 1..h : o < c} = 1..t /\ t \in Nat
  OBVIOUS
<1> HIDE DEF t
<1>3. NewestOf(1..t, Page) = lo..t
  BY <1>1, <1>2, NewestOfRun
<1>4. lo \in Nat /\ IF t = 0 THEN t < lo
                    ELSE lo \in 1..t /\ (lo = 1 \/ t - lo + 1 = Page) /\ t - lo + 1 <= Page
  BY ONLY <1>1, <1>2
<1> HIDE DEF lo
<1>5. t = 0 => lo..t = {}
  BY <1>2, <1>4, RunIsEmpty
<1> QED
  BY <1>2, <1>3, <1>4, <1>5 DEF t

LEMMA FetchedPage ==
    ASSUME head \in Nat, NEW walk, NEW c \in Nat \ {0}
    PROVE  LET r == Together!PageOf(walk, c)
               t == IF c <= head THEN c - 1 ELSE head
           IN  IF walk = "newer"
               THEN IF head <= c THEN r = {} ELSE \E hi \in c + 1..head : r = c + 1..hi
               ELSE IF t = 0 THEN r = {}
               ELSE \E lo \in 1..t : r = lo..t /\ (lo = 1 \/ t - lo + 1 = Page) /\ t - lo + 1 <= Page
<1>1. CASE walk = "newer"
  <2>1. Together!PageOf(walk, c) = OldestOf({o \in 1..head : o > c}, Page)
    BY <1>1, NewestRows DEF Together!PageOf
  <2> QED
    BY <1>1, <2>1, PageUp
<1>2. CASE walk # "newer"
  <2>1. Together!PageOf(walk, c) = NewestOf({o \in 1..head : o < c}, Page)
    BY <1>2, NewestRows DEF Together!PageOf
  <2> QED
    BY <1>2, <2>1, PageDown
<1> QED
  BY <1>1, <1>2

LEMMA FetchKeeps ==
    ASSUME NEW low \in Nat \ {0}, TogetherFrom(low), NEW w \in Both, Together!Fetch(w)
    PROVE  /\ job' = [job EXCEPT ![w] = job'[w]] /\ job'[w].at # "idle"
           /\ JobOk(job'[w], cache, full, head) /\ Rises(low, job'[w])
           /\ Region(job[w], full) \subseteq Region(job'[w], full)
<1> DEFINE j == job[w]
           r == Together!PageOf(j.walk, j.cursor)
           top == IF j.walk = "newer" \/ j.cursor = FromTop THEN head ELSE j.seen
           enough == Downward(j) /\ ~full /\ j.fetched >= CacheLimit
           new == IF enough THEN [j EXCEPT !.at = "turn"]
                  ELSE IF r = {} THEN [j EXCEPT !.at = "turn", !.seen = top]
                  ELSE [j EXCEPT !.at = "store", !.records = r, !.seen = top]
           t == IF j.cursor <= head THEN j.cursor - 1 ELSE head
<1>1. /\ j \in JobType /\ JobOk(j, cache, full, head) /\ Rises(low, j) /\ job \in [Both -> JobType]
      /\ head \in 0..SharedHead /\ SharedHead \in Nat \ {0} /\ CacheLimit \in Nat \ {0} /\ full \in BOOLEAN
  BY LimitsArePositive DEF TogetherFrom
<1>2. j.at = "fetch" /\ job' = [job EXCEPT ![w] = new]
  BY DEF Together!Fetch, Together!FromHead, FromTop, Downward
<1>3. job'[w] = new
  BY <1>1, <1>2
<1>4. /\ j.at \in Places /\ j.walk \in Walks /\ j.cursor \in Nat \ {0} /\ j.fetched \in Nat
      /\ j.records \in SUBSET Nat /\ j.seen \in Nat /\ j.steady \in BOOLEAN
  BY <1>1 DEF JobType
<1>5. /\ j.cursor <= head \/ j.cursor = FromTop
      /\ j.seen <= head
      /\ ~full => j.walk \in {"bootstrap", "newer"}
      /\ Standing(j, cache, full)
  BY <1>1, <1>2 DEF JobOk
<1>6. top \in Nat /\ top <= head
  BY <1>1, <1>4, <1>5
<1>7. CASE enough
  <2>1. new = [j EXCEPT !.at = "turn"] /\ new \in JobType
    BY <1>4, <1>7, <1>1 DEF JobType, Places
  <2>2. /\ new.at = "turn" /\ new.walk = j.walk /\ new.cursor = j.cursor /\ new.seen = j.seen
    BY <2>1, <1>1 DEF JobType
  <2>3. JobOk(new, cache, full, head) /\ Rises(low, new)
    BY <1>5, <2>1, <2>2 DEF JobOk, Rises
  <2>4. Region(j, full) = {}
    <3> SUFFICES ASSUME NEW x \in 1..SharedHead, x + CacheLimit > j.seen, j.cursor # FromTop, x < j.cursor
                 PROVE  FALSE
      BY <1>2, <1>7 DEF Region
    <3>1. j.cursor + j.fetched = j.seen + 1
      BY <1>5, <1>7 DEF Standing
    <3> QED
      BY <1>1, <1>4, <1>7, <3>1
  <2> HIDE DEF new
  <2> QED
    BY <1>2, <1>3, <2>2, <2>3, <2>4
<1>8. CASE ~enough /\ r = {}
  <2>1. new = [j EXCEPT !.at = "turn", !.seen = top] /\ new \in JobType
    BY <1>1, <1>4, <1>6, <1>8 DEF JobType, Places
  <2>2. /\ new.at = "turn" /\ new.walk = j.walk /\ new.cursor = j.cursor /\ new.seen = top
    BY <2>1, <1>1 DEF JobType
  <2>3. JobOk(new, cache, full, head) /\ Rises(low, new)
    BY <1>5, <1>6, <2>1, <2>2 DEF JobOk, Rises
  <2>4. Region(j, full) = {}
    <3> SUFFICES ASSUME NEW x \in 1..SharedHead, Downward(j), j.cursor # FromTop, x < j.cursor
                 PROVE  FALSE
      BY <1>2 DEF Region
    <3>1. j.walk # "newer" /\ head \in Nat
      BY <1>1 DEF Downward
    <3>2. t = 0
      <4>1. t # 0 => \E lo \in 1..t : r = lo..t
        BY <1>4, <3>1, FetchedPage
      <4>2. t \in Nat
        BY <1>1, <1>4
      <4> HIDE DEF t, r
      <4>3. \A lo \in 1..t : t \in lo..t
        BY <4>2
      <4> QED
        BY <1>8, <4>1, <4>3
    <3> QED
      BY <1>1, <1>4, <1>5, <3>2
  <2> HIDE DEF new
  <2> QED
    BY <1>2, <1>3, <2>2, <2>3, <2>4
<1>9. CASE ~enough /\ r # {}
  <2>1. PICK lo \in 1..head, hi \in 1..head :
            /\ lo <= hi /\ r = lo..hi
            /\ IF j.walk = "newer" THEN lo = j.cursor + 1
               ELSE hi = t /\ (lo = 1 \/ hi - lo + 1 = Page)
    <3>1. CASE j.walk = "newer"
      <4>1. \E hi \in j.cursor + 1..head : r = j.cursor + 1..hi
        BY <1>1, <1>4, <1>9, <3>1, FetchedPage
      <4>2. PICK hi \in j.cursor + 1..head : r = j.cursor + 1..hi
        BY <4>1
      <4>3. j.cursor + 1 \in 1..head /\ hi \in 1..head /\ j.cursor + 1 <= hi
        BY <1>1, <1>4
      <4> HIDE DEF r
      <4> QED
        BY <3>1, <4>2, <4>3
    <3>2. CASE j.walk # "newer"
      <4>1. t # 0 /\ \E lo \in 1..t : r = lo..t /\ (lo = 1 \/ t - lo + 1 = Page) /\ t - lo + 1 <= Page
        BY <1>1, <1>4, <1>9, <3>2, FetchedPage
      <4>2. PICK lo \in 1..t : r = lo..t /\ (lo = 1 \/ t - lo + 1 = Page)
        BY <4>1
      <4>3. t \in 1..head
        BY <1>1, <1>4, <4>1
      <4>4. lo \in 1..head /\ lo <= t
        BY <1>1, <4>3
      <4> HIDE DEF r, t
      <4> QED
        BY <3>2, <4>2, <4>3, <4>4
    <3> QED
      BY <3>1, <3>2
  <2>2. r \in SUBSET Nat
    BY <2>1
  <2> HIDE DEF r
  <2>3. new = [j EXCEPT !.at = "store", !.records = r, !.seen = top] /\ new \in JobType
    BY <1>1, <1>4, <1>6, <1>9, <2>2 DEF JobType, Places
  <2>4. /\ new.at = "store" /\ new.walk = j.walk /\ new.cursor = j.cursor /\ new.seen = top
        /\ new.records = r /\ new.fetched = j.fetched
    BY <2>3, <1>1 DEF JobType
  <2> HIDE DEF new, top
  <2>5. j.cursor # FromTop /\ j.walk # "newer" => top = j.seen
    BY DEF top
  <2>6. j.cursor = FromTop => top = head
    BY DEF top
  <2>7. Standing(new, cache, full)
    <3>1. CASE ~Downward(j)
      BY <1>5, <2>4, <3>1 DEF Standing, Downward
    <3>2. CASE Downward(j) /\ j.cursor # FromTop
      <4>1. top = j.seen
        BY <2>5, <3>2 DEF Downward
      <4> QED
        BY <1>5, <2>4, <3>2, <4>1 DEF Standing, Downward
    <3>3. CASE Downward(j) /\ j.cursor = FromTop
      <4>1. j.cursor..top = {}
        BY <1>1, <2>6, <3>3 DEF FromTop
      <4>2. j.fetched = 0
        BY <1>5, <3>3 DEF Standing
      <4> QED
        BY <2>4, <3>3, <4>1, <4>2 DEF Standing, Downward
    <3> QED
      BY <3>1, <3>2, <3>3
  <2>8. PageIsNext(new, lo, hi)
    <3>1. CASE j.walk = "newer"
      BY <2>1, <2>4, <3>1 DEF PageIsNext
    <3>2. CASE j.walk # "newer"
      <4>1. hi = IF j.cursor = FromTop THEN top ELSE j.cursor - 1
        BY <1>1, <1>5, <2>1, <2>6, <3>2 DEF FromTop
      <4> QED
        BY <2>1, <2>4, <3>2, <4>1 DEF PageIsNext
    <3> QED
      BY <3>1, <3>2
  <2>9. JobOk(new, cache, full, head)
    BY <1>5, <1>6, <2>1, <2>3, <2>4, <2>7, <2>8 DEF JobOk
  <2>10. Region(j, full) \subseteq Region(new, full)
    <3> SUFFICES ASSUME NEW x \in 1..SharedHead, Downward(j), full \/ x + CacheLimit > j.seen,
                        j.cursor # FromTop, x < j.cursor
                 PROVE  x \in Region(new, full)
      BY <1>2 DEF Region
    <3>1. hi = j.cursor - 1 /\ top = j.seen
      BY <1>5, <2>1, <2>5 DEF Downward
    <3>2. x <= hi /\ hi \in r
      BY <1>4, <2>1, <3>1
    <3> QED
      BY <2>4, <3>1, <3>2 DEF Region, Downward
  <2>11. Rises(low, new)
    BY <1>1, <1>2, <2>4 DEF Rises, Downward
  <2> QED
    BY <1>2, <1>3, <2>4, <2>9, <2>10, <2>11
<1> QED
  BY <1>7, <1>8, <1>9

\* A job stays as it should be while rows are added, or trimmed, and the account goes on.
LEMMA JobStays ==
    ASSUME NEW j, NEW c, NEW d, NEW f, NEW h \in Nat, NEW k \in Nat, h <= k, JobOk(j, c, f, h),
           \A y \in Nat : KeptIn(c, f, y) => KeptIn(d, f, y)
    PROVE  JobOk(j, d, f, k)
<1>1. /\ j \in JobType /\ (j.cursor <= h \/ j.cursor = FromTop) /\ j.seen <= h
      /\ ~f => j.walk \in {"bootstrap", "newer"}
      /\ j.at \in {"fetch", "store", "trim"} => Standing(j, c, f)
      /\ j.at \in {"store", "trim"} =>
           \E lo, hi \in 1..h : lo <= hi /\ j.records = lo..hi /\ PageIsNext(j, lo, hi)
      /\ j.at = "trim" => \A r \in j.records : KeptIn(c, f, r)
  BY DEF JobOk
<1>2. j.cursor \in Nat /\ j.seen \in Nat /\ j.records \subseteq Nat
  BY <1>1 DEF JobType
<1>3. Standing(j, c, f) => Standing(j, d, f)
  <2>1. \A y \in j.cursor..j.seen : y \in Nat
    BY <1>2
  <2> QED
    BY <1>2, <2>1 DEF Standing
<1>4. \A lo \in 1..h : lo \in 1..k
  OBVIOUS
<1>5. (j.cursor <= k \/ j.cursor = FromTop) /\ j.seen <= k
  BY <1>1, <1>2
<1> QED
  BY <1>1, <1>2, <1>3, <1>4, <1>5 DEF JobOk

LEMMA MissingRows == Missing \subseteq 1..SharedHead /\ Missing' \subseteq 1..SharedHead
BY RegionRows DEF Missing

\* Of two workers, one moves.
LEMMA MissingMoves ==
    ASSUME NEW w \in Both, job' = [job EXCEPT ![w] = job'[w]], job \in [Both -> JobType], full' = full,
           NEW c, Region(job[w], full) \subseteq c \union Region(job'[w], full)
    PROVE  Missing \subseteq c \union Missing'
<1>1. \A v \in Both : v # w => job'[v] = job[v]
  OBVIOUS
<1>2. \A v \in Both : Region(job[v], full) \subseteq c \union Region(job'[v], full)
  BY <1>1
<1> QED
  BY <1>2 DEF Missing, Both

LEMMA RestOfPage ==
    ASSUME NEW j, NEW k, NEW f, j.at = "store", k.at = "trim", k.walk = j.walk, k.records = j.records,
           k.seen = j.seen, NEW lo \in Nat, NEW hi \in Nat, j.records = lo..hi
    PROVE  Region(j, f) \subseteq j.records \union Region(k, f)
<1> SUFFICES ASSUME NEW x \in 1..SharedHead, Downward(j), f \/ x + CacheLimit > j.seen,
                    NEW r \in j.records, x <= r, x \notin j.records
             PROVE  x \in Region(k, f)
  BY DEF Region
<1>1. x < lo
  <2>1. r <= hi /\ x \in Nat
    OBVIOUS
  <2>2. ~(lo <= x /\ x <= hi)
    BY <2>1
  <2> QED
    BY <2>1, <2>2
<1>2. \A y \in k.records : x < y
  BY <1>1
<1> QED
  BY <1>2 DEF Region, Downward

LEMMA StoreKeeps ==
    ASSUME NEW low \in Nat \ {0}, TogetherFrom(low), NEW w \in Both, Together!Store(w), full' = full
    PROVE  /\ job' = [job EXCEPT ![w] = job'[w]] /\ job'[w].at # "idle"
           /\ cache' \subseteq 1..head
           /\ \A y \in Nat : KeptIn(cache, full, y) => KeptIn(cache', full, y)
           /\ JobOk(job'[w], cache', full, head)
           /\ \E low2 \in Nat \ {0} :
                 low2 <= low /\ Rises(low2, job'[w]) /\ LowFits(low2, cache')
                 /\ CoveredBy(low2, cache', full, Missing')
<1> DEFINE j == job[w]
           r == j.records
           new == [j EXCEPT !.at = IF j.walk = "older" THEN "last" ELSE "trim"]
<1>1. /\ j \in JobType /\ JobOk(j, cache, full, head) /\ job \in [Both -> JobType]
      /\ head \in 0..SharedHead /\ SharedHead \in Nat \ {0} /\ CacheLimit \in Nat \ {0} /\ full \in BOOLEAN
      /\ cache \subseteq 1..head /\ Rises(low, j) /\ LowFits(low, cache)
  BY LimitsArePositive DEF TogetherFrom
<1>2. j.at = "store" /\ job' = [job EXCEPT ![w] = new] /\ cache' = cache \union r
  BY <1>1 DEF Together!Store
<1>3. job'[w] = new
  BY <1>1, <1>2
<1>4. /\ j.at \in Places /\ j.walk \in Walks /\ j.cursor \in Nat \ {0} /\ j.fetched \in Nat
      /\ j.records \in SUBSET Nat /\ j.seen \in Nat /\ j.steady \in BOOLEAN
  BY <1>1 DEF JobType
<1>5. /\ j.cursor <= head \/ j.cursor = FromTop
      /\ j.seen <= head
      /\ ~full => j.walk \in {"bootstrap", "newer"}
      /\ Standing(j, cache, full)
      /\ \E lo, hi \in 1..head : lo <= hi /\ r = lo..hi /\ PageIsNext(j, lo, hi)
  BY <1>1, <1>2 DEF JobOk
<1>6. PICK lo \in 1..head, hi \in 1..head : lo <= hi /\ r = lo..hi /\ PageIsNext(j, lo, hi)
  BY <1>5
<1>7. new \in JobType
  BY <1>1, <1>4 DEF JobType, Places
<1>8. /\ new.at = IF j.walk = "older" THEN "last" ELSE "trim"
      /\ new.walk = j.walk /\ new.cursor = j.cursor /\ new.seen = j.seen /\ new.records = r
      /\ new.fetched = j.fetched
  BY <1>1 DEF JobType
<1>9. r \subseteq 1..head /\ cache' \subseteq 1..head /\ lo \in Nat /\ hi \in Nat /\ head \in Nat
  BY <1>1, <1>2, <1>6
<1> HIDE DEF new, r, j
<1>10. ASSUME NEW y \in Nat, KeptIn(cache, full, y) PROVE KeptIn(cache', full, y)
  BY <1>2, <1>9, <1>10, KeptGrows
<1>11. JobOk(j, cache', full, head)
  BY <1>1, <1>9, <1>10, JobStays
<1>12. JobOk(new, cache', full, head)
  <2>1. Standing(new, cache', full)
    <3>1. Standing(j, cache', full)
      BY <1>2, <1>11 DEF JobOk
    <3> QED
      BY <1>8, <3>1 DEF Standing, Downward
  <2>2. PageIsNext(new, lo, hi)
    BY <1>6, <1>8 DEF PageIsNext
  <2>3. \A x \in new.records : KeptIn(cache', full, x)
    BY <1>2, <1>8 DEF KeptIn
  <2>4. new.records = lo..hi
    BY <1>6, <1>8
  <2> QED
    BY <1>5, <1>6, <1>7, <1>8, <2>1, <2>2, <2>3, <2>4 DEF JobOk
<1>13. Region(j, full) \subseteq r \union Region(new, full)
  <2>1. CASE j.walk = "older"
    BY <2>1 DEF Region, Downward
  <2>2. CASE j.walk # "older"
    BY <1>2, <1>6, <1>8, <1>9, <2>2, RestOfPage DEF r
  <2> QED
    BY <2>1, <2>2
<1>14. job' = [job EXCEPT ![w] = job'[w]] /\ job'[w].at # "idle"
  BY <1>2, <1>3, <1>8
<1>15. CoveredBy(low, cache', full, Missing')
  <2>1. Missing \subseteq r \union Missing'
    <3>1. Region(job[w], full) \subseteq r \union Region(job'[w], full)
      BY <1>3, <1>13 DEF j
    <3> QED
      BY <1>1, <1>14, <3>1, MissingMoves
  <2>2. Region(new, full) \subseteq Missing'
    BY <1>3 DEF Missing, Both
  <2>3. /\ cache \in SUBSET (1..SharedHead) /\ r \in SUBSET (1..SharedHead)
        /\ Missing \in SUBSET (1..SharedHead) /\ Missing' \in SUBSET (1..SharedHead)
    BY <1>1, <1>9, MissingRows
  <2> DEFINE q == Missing'
             rows == cache \union r \union q
  <2>4. rows \subseteq 1..SharedHead
    BY <2>3
  <2>5. ASSUME NEW b \in r, NEW o \in low..b, o \notin r, o \notin q, ~KeptIn(rows, full, o)
        PROVE  \E s \in cache : o <= s
    <3>1. o < lo /\ o \in Nat
      <4>1. b \in lo..hi /\ o \in Nat /\ low \in Nat
        BY <1>6, <2>5
      <4> QED
        BY <1>6, <1>9, <2>5, <4>1
    <3>2. CASE ~Downward(j)
      <4>1. KeptIn(cache, full, j.cursor) /\ j.cursor \in Nat /\ j.cursor # FromTop
        BY <1>4, <1>5, <3>2 DEF Standing
      <4>2. o <= j.cursor
        <5>1. CASE j.walk = "newer"
          BY <1>6, <3>1, <4>1, <5>1 DEF PageIsNext
        <5>2. CASE j.walk # "newer"
          BY <1>6, <1>9, <3>1, <4>1, <5>2 DEF PageIsNext
        <5> QED
          BY <5>1, <5>2
      <4>3. CASE j.cursor \in cache
        BY <4>2, <4>3
      <4>4. CASE j.cursor \notin cache
        <5>1. KeptIn(cache, full, o)
          <6>1. SharedHead \in Nat /\ cache \in SUBSET (1..SharedHead)
            BY <1>1, <2>3
          <6>2. o \in Nat
            BY <3>1
          <6> HIDE DEF rows
          <6> QED
            BY <4>1, <4>2, <4>4, <6>1, <6>2, KeptBelow
        <5>2. cache \subseteq rows
          OBVIOUS
        <5> HIDE DEF rows
        <5>3. KeptIn(rows, full, o)
          BY <1>1, <2>4, <5>1, <5>2, KeptGrows
        <5> QED
          BY <2>5, <5>3
      <4> QED
        BY <4>3, <4>4
    <3>3. CASE Downward(j)
      <4>1. new.at = "trim" /\ \A x \in new.records : o < x
        <5>1. j.walk # "older"
          BY <3>3 DEF Downward
        <5> QED
          BY <1>6, <1>8, <1>9, <3>1, <5>1
      <4>2. o \in 1..SharedHead
        BY <1>1, <1>6, <3>1, <2>5
      <4>3. ~full /\ o + CacheLimit <= j.seen
        <5>1. ~(full \/ o + CacheLimit > new.seen)
          BY <1>8, <2>2, <2>5, <3>3, <4>1, <4>2 DEF Region, Downward
        <5>2. new.seen = j.seen /\ j.seen \in Nat /\ o \in Nat /\ CacheLimit \in Nat
          BY <1>1, <1>4, <1>8, <3>1
        <5>3. ~(o + CacheLimit > j.seen)
          BY <5>1, <5>2
        <5>4. o + CacheLimit <= j.seen
          BY ONLY <5>2, <5>3
        <5> QED
          BY <5>1, <5>4
      <4>4. \A y \in lo..j.seen : KeptIn(rows, FALSE, y)
        <5> SUFFICES ASSUME NEW y \in lo..j.seen PROVE KeptIn(rows, FALSE, y)
          OBVIOUS
        <5>1. CASE y <= hi
          BY <1>6, <5>1 DEF KeptIn
        <5>2. CASE ~(y <= hi)
          <6>1. y \in j.cursor..j.seen
            BY <1>4, <1>6, <1>9, <3>3, <5>2 DEF PageIsNext, Downward
          <6>2. KeptIn(cache, FALSE, y)
            <7>1. KeptIn(cache, full, y)
              BY <1>5, <3>3, <6>1 DEF Standing
            <7> QED
              BY <4>3, <7>1 DEF KeptIn
          <6>3. cache \subseteq rows
            OBVIOUS
          <6> HIDE DEF rows
          <6> QED
            BY <1>1, <2>4, <6>2, <6>3, KeptGrows
        <5> QED
          BY <5>1, <5>2
      <4>5. ASSUME NEW x \in 1..SharedHead, x < lo, x + CacheLimit > j.seen PROVE x \in rows
        <5>1. \A y \in new.records : x < y
          BY <1>6, <1>8, <1>9, <4>5
        <5> QED
          BY <1>8, <2>2, <3>3, <4>1, <4>5, <5>1 DEF Region, Downward
      <4>6. j.seen \in 0..SharedHead /\ SharedHead \in Nat
        BY <1>1, <1>4, <1>5
      <4> HIDE DEF rows
      <4>7. KeptIn(rows, FALSE, o)
        <5>1. rows \in SUBSET (1..SharedHead) /\ lo \in Nat /\ o \in Nat /\ o < lo
          BY <1>9, <2>4, <3>1
        <5>2. \A x \in 1..SharedHead : x < lo /\ x + CacheLimit > j.seen => x \in rows
          BY <4>5
        <5> QED
          BY <4>3, <4>4, <4>6, <5>1, <5>2, WindowIsEnough
      <4> QED
        BY <2>5, <4>3, <4>7 DEF KeptIn
    <3> QED
      BY <3>2, <3>3
  <2>6. CoveredBy(low, cache, full, Missing)
    BY DEF TogetherFrom
  <2>7. Missing \subseteq cache \union r \union q
    BY <2>1
  <2> HIDE DEF q
  <2>8. CoveredBy(low, cache \union r, full, q)
    <3>1. \A b \in r : \A o \in low..b :
             \/ o \in r \/ o \in q \/ KeptIn(cache \union r \union q, full, o)
             \/ \E s \in cache : o <= s
      BY <2>5
    <3> QED
      BY <1>1, <2>3, <2>6, <2>7, <3>1, CoveredMore DEF q
  <2> QED
    BY <1>2, <2>8 DEF q
<1> DEFINE low2 == IF low > 1 /\ lo < low THEN lo ELSE low
<1>16. low2 \in Nat \ {0} /\ low2 <= low
  BY <1>6, <1>9
<1>17. low > 1 => ~Downward(j) /\ low <= j.cursor
  BY <1>1, <1>2 DEF Rises
<1>18. Rises(low2, new) /\ LowFits(low2, cache')
  <2> SUFFICES ASSUME low > 1
               PROVE  /\ ~Downward(j) /\ low2 <= j.cursor /\ \A x \in r : low2 <= x
                      /\ cache' # {} /\ \A x \in cache' : low2 <= x
    BY <1>8 DEF Rises, LowFits, Downward
  <2>1. low2 <= j.cursor
    BY <1>4, <1>16, <1>17
  <2>2. \A x \in r : low2 <= x
    BY <1>6, <1>9
  <2>3. \A x \in cache : low2 <= x
    <3>1. \A x \in cache : x \in Nat /\ low <= x
      BY <1>1 DEF LowFits
    <3> QED
      BY <1>16, <3>1
  <2>4. cache # {}
    BY <1>1 DEF LowFits
  <2> QED
    BY <1>2, <1>17, <2>1, <2>2, <2>3, <2>4
<1>19. CoveredBy(low2, cache', full, Missing')
  <2>1. CASE low2 = low
    BY <1>15, <2>1
  <2>2. CASE low2 # low
    <3>1. low > 1 /\ low2 = lo /\ lo < low
      BY <2>2
    <3>2. ~Downward(j) /\ low <= j.cursor /\ j.cursor \in Nat
      BY <1>4, <1>17, <3>1
    <3>3. j.cursor # FromTop
      BY <1>5, <3>2 DEF Standing
    <3>4. low <= hi + 1
      BY <1>6, <1>9, <3>1, <3>2, <3>3 DEF PageIsNext
    <3> SUFFICES ASSUME NEW b \in cache', NEW o \in low2..b
                 PROVE  o \in cache' \/ o \in Missing' \/ KeptIn(cache' \union Missing', full, o)
      BY DEF CoveredBy
    <3>5. b \in Nat /\ o \in Int /\ lo <= o /\ o <= b
      BY <1>9, <3>1
    <3>6. CASE o <= hi
      BY <1>2, <1>6, <1>9, <3>5, <3>6
    <3>7. CASE ~(o <= hi)
      <4>1. o \in low..b
        BY <1>9, <3>4, <3>5, <3>7
      <4> QED
        BY <1>15, <4>1 DEF CoveredBy
    <3> QED
      BY <3>6, <3>7
  <2> QED
    BY <2>1, <2>2
<1> QED
  BY <1>3, <1>9, <1>10, <1>12, <1>14, <1>16, <1>18, <1>19

LEMMA LesserIsCount ==
    ASSUME NEW a \in Nat, NEW b \in Nat
    PROVE  /\ Together!Min({a, b}) \in Nat /\ Alone!Min({a, b}) \in Nat
           /\ a <= b => Together!Min({a, b}) = a /\ Alone!Min({a, b}) = a
<1>1. CASE a <= b
  BY <1>1, LesserOfTwo
<1>2. CASE ~(a <= b)
  <2>1. b <= a /\ {a, b} = {b, a}
    BY <1>2
  <2> QED
    BY <1>2, <2>1, LesserOfTwo
<1> QED
  BY <1>1, <1>2

\* Trimming keeps what is kept, and leaves nothing out.
LEMMA TrimmedKeeps ==
    ASSUME NEW low \in Nat \ {0}, NEW c \in SUBSET (1..SharedHead), NEW p \in SUBSET (1..SharedHead), NEW f \in BOOLEAN,
           NEW d, d = IF f THEN c ELSE Recent(c)
    PROVE  /\ d \subseteq c /\ (c # {} => d # {})
           /\ \A y \in Nat : KeptIn(c, f, y) => KeptIn(d, f, y)
           /\ CoveredBy(low, c, f, p) => CoveredBy(low, d, f, p)
<1>1. CASE f
  BY <1>1
<1>2. CASE ~f
  <2>1. d = Recent(c) /\ f = FALSE /\ SharedHead \in Nat
    BY <1>2, LimitsArePositive
  <2>2. ASSUME NEW y \in Nat, KeptIn(c, FALSE, y) PROVE KeptIn(Recent(c), FALSE, y)
    <3>1. KeptIn(c \union {}, FALSE, y)
      BY <2>2
    <3>2. KeptIn(Recent(c) \union {}, FALSE, y)
      BY <2>1, <3>1, KeptRecent
    <3> QED
      BY <3>2
  <2>3. CoveredBy(low, c, FALSE, p) => CoveredBy(low, Recent(c), FALSE, p)
    BY <2>1, CoveredRecent
  <2>4. Recent(c) \subseteq c
    BY <2>1, RecentRows
  <2>5. ASSUME Recent(c) = {}, NEW o \in c PROVE FALSE
    <3>1. Cardinality(Above(Recent(c), o)) >= CacheLimit
      BY <2>1, <2>5, RecentRows
    <3>2. Above(Recent(c), o) = {}
      BY <2>5 DEF Above
    <3> QED
      BY <3>1, <3>2, FS_EmptySet, LimitsArePositive
  <2> QED
    BY <2>1, <2>2, <2>3, <2>4, <2>5
<1> QED
  BY <1>1, <1>2

LEMMA TrimKeeps ==
    ASSUME NEW low \in Nat \ {0}, TogetherFrom(low), NEW w \in Both, Together!Trim(w), full' = full
    PROVE  /\ job' = [job EXCEPT ![w] = job'[w]] /\ job'[w].at # "idle"
           /\ cache' \subseteq 1..head
           /\ \A y \in Nat : KeptIn(cache, full, y) => KeptIn(cache', full, y)
           /\ JobOk(job'[w], cache', full, head) /\ Rises(low, job'[w]) /\ LowFits(low, cache')
           /\ CoveredBy(low, cache', full, Missing')
<1> DEFINE j == job[w]
           r == j.records
           on == Together!GoesOn(j)
           more == Together!Min({j.fetched + Together!Cardinality(r), SharedHead})
           last == Together!LastToken(j.walk, r)
           new == [j EXCEPT !.at = IF on THEN "fetch" ELSE "turn",
                            !.cursor = IF on THEN last ELSE j.cursor,
                            !.fetched = more,
                            !.records = {}]
<1>1. /\ j \in JobType /\ JobOk(j, cache, full, head) /\ job \in [Both -> JobType]
      /\ head \in 0..SharedHead /\ SharedHead \in Nat \ {0} /\ full \in BOOLEAN
      /\ cache \subseteq 1..head /\ CoveredBy(low, cache, full, Missing)
      /\ Rises(low, j) /\ LowFits(low, cache)
  BY LimitsArePositive DEF TogetherFrom
<1>2. /\ j.at = "trim" /\ job' = [job EXCEPT ![w] = new]
      /\ cache' = IF full \/ j.walk = "backfill" THEN cache ELSE Recent(cache)
  BY NewestRows DEF Together!Trim, Together!Trimmed
<1>3. job'[w] = new
  BY <1>1, <1>2
<1>4. /\ j.at \in Places /\ j.walk \in Walks /\ j.cursor \in Nat \ {0} /\ j.fetched \in Nat
      /\ j.records \in SUBSET Nat /\ j.seen \in Nat /\ j.steady \in BOOLEAN
  BY <1>1 DEF JobType
<1>5. /\ j.cursor <= head \/ j.cursor = FromTop
      /\ j.seen <= head
      /\ ~full => j.walk \in {"bootstrap", "newer"}
      /\ Standing(j, cache, full)
      /\ \E lo, hi \in 1..head : lo <= hi /\ r = lo..hi /\ PageIsNext(j, lo, hi)
      /\ \A x \in r : KeptIn(cache, full, x)
  BY <1>1, <1>2 DEF JobOk
<1>6. PICK lo \in 1..head, hi \in 1..head : lo <= hi /\ r = lo..hi /\ PageIsNext(j, lo, hi)
  BY <1>5
<1>7. /\ lo \in Nat \ {0} /\ hi \in Nat \ {0} /\ head \in Nat /\ lo <= head /\ hi <= head
      /\ cache \in SUBSET (1..SharedHead)
  BY <1>1, <1>6
<1>8. Together!Cardinality(r) = hi - lo + 1
  <2>1. Cardinality(lo..hi) = hi - lo + 1
    BY <1>6, <1>7, FS_Interval
  <2> QED
    BY <1>6, <2>1, HistoryCounts
<1>9. on <=> hi - lo + 1 = Page
  BY <1>8 DEF Together!GoesOn
<1>10. last = IF j.walk = "newer" THEN hi ELSE lo
  BY <1>6, <1>7, EndsOfRun DEF Together!LastToken
<1>11. more \in Nat
  BY <1>1, <1>4, <1>6, <1>7, <1>8, LesserIsCount
<1> HIDE DEF on, last, more, r
<1>12. new \in JobType
  BY <1>1, <1>4, <1>7, <1>10, <1>11 DEF JobType, Places
<1>13. /\ new.at = (IF on THEN "fetch" ELSE "turn") /\ new.walk = j.walk
       /\ new.cursor = (IF on THEN last ELSE j.cursor)
       /\ new.seen = j.seen /\ new.records = {} /\ new.fetched = more
  BY <1>1 DEF JobType
<1> HIDE DEF new, j
<1>14. cache' = IF full THEN cache ELSE Recent(cache)
  BY <1>2, <1>5
<1>15. /\ cache' \subseteq cache /\ (cache # {} => cache' # {})
       /\ \A y \in Nat : KeptIn(cache, full, y) => KeptIn(cache', full, y)
       /\ CoveredBy(low, cache', full, Missing)
  BY <1>1, <1>7, <1>14, MissingRows, TrimmedKeeps
<1>16. Downward(j) => lo + more = j.seen + 1
  <2> SUFFICES ASSUME Downward(j) PROVE lo + more = j.seen + 1
    OBVIOUS
  <2>1. /\ hi = IF j.cursor = FromTop THEN j.seen ELSE j.cursor - 1
        /\ IF j.cursor = FromTop THEN j.fetched = 0 ELSE j.cursor + j.fetched = j.seen + 1
    BY <1>5, <1>6 DEF PageIsNext, Standing, Downward
  <2>2. j.fetched + (hi - lo + 1) = j.seen + 1 - lo
    BY <1>4, <1>7, <2>1
  <2>3. j.fetched + (hi - lo + 1) \in Nat /\ j.fetched + (hi - lo + 1) <= SharedHead
    <3>1. /\ head \in Nat /\ SharedHead \in Nat /\ j.seen \in Nat /\ j.fetched \in Nat
          /\ lo \in Nat \ {0} /\ hi \in Nat \ {0} /\ lo <= hi /\ j.seen <= head /\ head <= SharedHead
      BY <1>1, <1>4, <1>5, <1>6, <1>7
    <3> QED
      BY ONLY <2>2, <3>1
  <2>4. more = j.fetched + (hi - lo + 1)
    BY <1>1, <1>8, <2>3, LesserIsCount DEF more
  <2> QED
    BY <1>4, <1>7, <2>2, <2>4
<1>17. ASSUME on PROVE Standing(new, cache', full)
  <2>1. \A y \in lo..hi : KeptIn(cache', full, y)
    <3>1. \A y \in lo..hi : y \in Nat /\ KeptIn(cache, full, y)
      BY <1>5, <1>6, <1>7
    <3> QED
      BY <1>15, <3>1
  <2>2. new.cursor \in lo..hi /\ new.cursor # FromTop
    BY <1>1, <1>6, <1>7, <1>10, <1>13, <1>17 DEF FromTop
  <2>3. CASE ~Downward(j)
    BY <1>13, <2>1, <2>2, <2>3 DEF Standing, Downward
  <2>4. CASE Downward(j)
    <3>1. new.cursor = lo
      BY <1>10, <1>13, <1>17, <2>4 DEF Downward
    <3>2. new.cursor + new.fetched = new.seen + 1
      BY <1>13, <1>16, <2>4, <3>1
    <3>3. ASSUME NEW y \in lo..j.seen PROVE KeptIn(cache', full, y)
      <4>1. CASE y \in lo..hi
        BY <2>1, <4>1
      <4>2. CASE y \notin lo..hi
        <5>1. y \in j.cursor..j.seen
          BY <1>4, <1>6, <1>7, <2>4, <4>2 DEF PageIsNext, Downward
        <5>2. KeptIn(cache, full, y) /\ y \in Nat
          BY <1>5, <1>7, <2>4, <5>1 DEF Standing
        <5> QED
          BY <1>15, <5>2
      <4> QED
        BY <4>1, <4>2
    <3> QED
      BY <1>13, <2>2, <2>4, <3>1, <3>2, <3>3 DEF Standing, Downward
  <2> QED
    BY <2>3, <2>4
<1>18. new.cursor <= head \/ new.cursor = FromTop
  BY <1>5, <1>7, <1>10, <1>13
<1>19. JobOk(new, cache', full, head)
  BY <1>5, <1>12, <1>13, <1>17, <1>18 DEF JobOk
<1>20. Region(j, full) \subseteq Region(new, full)
  <2> SUFFICES ASSUME NEW x \in 1..SharedHead, Downward(j), full \/ x + CacheLimit > j.seen,
                      \A y \in r : x < y
               PROVE  x \in Region(new, full)
    BY <1>2 DEF Region, r
  <2>1. x < lo /\ x >= 1
    BY <1>6, <1>7
  <2>2. on
    <3>1. lo = 1 \/ hi - lo + 1 = Page
      BY <1>6 DEF PageIsNext, Downward
    <3> QED
      BY <1>9, <2>1, <3>1
  <2>3. new.cursor = lo
    BY <1>10, <1>13, <2>2 DEF Downward
  <2>4. lo # FromTop
    BY <1>1, <1>7 DEF FromTop
  <2> QED
    BY <1>13, <2>1, <2>2, <2>3, <2>4 DEF Region, Downward
<1>21. job' = [job EXCEPT ![w] = job'[w]] /\ job'[w].at # "idle"
  BY <1>2, <1>3, <1>13
<1>22. Missing \subseteq {} \union Missing'
  <2>1. Region(job[w], full) \subseteq {} \union Region(job'[w], full)
    BY <1>3, <1>20 DEF j
  <2> QED
    BY <1>1, <1>21, <2>1, MissingMoves
<1>23. CoveredBy(low, cache', full, Missing')
  <2>1. Missing \subseteq cache' \union Missing' /\ cache' \subseteq 1..SharedHead
    BY <1>7, <1>15, <1>22
  <2>2. SharedHead \in Nat
    BY <1>1
  <2> DEFINE p == Missing
             q == Missing'
             d == cache'
  <2>3. p \subseteq 1..SharedHead /\ q \subseteq 1..SharedHead
    BY MissingRows
  <2>4. p \subseteq d \union q /\ d \subseteq 1..SharedHead /\ CoveredBy(low, d, full, p)
    BY <1>15, <2>1
  <2> HIDE DEF p, q, d
  <2>5. CoveredBy(low, d, full, q)
    BY <2>2, <2>3, <2>4, CoveredMissing
  <2> QED
    BY <2>5 DEF d, q
<1>24. Rises(low, new)
  <2>1. ASSUME on, low > 1 PROVE ~Downward(new) /\ low <= new.cursor
    <3>1. ~Downward(j) /\ \A x \in lo..hi : low <= x
      BY <1>1, <1>2, <1>6, <2>1 DEF Rises, r
    <3>2. new.cursor \in lo..hi
      BY <1>6, <1>7, <1>10, <1>13, <2>1
    <3> QED
      BY <1>13, <3>1, <3>2 DEF Downward
  <2> QED
    BY <1>13, <2>1 DEF Rises
<1>25. LowFits(low, cache')
  BY <1>1, <1>15 DEF LowFits
<1> QED
  BY <1>1, <1>3, <1>15, <1>19, <1>21, <1>23, <1>24, <1>25

LEMMA EndRows ==
    ASSUME NEW n \in Nat, NEW c \in SUBSET (1..n), c # {}
    PROVE  /\ Together!Min(c) \in c /\ \A y \in c : Together!Min(c) <= y
           /\ Together!Max(c) \in c /\ \A y \in c : y <= Together!Max(c)
<1>1. c \subseteq Nat /\ c \subseteq 0..n
  OBVIOUS
<1>2. \E x \in c : \A y \in c : x <= y
  BY <1>1, LeastNumber
<1>3. \E x \in c : \A y \in c : x >= y
  <2>1. \E x \in c : \A y \in c : y <= x
    BY <1>1, GreatestNumber
  <2> QED
    BY <1>1, <2>1
<1>4. Together!Min(c) \in c /\ \A y \in c : Together!Min(c) <= y
  BY <1>2 DEF Together!Min
<1>5. Together!Max(c) \in c /\ \A y \in c : Together!Max(c) >= y
  BY <1>3 DEF Together!Max
<1> QED
  BY <1>1, <1>4, <1>5

LEMMA RowIsCount ==
    ASSUME NEW n \in Nat, NEW c \in SUBSET (1..n), NEW x \in c
    PROVE  x \in 1..n /\ x \in Nat \ {0}
OBVIOUS

\* A walk begins at the head, or beside a row.
LEMMA WalkBegins ==
    ASSUME NEW h \in 0..SharedHead, NEW c \in SUBSET (1..h), NEW f, NEW j \in JobType, j.at = "fetch",
           j.seen <= h, ~f => j.walk \in {"bootstrap", "newer"},
           \/ Downward(j) /\ j.cursor = FromTop /\ j.fetched = 0
           \/ ~Downward(j) /\ j.cursor \in c
    PROVE  JobOk(j, c, f, h)
<1>1. SharedHead \in Nat /\ h \in Nat /\ h <= SharedHead /\ j.seen \in Nat
  BY LimitsArePositive DEF JobType
<1>2. CASE Downward(j)
  <2>1. j.cursor..j.seen = {}
    BY <1>1, <1>2 DEF FromTop
  <2>2. Standing(j, c, f)
    BY <1>2, <2>1 DEF Standing
  <2> QED
    BY <1>2, <2>2 DEF JobOk
<1>3. CASE ~Downward(j)
  <2>1. j.cursor <= h /\ j.cursor # FromTop
    <3>1. j.cursor \in c /\ j.cursor \in 1..h
      BY <1>3
    <3> QED
      BY <1>1, <3>1 DEF FromTop
  <2>2. Standing(j, c, f)
    BY <1>3, <2>1 DEF Standing, KeptIn
  <2> QED
    BY <1>3, <2>1, <2>2 DEF JobOk
<1> QED
  BY <1>2, <1>3

LEMMA WalkType ==
    ASSUME NEW walk \in Walks, NEW c \in Nat \ {0}
    PROVE  /\ Together!Idle \in JobType /\ Together!Walk(walk, c) \in JobType
           /\ LET j == Together!Walk(walk, c)
              IN  j.at = "fetch" /\ j.walk = walk /\ j.cursor = c /\ j.fetched = 0 /\ j.seen = 0
           /\ Together!Idle.at = "idle" /\ Together!Idle.walk = "bootstrap"
           /\ Together!Idle.cursor = FromTop /\ Together!Idle.seen = 0
<1>1. FromTop \in Nat \ {0} /\ Together!FromHead = FromTop
  BY LimitsArePositive DEF Together!FromHead, FromTop
<1>2. Together!Idle = [at |-> "idle", walk |-> "bootstrap", cursor |-> FromTop, fetched |-> 0,
                      records |-> {}, seen |-> 0, steady |-> TRUE]
  BY <1>1 DEF Together!Idle
<1>3. /\ Together!Idle \in JobType
      /\ Together!Idle.at = "idle" /\ Together!Idle.walk = "bootstrap"
      /\ Together!Idle.cursor = FromTop /\ Together!Idle.fetched = 0 /\ Together!Idle.seen = 0
  BY <1>1, <1>2 DEF JobType, Places, Walks
<1>4. Together!Walk(walk, c) = [Together!Idle EXCEPT !.at = "fetch", !.walk = walk, !.cursor = c]
  BY DEF Together!Walk
<1>5. Together!Walk(walk, c) \in JobType
  BY <1>3, <1>4 DEF JobType, Places
<1>6. LET j == Together!Walk(walk, c)
      IN  j.at = "fetch" /\ j.walk = walk /\ j.cursor = c /\ j.fetched = 0 /\ j.seen = 0
  BY <1>3, <1>4 DEF JobType
<1> QED
  BY <1>3, <1>5, <1>6

LEMMA TurnKeeps ==
    ASSUME NEW low \in Nat \ {0}, TogetherFrom(low), NEW w \in Both, Together!Turn(w)
    PROVE  /\ job' = [job EXCEPT ![w] = job'[w]] /\ job'[w].at # "idle"
           /\ JobOk(job'[w], cache, full, head) /\ Rises(low, job'[w])
           /\ Region(job[w], full) \subseteq Region(job'[w], full)
<1> DEFINE j == job[w]
           walk == IF cache = {} THEN Together!Walk("bootstrap", FromTop)
                   ELSE Together!Walk("backfill", Together!Min(cache))
           again == [walk EXCEPT !.seen = j.seen, !.steady = j.steady]
           new == IF j.walk = "newer" /\ full THEN again ELSE [j EXCEPT !.at = "last"]
<1>1. /\ j \in JobType /\ JobOk(j, cache, full, head) /\ job \in [Both -> JobType]
      /\ head \in 0..SharedHead /\ SharedHead \in Nat \ {0} /\ cache \in SUBSET (1..head)
      /\ head \in Nat /\ LowFits(low, cache)
  BY LimitsArePositive DEF TogetherFrom
<1>2. j.at = "turn" /\ job' = [job EXCEPT ![w] = new]
  BY DEF Together!Turn, Together!FromHead, FromTop
<1>3. job'[w] = new
  BY <1>1, <1>2
<1>4. /\ j.at \in Places /\ j.walk \in Walks /\ j.cursor \in Nat \ {0} /\ j.fetched \in Nat
      /\ j.records \in SUBSET Nat /\ j.seen \in Nat /\ j.steady \in BOOLEAN
  BY <1>1 DEF JobType
<1>5. /\ j.cursor <= head \/ j.cursor = FromTop
      /\ j.seen <= head
      /\ ~full => j.walk \in {"bootstrap", "newer"}
  BY <1>1 DEF JobOk
<1>6. Region(j, full) = {}
  BY <1>2 DEF Region
<1>7. CASE j.walk = "newer" /\ full
  <2>1. /\ walk \in JobType /\ walk.at = "fetch" /\ walk.fetched = 0
        /\ \/ walk.walk = "bootstrap" /\ walk.cursor = FromTop
           \/ walk.walk = "backfill" /\ walk.cursor \in cache
        /\ walk.walk = "bootstrap" => cache = {}
    <3>1. CASE cache = {}
      <4>1. FromTop \in Nat \ {0}
        BY <1>1 DEF FromTop
      <4> QED
        BY <3>1, <4>1, WalkType DEF Walks
    <3>2. CASE cache # {}
      <4>1. Together!Min(cache) \in cache
        BY <1>1, <3>2, EndRows
      <4>2. Together!Min(cache) \in Nat \ {0}
        BY <1>1, <4>1, RowIsCount
      <4> QED
        BY <3>2, <4>1, <4>2, WalkType DEF Walks
    <3> QED
      BY <3>1, <3>2
  <2> HIDE DEF walk
  <2>2. again \in JobType
    BY <1>4, <2>1 DEF JobType
  <2>3. /\ again.at = "fetch" /\ again.fetched = 0 /\ again.seen = j.seen
        /\ again.walk = walk.walk /\ again.cursor = walk.cursor
    BY <2>1 DEF JobType
  <2>4. new = again
    BY <1>7
  <2> HIDE DEF new, again, j
  <2>5. \/ Downward(again) /\ again.cursor = FromTop
        \/ ~Downward(again) /\ again.cursor \in cache
    BY <2>1, <2>3 DEF Downward
  <2>6. JobOk(again, cache, full, head)
    BY <1>1, <1>5, <1>7, <2>2, <2>3, <2>5, WalkBegins
  <2>7. Rises(low, again)
    BY <1>1, <2>1, <2>3, <2>5 DEF Rises, LowFits, Downward
  <2> QED
    BY <1>2, <1>3, <1>6, <2>3, <2>4, <2>6, <2>7 DEF j
<1>8. CASE ~(j.walk = "newer" /\ full)
  <2>1. new = [j EXCEPT !.at = "last"] /\ new \in JobType
    BY <1>1, <1>4, <1>8 DEF JobType, Places
  <2>2. new.at = "last" /\ new.walk = j.walk /\ new.cursor = j.cursor /\ new.seen = j.seen
    BY <2>1, <1>1 DEF JobType
  <2>3. JobOk(new, cache, full, head) /\ Rises(low, new)
    BY <1>5, <2>1, <2>2 DEF JobOk, Rises
  <2> HIDE DEF new
  <2> QED
    BY <1>2, <1>3, <1>6, <2>2, <2>3
<1> QED
  BY <1>7, <1>8

\* sync_recent and load_older begin.
LEMMA SyncKeeps ==
    ASSUME NEW low \in Nat \ {0}, TogetherFrom(low), NEW w \in Both, Together!SyncRecent(w) \/ Together!LoadOlder(w)
    PROVE  /\ job' = [job EXCEPT ![w] = job'[w]] /\ job'[w].at # "idle"
           /\ JobOk(job'[w], cache, full, head) /\ Rises(low, job'[w])
           /\ Region(job[w], full) \subseteq Region(job'[w], full)
<1>1. /\ job \in [Both -> JobType] /\ head \in 0..SharedHead /\ SharedHead \in Nat \ {0}
      /\ cache \in SUBSET (1..head) /\ head \in Nat /\ LowFits(low, cache)
  BY LimitsArePositive DEF TogetherFrom
<1>2. job[w].at = "idle"
  BY DEF Together!SyncRecent, Together!LoadOlder
<1>3. PICK walk \in Walks, c \in Nat \ {0} :
          /\ job' = [job EXCEPT ![w] = Together!Walk(walk, c)]
          /\ ~full => walk \in {"bootstrap", "newer"}
          /\ \/ walk \in {"bootstrap", "refill"} /\ c = FromTop /\ cache = {}
             \/ walk \notin {"bootstrap", "refill"} /\ c \in cache
  <2>1. FromTop \in Nat \ {0} /\ FromTop = Together!FromHead
    BY <1>1 DEF FromTop, Together!FromHead
  <2>2. cache # {} => /\ Together!Min(cache) \in cache /\ Together!Min(cache) \in Nat \ {0}
                      /\ Together!Max(cache) \in cache /\ Together!Max(cache) \in Nat \ {0}
    <3>1. cache # {} => Together!Min(cache) \in cache /\ Together!Max(cache) \in cache
      BY <1>1, EndRows
    <3>2. \A x \in cache : x \in Nat \ {0}
      BY <1>1, RowIsCount
    <3> QED
      BY <3>1, <3>2
  <2>3. CASE cache = {} /\ Together!SyncRecent(w)
    BY <2>1, <2>3 DEF Together!SyncRecent, Walks
  <2>4. CASE cache # {} /\ Together!SyncRecent(w)
    BY <2>2, <2>4 DEF Together!SyncRecent, Walks
  <2>5. CASE cache = {} /\ Together!LoadOlder(w)
    BY <2>1, <2>5 DEF Together!LoadOlder, Walks
  <2>6. CASE cache # {} /\ Together!LoadOlder(w)
    BY <2>2, <2>6 DEF Together!LoadOlder, Walks
  <2> QED
    BY <2>3, <2>4, <2>5, <2>6
<1> DEFINE new == Together!Walk(walk, c)
<1>4. /\ new \in JobType /\ new.at = "fetch" /\ new.walk = walk /\ new.cursor = c
      /\ new.fetched = 0 /\ new.seen = 0
  BY WalkType
<1>5. job' = [job EXCEPT ![w] = new] /\ job'[w] = new
  BY <1>1, <1>3
<1> HIDE DEF new
<1>6. \/ Downward(new) /\ new.cursor = FromTop /\ cache = {}
      \/ ~Downward(new) /\ new.cursor \in cache
  BY <1>3, <1>4 DEF Downward
<1>7. JobOk(new, cache, full, head)
  BY <1>1, <1>3, <1>4, <1>6, WalkBegins
<1>8. Region(job[w], full) = {}
  BY <1>2 DEF Region
<1>9. Rises(low, new)
  BY <1>1, <1>4, <1>6 DEF Rises, LowFits
<1> QED
  BY <1>4, <1>5, <1>7, <1>8, <1>9

LEMMA FinishKeeps ==
    ASSUME NEW low \in Nat \ {0}, TogetherFrom(low), NEW w \in Both, Together!Finish(w), full' = full
    PROVE  /\ job' = [job EXCEPT ![w] = job'[w]]
           /\ cache' \subseteq 1..head
           /\ \A y \in Nat : KeptIn(cache, full, y) => KeptIn(cache', full, y)
           /\ JobOk(job'[w], cache', full, head) /\ Rises(low, job'[w]) /\ LowFits(low, cache')
           /\ CoveredBy(low, cache', full, Missing')
           /\ full \/ Cardinality(cache') <= CacheLimit
<1> DEFINE j == job[w]
<1>1. /\ j \in JobType /\ JobOk(j, cache, full, head) /\ job \in [Both -> JobType]
      /\ head \in 0..SharedHead /\ SharedHead \in Nat \ {0} /\ full \in BOOLEAN
      /\ cache \subseteq 1..head /\ CoveredBy(low, cache, full, Missing)
      /\ cache \in SUBSET (1..SharedHead) /\ head \in Nat /\ LowFits(low, cache)
  BY LimitsArePositive DEF TogetherFrom
<1>2. /\ j.at = "last" /\ job' = [job EXCEPT ![w] = Together!Idle] /\ job'[w] = Together!Idle
      /\ cache' = IF full \/ j.walk \in {"older", "refill"} THEN cache ELSE Recent(cache)
  BY <1>1, NewestRows DEF Together!Finish, Together!Trimmed
<1>3. ~full => j.walk \in {"bootstrap", "newer"}
  BY <1>1 DEF JobOk
<1>4. cache' = IF full THEN cache ELSE Recent(cache)
  BY <1>2, <1>3
<1>5. /\ cache' \subseteq cache /\ (cache # {} => cache' # {})
      /\ \A y \in Nat : KeptIn(cache, full, y) => KeptIn(cache', full, y)
      /\ CoveredBy(low, cache', full, Missing)
  BY <1>1, <1>4, MissingRows, TrimmedKeeps
<1>6. JobOk(Together!Idle, cache', full, head) /\ Rises(low, Together!Idle)
  <2>1. 1 \in Nat \ {0} /\ "newer" \in Walks
    BY DEF Walks
  <2>2. /\ Together!Idle \in JobType /\ Together!Idle.at = "idle" /\ Together!Idle.walk = "bootstrap"
        /\ Together!Idle.cursor = FromTop /\ Together!Idle.seen = 0
    BY <2>1, WalkType
  <2> QED
    BY <1>1, <2>2 DEF JobOk, Rises
<1>7. job' = [job EXCEPT ![w] = job'[w]]
  BY <1>2
<1>8. Missing \subseteq {} \union Missing'
  <2>1. Region(job[w], full) \subseteq {} \union Region(job'[w], full)
    BY <1>2 DEF Region
  <2> QED
    BY <1>1, <1>7, <2>1, MissingMoves
<1>9. CoveredBy(low, cache', full, Missing')
  <2> DEFINE p == Missing
             q == Missing'
             d == cache'
  <2>1. p \subseteq 1..SharedHead /\ q \subseteq 1..SharedHead /\ SharedHead \in Nat
    BY <1>1, MissingRows
  <2>2. p \subseteq d \union q /\ d \subseteq 1..SharedHead /\ CoveredBy(low, d, full, p)
    BY <1>1, <1>5, <1>8
  <2> HIDE DEF p, q, d
  <2>3. CoveredBy(low, d, full, q)
    BY <2>1, <2>2, CoveredMissing
  <2> QED
    BY <2>3 DEF d, q
<1>10. ~full => Cardinality(cache') <= CacheLimit
  BY <1>1, <1>4, RecentRows
<1>11. LowFits(low, cache')
  BY <1>1, <1>5 DEF LowFits
<1> QED
  BY <1>1, <1>2, <1>5, <1>6, <1>7, <1>9, <1>10, <1>11

\* One worker moves.
LEMMA WorkerKeeps ==
    ASSUME NEW low \in Nat \ {0}, TogetherFrom(low), NEW w \in Both, head' = head, full' = full,
           NEW low2 \in Nat \ {0}, low2 <= low,
           job' = [job EXCEPT ![w] = job'[w]],
           cache' \subseteq 1..head,
           \A y \in Nat : KeptIn(cache, full, y) => KeptIn(cache', full, y),
           JobOk(job'[w], cache', full, head), Rises(low2, job'[w]), LowFits(low2, cache'),
           CoveredBy(low2, cache', full, Missing'),
           job'[w].at # "idle" \/ full \/ Cardinality(cache') <= CacheLimit
    PROVE  TogetherFrom(low2)'
<1>1. /\ head \in 0..SharedHead /\ head \in Nat /\ full \in BOOLEAN /\ job \in [Both -> JobType]
      /\ \A v \in Both : JobOk(job[v], cache, full, head) /\ Rises(low, job[v])
  BY LimitsArePositive DEF TogetherFrom
<1>2. ASSUME NEW v \in Both PROVE JobOk(job'[v], cache', full, head) /\ Rises(low2, job'[v])
  <2>1. CASE v = w
    BY <2>1
  <2>2. CASE v # w
    <3>1. job'[v] = job[v]
      BY <1>1, <2>2
    <3>2. JobOk(job[v], cache', full, head)
      BY <1>1, JobStays
    <3>3. Rises(low2, job[v])
      <4>1. /\ job[v].cursor \in Nat /\ job[v].records \subseteq Nat /\ Rises(low, job[v])
        BY <1>1 DEF JobType
      <4> QED
        BY <4>1 DEF Rises
    <3> QED
      BY <3>1, <3>2, <3>3
  <2> QED
    BY <2>1, <2>2
<1>3. job' \in [Both -> JobType]
  <2>1. job'[w] \in JobType
    BY <1>2 DEF JobOk
  <2> QED
    BY <1>1, <2>1
<1>4. full \/ Cardinality(cache') <= CacheLimit \/ ~Together!AtRest'
  BY DEF Together!AtRest, Both
<1>5. (\A v \in Both : JobOk(job[v], cache, full, head) /\ Rises(low2, job[v]))'
  BY <1>2
<1>6. CoveredBy(low2, cache, full, Missing)'
  OBVIOUS
<1>7. (full \/ Cardinality(cache) <= CacheLimit \/ ~Together!AtRest \/ Together!Contiguous(cache))'
  BY <1>4
<1>8. LowFits(low2, cache)'
  OBVIOUS
<1> QED
  BY <1>1, <1>3, <1>8, <1>5, <1>6, <1>7 DEF TogetherFrom

\* One worker moves, and no row.
LEMMA WorkerKeepsRows ==
    ASSUME NEW low \in Nat \ {0}, TogetherFrom(low), NEW w \in Both, UNCHANGED <<head, cache, full>>,
           job' = [job EXCEPT ![w] = job'[w]],
           JobOk(job'[w], cache, full, head), Rises(low, job'[w]),
           Region(job[w], full) \subseteq Region(job'[w], full),
           job'[w].at # "idle"
    PROVE  TogetherFrom(low)'
<1>1. /\ cache \subseteq 1..head /\ head \in 0..SharedHead /\ SharedHead \in Nat
      /\ CoveredBy(low, cache, full, Missing) /\ job \in [Both -> JobType]
      /\ LowFits(low, cache)
  BY LimitsArePositive DEF TogetherFrom
<1>2. CoveredBy(low, cache, full, Missing')
  <2>1. Missing \subseteq {} \union Missing'
    BY <1>1, MissingMoves
  <2> DEFINE p == Missing
             q == Missing'
  <2>2. p \subseteq 1..SharedHead /\ q \subseteq 1..SharedHead /\ p \subseteq cache \union q
    BY <2>1, MissingRows
  <2>3. CoveredBy(low, cache, full, p) /\ cache \subseteq 1..SharedHead
    BY <1>1
  <2> HIDE DEF p, q
  <2>4. CoveredBy(low, cache, full, q)
    BY <1>1, <2>2, <2>3, CoveredMissing
  <2> QED
    BY <2>4 DEF q
<1> QED
  BY <1>1, <1>2, WorkerKeeps

\* One worker goes on; the rows that are covered may come to begin at an older one.
LEMMA WorkerStep ==
    ASSUME NEW low \in Nat \ {0}, TogetherFrom(low), NEW w \in Both,
           Together!SyncRecent(w) \/ Together!LoadOlder(w) \/ Together!Continue(w)
    PROVE  \E low2 \in Nat \ {0} : TogetherFrom(low2)'
<1>1. CASE Together!SyncRecent(w) \/ Together!LoadOlder(w)
  <2>1. UNCHANGED <<head, cache, full>>
    BY <1>1 DEF Together!SyncRecent, Together!LoadOlder
  <2>2. TogetherFrom(low)'
    BY <1>1, <2>1, SyncKeeps, WorkerKeepsRows
  <2> QED
    BY <2>2
<1>2. CASE Together!Fetch(w)
  <2>1. UNCHANGED <<head, cache, full>>
    BY <1>2 DEF Together!Fetch
  <2>2. TogetherFrom(low)'
    BY <1>2, <2>1, FetchKeeps, WorkerKeepsRows
  <2> QED
    BY <2>2
<1>3. CASE Together!Turn(w)
  <2>1. UNCHANGED <<head, cache, full>>
    BY <1>3 DEF Together!Turn
  <2>2. TogetherFrom(low)'
    BY <1>3, <2>1, TurnKeeps, WorkerKeepsRows
  <2> QED
    BY <2>2
<1>4. CASE Together!Store(w)
  <2>1. head' = head /\ full' = full
    BY <1>4 DEF Together!Store
  <2>2. PICK low2 \in Nat \ {0} :
          low2 <= low /\ Rises(low2, job'[w]) /\ LowFits(low2, cache') /\ CoveredBy(low2, cache', full, Missing')
    BY <1>4, <2>1, StoreKeeps
  <2>3. TogetherFrom(low2)'
    BY <1>4, <2>1, <2>2, StoreKeeps, WorkerKeeps
  <2> QED
    BY <2>3
<1>5. CASE Together!Trim(w)
  <2>1. head' = head /\ full' = full /\ low <= low
    BY <1>5 DEF Together!Trim
  <2>2. TogetherFrom(low)'
    BY <1>5, <2>1, TrimKeeps, WorkerKeeps
  <2> QED
    BY <2>2
<1>6. CASE Together!Finish(w)
  <2>1. head' = head /\ full' = full /\ low <= low
    BY <1>6 DEF Together!Finish
  <2>2. TogetherFrom(low)'
    BY <1>6, <2>1, FinishKeeps, WorkerKeeps
  <2> QED
    BY <2>2
<1> QED
  BY <1>1, <1>2, <1>3, <1>4, <1>5, <1>6 DEF Together!Continue

LEMMA HappensKeeps ==
    ASSUME NEW low \in Nat \ {0}, TogetherFrom(low), Together!Happens
    PROVE  TogetherFrom(low)'
<1>1. /\ head \in 0..SharedHead /\ SharedHead \in Nat /\ cache \subseteq 1..head
      /\ full \in BOOLEAN /\ job \in [Both -> JobType]
      /\ \A v \in Both : JobOk(job[v], cache, full, head) /\ Rises(low, job[v])
      /\ LowFits(low, cache) /\ CoveredBy(low, cache, full, Missing)
      /\ full \/ Cardinality(cache) <= CacheLimit \/ ~Together!AtRest \/ Together!Contiguous(cache)
  BY LimitsArePositive DEF TogetherFrom
<1>2. head < SharedHead /\ head' = head + 1 /\ UNCHANGED <<cache, full, job>>
  BY DEF Together!Happens
<1>3. head' \in 0..SharedHead /\ cache' \subseteq 1..head' /\ head' \in Nat /\ head <= head' /\ head \in Nat
  BY <1>1, <1>2
<1>4. \A v \in Both : JobOk(job[v], cache, full, head')
  BY <1>1, <1>3, JobStays
<1>5. Missing' = Missing /\ Together!AtRest' = Together!AtRest
  BY <1>2 DEF Missing, Together!AtRest
<1>6. Together!Contiguous(cache)' = Together!Contiguous(cache)
  BY <1>2
<1> QED
  BY <1>1, <1>2, <1>3, <1>4, <1>5, <1>6 DEF TogetherFrom

LEMMA HolesAreClosed ==
    ASSUME NEW low \in Nat \ {0}, TogetherFrom(low), Together!AtRest
    PROVE  Together!Contiguous(cache)
<1> SUFFICES ASSUME ~Together!Contiguous(cache),
                    NEW o \in 1..SharedHead, o \notin cache, NEW a \in cache, NEW b \in cache, a < o, o < b
             PROVE  FALSE
  BY DEF Together!Contiguous, Together!Operations
<1>1. /\ head \in 0..SharedHead /\ head \in Nat /\ SharedHead \in Nat /\ cache \in SUBSET (1..head)
      /\ CoveredBy(low, cache, full, Missing) /\ LowFits(low, cache) /\ CacheLimit \in Nat
      /\ full \/ Cardinality(cache) <= CacheLimit
  BY LimitsArePositive DEF TogetherFrom
<1>2. Missing = {}
  BY DEF Missing, Region, Both, Together!AtRest
<1>3. b \in 1..head /\ a \in 1..head /\ low <= a
  BY <1>1, RowIsCount DEF LowFits
<1>4. o \in low..b
  BY <1>1, <1>3
<1>5. cache \union Missing = cache
  BY <1>2
<1>6. ~full /\ Cardinality(Above(cache, o)) >= CacheLimit
  BY <1>1, <1>2, <1>4, <1>5 DEF CoveredBy, KeptIn
<1>7. Above(cache, o) \subseteq cache \ {a} /\ cache \ {a} \in SUBSET (1..head)
  BY <1>1, <1>3 DEF Above
<1>8. IsFiniteSet(cache) /\ Cardinality(cache) \in Nat
  BY <1>1, RowsAreFinite
<1>9. Cardinality(cache \ {a}) = Cardinality(cache) - 1
  BY <1>8, FS_RemoveElement
<1>10. /\ Cardinality(Above(cache, o)) <= Cardinality(cache \ {a})
       /\ Cardinality(Above(cache, o)) \in Nat
  BY <1>1, <1>7, FewerRows
<1> QED
  BY <1>1, <1>6, <1>8, <1>9, <1>10

-----------------------------------------------------------------------------
\* What every request and every end of a worker leaves of the types.
RowsFit ==
    /\ head \in 0..SharedHead /\ cache \subseteq 1..head /\ full \in BOOLEAN
    /\ job \in [Both -> JobType]
    /\ \A w \in Both : job[w].records \subseteq 1..head /\ (job[w].at = "idle" => job[w] = Together!Idle)

LEMMA IdleJob ==
    /\ Together!Idle \in JobType /\ Together!Idle.at = "idle" /\ Together!Idle.walk = "bootstrap"
    /\ Together!Idle.cursor = FromTop /\ Together!Idle.seen = 0 /\ Together!Idle.records = {}
<1>1. 1 \in Nat \ {0} /\ "newer" \in Walks
  BY DEF Walks
<1>2. Together!Idle.records = {}
  BY DEF Together!Idle
<1> QED
  BY <1>1, <1>2, WalkType

\* From a cache that is one run of rows, two workers at rest begin as from an empty one.
LEMMA RestIsCovered ==
    RowsFit /\ Together!AtRest /\ Together!Contiguous(cache) => \E low \in Nat \ {0} : TogetherFrom(low)
<1> SUFFICES ASSUME RowsFit, Together!AtRest, Together!Contiguous(cache)
             PROVE  \E low \in Nat \ {0} : TogetherFrom(low)
  OBVIOUS
<1>1. /\ head \in 0..SharedHead /\ head \in Nat /\ SharedHead \in Nat /\ cache \in SUBSET (1..head)
      /\ full \in BOOLEAN /\ job \in [Both -> JobType]
      /\ \A w \in Both : job[w] = Together!Idle
  BY LimitsArePositive DEF RowsFit, Together!AtRest, Both
<1>2. \A w \in Both : JobOk(job[w], cache, full, head)
  BY <1>1, IdleJob DEF JobOk
<1>3. \A low \in Nat : \A w \in Both : Rises(low, job[w])
  BY <1>1, IdleJob DEF Rises
<1>4. CASE cache = {}
  <2>1. LowFits(1, cache) /\ CoveredBy(1, cache, full, Missing) /\ 1 \in Nat \ {0}
    BY <1>4 DEF LowFits, CoveredBy
  <2> QED
    BY <1>1, <1>2, <1>3, <2>1 DEF TogetherFrom
<1>5. CASE cache # {}
  <2>1. PICK low \in cache : \A y \in cache : low <= y
    BY <1>1, <1>5, EndRows
  <2>2. low \in Nat \ {0} /\ LowFits(low, cache)
    BY <1>1, <2>1, RowIsCount DEF LowFits
  <2>3. CoveredBy(low, cache, full, Missing)
    <3> SUFFICES ASSUME NEW b \in cache, NEW o \in low..b, o \notin cache PROVE FALSE
      BY DEF CoveredBy
    <3>1. b \in 1..head /\ o \in 1..SharedHead /\ low < o /\ o < b
      BY <1>1, <2>1, <2>2, RowIsCount
    <3> QED
      BY <2>1, <3>1 DEF Together!Contiguous, Together!Operations
  <2> QED
    BY <1>1, <1>2, <1>3, <2>2, <2>3 DEF TogetherFrom
<1> QED
  BY <1>4, <1>5

-----------------------------------------------------------------------------
\* While the workers keep apart, the rows are one run: a walk from the head comes from their
\* oldest row, and one to newer rows from their newest.
ApartFits(j, c, f) ==
    /\ j.at \in {"fetch", "store"} /\ Downward(j) =>
         /\ \A y \in c : y \in j.cursor..j.seen
         /\ j.at = "store" /\ ~f => j.fetched < CacheLimit
    /\ j.at \in {"fetch", "store"} /\ j.walk = "newer" => \A y \in c : y <= j.cursor
    /\ j.at = "trim" /\ Downward(j) => \A y \in c : y <= j.seen /\ \E x \in j.records : x <= y
    /\ j.at = "trim" /\ j.walk = "newer" => \A y \in c : \E x \in j.records : y <= x

Run(c) == Together!Contiguous(c)

LEMMA RunGrows ==
    ASSUME NEW h \in 0..SharedHead, NEW c \in SUBSET (1..h), Run(c), NEW lo \in 1..h, NEW hi \in 1..h, lo <= hi,
           c = {} \/ hi + 1 \in c \/ lo - 1 \in c
    PROVE  Run(c \union (lo..hi))
<1>1. SharedHead \in Nat /\ h \in Nat /\ lo \in Nat /\ hi \in Nat
  BY LimitsArePositive
<1> SUFFICES ASSUME NEW o \in 1..SharedHead, o \notin c, ~(lo <= o /\ o <= hi),
                    NEW a \in c \union (lo..hi), NEW b \in c \union (lo..hi), a < o, o < b
             PROVE  FALSE
  BY <1>1 DEF Run, Together!Contiguous, Together!Operations
<1>2. a \in Nat /\ b \in Nat /\ o \in Nat
  BY <1>1, RowIsCount
<1>3. \A x, y \in c : ~(x < o /\ o < y)
  BY DEF Run, Together!Contiguous, Together!Operations
<1>4. CASE a \in c /\ b \in c
  BY <1>3, <1>4
<1>5. CASE a \in lo..hi /\ b \in lo..hi
  BY <1>1, <1>2, <1>5
<1>6. CASE a \in lo..hi /\ b \in c
  <2>1. hi < o
    BY <1>1, <1>2, <1>6
  <2>2. CASE hi + 1 \in c
    <3>1. hi + 1 # o
      BY <2>2
    <3>2. hi + 1 < o
      BY <1>1, <1>2, <2>1, <3>1
    <3> QED
      BY <1>3, <1>6, <2>2, <3>2
  <2>3. CASE lo - 1 \in c
    <3>1. lo - 1 < o
      BY <1>1, <1>2, <2>1
    <3> QED
      BY <1>3, <1>6, <2>3, <3>1
  <2> QED
    BY <1>6, <2>2, <2>3
<1>7. CASE a \in c /\ b \in lo..hi
  <2>1. o < lo
    BY <1>1, <1>2, <1>7
  <2>2. CASE hi + 1 \in c
    <3>1. o < hi + 1
      BY <1>1, <1>2, <2>1
    <3> QED
      BY <1>3, <1>7, <2>2, <3>1
  <2>3. CASE lo - 1 \in c
    <3>1. lo - 1 # o
      BY <2>3
    <3>2. o < lo - 1
      BY <1>1, <1>2, <2>1, <3>1
    <3> QED
      BY <1>3, <1>7, <2>3, <3>2
  <2> QED
    BY <1>7, <2>2, <2>3
<1> QED
  BY <1>4, <1>5, <1>6, <1>7

LEMMA RunIsTrimmed ==
    ASSUME NEW h \in 0..SharedHead, NEW c \in SUBSET (1..h), Run(c)
    PROVE  Run(Recent(c))
<1>1. SharedHead \in Nat /\ h \in Nat /\ CacheLimit \in Nat
  BY LimitsArePositive
<1> SUFFICES ASSUME NEW o \in 1..SharedHead, o \notin Recent(c), NEW a \in Recent(c), NEW b \in Recent(c),
                    a < o, o < b
             PROVE  FALSE
  BY DEF Run, Together!Contiguous, Together!Operations
<1>2. a \in c /\ b \in c /\ a \in Nat /\ o \in Nat /\ Cardinality(Above(c, a)) < CacheLimit
  BY RowIsCount, <1>1 DEF Recent
<1>3. o \in c
  BY <1>2 DEF Run, Together!Contiguous, Together!Operations
<1>4. ~(Cardinality(Above(c, o)) < CacheLimit)
  BY <1>3 DEF Recent
<1>5. Above(c, o) \subseteq Above(c, a) /\ Above(c, a) \in SUBSET (1..h)
  <2>1. ASSUME NEW x \in c, x > o PROVE x > a
    <3>1. x \in Nat
      BY <1>1, RowIsCount
    <3> QED
      BY <1>2, <2>1, <3>1
  <2>2. Above(c, o) \subseteq Above(c, a)
    BY <2>1 DEF Above
  <2> QED
    BY <2>2 DEF Above
<1>6. /\ Cardinality(Above(c, o)) <= Cardinality(Above(c, a))
      /\ Cardinality(Above(c, o)) \in Nat /\ Cardinality(Above(c, a)) \in Nat
  BY <1>1, <1>5, FewerRows
<1> QED
  BY <1>1, <1>2, <1>4, <1>6

\* One worker goes on while the other one is at rest.
ApartTo(w) ==
    /\ \A v \in Both : v # w => job'[v] = job[v]
    /\ Run(cache') /\ ApartFits(job'[w], cache', full')

LEMMA ApartBegins ==
    ASSUME NEW low \in Nat \ {0}, TogetherFrom(low), NEW w \in Both, Run(cache), ApartFits(job[w], cache, full),
           Together!SyncRecent(w) \/ Together!LoadOlder(w) \/ Together!Turn(w)
    PROVE  ApartTo(w)
<1> DEFINE j == job[w]
           new == job'[w]
<1>1. /\ job \in [Both -> JobType] /\ j \in JobType /\ head \in Nat /\ cache \in SUBSET (1..head)
      /\ FromTop \in Nat \ {0} /\ Together!FromHead = FromTop
  BY LimitsArePositive DEF TogetherFrom, FromTop, Together!FromHead
<1>2. cache' = cache /\ full' = full
  BY DEF Together!SyncRecent, Together!LoadOlder, Together!Turn
<1>3. cache # {} => /\ Together!Min(cache) \in Nat \ {0}
                    /\ Together!Max(cache) \in Nat \ {0} /\ \A y \in cache : y <= Together!Max(cache)
  <2>1. \A x \in cache : x \in Nat \ {0}
    BY <1>1, RowIsCount
  <2> QED
    BY <1>1, <2>1, EndRows
<1>4. job' = [job EXCEPT ![w] = job'[w]]
  BY <1>1 DEF Together!SyncRecent, Together!LoadOlder, Together!Turn
<1>5. \/ new.at = "last"
      \/ new.at = "fetch" /\ new.walk \in {"bootstrap", "refill"} /\ cache = {}
      \/ new.at = "fetch" /\ new.walk = "newer" /\ \A y \in cache : y <= new.cursor
      \/ new.at = "fetch" /\ new.walk \in {"older", "backfill"}
  <2>1. CASE Together!SyncRecent(w)
    <3>1. new = IF cache = {} THEN Together!Walk("bootstrap", FromTop) ELSE Together!Walk("newer", Together!Max(cache))
      BY <1>1, <2>1 DEF Together!SyncRecent
    <3>2. CASE cache = {}
      BY <1>1, <3>1, <3>2, WalkType DEF Walks
    <3>3. CASE cache # {}
      BY <1>3, <3>1, <3>3, WalkType DEF Walks
    <3> QED
      BY <3>2, <3>3
  <2>2. CASE Together!LoadOlder(w)
    <3>1. new = IF cache = {} THEN Together!Walk("refill", FromTop) ELSE Together!Walk("older", Together!Min(cache))
      BY <1>1, <2>2 DEF Together!LoadOlder
    <3>2. CASE cache = {}
      BY <1>1, <3>1, <3>2, WalkType DEF Walks
    <3>3. CASE cache # {}
      BY <1>3, <3>1, <3>3, WalkType DEF Walks
    <3> QED
      BY <3>2, <3>3
  <2>3. CASE Together!Turn(w)
    <3> DEFINE walk == IF cache = {} THEN Together!Walk("bootstrap", FromTop)
                       ELSE Together!Walk("backfill", Together!Min(cache))
    <3>1. new = IF j.walk = "newer" /\ full THEN [walk EXCEPT !.seen = j.seen, !.steady = j.steady]
                ELSE [j EXCEPT !.at = "last"]
      BY <1>1, <2>3 DEF Together!Turn
    <3>2. /\ walk \in JobType /\ walk.at = "fetch"
          /\ walk.walk = IF cache = {} THEN "bootstrap" ELSE "backfill"
      <4>1. CASE cache = {}
        BY <1>1, <4>1, WalkType DEF Walks
      <4>2. CASE cache # {}
        BY <1>3, <4>2, WalkType DEF Walks
      <4> QED
        BY <4>1, <4>2
    <3> HIDE DEF walk
    <3>3. CASE j.walk = "newer" /\ full
      <4>1. new.at = walk.at /\ new.walk = walk.walk
        BY <3>1, <3>2, <3>3 DEF JobType
      <4> QED
        BY <3>2, <4>1
    <3>4. CASE ~(j.walk = "newer" /\ full)
      <4>1. new.at = "last"
        BY <1>1, <3>1, <3>4 DEF JobType
      <4> QED
        BY <4>1
    <3> QED
      BY <3>3, <3>4
  <2> QED
    BY <2>1, <2>2, <2>3
<1>6. ApartFits(new, cache, full)
  BY <1>5 DEF ApartFits, Downward
<1>7. \A v \in Both : v # w => job'[v] = job[v]
  BY <1>1, <1>4
<1> QED
  BY <1>2, <1>6, <1>7 DEF ApartTo

LEMMA ApartFetch ==
    ASSUME NEW low \in Nat \ {0}, TogetherFrom(low), NEW w \in Both, Run(cache), ApartFits(job[w], cache, full),
           Together!Fetch(w)
    PROVE  ApartTo(w)
<1> DEFINE j == job[w]
           new == job'[w]
           r == Together!PageOf(j.walk, j.cursor)
           top == IF j.walk = "newer" \/ j.cursor = FromTop THEN head ELSE j.seen
           enough == Downward(j) /\ ~full /\ j.fetched >= CacheLimit
           next == IF enough THEN [j EXCEPT !.at = "turn"]
                   ELSE IF r = {} THEN [j EXCEPT !.at = "turn", !.seen = top]
                   ELSE [j EXCEPT !.at = "store", !.records = r, !.seen = top]
<1>1. /\ job \in [Both -> JobType] /\ j \in JobType /\ JobOk(j, cache, full, head)
      /\ head \in 0..SharedHead /\ SharedHead \in Nat /\ CacheLimit \in Nat /\ cache \in SUBSET (1..head)
  BY LimitsArePositive DEF TogetherFrom
<1>2. j.at = "fetch" /\ job' = [job EXCEPT ![w] = next] /\ cache' = cache /\ full' = full
  BY DEF Together!Fetch, Together!FromHead, FromTop, Downward
<1>3. new = next
  BY <1>1, <1>2
<1>4. /\ j.walk \in Walks /\ j.cursor \in Nat \ {0} /\ j.fetched \in Nat /\ j.seen \in Nat /\ j.seen <= head
  BY <1>1 DEF JobType, JobOk
<1>5. /\ next.walk = j.walk /\ next.cursor = j.cursor /\ next.fetched = j.fetched
      /\ next.at = IF enough \/ r = {} THEN "turn" ELSE "store"
      /\ next.at = "store" => next.seen = top
  BY <1>1 DEF JobType
<1> HIDE DEF next, r
<1>6. Downward(j) => \A y \in cache : y \in j.cursor..top
  <2>1. Downward(j) => \A y \in cache : y \in j.cursor..j.seen
    BY <1>2 DEF ApartFits
  <2>2. j.cursor # FromTop \/ j.cursor..j.seen = {}
    BY <1>1, <1>4 DEF FromTop
  <2> QED
    BY <2>1, <2>2 DEF Downward
<1>7. j.walk = "newer" => \A y \in cache : y <= j.cursor
  BY <1>2 DEF ApartFits
<1>8. ApartFits(next, cache, full)
  <2> HIDE DEF top
  <2>1. ASSUME Downward(j), next.at = "store", ~full PROVE j.fetched < CacheLimit
    BY <1>1, <1>4, <1>5, <2>1
  <2>2. Downward(next) <=> Downward(j)
    BY <1>5 DEF Downward
  <2> HIDE DEF enough
  <2> QED
    BY <1>5, <1>6, <1>7, <2>1, <2>2 DEF ApartFits
<1>9. \A v \in Both : v # w => job'[v] = job[v]
  BY <1>1, <1>2
<1> QED
  BY <1>2, <1>3, <1>8, <1>9 DEF ApartTo

LEMMA ApartStore ==
    ASSUME NEW low \in Nat \ {0}, TogetherFrom(low), NEW w \in Both, Run(cache), ApartFits(job[w], cache, full),
           Together!Store(w)
    PROVE  ApartTo(w)
<1> DEFINE j == job[w]
           r == j.records
           new == [j EXCEPT !.at = IF j.walk = "older" THEN "last" ELSE "trim"]
<1>1. /\ job \in [Both -> JobType] /\ j \in JobType /\ JobOk(j, cache, full, head) /\ full \in BOOLEAN
      /\ head \in 0..SharedHead /\ head \in Nat /\ SharedHead \in Nat /\ CacheLimit \in Nat \ {0}
      /\ cache \in SUBSET (1..head)
  BY LimitsArePositive DEF TogetherFrom
<1>2. j.at = "store" /\ job' = [job EXCEPT ![w] = new] /\ cache' = cache \union r /\ full' = full
  BY <1>1 DEF Together!Store
<1>3. job'[w] = new
  BY <1>1, <1>2
<1>4. /\ j.walk \in Walks /\ j.cursor \in Nat \ {0} /\ j.fetched \in Nat /\ j.seen \in Nat /\ j.seen <= head
      /\ j.cursor <= head \/ j.cursor = FromTop
      /\ ~full => j.walk \in {"bootstrap", "newer"}
      /\ Standing(j, cache, full)
  BY <1>1, <1>2 DEF JobType, JobOk
<1>5. PICK lo \in 1..head, hi \in 1..head : lo <= hi /\ r = lo..hi /\ PageIsNext(j, lo, hi)
  BY <1>1, <1>2 DEF JobOk
<1>6. /\ new.at = IF j.walk = "older" THEN "last" ELSE "trim"
      /\ new.walk = j.walk /\ new.seen = j.seen /\ new.records = r
  BY <1>1 DEF JobType
<1>7. /\ \A y \in cache : y \in Nat \ {0} /\ y \in 1..head
      /\ lo \in Nat \ {0} /\ hi \in Nat \ {0}
  BY <1>1, RowIsCount
<1> HIDE DEF new, r, j
<1>8. ASSUME Downward(j)
      PROVE  (cache = {} \/ hi + 1 \in cache) /\ hi <= j.seen /\ \A y \in cache : lo <= y /\ y <= j.seen
  <2>1. \A y \in cache : y \in j.cursor..j.seen
    BY <1>2, <1>8 DEF ApartFits, j
  <2>2. ~full => j.fetched < CacheLimit
    BY <1>2, <1>8 DEF ApartFits, j
  <2>3. CASE j.cursor = FromTop
    <3>1. hi <= j.seen
      BY <1>5, <1>7, <1>8, <2>3 DEF PageIsNext, Downward
    <3>2. j.cursor..j.seen = {}
      BY <1>1, <1>4, <2>3 DEF FromTop
    <3> QED
      BY <2>1, <3>1, <3>2
  <2>4. CASE j.cursor # FromTop
    <3>1. j.cursor + j.fetched = j.seen + 1 /\ hi = j.cursor - 1
      BY <1>4, <1>5, <1>8, <2>4 DEF Standing, PageIsNext, Downward
    <3>2. hi + 1 = j.cursor /\ lo <= j.cursor /\ hi <= j.seen
      BY <1>4, <1>5, <1>7, <3>1
    <3>3. \A y \in cache : j.cursor <= y /\ y <= j.seen
      BY <1>4, <1>7, <2>1
    <3>4. \A y \in cache : lo <= y /\ y <= j.seen
      BY <1>4, <1>7, <3>2, <3>3
    <3>5. CASE j.fetched = 0
      <4>1. j.cursor..j.seen = {}
        BY <1>4, <3>1, <3>5
      <4> QED
        BY <2>1, <3>2, <4>1
    <3>6. CASE j.fetched # 0
      <4>1. j.cursor \in j.cursor..j.seen
        BY <1>4, <3>1, <3>6
      <4>2. KeptIn(cache, full, j.cursor)
        BY <1>4, <1>8, <4>1 DEF Standing
      <4>3. j.cursor \in cache
        <5> SUFFICES ASSUME j.cursor \notin cache PROVE FALSE
          OBVIOUS
        <5>1. ~full /\ Cardinality(Above(cache, j.cursor)) >= CacheLimit
          BY <4>2 DEF KeptIn
        <5>2. Above(cache, j.cursor) \subseteq j.cursor + 1..j.seen
          BY <1>4, <1>7, <3>3 DEF Above
        <5>3. Cardinality(j.cursor + 1..j.seen) = j.fetched - 1 /\ IsFiniteSet(j.cursor + 1..j.seen)
          <6>1. j.cursor + 1 <= j.seen + 1 /\ j.seen - (j.cursor + 1) + 1 = j.fetched - 1
            BY <1>4, <3>1, <3>6
          <6>2. j.cursor + 1 \in Int /\ j.seen \in Int
            BY <1>4
          <6>3. Cardinality(j.cursor + 1..j.seen) = IF j.cursor + 1 > j.seen THEN 0 ELSE j.seen - (j.cursor + 1) + 1
            BY <6>2, FS_Interval
          <6>4. IsFiniteSet(j.cursor + 1..j.seen)
            BY <6>2, FS_Interval
          <6> QED
            BY <1>4, <6>1, <6>3, <6>4
        <5>4. Cardinality(Above(cache, j.cursor)) <= j.fetched - 1 /\ Cardinality(Above(cache, j.cursor)) \in Nat
          BY <5>2, <5>3, FS_Subset, FS_CardinalityType
        <5> QED
          BY <1>1, <1>4, <2>2, <5>1, <5>4
      <4> QED
        BY <3>2, <3>4, <4>3
    <3> QED
      BY <3>5, <3>6
  <2> QED
    BY <2>3, <2>4
<1>9. ASSUME j.walk = "newer" PROVE lo - 1 \in cache /\ \A y \in cache : y <= hi
  <2>1. \A y \in cache : y <= j.cursor
    BY <1>2, <1>9 DEF ApartFits, j
  <2>2. lo = j.cursor + 1 /\ KeptIn(cache, full, j.cursor)
    BY <1>4, <1>5, <1>9 DEF PageIsNext, Standing, Downward
  <2>3. Above(cache, j.cursor) = {}
    BY <1>4, <1>7, <2>1 DEF Above
  <2>4. j.cursor \in cache
    BY <1>1, <2>2, <2>3, FS_EmptySet DEF KeptIn
  <2> QED
    BY <1>4, <1>5, <1>7, <2>1, <2>2, <2>4
<1>10. ASSUME j.walk \in {"older", "backfill"} PROVE hi + 1 \in cache
  <2>1. full /\ KeptIn(cache, full, j.cursor) /\ j.cursor # FromTop
    BY <1>1, <1>4, <1>10 DEF Standing, Downward
  <2>2. j.cursor \in cache /\ hi = j.cursor - 1
    BY <1>5, <1>10, <2>1 DEF KeptIn, PageIsNext
  <2> QED
    BY <1>4, <1>7, <2>2
<1>11. j.walk \in {"older", "backfill"} \/ j.walk = "newer" \/ Downward(j)
  BY <1>4 DEF Walks, Downward
<1>12. cache = {} \/ hi + 1 \in cache \/ lo - 1 \in cache
  BY <1>8, <1>9, <1>10, <1>11
<1>13. Run(cache')
  BY <1>1, <1>2, <1>5, <1>12, RunGrows
<1>14. ASSUME Downward(new) PROVE \A y \in cache' : y <= new.seen /\ \E x \in new.records : x <= y
  <2>1. Downward(j)
    BY <1>6, <1>14 DEF Downward
  <2>2. lo \in r /\ \A y \in r : lo <= y /\ y <= hi
    BY <1>5, <1>7
  <2>3. \A y \in r : y \in Nat /\ y <= j.seen
    BY <1>4, <1>5, <1>7, <1>8, <2>1
  <2> QED
    BY <1>2, <1>6, <1>8, <2>1, <2>2, <2>3
<1>15. ASSUME new.walk = "newer" PROVE \A y \in cache' : \E x \in new.records : y <= x
  <2>1. hi \in r /\ \A y \in r : y <= hi
    BY <1>5, <1>7
  <2> QED
    BY <1>2, <1>6, <1>9, <1>15, <2>1
<1>16. ApartFits(new, cache', full)
  <2>1. new.at \in {"last", "trim"}
    BY <1>6
  <2> QED
    BY <1>14, <1>15, <2>1 DEF ApartFits
<1>17. \A v \in Both : v # w => job'[v] = job[v]
  BY <1>1, <1>2
<1> QED
  BY <1>2, <1>3, <1>13, <1>16, <1>17 DEF ApartTo

LEMMA ApartTrim ==
    ASSUME NEW low \in Nat \ {0}, TogetherFrom(low), NEW w \in Both, Run(cache), ApartFits(job[w], cache, full),
           Together!Trim(w)
    PROVE  ApartTo(w)
<1> DEFINE j == job[w]
           r == j.records
           on == Together!GoesOn(j)
           last == Together!LastToken(j.walk, r)
           more == Together!Min({j.fetched + Together!Cardinality(r), SharedHead})
           new == [j EXCEPT !.at = IF on THEN "fetch" ELSE "turn",
                            !.cursor = IF on THEN last ELSE j.cursor,
                            !.fetched = more,
                            !.records = {}]
<1>1. /\ job \in [Both -> JobType] /\ j \in JobType /\ JobOk(j, cache, full, head)
      /\ head \in 0..SharedHead /\ head \in Nat /\ SharedHead \in Nat
      /\ cache \in SUBSET (1..head)
  BY LimitsArePositive DEF TogetherFrom
<1>2. /\ j.at = "trim" /\ job' = [job EXCEPT ![w] = new] /\ full' = full
      /\ cache' = cache \/ cache' = Recent(cache)
  BY NewestRows DEF Together!Trim, Together!Trimmed
<1>3. job'[w] = new
  BY <1>1, <1>2
<1>4. PICK lo \in 1..head, hi \in 1..head : lo <= hi /\ r = lo..hi /\ PageIsNext(j, lo, hi)
  BY <1>1, <1>2 DEF JobOk
<1>5. last = IF j.walk = "newer" THEN hi ELSE lo
  BY <1>1, <1>4, EndsOfRun DEF Together!LastToken
<1>6. /\ new.at = (IF on THEN "fetch" ELSE "turn") /\ new.walk = j.walk
      /\ (on => new.cursor = last) /\ new.seen = j.seen
  BY <1>1 DEF JobType
<1>7. j.seen \in Nat /\ lo \in Nat /\ hi \in Nat /\ \A y \in cache : y \in Nat
  BY <1>1, <1>4, RowIsCount DEF JobType
<1> HIDE DEF new, last, more, on
<1>8. Run(cache') /\ cache' \subseteq cache
  <2>1. Recent(cache) \subseteq cache
    BY DEF Recent
  <2> QED
    BY <1>1, <1>2, <2>1, RunIsTrimmed
<1>9. ASSUME Downward(j), on PROVE \A y \in cache : y \in new.cursor..new.seen
  <2>1. \A y \in cache : y <= j.seen /\ \E x \in lo..hi : x <= y
    BY <1>2, <1>4, <1>9 DEF ApartFits
  <2>2. new.cursor = lo
    BY <1>5, <1>6, <1>9 DEF Downward
  <2>3. \A y \in cache : lo <= y
    BY <1>7, <2>1
  <2> QED
    BY <1>6, <1>7, <2>1, <2>2, <2>3
<1>10. ASSUME j.walk = "newer", on PROVE \A y \in cache : y <= new.cursor
  <2>1. \A y \in cache : \E x \in lo..hi : y <= x
    BY <1>2, <1>4, <1>10 DEF ApartFits
  <2>2. new.cursor = hi
    BY <1>5, <1>6, <1>10
  <2> QED
    BY <1>7, <2>1, <2>2
<1>11. ApartFits(new, cache', full)
  BY <1>6, <1>8, <1>9, <1>10 DEF ApartFits, Downward
<1>12. \A v \in Both : v # w => job'[v] = job[v]
  BY <1>1, <1>2
<1> QED
  BY <1>2, <1>3, <1>8, <1>11, <1>12 DEF ApartTo

LEMMA ApartFinish ==
    ASSUME NEW low \in Nat \ {0}, TogetherFrom(low), NEW w \in Both, Run(cache), Together!Finish(w)
    PROVE  ApartTo(w)
<1>1. /\ job \in [Both -> JobType] /\ head \in 0..SharedHead /\ cache \in SUBSET (1..head)
  BY DEF TogetherFrom
<1>2. /\ job' = [job EXCEPT ![w] = Together!Idle] /\ full' = full
      /\ cache' = cache \/ cache' = Recent(cache)
  BY NewestRows DEF Together!Finish, Together!Trimmed
<1>3. job'[w] = Together!Idle /\ \A v \in Both : v # w => job'[v] = job[v]
  BY <1>1, <1>2
<1>4. Run(cache')
  BY <1>1, <1>2, RunIsTrimmed
<1>5. ApartFits(Together!Idle, cache', full)
  BY IdleJob DEF ApartFits
<1> QED
  BY <1>2, <1>3, <1>4, <1>5 DEF ApartTo

LEMMA ApartStep ==
    ASSUME NEW low \in Nat \ {0}, TogetherFrom(low), NEW w \in Both, Run(cache), ApartFits(job[w], cache, full),
           Together!SyncRecent(w) \/ Together!LoadOlder(w) \/ Together!Continue(w)
    PROVE  ApartTo(w)
BY ApartBegins, ApartFetch, ApartStore, ApartTrim, ApartFinish DEF Together!Continue

-----------------------------------------------------------------------------
\* The types, of every step.
LEMMA RowsOfPage ==
    ASSUME head \in Nat, NEW walk, NEW c
    PROVE  Together!PageOf(walk, c) \subseteq 1..head
BY DEF Together!PageOf, Together!Newest, Together!Oldest

LEMMA RowsStay ==
    ASSUME RowsFit, NEW w \in Both,
           Together!SyncRecent(w) \/ Together!LoadOlder(w) \/ Together!Continue(w) \/ Together!Interrupt(w)
    PROVE  RowsFit'
<1> DEFINE j == job[w]
           new == job'[w]
<1>1. /\ head \in 0..SharedHead /\ head \in Nat /\ SharedHead \in Nat /\ cache \in SUBSET (1..head)
      /\ job \in [Both -> JobType] /\ j \in JobType /\ full \in BOOLEAN
      /\ j.records \subseteq 1..head
      /\ FromTop \in Nat \ {0} /\ Together!FromHead = FromTop
  BY LimitsArePositive DEF RowsFit, FromTop, Together!FromHead
<1>2. /\ j.at \in Places /\ j.walk \in Walks /\ j.cursor \in Nat \ {0} /\ j.fetched \in Nat
      /\ j.records \in SUBSET Nat /\ j.seen \in Nat /\ j.steady \in BOOLEAN
  BY <1>1 DEF JobType
<1> SUFFICES ASSUME TRUE
             PROVE  /\ head' = head /\ full' = full /\ cache' \subseteq 1..head
                    /\ job' = [job EXCEPT ![w] = new] /\ new \in JobType
                    /\ new.records \subseteq 1..head /\ (new.at = "idle" => new = Together!Idle)
  <2>1. job' \in [Both -> JobType]
    BY <1>1
  <2>2. \A v \in Both : job'[v].records \subseteq 1..head /\ (job'[v].at = "idle" => job'[v] = Together!Idle)
    <3>1. \A v \in Both : v # w => job'[v] = job[v]
      BY <1>1
    <3> QED
      BY <3>1 DEF RowsFit
  <2> QED
    BY <1>1, <2>1, <2>2 DEF RowsFit
<1>3. \A walk \in Walks, c \in Nat \ {0} :
        LET k == Together!Walk(walk, c) IN k \in JobType /\ k.at = "fetch" /\ k.records = {}
  <2> TAKE walk \in Walks, c \in Nat \ {0}
  <2>1. Together!Walk(walk, c).records = {}
    BY IdleJob DEF Together!Walk, JobType
  <2> QED
    BY <2>1, WalkType
<1>4. cache # {} => Together!Min(cache) \in Nat \ {0} /\ Together!Max(cache) \in Nat \ {0}
  <2>1. \A x \in cache : x \in Nat \ {0}
    BY <1>1, RowIsCount
  <2> QED
    BY <1>1, <2>1, EndRows
<1>5. CASE Together!SyncRecent(w)
  <2>1. job' = [job EXCEPT ![w] = IF cache = {} THEN Together!Walk("bootstrap", FromTop)
                                  ELSE Together!Walk("newer", Together!Max(cache))]
    BY <1>1, <1>5 DEF Together!SyncRecent
  <2>2. new = IF cache = {} THEN Together!Walk("bootstrap", FromTop) ELSE Together!Walk("newer", Together!Max(cache))
    BY <1>1, <2>1
  <2>3. new \in JobType /\ new.at = "fetch" /\ new.records = {}
    BY <1>1, <1>3, <1>4, <2>2 DEF Walks
  <2> QED
    BY <1>1, <1>5, <2>1, <2>2, <2>3 DEF Together!SyncRecent
<1>6. CASE Together!LoadOlder(w)
  <2>1. job' = [job EXCEPT ![w] = IF cache = {} THEN Together!Walk("refill", FromTop)
                                  ELSE Together!Walk("older", Together!Min(cache))]
    BY <1>1, <1>6 DEF Together!LoadOlder
  <2>2. new = IF cache = {} THEN Together!Walk("refill", FromTop) ELSE Together!Walk("older", Together!Min(cache))
    BY <1>1, <2>1
  <2>3. new \in JobType /\ new.at = "fetch" /\ new.records = {}
    BY <1>1, <1>3, <1>4, <2>2 DEF Walks
  <2> QED
    BY <1>1, <1>6, <2>1, <2>2, <2>3 DEF Together!LoadOlder
<1>7. CASE Together!Fetch(w)
  <2> DEFINE r == Together!PageOf(j.walk, j.cursor)
             top == IF j.walk = "newer" \/ j.cursor = FromTop THEN head ELSE j.seen
             enough == Downward(j) /\ ~full /\ j.fetched >= CacheLimit
             next == IF enough THEN [j EXCEPT !.at = "turn"]
                     ELSE IF r = {} THEN [j EXCEPT !.at = "turn", !.seen = top]
                     ELSE [j EXCEPT !.at = "store", !.records = r, !.seen = top]
  <2>1. job' = [job EXCEPT ![w] = next] /\ head' = head /\ full' = full /\ cache' = cache
    BY <1>7 DEF Together!Fetch, Together!FromHead, FromTop, Downward
  <2>2. r \subseteq 1..head /\ r \in SUBSET Nat /\ top \in Nat
    BY <1>1, <1>2, RowsOfPage
  <2> HIDE DEF r, top, enough
  <2>3. next \in JobType /\ next.at \in {"turn", "store"} /\ next.records \subseteq 1..head
    BY <1>1, <1>2, <2>2 DEF JobType, Places
  <2> HIDE DEF next
  <2>4. new = next
    BY <1>1, <2>1
  <2> QED
    BY <1>1, <2>1, <2>3, <2>4
<1>8. CASE Together!Store(w)
  <2> DEFINE next == [j EXCEPT !.at = IF j.walk = "older" THEN "last" ELSE "trim"]
  <2>1. job' = [job EXCEPT ![w] = next] /\ head' = head /\ full' = full /\ cache' = cache \union j.records
    BY <1>1, <1>8 DEF Together!Store
  <2>2. next \in JobType /\ next.at \in {"last", "trim"} /\ next.records = j.records
    BY <1>1, <1>2 DEF JobType, Places
  <2> HIDE DEF next
  <2>3. new = next
    BY <1>1, <2>1
  <2> QED
    BY <1>1, <2>1, <2>2, <2>3
<1>9. CASE Together!Trim(w)
  <2> DEFINE r == j.records
             on == Together!GoesOn(j)
             last == Together!LastToken(j.walk, r)
             more == Together!Min({j.fetched + Together!Cardinality(r), SharedHead})
             next == [j EXCEPT !.at = IF on THEN "fetch" ELSE "turn",
                               !.cursor = IF on THEN last ELSE j.cursor,
                               !.fetched = more,
                               !.records = {}]
  <2>1. /\ job' = [job EXCEPT ![w] = next] /\ head' = head /\ full' = full
        /\ cache' = cache \/ cache' = Recent(cache)
    BY <1>9, NewestRows DEF Together!Trim, Together!Trimmed
  <2>2. Cardinality(r) \in Nat /\ IsFiniteSet(r) /\ Together!Cardinality(r) = Cardinality(r)
    BY <1>1, RowsAreFinite, HistoryCounts
  <2>3. more \in Nat
    BY <1>1, <1>2, <2>2, LesserIsCount
  <2>4. on => last \in Nat \ {0}
    <3>1. on => r # {}
      BY <2>2, FS_EmptySet, LimitsArePositive DEF Together!GoesOn
    <3>2. r # {} => Together!Min(r) \in r /\ Together!Max(r) \in r
      BY <1>1, EndRows
    <3>3. \A x \in r : x \in Nat \ {0}
      BY <1>1, RowIsCount
    <3> QED
      BY <3>1, <3>2, <3>3 DEF Together!LastToken
  <2> HIDE DEF on, last, more, r
  <2>5. next \in JobType /\ next.at \in {"fetch", "turn"} /\ next.records = {}
    BY <1>1, <1>2, <2>3, <2>4 DEF JobType, Places
  <2> HIDE DEF next
  <2>6. new = next
    BY <1>1, <2>1
  <2>7. cache' \subseteq 1..head
    BY <1>1, <2>1 DEF Recent
  <2> QED
    BY <1>1, <2>1, <2>5, <2>6, <2>7
<1>10. CASE Together!Turn(w)
  <2> DEFINE walk == IF cache = {} THEN Together!Walk("bootstrap", FromTop)
                     ELSE Together!Walk("backfill", Together!Min(cache))
             next == IF j.walk = "newer" /\ full THEN [walk EXCEPT !.seen = j.seen, !.steady = j.steady]
                     ELSE [j EXCEPT !.at = "last"]
  <2>1. job' = [job EXCEPT ![w] = next] /\ head' = head /\ full' = full /\ cache' = cache
    BY <1>1, <1>10 DEF Together!Turn
  <2>2. walk \in JobType /\ walk.at = "fetch" /\ walk.records = {}
    BY <1>1, <1>3, <1>4 DEF Walks
  <2> HIDE DEF walk
  <2>3. next \in JobType /\ next.at \in {"fetch", "last"} /\ next.records \subseteq 1..head
    BY <1>1, <1>2, <2>2 DEF JobType, Places
  <2> HIDE DEF next
  <2>4. new = next
    BY <1>1, <2>1
  <2> QED
    BY <1>1, <2>1, <2>3, <2>4
<1>11. CASE Together!Finish(w) \/ Together!Interrupt(w)
  <2>1. /\ job' = [job EXCEPT ![w] = Together!Idle] /\ head' = head /\ full' = full
        /\ cache' = cache \/ cache' = Recent(cache)
    BY <1>11, NewestRows DEF Together!Finish, Together!Interrupt, Together!Trimmed
  <2>2. new = Together!Idle
    BY <1>1, <2>1
  <2>3. cache' \subseteq 1..head
    BY <1>1, <2>1 DEF Recent
  <2> QED
    BY <1>1, <2>1, <2>2, <2>3, IdleJob
<1> QED
  BY <1>5, <1>6, <1>7, <1>8, <1>9, <1>10, <1>11 DEF Together!Continue

LEMMA RowsStayAlone == ASSUME RowsFit, Together!Happens PROVE RowsFit'
<1>1. /\ head \in 0..SharedHead /\ head \in Nat /\ SharedHead \in Nat /\ cache \subseteq 1..head
  BY LimitsArePositive DEF RowsFit
<1>2. head < SharedHead /\ head' = head + 1 /\ UNCHANGED <<cache, full, job>>
  BY DEF Together!Happens
<1>3. head' \in 0..SharedHead /\ 1..head \subseteq 1..head'
  BY <1>1, <1>2
<1> QED
  BY <1>1, <1>2, <1>3 DEF RowsFit

LEMMA RowsRest ==
    ASSUME RowsFit, Together!SetKeepFullHistory
    PROVE  RowsFit' /\ Together!AtRest /\ Together!AtRest' /\ cache' = cache
<1>1. Together!AtRest /\ head' = head /\ cache' = cache /\ full' = ~full
      /\ job' = [v \in Both |-> [job[v] EXCEPT !.steady = job[v].at = "idle"]]
  BY DEF Together!SetKeepFullHistory, Together!AtRest, Both
<1>2. \A v \in Both : job[v] = Together!Idle
  BY <1>1 DEF RowsFit, Together!AtRest, Both
<1>3. [Together!Idle EXCEPT !.steady = TRUE] = Together!Idle
  <2>1. Together!Idle \in JobType /\ Together!Idle.steady = TRUE
    BY IdleJob DEF Together!Idle
  <2> QED
    BY <2>1 DEF JobType
<1>4. \A v \in Both : job'[v] = Together!Idle
  BY <1>1, <1>2, <1>3, IdleJob
<1>5. job' = [v \in Both |-> job'[v]]
  BY <1>1
<1>6. RowsFit'
  BY <1>1, <1>4, <1>5, IdleJob DEF RowsFit
<1> QED
  BY <1>1, <1>4, <1>6, IdleJob DEF Together!AtRest, Both

-----------------------------------------------------------------------------
\* What "apart" says; of "torn" there is nothing to say but the types.
Apart ==
    /\ \A v, w \in Both : v # w => job[v].at = "idle" \/ job[w].at = "idle"
    /\ Run(cache)
    /\ \A w \in Both : ApartFits(job[w], cache, full)

TogetherInv ==
    /\ RowsFit /\ met \in {"apart", "met", "torn"}
    /\ met # "torn" => \E low \in Nat \ {0} : TogetherFrom(low)
    /\ met = "apart" => Apart

LEMMA RestIsApart == RowsFit /\ Together!AtRest /\ Together!Contiguous(cache) => Apart
BY IdleJob DEF Apart, Run, ApartFits, RowsFit, Together!AtRest, Both

LEMMA TogetherBegins == ASSUME RowsFit', Together!AtRest', Together!Contiguous(cache)', met' = "apart" PROVE TogetherInv'
<1>1. (\E low \in Nat \ {0} : TogetherFrom(low))'
  BY RestIsCovered, PTL
<1>2. Apart'
  BY RestIsApart, PTL
<1> QED
  BY <1>1, <1>2 DEF TogetherInv

LEMMA TogetherInit == ASSUME Together!Init, met = "apart" PROVE TogetherInv
<1>1. /\ head \in 0..SharedHead /\ cache = {} /\ full \in BOOLEAN /\ job = [w \in Both |-> Together!Idle]
  BY DEF Together!Init, Both
<1>2. RowsFit /\ Together!AtRest /\ Together!Contiguous(cache)
  BY <1>1, IdleJob DEF RowsFit, Together!AtRest, Both, Together!Contiguous
<1> QED
  BY <1>2, RestIsCovered, RestIsApart DEF TogetherInv

LEMMA TogetherStep == ASSUME TogetherInv, TogetherNext PROVE TogetherInv'
<1> DEFINE Moves(w) == Together!SyncRecent(w) \/ Together!LoadOlder(w) \/ Together!Continue(w)
<1>1. \/ \E w \in Both : Moves(w) /\ After(FALSE)
      \/ \E w \in Both : Together!Interrupt(w) /\ After(TRUE)
      \/ Together!SetKeepFullHistory /\ After(FALSE)
      \/ Together!Happens /\ After(FALSE)
  BY DEF TogetherNext, Both
<1>2. RowsFit'
  BY <1>1, RowsStay, RowsStayAlone, RowsRest DEF TogetherInv
<1>3. CASE Together!AtRest' /\ Together!Contiguous(cache)'
  <2>1. met' = "apart"
    BY <1>1, <1>3 DEF After
  <2> QED
    BY <1>2, <1>3, <2>1, TogetherBegins
<1>4. CASE ~(Together!AtRest' /\ Together!Contiguous(cache)')
  <2>1. /\ met' \in {"apart", "met", "torn"}
        /\ met' # "torn" => met # "torn"
        /\ met' = "apart" => met = "apart" /\ ~(job'["w1"].at # "idle" /\ job'["w2"].at # "idle")
    BY <1>1, <1>4 DEF After, TogetherInv
  <2>2. CASE met' = "torn"
    BY <1>2, <2>1, <2>2 DEF TogetherInv
  <2>3. CASE met' # "torn"
    <3>1. PICK low \in Nat \ {0} : TogetherFrom(low)
      BY <2>1, <2>3 DEF TogetherInv
    <3>2. ASSUME met' = "apart" PROVE Apart /\ \A v, w \in Both : v # w => job'[v].at = "idle" \/ job'[w].at = "idle"
      BY <2>1, <3>2 DEF TogetherInv, Both
    <3>3. ASSUME NEW w \in Both, Moves(w) PROVE TogetherInv'
      <4>1. (\E low2 \in Nat \ {0} : TogetherFrom(low2))'
        BY <3>1, <3>3, WorkerStep
      <4>2. ASSUME met' = "apart" PROVE Apart'
        <5>1. ApartTo(w) /\ \A v \in Both : v # w => job[v].at = "idle" \/ job[w].at = "idle"
          BY <3>1, <3>2, <3>3, <4>2, ApartStep DEF Apart
        <5>2. ASSUME NEW v \in Both PROVE ApartFits(job'[v], cache', full')
          <6>1. CASE v = w
            BY <5>1, <6>1 DEF ApartTo
          <6>2. CASE v # w /\ job'[v].at = "idle"
            BY <6>2 DEF ApartFits
          <6>3. CASE v # w /\ job'[v].at # "idle"
            <7>1. job'[w].at = "idle" /\ job'[v] = job[v] /\ job[w].at = "idle"
              BY <3>2, <4>2, <5>1, <6>3 DEF ApartTo
            <7>2. Together!SyncRecent(w) \/ Together!LoadOlder(w)
              BY <3>3, <7>1 DEF Together!Continue, Together!Fetch, Together!Store, Together!Trim,
                 Together!Turn, Together!Finish
            <7> QED
              BY <3>1, <7>1, <7>2, SyncKeeps
          <6> QED
            BY <6>1, <6>2, <6>3
        <5> QED
          BY <3>2, <4>2, <5>1, <5>2 DEF Apart, ApartTo
      <4> QED
        BY <1>2, <2>1, <4>1, <4>2 DEF TogetherInv
    <3>4. ASSUME NEW w \in Both, Together!Interrupt(w), After(TRUE) PROVE FALSE
      <4>1. met = "apart"
        BY <1>4, <2>1, <2>3, <3>4 DEF After, TogetherInv
      <4>2. Apart /\ job \in [Both -> JobType]
        BY <4>1 DEF TogetherInv, RowsFit
      <4>3. job' = [job EXCEPT ![w] = Together!Idle] /\ cache' = cache /\ job[w].at # "idle"
        BY <3>4 DEF Together!Interrupt
      <4>4. \A v \in Both : job'[v].at = "idle"
        BY <4>2, <4>3, IdleJob DEF Apart
      <4>5. Together!AtRest' /\ Together!Contiguous(cache)'
        BY <4>2, <4>3, <4>4 DEF Together!AtRest, Both, Apart, Run
      <4> QED
        BY <1>4, <4>5
    <3>5. ASSUME Together!SetKeepFullHistory PROVE FALSE
      <4>1. Together!AtRest /\ Together!AtRest' /\ cache' = cache
        BY <3>5, RowsRest DEF TogetherInv
      <4>2. Together!Contiguous(cache)
        BY <3>1, <4>1, HolesAreClosed
      <4>3. Together!Contiguous(cache)'
        BY <4>1, <4>2
      <4> QED
        BY <1>4, <4>1, <4>3
    <3>6. ASSUME Together!Happens PROVE TogetherInv'
      <4>1. TogetherFrom(low)'
        BY <3>1, <3>6, HappensKeeps
      <4>2. UNCHANGED <<cache, full, job>>
        BY <3>6 DEF Together!Happens
      <4>3. met' = "apart" => Apart'
        BY <3>2, <4>2 DEF Apart, Run
      <4> QED
        BY <1>2, <2>1, <4>1, <4>3 DEF TogetherInv
    <3> QED
      BY <1>1, <3>3, <3>4, <3>5, <3>6
  <2> QED
    BY <2>2, <2>3
<1> QED
  BY <1>3, <1>4

LEMMA TogetherStutters == ASSUME TogetherInv, UNCHANGED <<head, cache, full, job, met>> PROVE TogetherInv'
<1>1. RowsFit' /\ Missing' = Missing /\ Apart' = Apart
  BY DEF TogetherInv, RowsFit, Missing, Apart, Run
<1>2. \A low \in Nat \ {0} : TogetherFrom(low) => TogetherFrom(low)'
  BY <1>1 DEF TogetherFrom, Together!AtRest
<1> QED
  BY <1>1, <1>2 DEF TogetherInv

-----------------------------------------------------------------------------
(***************************************************************************)
(* One worker, whose requests fail and whose mode changes.  The cache is   *)
(* one run of rows, and where the worker stands, and the page it holds, is *)
(* at one of its ends.  Only a walk from the head of which the mode was    *)
(* changed may find the rows trimmed that it comes from; it then has       *)
(* fetched enough and goes no further.                                     *)
(***************************************************************************)
Top == MaxHead + 1
InPages(n) == \E q \in Nat : n = q * Page

NewerFits(j, lo, hi, f, h) ==
    /\ lo <= hi
    /\ j.at \in {"fetch", "store"} => j.cursor = hi
    /\ j.at = "store" => \E k \in hi + 1..h : j.records = hi + 1..k /\ (k = j.seen \/ k - hi = Page)
    /\ j.at = "trim" => \E k \in lo..hi : j.records = k..hi /\ (hi = j.seen \/ hi - k + 1 = Page)
    /\ j.at \in {"turn", "last"} => j.seen <= hi
    /\ j.at = "last" /\ j.steady => ~f

OlderFits(j, lo, hi) ==
    /\ lo <= hi
    /\ j.at \in {"fetch", "store"} => j.cursor = lo
    /\ j.at = "store" => \E k \in 1..lo - 1 : j.records = k..lo - 1 /\ (k = 1 \/ lo - k = Page)
    /\ j.at = "trim" =>
         /\ j.walk = "backfill"
         /\ \E k \in lo..hi : j.records = lo..k /\ (lo = 1 \/ k - lo + 1 = Page)
    /\ j.walk = "backfill" => j.seen <= hi /\ (j.at \in {"turn", "last"} => lo = 1)

AtHead(j, lo, hi) == j.cursor = Top /\ hi < lo /\ j.fetched = 0
AfterPages(j, lo, hi) ==
    j.cursor = lo /\ lo <= hi /\ hi + 1 = lo + j.fetched /\ j.seen <= hi /\ InPages(j.fetched)
\* In one mode no page goes beyond the window.
InWindow(j, n, f) == ~f /\ j.steady => j.fetched + n <= CacheLimit

HeadFits(j, lo, hi, f, h) ==
    /\ j.at = "fetch" => \/ AtHead(j, lo, hi) \/ AfterPages(j, lo, hi)
                         \/ ~f /\ ~j.steady /\ j.fetched >= CacheLimit
    /\ j.at = "store" =>
         \E k, m \in 1..h :
            /\ k <= m /\ j.records = k..m /\ (k = 1 \/ m - k + 1 = Page)
            /\ \/ AtHead(j, lo, hi) /\ m = j.seen
               \/ AfterPages(j, lo, hi) /\ m = lo - 1
            /\ InWindow(j, m - k + 1, f)
    /\ j.at = "trim" =>
         \E m \in lo..hi :
            /\ j.records = lo..m /\ (lo = 1 \/ m - lo + 1 = Page)
            /\ hi + 1 = lo + j.fetched + (m - lo + 1) /\ j.seen <= hi /\ InPages(j.fetched)
            /\ InWindow(j, m - lo + 1, f)
    /\ j.at \in {"turn", "last"} /\ f /\ j.steady => 1..j.seen \subseteq lo..hi

Fits(j, lo, hi, f, h) ==
    /\ j.at # "idle" /\ j.walk = "newer" => NewerFits(j, lo, hi, f, h)
    /\ j.at # "idle" /\ j.walk \in {"older", "backfill"} => OlderFits(j, lo, hi)
    /\ j.at # "idle" /\ Downward(j) => HeadFits(j, lo, hi, f, h)

IsRun(c, j, f, h) == \E lo \in 1..h + 1, hi \in 0..h : c = lo..hi /\ Fits(j, lo, hi, f, h)

AloneInv ==
    /\ head \in 0..MaxHead /\ full \in BOOLEAN /\ job \in [{"w1"} -> JobType]
    /\ IsRun(cache, job["w1"], full, head)

LEMMA PagesOfWindow ==
    /\ InPages(CacheLimit) /\ InPages(0)
    /\ \A n \in Nat : InPages(n) => InPages(n + Page)
    /\ \A n \in Nat : InPages(n) /\ n < CacheLimit => n + Page <= CacheLimit
<1>1. Page \in Nat \ {0} /\ CacheLimit \in Nat \ {0} /\ CacheLimit % Page = 0
  BY LimitsArePositive
<1>2. InPages(CacheLimit)
  <2>1. CacheLimit \div Page \in Nat /\ CacheLimit = (CacheLimit \div Page) * Page
    BY <1>1
  <2> QED
    BY <2>1 DEF InPages
<1>3. InPages(0)
  BY <1>1 DEF InPages
<1>4. ASSUME NEW n \in Nat, InPages(n) PROVE InPages(n + Page)
  <2>1. PICK q \in Nat : n = q * Page
    BY <1>4 DEF InPages
  <2>2. n + Page = (q + 1) * Page /\ q + 1 \in Nat
    BY <1>1, <2>1
  <2> QED
    BY <2>2 DEF InPages
<1>5. ASSUME NEW n \in Nat, InPages(n), n < CacheLimit PROVE n + Page <= CacheLimit
  <2>1. PICK q \in Nat : n = q * Page
    BY <1>5 DEF InPages
  <2>2. PICK p \in Nat : CacheLimit = p * Page
    BY <1>2 DEF InPages
  <2>3. q < p
    <3>1. ASSUME p <= q PROVE FALSE
      <4>1. p * Page <= q * Page
        BY ONLY <1>1, <3>1, q \in Nat, p \in Nat
      <4> QED
        BY <1>1, <1>5, <2>1, <2>2, <4>1
    <3> QED
      BY <3>1
  <2>4. (q + 1) * Page <= p * Page
    BY ONLY <1>1, <2>3, q \in Nat, p \in Nat
  <2>5. (q + 1) * Page = n + Page
    BY <1>1, <2>1
  <2> QED
    BY <2>2, <2>4, <2>5
<1> QED
  BY <1>2, <1>3, <1>4, <1>5

LEMMA AlonePage ==
    ASSUME head \in Nat, NEW walk, NEW c \in Nat \ {0}
    PROVE  LET r == Alone!PageOf(walk, c)
               t == IF c <= head THEN c - 1 ELSE head
           IN  IF walk = "newer"
               THEN IF head <= c THEN r = {}
                    ELSE \E hi \in c + 1..head : r = c + 1..hi /\ (hi = head \/ hi - c = Page)
               ELSE IF t = 0 THEN r = {}
               ELSE \E lo \in 1..t : r = lo..t /\ (lo = 1 \/ t - lo + 1 = Page) /\ t - lo + 1 <= Page
<1>1. CASE walk = "newer"
  <2>1. Alone!PageOf(walk, c) = OldestOf({o \in 1..head : o > c}, Page)
    BY <1>1, NewestRows DEF Alone!PageOf
  <2> QED
    BY <1>1, <2>1, PageUp
<1>2. CASE walk # "newer"
  <2>1. Alone!PageOf(walk, c) = NewestOf({o \in 1..head : o < c}, Page)
    BY <1>2, NewestRows DEF Alone!PageOf
  <2> QED
    BY <1>2, <2>1, PageDown
<1> QED
  BY <1>1, <1>2

LEMMA AloneWalkType ==
    ASSUME NEW walk \in Walks, NEW c \in Nat \ {0}
    PROVE  /\ Alone!Idle \in JobType /\ Alone!Walk(walk, c) \in JobType
           /\ LET j == Alone!Walk(walk, c)
              IN  j.at = "fetch" /\ j.walk = walk /\ j.cursor = c /\ j.fetched = 0 /\ j.seen = 0
           /\ Alone!Idle.at = "idle" /\ Top \in Nat \ {0}
<1>1. Top \in Nat \ {0} /\ Alone!FromHead = Top
  BY LimitsArePositive DEF Alone!FromHead, Top
<1>2. Alone!Idle = [at |-> "idle", walk |-> "bootstrap", cursor |-> Top, fetched |-> 0,
                    records |-> {}, seen |-> 0, steady |-> TRUE]
  BY <1>1 DEF Alone!Idle
<1>3. /\ Alone!Idle \in JobType
      /\ Alone!Idle.at = "idle" /\ Alone!Idle.fetched = 0 /\ Alone!Idle.seen = 0
  BY <1>1, <1>2 DEF JobType, Places, Walks
<1>4. Alone!Walk(walk, c) = [Alone!Idle EXCEPT !.at = "fetch", !.walk = walk, !.cursor = c]
  BY DEF Alone!Walk
<1>5. Alone!Walk(walk, c) \in JobType
  BY <1>3, <1>4 DEF JobType, Places
<1>6. LET j == Alone!Walk(walk, c)
      IN  j.at = "fetch" /\ j.walk = walk /\ j.cursor = c /\ j.fetched = 0 /\ j.seen = 0
  BY <1>3, <1>4 DEF JobType
<1> QED
  BY <1>1, <1>3, <1>5, <1>6

\* The run a step starts from.
LEMMA AloneRun ==
    ASSUME AloneInv
    PROVE  LET j == job["w1"]
           IN  /\ head \in Nat /\ head <= MaxHead /\ full \in BOOLEAN /\ MaxHead \in Nat \ {0}
               /\ job \in [{"w1"} -> JobType] /\ j \in JobType
               /\ j.at \in Places /\ j.walk \in Walks /\ j.cursor \in Nat \ {0} /\ j.fetched \in Nat
               /\ j.records \in SUBSET Nat /\ j.seen \in Nat /\ j.steady \in BOOLEAN
               /\ \E lo \in Nat \ {0}, hi \in Nat :
                     /\ lo <= head + 1 /\ hi <= head /\ cache = lo..hi /\ Fits(j, lo, hi, full, head)
<1> DEFINE j == job["w1"]
<1>1. /\ head \in Nat /\ head <= MaxHead /\ full \in BOOLEAN /\ MaxHead \in Nat \ {0}
      /\ job \in [{"w1"} -> JobType] /\ j \in JobType
  BY LimitsArePositive DEF AloneInv
<1>2. /\ j.at \in Places /\ j.walk \in Walks /\ j.cursor \in Nat \ {0} /\ j.fetched \in Nat
      /\ j.records \in SUBSET Nat /\ j.seen \in Nat /\ j.steady \in BOOLEAN
  BY <1>1 DEF JobType
<1>3. PICK lo \in 1..head + 1, hi \in 0..head : cache = lo..hi /\ Fits(j, lo, hi, full, head)
  BY DEF AloneInv, IsRun
<1>4. lo \in Nat \ {0} /\ hi \in Nat /\ lo <= head + 1 /\ hi <= head
  BY <1>1
<1> QED
  BY <1>1, <1>2, <1>3, <1>4

\* The run it ends with.
LEMMA AloneEnds ==
    ASSUME AloneInv, head' \in Nat, head' <= MaxHead, full' \in BOOLEAN, NEW j \in JobType,
           job' = [job EXCEPT !["w1"] = j],
           NEW lo \in Nat \ {0}, NEW hi \in Nat, lo <= head' + 1, hi <= head',
           cache' = lo..hi, Fits(j, lo, hi, full', head')
    PROVE  AloneInv'
<1>1. job' \in [{"w1"} -> JobType] /\ job'["w1"] = j
  BY DEF AloneInv
<1>2. lo \in 1..head' + 1 /\ hi \in 0..head' /\ head' \in 0..MaxHead
  <2>1. MaxHead \in Nat
    BY LimitsArePositive
  <2> DEFINE h == head'
  <2>2. h \in Nat /\ h <= MaxHead /\ lo <= h + 1 /\ hi <= h
    OBVIOUS
  <2> HIDE DEF h
  <2>3. lo \in 1..h + 1 /\ hi \in 0..h /\ h \in 0..MaxHead
    BY ONLY <2>1, <2>2, lo \in Nat \ {0}, hi \in Nat
  <2> QED
    BY <2>3 DEF h
<1>3. IsRun(cache', j, full', head')
  BY <1>2 DEF IsRun
<1>4. IsRun(cache, job["w1"], full, head)'
  BY <1>1, <1>3
<1> QED
  BY <1>1, <1>2, <1>4 DEF AloneInv

LEMMA AloneBegins ==
    ASSUME AloneInv, Alone!SyncRecent("w1") \/ Alone!LoadOlder("w1") PROVE AloneInv'
<1> DEFINE j == job["w1"]
<1>1. PICK lo \in Nat \ {0}, hi \in Nat :
          lo <= head + 1 /\ hi <= head /\ cache = lo..hi /\ Fits(j, lo, hi, full, head)
  BY AloneRun
<1>2. head \in Nat /\ head <= MaxHead /\ full \in BOOLEAN /\ MaxHead \in Nat \ {0}
  BY AloneRun
<1>3. cache = {} <=> hi < lo
  BY <1>1, RunIsEmpty
<1>4. PICK walk \in Walks, c \in Nat \ {0} :
          /\ job' = [job EXCEPT !["w1"] = Alone!Walk(walk, c)]
          /\ \/ walk \in {"bootstrap", "refill"} /\ c = Top /\ hi < lo
             \/ walk = "newer" /\ c = hi /\ lo <= hi
             \/ walk = "older" /\ c = lo /\ lo <= hi
  <2>1. Top \in Nat \ {0} /\ Top = Alone!FromHead
    BY <1>2 DEF Top, Alone!FromHead
  <2>2. lo <= hi => Alone!Min(cache) = lo /\ Alone!Max(cache) = hi /\ hi \in Nat \ {0}
    BY <1>1, EndsOfRun
  <2>3. CASE cache = {}
    BY <1>3, <2>1, <2>3 DEF Alone!SyncRecent, Alone!LoadOlder, Walks
  <2>4. CASE cache # {}
    <3>1. lo <= hi
      BY <1>3, <2>4
    <3> QED
      BY <2>2, <2>4, <3>1 DEF Alone!SyncRecent, Alone!LoadOlder, Walks
  <2> QED
    BY <2>3, <2>4
<1> DEFINE new == Alone!Walk(walk, c)
<1>5. /\ new \in JobType /\ new.at = "fetch" /\ new.walk = walk /\ new.cursor = c
      /\ new.fetched = 0 /\ new.seen = 0
  BY AloneWalkType
<1>6. UNCHANGED <<head, cache, full>> /\ job' = [job EXCEPT !["w1"] = new]
  BY <1>4 DEF Alone!SyncRecent, Alone!LoadOlder
<1> HIDE DEF new, j
<1>7. Fits(new, lo, hi, full, head)
  <2>1. CASE walk \in {"bootstrap", "refill"} /\ c = Top /\ hi < lo
    BY <1>5, <2>1 DEF Fits, HeadFits, AtHead, Downward
  <2>2. CASE walk = "newer" /\ c = hi /\ lo <= hi
    BY <1>5, <2>2 DEF Fits, NewerFits, Downward
  <2>3. CASE walk = "older" /\ c = lo /\ lo <= hi
    BY <1>5, <2>3 DEF Fits, OlderFits, Downward
  <2> QED
    BY <1>4, <2>1, <2>2, <2>3
<1>8. /\ head' \in Nat /\ head' <= MaxHead /\ full' \in BOOLEAN /\ lo <= head' + 1 /\ hi <= head'
      /\ cache' = lo..hi /\ Fits(new, lo, hi, full', head')
  <2>1. head' = head /\ full' = full /\ cache' = cache
    BY <1>6
  <2> QED
    BY <1>1, <1>2, <1>7, <2>1
<1> QED
  BY <1>5, <1>6, <1>8, AloneEnds

LEMMA AloneRests ==
    ASSUME AloneInv, head' = head, full' = full, job' = [job EXCEPT !["w1"] = Alone!Idle],
           NEW lo \in Nat \ {0}, NEW hi \in Nat, lo <= head + 1, hi <= head, cache' = lo..hi
    PROVE  AloneInv'
<1>1. head \in Nat /\ head <= MaxHead /\ full \in BOOLEAN
  BY AloneRun
<1>2. Alone!Idle \in JobType /\ Alone!Idle.at = "idle"
  <2>1. 1 \in Nat \ {0} /\ "newer" \in Walks
    BY DEF Walks
  <2> QED
    BY <2>1, AloneWalkType
<1>3. Fits(Alone!Idle, lo, hi, full', head')
  BY <1>2 DEF Fits
<1> QED
  BY <1>1, <1>2, <1>3, AloneEnds

LEMMA AloneInterrupt == ASSUME AloneInv, Alone!Interrupt("w1") PROVE AloneInv'
<1>1. PICK lo \in Nat \ {0}, hi \in Nat : lo <= head + 1 /\ hi <= head /\ cache = lo..hi
  BY AloneRun
<1>2. /\ head' = head /\ full' = full /\ cache' = cache
      /\ job' = [job EXCEPT !["w1"] = Alone!Idle]
  BY DEF Alone!Interrupt
<1> QED
  BY <1>1, <1>2, AloneRests

LEMMA AloneFinish == ASSUME AloneInv, Alone!Finish("w1") PROVE AloneInv'
<1>1. PICK lo \in Nat \ {0}, hi \in Nat : lo <= head + 1 /\ hi <= head /\ cache = lo..hi
  BY AloneRun
<1>2. /\ head' = head /\ full' = full /\ job' = [job EXCEPT !["w1"] = Alone!Idle]
      /\ cache' = cache \/ cache' = NewestOf(cache, CacheLimit)
  BY NewestRows DEF Alone!Finish, Alone!Trimmed
<1>3. CASE cache' = cache
  BY <1>1, <1>2, <1>3, AloneRests
<1>4. CASE cache' = NewestOf(cache, CacheLimit)
  <2> DEFINE low == IF hi < lo + CacheLimit THEN lo ELSE hi + 1 - CacheLimit
  <2>1. CacheLimit \in Nat \ {0} /\ head \in Nat
    BY LimitsArePositive, AloneRun
  <2>2. cache' = low..hi
    BY <1>1, <1>4, <2>1, NewestOfRun
  <2>3. low \in Nat \ {0} /\ low <= head + 1
    BY <1>1, <2>1
  <2> HIDE DEF low
  <2> QED
    BY <1>1, <1>2, <2>2, <2>3, AloneRests
<1> QED
  BY <1>2, <1>3, <1>4

LEMMA AloneChange == ASSUME AloneInv, Alone!SetKeepFullHistory PROVE AloneInv'
<1> DEFINE j == job["w1"]
           new == [j EXCEPT !.steady = j.at = "idle"]
<1>1. PICK lo \in Nat \ {0}, hi \in Nat :
          lo <= head + 1 /\ hi <= head /\ cache = lo..hi /\ Fits(j, lo, hi, full, head)
  BY AloneRun
<1>2. /\ head \in Nat /\ head <= MaxHead /\ full \in BOOLEAN
      /\ j \in JobType /\ job \in [{"w1"} -> JobType]
  BY AloneRun
<1>3. /\ j.steady /\ full' = ~full /\ head' = head /\ cache' = cache
      /\ job' = [job EXCEPT !["w1"] = new]
  BY <1>2 DEF Alone!SetKeepFullHistory
<1>4. new \in JobType
  BY <1>2 DEF JobType
<1>5. /\ new.at = j.at /\ new.walk = j.walk /\ new.cursor = j.cursor /\ new.fetched = j.fetched
      /\ new.records = j.records /\ new.seen = j.seen
      /\ j.at # "idle" => new.steady = FALSE
  BY <1>2 DEF JobType
<1> HIDE DEF new, j
<1>6. Fits(new, lo, hi, ~full, head)
  <2> SUFFICES ASSUME j.at # "idle" PROVE Fits(new, lo, hi, ~full, head)
    BY <1>5 DEF Fits
  <2>1. CASE j.walk = "newer"
    <3>1. NewerFits(j, lo, hi, full, head)
      BY <1>1, <2>1 DEF Fits
    <3>2. NewerFits(new, lo, hi, ~full, head)
      BY <1>5, <3>1 DEF NewerFits
    <3> QED
      BY <1>5, <2>1, <3>2 DEF Fits, Downward
  <2>2. CASE j.walk \in {"older", "backfill"}
    <3>1. OlderFits(j, lo, hi)
      BY <1>1, <2>2 DEF Fits
    <3>2. OlderFits(new, lo, hi)
      BY <1>5, <3>1 DEF OlderFits
    <3> QED
      BY <1>5, <2>2, <3>2 DEF Fits, Downward
  <2>3. CASE Downward(j)
    <3>1. HeadFits(j, lo, hi, full, head)
      BY <1>1, <2>3 DEF Fits
    <3>2. HeadFits(new, lo, hi, ~full, head)
      <4>1. \A n : InWindow(new, n, ~full)
        BY <1>5 DEF InWindow
      <4>2. j.at = "fetch" => AtHead(new, lo, hi) \/ AfterPages(new, lo, hi)
        BY <1>3, <1>5, <3>1 DEF HeadFits, AtHead, AfterPages
      <4>3. AtHead(j, lo, hi) => AtHead(new, lo, hi)
        BY <1>5 DEF AtHead
      <4>4. AfterPages(j, lo, hi) => AfterPages(new, lo, hi)
        BY <1>5 DEF AfterPages
      <4> QED
        BY <1>5, <3>1, <4>1, <4>2, <4>3, <4>4 DEF HeadFits
    <3> QED
      BY <1>5, <2>3, <3>2 DEF Fits, Downward
  <2>4. j.walk \in Walks
    BY <1>2 DEF JobType
  <2> QED
    BY <2>1, <2>2, <2>3, <2>4 DEF Walks, Downward
<1>7. full' \in BOOLEAN /\ Fits(new, lo, hi, full', head')
  <2>1. full' = ~full /\ head' = head
    BY <1>3
  <2> QED
    BY <1>6, <2>1
<1> QED
  BY <1>1, <1>2, <1>3, <1>4, <1>7, AloneEnds

LEMMA AloneHappens == ASSUME AloneInv, Alone!Happens PROVE AloneInv'
<1> DEFINE j == job["w1"]
<1>1. PICK lo \in Nat \ {0}, hi \in Nat :
          lo <= head + 1 /\ hi <= head /\ cache = lo..hi /\ Fits(j, lo, hi, full, head)
  BY AloneRun
<1>2. /\ head \in Nat /\ head <= MaxHead /\ full \in BOOLEAN /\ MaxHead \in Nat
      /\ j \in JobType /\ job \in [{"w1"} -> JobType]
  BY AloneRun
<1>3. /\ head < MaxHead /\ head' = head + 1 /\ cache' = cache /\ full' = full /\ job' = job
  BY DEF Alone!Happens
<1> DEFINE h == head + 1
<1>4. h \in Nat /\ h <= MaxHead /\ lo <= h + 1 /\ hi <= h /\ \A k \in Nat : k <= head => k <= h
  BY <1>1, <1>2, <1>3
<1>5. /\ \A k \in hi + 1..head : k \in hi + 1..h
      /\ \A k \in 1..head : k \in 1..h
  BY <1>2
<1>6. Fits(j, lo, hi, full, h)
  <2>1. NewerFits(j, lo, hi, full, head) => NewerFits(j, lo, hi, full, h)
    BY <1>5 DEF NewerFits
  <2>2. HeadFits(j, lo, hi, full, head) => HeadFits(j, lo, hi, full, h)
    BY <1>5 DEF HeadFits
  <2> QED
    BY <1>1, <2>1, <2>2 DEF Fits
<1>7. job' = [job EXCEPT !["w1"] = j]
  BY <1>2, <1>3
<1> HIDE DEF j
<1>8. Fits(j, lo, hi, full', head')
  <2>1. full' = full /\ head' = h
    BY <1>3
  <2> QED
    BY <1>6, <2>1
<1>9. head' \in Nat /\ head' <= MaxHead /\ lo <= head' + 1 /\ hi <= head'
  BY <1>3, <1>4
<1> QED
  BY <1>1, <1>2, <1>3, <1>7, <1>8, <1>9, AloneEnds

LEMMA WindowHoldsAPage == Page <= CacheLimit
<1>1. InPages(0) /\ 0 \in Nat /\ 0 < CacheLimit
  BY LimitsArePositive, PagesOfWindow
<1>2. 0 + Page <= CacheLimit
  BY <1>1, PagesOfWindow
<1> QED
  BY <1>2, LimitsArePositive

LEMMA AloneFetch == ASSUME AloneInv, Alone!Fetch("w1") PROVE AloneInv'
<1> DEFINE j == job["w1"]
           r == Alone!PageOf(j.walk, j.cursor)
           top == IF j.walk = "newer" \/ j.cursor = Top THEN head ELSE j.seen
           enough == Downward(j) /\ ~full /\ j.fetched >= CacheLimit
           over == [j EXCEPT !.at = "turn"]
           dry == [j EXCEPT !.at = "turn", !.seen = top]
           next == [j EXCEPT !.at = "store", !.records = r, !.seen = top]
           new == IF enough THEN over ELSE IF r = {} THEN dry ELSE next
           t == IF j.cursor <= head THEN j.cursor - 1 ELSE head
<1>1. PICK lo \in Nat \ {0}, hi \in Nat :
          lo <= head + 1 /\ hi <= head /\ cache = lo..hi /\ Fits(j, lo, hi, full, head)
  BY AloneRun
<1>2. /\ head \in Nat /\ head <= MaxHead /\ full \in BOOLEAN /\ MaxHead \in Nat
      /\ j \in JobType /\ job \in [{"w1"} -> JobType]
      /\ j.at \in Places /\ j.walk \in Walks /\ j.cursor \in Nat \ {0} /\ j.fetched \in Nat
      /\ j.records \in SUBSET Nat /\ j.seen \in Nat /\ j.steady \in BOOLEAN
  BY AloneRun
<1>3. /\ j.at = "fetch" /\ job' = [job EXCEPT !["w1"] = new]
      /\ head' = head /\ full' = full /\ cache' = cache
  BY DEF Alone!Fetch, Alone!FromHead, Top, Downward
<1>4. top \in Nat
  BY <1>2
<1>5. CASE enough
  <2>1. over \in JobType
    BY <1>2 DEF JobType, Places
  <2>2. over.at = "turn" /\ over.walk = j.walk
    BY <1>2 DEF JobType
  <2> HIDE DEF over
  <2>3. Fits(over, lo, hi, full, head)
    BY <1>5, <2>2 DEF Fits, HeadFits, Downward
  <2>4. new = over
    BY <1>5
  <2> HIDE DEF new
  <2> QED
    BY <1>1, <1>2, <1>3, <2>1, <2>3, <2>4, AloneEnds
<1>6. CASE ~enough /\ r = {}
  <2>1. dry \in JobType
    BY <1>2, <1>4 DEF JobType, Places
  <2>2. dry.at = "turn" /\ dry.walk = j.walk /\ dry.seen = top
    BY <1>2 DEF JobType
  <2>3. j.walk = "newer" => head <= j.cursor /\ top = head
    <3> SUFFICES ASSUME j.walk = "newer", j.cursor < head PROVE FALSE
      BY <1>2
    <3>1. PICK k \in j.cursor + 1..head : r = j.cursor + 1..k
      <4>1. \E k \in j.cursor + 1..head : r = j.cursor + 1..k /\ (k = head \/ k - j.cursor = Page)
        BY <1>2, AlonePage
      <4> QED
        BY <4>1
    <3>2. k \in j.cursor + 1..k
      BY <1>2
    <3> QED
      BY <1>6, <3>1, <3>2
  <2>4. j.walk # "newer" => t = 0
    <3> SUFFICES ASSUME j.walk # "newer", t # 0 PROVE FALSE
      OBVIOUS
    <3>1. PICK k \in 1..t : r = k..t
      <4>1. \E k \in 1..t : r = k..t /\ (k = 1 \/ t - k + 1 = Page) /\ t - k + 1 <= Page
        BY <1>2, AlonePage
      <4> QED
        BY <4>1
    <3>2. t \in k..t
      BY <1>2
    <3> QED
      BY <1>6, <3>1, <3>2
  <2>5. new = dry
    BY <1>6
  <2> HIDE DEF new, dry, r
  <2>6. Fits(dry, lo, hi, full, head)
    <3>1. CASE j.walk = "newer"
      <4>1. lo <= hi /\ j.cursor = hi
        BY <1>1, <1>3, <3>1 DEF Fits, NewerFits
      <4>2. dry.seen <= hi
        BY <1>2, <2>2, <2>3, <3>1, <4>1
      <4> HIDE DEF j, top
      <4> QED
        BY <2>2, <3>1, <4>1, <4>2 DEF Fits, NewerFits, Downward
    <3>2. CASE j.walk \in {"older", "backfill"}
      <4>1. lo <= hi /\ j.cursor = lo /\ (j.walk = "backfill" => j.seen <= hi)
        BY <1>1, <1>3, <3>2 DEF Fits, OlderFits
      <4>2. lo = 1 /\ top = j.seen
        BY <1>1, <1>2, <2>4, <3>2, <4>1 DEF Top
      <4> HIDE DEF j, top
      <4> QED
        BY <2>2, <3>2, <4>1, <4>2 DEF Fits, OlderFits, Downward
    <3>3. CASE Downward(j)
      <4>1. AtHead(j, lo, hi) \/ AfterPages(j, lo, hi)
        BY <1>1, <1>3, <1>6, <3>3 DEF Fits, HeadFits
      <4>2. 1..top \subseteq lo..hi
        <5>1. CASE AtHead(j, lo, hi)
          BY <1>2, <2>4, <3>3, <5>1 DEF AtHead, Top, Downward
        <5>2. CASE AfterPages(j, lo, hi)
          <6>1. lo = 1 /\ top = j.seen /\ j.seen <= hi
            BY <1>1, <1>2, <2>4, <3>3, <5>2 DEF AfterPages, Top, Downward
          <6> QED
            BY <1>1, <1>2, <6>1
        <5> QED
          BY <4>1, <5>1, <5>2
      <4> HIDE DEF j, top
      <4> QED
        BY <2>2, <3>3, <4>2 DEF Fits, HeadFits, Downward
    <3> QED
      BY <1>2, <3>1, <3>2, <3>3 DEF Walks, Downward
  <2> QED
    BY <1>1, <1>2, <1>3, <2>1, <2>5, <2>6, AloneEnds
<1>7. CASE ~enough /\ r # {}
  <2>1. j.walk = "newer" =>
            \E k \in j.cursor + 1..head : r = j.cursor + 1..k /\ (k = head \/ k - j.cursor = Page)
    BY <1>2, <1>7, AlonePage
  <2>2. j.walk # "newer" =>
            /\ t # 0
            /\ \E k \in 1..t : r = k..t /\ (k = 1 \/ t - k + 1 = Page) /\ t - k + 1 <= Page
    BY <1>2, <1>7, AlonePage
  <2> HIDE DEF r
  <2>3. r \in SUBSET Nat
    <3>1. CASE j.walk = "newer"
      BY <1>2, <2>1, <3>1
    <3>2. CASE j.walk # "newer"
      <4>1. PICK k \in 1..t : r = k..t
        BY <2>2, <3>2
      <4> QED
        BY <1>2, <4>1
    <3> QED
      BY <3>1, <3>2
  <2>4. next \in JobType
    BY <1>2, <1>4, <2>3 DEF JobType, Places
  <2>5. /\ next.at = "store" /\ next.walk = j.walk /\ next.cursor = j.cursor /\ next.seen = top
        /\ next.records = r /\ next.fetched = j.fetched /\ next.steady = j.steady
    BY <1>2 DEF JobType
  <2>6. new = next
    BY <1>7
  <2> HIDE DEF new, next
  <2>7. Fits(next, lo, hi, full, head)
    <3>1. CASE j.walk = "newer"
      <4>1. lo <= hi /\ j.cursor = hi
        BY <1>1, <1>3, <3>1 DEF Fits, NewerFits
      <4>2. top = head
        BY <3>1
      <4> HIDE DEF j, top
      <4>3. \E k \in hi + 1..head : next.records = hi + 1..k /\ (k = next.seen \/ k - hi = Page)
        BY <2>1, <2>5, <3>1, <4>1, <4>2
      <4> QED
        BY <2>5, <3>1, <4>1, <4>3 DEF Fits, NewerFits, Downward
    <3>2. CASE j.walk \in {"older", "backfill"}
      <4>1. lo <= hi /\ j.cursor = lo /\ (j.walk = "backfill" => j.seen <= hi)
        BY <1>1, <1>3, <3>2 DEF Fits, OlderFits
      <4>2. t = lo - 1 /\ top = j.seen /\ j.walk # "newer"
        BY <1>1, <1>2, <3>2, <4>1 DEF Top
      <4> HIDE DEF j, top, t
      <4>3. PICK k \in 1..t : r = k..t /\ (k = 1 \/ t - k + 1 = Page)
        BY <2>2, <4>2
      <4>4. lo - k = t - k + 1
        BY <1>1, <4>2
      <4>5. \E i \in 1..lo - 1 : next.records = i..lo - 1 /\ (i = 1 \/ lo - i = Page)
        BY <2>5, <4>2, <4>3, <4>4
      <4> QED
        BY <2>5, <3>2, <4>1, <4>2, <4>5 DEF Fits, OlderFits, Downward
    <3>3. CASE Downward(j)
      <4>1. AtHead(j, lo, hi) \/ AfterPages(j, lo, hi)
        BY <1>1, <1>3, <1>7, <3>3 DEF Fits, HeadFits
      <4>2. t \in Nat /\ t # 0 /\ t <= head
        BY <1>2, <2>2, <3>3 DEF Downward
      <4>3. PICK k \in 1..t : r = k..t /\ (k = 1 \/ t - k + 1 = Page) /\ t - k + 1 <= Page
        BY <2>2, <3>3 DEF Downward
      <4>4. \/ AtHead(next, lo, hi) /\ t = next.seen
            \/ AfterPages(next, lo, hi) /\ t = lo - 1
        <5>1. CASE AtHead(j, lo, hi)
          <6>1. t = top
            BY <1>2, <5>1 DEF AtHead, Top
          <6> QED
            BY <2>5, <5>1, <6>1 DEF AtHead
        <5>2. CASE AfterPages(j, lo, hi)
          <6>1. top = j.seen /\ t = lo - 1
            BY <1>1, <1>2, <3>3, <5>2 DEF AfterPages, Top, Downward
          <6> QED
            BY <2>5, <5>2, <6>1 DEF AfterPages
        <5> QED
          BY <4>1, <5>1, <5>2
      <4>5. ~full => j.fetched + Page <= CacheLimit
        <5> SUFFICES ASSUME ~full PROVE j.fetched + Page <= CacheLimit
          OBVIOUS
        <5>1. InPages(j.fetched)
          BY <4>1, PagesOfWindow DEF AtHead, AfterPages
        <5>2. CacheLimit \in Nat /\ j.fetched < CacheLimit
          BY <1>2, <1>7, <3>3, LimitsArePositive
        <5> QED
          BY <1>2, <5>1, <5>2, PagesOfWindow
      <4> HIDE DEF j, t, top
      <4>6. InWindow(next, t - k + 1, full)
        <5>1. /\ Page \in Nat /\ CacheLimit \in Nat /\ k \in Nat /\ t - k + 1 \in Int
              /\ t - k + 1 <= Page /\ j.fetched \in Nat
          BY <1>2, <4>2, <4>3, LimitsArePositive
        <5>2. ~full => j.fetched + (t - k + 1) <= CacheLimit
          BY <4>5, <5>1
        <5> QED
          BY <2>5, <5>2 DEF InWindow
      <4>7. k \in 1..head /\ t \in 1..head /\ k <= t
        BY <1>2, <4>2, <4>3
      <4>8. HeadFits(next, lo, hi, full, head)
        BY <2>5, <4>3, <4>4, <4>6, <4>7 DEF HeadFits
      <4> QED
        BY <2>5, <3>3, <4>8 DEF Fits, Downward
    <3> QED
      BY <1>2, <3>1, <3>2, <3>3 DEF Walks, Downward
  <2> QED
    BY <1>1, <1>2, <1>3, <2>4, <2>6, <2>7, AloneEnds
<1> QED
  BY <1>5, <1>6, <1>7

LEMMA RunsJoin ==
    ASSUME NEW a \in Int, NEW b \in Int, NEW c \in Int, a <= b + 1, b <= c
    PROVE  (a..b) \union (b + 1..c) = a..c
OBVIOUS

LEMMA AloneStore == ASSUME AloneInv, Alone!Store("w1") PROVE AloneInv'
<1> DEFINE j == job["w1"]
           new == [j EXCEPT !.at = IF j.walk = "older" THEN "last" ELSE "trim"]
<1>1. PICK lo \in Nat \ {0}, hi \in Nat :
          lo <= head + 1 /\ hi <= head /\ cache = lo..hi /\ Fits(j, lo, hi, full, head)
  BY AloneRun
<1>2. /\ head \in Nat /\ head <= MaxHead /\ full \in BOOLEAN
      /\ j \in JobType /\ job \in [{"w1"} -> JobType]
      /\ j.at \in Places /\ j.walk \in Walks /\ j.cursor \in Nat \ {0} /\ j.fetched \in Nat
      /\ j.records \in SUBSET Nat /\ j.seen \in Nat /\ j.steady \in BOOLEAN
  BY AloneRun
<1>3. /\ j.at = "store" /\ job' = [job EXCEPT !["w1"] = new]
      /\ head' = head /\ full' = full /\ cache' = cache \union j.records
  BY <1>2 DEF Alone!Store
<1>4. new \in JobType
  BY <1>2 DEF JobType, Places
<1>5. /\ new.at = (IF j.walk = "older" THEN "last" ELSE "trim")
      /\ new.walk = j.walk /\ new.cursor = j.cursor /\ new.seen = j.seen
      /\ new.records = j.records /\ new.fetched = j.fetched /\ new.steady = j.steady
  BY <1>2 DEF JobType
<1> HIDE DEF new, j
<1>6. SUFFICES \E low \in Nat \ {0}, high \in Nat :
                  /\ low <= head + 1 /\ high <= head /\ cache' = low..high
                  /\ Fits(new, low, high, full, head)
  <2>1. PICK low \in Nat \ {0}, high \in Nat :
            low <= head + 1 /\ high <= head /\ cache' = low..high /\ Fits(new, low, high, full, head)
    BY <1>6
  <2> QED
    BY <1>2, <1>3, <1>4, <2>1, AloneEnds
<1>7. CASE j.walk = "newer"
  <2>1. lo <= hi
    BY <1>1, <1>3, <1>7 DEF Fits, NewerFits
  <2>2. PICK k \in hi + 1..head : j.records = hi + 1..k /\ (k = j.seen \/ k - hi = Page)
    BY <1>1, <1>3, <1>7 DEF Fits, NewerFits
  <2>3. k \in Nat /\ k <= head /\ lo <= k /\ hi + 1 \in lo..k
    BY <1>1, <1>2, <2>1
  <2>4. cache' = lo..k
    <3>1. (lo..hi) \union (hi + 1..k) = lo..k
      BY <2>1, <2>3, RunsJoin
    <3> QED
      BY <1>1, <1>3, <2>2, <3>1
  <2>5. k = new.seen \/ k - (hi + 1) + 1 = Page
    BY <1>1, <1>5, <2>2, <2>3
  <2>6. new.records = hi + 1..k /\ new.at = "trim" /\ new.walk = "newer"
    BY <1>5, <1>7, <2>2
  <2>7. Fits(new, lo, k, full, head)
    BY <2>3, <2>5, <2>6 DEF Fits, NewerFits, Downward
  <2> QED
    BY <1>1, <2>3, <2>4, <2>7
<1>8. CASE j.walk \in {"older", "backfill"}
  <2>1. lo <= hi /\ (j.walk = "backfill" => j.seen <= hi)
    BY <1>1, <1>3, <1>8 DEF Fits, OlderFits
  <2>2. PICK k \in 1..lo - 1 : j.records = k..lo - 1 /\ (k = 1 \/ lo - k = Page)
    BY <1>1, <1>3, <1>8 DEF Fits, OlderFits
  <2>3. k \in Nat \ {0} /\ k <= head + 1 /\ k <= hi /\ lo - 1 \in k..hi /\ lo - 1 \in Int /\ k <= lo
    BY <1>1, <1>2, <2>1
  <2>4. cache' = k..hi
    <3>1. (k..lo - 1) \union (lo - 1 + 1..hi) = k..hi
      BY <2>3, RunsJoin
    <3>2. lo - 1 + 1 = lo
      OBVIOUS
    <3> QED
      BY <1>1, <1>3, <2>2, <3>1, <3>2
  <2>5. k = 1 \/ lo - 1 - k + 1 = Page
    BY <2>2, <2>3
  <2>6. CASE j.walk = "older"
    <3>1. new.at = "last" /\ new.walk = "older"
      BY <1>5, <2>6
    <3>2. Fits(new, k, hi, full, head)
      BY <2>3, <3>1 DEF Fits, OlderFits, Downward
    <3> QED
      BY <1>1, <2>3, <2>4, <3>2
  <2>7. CASE j.walk = "backfill"
    <3>1. /\ new.at = "trim" /\ new.walk = "backfill" /\ new.records = k..lo - 1
          /\ new.seen <= hi
      BY <1>5, <2>1, <2>2, <2>7
    <3>2. Fits(new, k, hi, full, head)
      BY <2>3, <2>5, <3>1 DEF Fits, OlderFits, Downward
    <3> QED
      BY <1>1, <2>3, <2>4, <3>2
  <2> QED
    BY <1>8, <2>6, <2>7
<1>9. CASE Downward(j)
  <2>1. PICK k \in 1..head, m \in 1..head :
            /\ k <= m /\ j.records = k..m /\ (k = 1 \/ m - k + 1 = Page)
            /\ \/ AtHead(j, lo, hi) /\ m = j.seen
               \/ AfterPages(j, lo, hi) /\ m = lo - 1
            /\ InWindow(j, m - k + 1, full)
    BY <1>1, <1>3, <1>9 DEF Fits, HeadFits
  <2>2. /\ new.at = "trim" /\ new.walk = j.walk /\ new.records = k..m /\ new.fetched = j.fetched
        /\ new.seen = j.seen /\ InWindow(new, m - k + 1, full)
    BY <1>5, <1>9, <2>1 DEF Downward, InWindow
  <2> DEFINE high == IF hi < lo THEN m ELSE hi
  <2>3. /\ high \in Nat /\ high <= head /\ k \in Nat \ {0} /\ k <= head + 1 /\ m \in k..high
    BY <1>1, <1>2, <2>1 DEF AtHead, AfterPages
  <2>4. cache' = k..high
    <3>1. CASE AtHead(j, lo, hi)
      <4>1. hi < lo /\ lo..hi = {}
        BY <3>1, RunIsEmpty DEF AtHead
      <4> QED
        BY <1>1, <1>3, <2>1, <4>1
    <3>2. CASE AfterPages(j, lo, hi) /\ m = lo - 1
      <4>1. high = hi /\ lo <= hi /\ m + 1 = lo
        BY <3>2 DEF AfterPages
      <4>2. (k..m) \union (m + 1..hi) = k..hi
        BY <2>1, <2>3, <4>1, RunsJoin
      <4> QED
        BY <1>1, <1>3, <2>1, <4>1, <4>2
    <3> QED
      BY <2>1, <3>1, <3>2
  <2>5. /\ high + 1 = k + new.fetched + (m - k + 1) /\ new.seen <= high
        /\ InPages(new.fetched)
    <3>1. CASE AtHead(j, lo, hi) /\ m = j.seen
      <4>1. high = m /\ j.fetched = 0
        BY <1>1, <3>1 DEF AtHead
      <4> QED
        BY <1>2, <2>2, <2>3, <3>1, <4>1, PagesOfWindow
    <3>2. CASE AfterPages(j, lo, hi) /\ m = lo - 1
      <4>1. /\ high = hi /\ hi + 1 = lo + j.fetched /\ j.seen <= hi /\ InPages(j.fetched)
        BY <1>1, <3>2 DEF AfterPages
      <4> QED
        BY <1>1, <1>2, <2>2, <2>3, <3>2, <4>1
    <3> QED
      BY <2>1, <3>1, <3>2
  <2> HIDE DEF high
  <2>6. HeadFits(new, k, high, full, head)
    BY <2>1, <2>2, <2>3, <2>5 DEF HeadFits
  <2>7. Fits(new, k, high, full, head)
    BY <1>9, <2>2, <2>6 DEF Fits, Downward
  <2> QED
    BY <2>3, <2>4, <2>7
<1> QED
  BY <1>2, <1>7, <1>8, <1>9 DEF Walks, Downward

LEMMA AloneTurn == ASSUME AloneInv, Alone!Turn("w1") PROVE AloneInv'
<1> DEFINE j == job["w1"]
           walk == IF cache = {} THEN Alone!Walk("bootstrap", Top)
                   ELSE Alone!Walk("backfill", Alone!Min(cache))
           again == [walk EXCEPT !.seen = j.seen, !.steady = j.steady]
           end == [j EXCEPT !.at = "last"]
           new == IF j.walk = "newer" /\ full THEN again ELSE end
<1>1. PICK lo \in Nat \ {0}, hi \in Nat :
          lo <= head + 1 /\ hi <= head /\ cache = lo..hi /\ Fits(j, lo, hi, full, head)
  BY AloneRun
<1>2. /\ head \in Nat /\ head <= MaxHead /\ full \in BOOLEAN
      /\ j \in JobType /\ job \in [{"w1"} -> JobType]
      /\ j.at \in Places /\ j.walk \in Walks /\ j.cursor \in Nat \ {0} /\ j.fetched \in Nat
      /\ j.records \in SUBSET Nat /\ j.seen \in Nat /\ j.steady \in BOOLEAN
  BY AloneRun
<1>3. /\ j.at = "turn" /\ job' = [job EXCEPT !["w1"] = new]
      /\ head' = head /\ full' = full /\ cache' = cache
  BY DEF Alone!Turn, Alone!FromHead, Top
<1>4. CASE j.walk = "newer" /\ full
  <2>1. lo <= hi /\ j.seen <= hi
    BY <1>1, <1>3, <1>4 DEF Fits, NewerFits
  <2>2. cache # {} /\ Alone!Min(cache) = lo
    BY <1>1, <2>1, RunIsEmpty, EndsOfRun
  <2>3. walk = Alone!Walk("backfill", lo)
    BY <2>2
  <2>4. walk \in JobType /\ walk.at = "fetch" /\ walk.walk = "backfill" /\ walk.cursor = lo
    <3>1. "backfill" \in Walks
      BY DEF Walks
    <3> QED
      BY <2>3, <3>1, AloneWalkType
  <2> HIDE DEF walk
  <2>5. again \in JobType
    BY <1>2, <2>4 DEF JobType
  <2>6. again.at = "fetch" /\ again.walk = "backfill" /\ again.cursor = lo /\ again.seen = j.seen
    BY <2>4 DEF JobType
  <2>7. new = again
    BY <1>4
  <2> HIDE DEF new, again, j
  <2>8. Fits(again, lo, hi, full, head)
    BY <2>1, <2>6 DEF Fits, OlderFits, Downward
  <2> QED
    BY <1>1, <1>2, <1>3, <2>5, <2>7, <2>8, AloneEnds
<1>5. CASE ~(j.walk = "newer" /\ full)
  <2>1. end \in JobType
    BY <1>2 DEF JobType, Places
  <2>2. end.at = "last" /\ end.walk = j.walk /\ end.seen = j.seen /\ end.steady = j.steady
    BY <1>2 DEF JobType
  <2>3. new = end
    BY <1>5
  <2> HIDE DEF new, end, j
  <2>4. Fits(end, lo, hi, full, head)
    <3>1. CASE j.walk = "newer"
      BY <1>1, <1>3, <1>5, <2>2, <3>1 DEF Fits, NewerFits, Downward
    <3>2. CASE j.walk \in {"older", "backfill"}
      BY <1>1, <1>3, <2>2, <3>2 DEF Fits, OlderFits, Downward
    <3>3. CASE Downward(j)
      BY <1>1, <1>3, <2>2, <3>3 DEF Fits, HeadFits, Downward
    <3> QED
      BY <1>2, <3>1, <3>2, <3>3 DEF Walks, Downward
  <2> QED
    BY <1>1, <1>2, <1>3, <2>1, <2>3, <2>4, AloneEnds
<1> QED
  BY <1>4, <1>5

LEMMA AloneInit == ASSUME Alone!Init PROVE AloneInv
<1>1. /\ head \in 0..MaxHead /\ cache = {} /\ full \in BOOLEAN /\ job = [w \in {"w1"} |-> Alone!Idle]
      /\ MaxHead \in Nat \ {0}
  BY LimitsArePositive DEF Alone!Init
<1>2. Alone!Idle \in JobType /\ Alone!Idle.at = "idle"
  <2>1. 1 \in Nat \ {0} /\ "newer" \in Walks
    BY DEF Walks
  <2> QED
    BY <2>1, AloneWalkType
<1>3. job \in [{"w1"} -> JobType] /\ job["w1"] = Alone!Idle
  BY <1>1, <1>2
<1>4. Fits(Alone!Idle, 1, 0, full, head)
  BY <1>2 DEF Fits
<1>5. 1 \in 1..head + 1 /\ 0 \in 0..head /\ cache = 1..0
  BY <1>1
<1>6. IsRun(cache, job["w1"], full, head)
  BY <1>3, <1>4, <1>5 DEF IsRun
<1> QED
  BY <1>1, <1>3, <1>6 DEF AloneInv

LEMMA AloneTrim == ASSUME AloneInv, Alone!Trim("w1") PROVE AloneInv'
<1> DEFINE j == job["w1"]
           on == Alone!GoesOn(j)
           more == Alone!Min({j.fetched + Alone!Cardinality(j.records), MaxHead})
           last == Alone!LastToken(j.walk, j.records)
           new == [j EXCEPT !.at = IF on THEN "fetch" ELSE "turn",
                            !.cursor = IF on THEN last ELSE j.cursor,
                            !.fetched = more,
                            !.records = {}]
<1>1. PICK lo \in Nat \ {0}, hi \in Nat :
          lo <= head + 1 /\ hi <= head /\ cache = lo..hi /\ Fits(j, lo, hi, full, head)
  BY AloneRun
<1>2. /\ head \in Nat /\ head <= MaxHead /\ full \in BOOLEAN /\ MaxHead \in Nat
      /\ j \in JobType /\ job \in [{"w1"} -> JobType]
      /\ j.at \in Places /\ j.walk \in Walks /\ j.cursor \in Nat \ {0} /\ j.fetched \in Nat
      /\ j.records \in SUBSET Nat /\ j.seen \in Nat /\ j.steady \in BOOLEAN
  BY AloneRun
<1>3. /\ j.at = "trim" /\ job' = [job EXCEPT !["w1"] = new] /\ head' = head /\ full' = full
      /\ cache' = IF full \/ j.walk = "backfill" THEN cache ELSE NewestOf(cache, CacheLimit)
  BY <1>2, NewestRows DEF Alone!Trim, Alone!Trimmed
\* The page is a run at an end of the cache.
<1>4. PICK a \in Nat \ {0}, b \in Nat : a <= b /\ lo <= a /\ b <= hi /\ j.records = a..b
  <2>1. CASE j.walk = "newer"
    <3>1. PICK k \in lo..hi : j.records = k..hi
      BY <1>1, <1>3, <2>1 DEF Fits, NewerFits
    <3>2. k \in Nat \ {0} /\ lo <= k /\ k <= hi
      BY <1>1
    <3> QED
      BY <1>1, <3>1, <3>2
  <2>2. CASE j.walk # "newer"
    <3>1. PICK k \in lo..hi : j.records = lo..k
      <4>1. CASE j.walk \in {"older", "backfill"}
        BY <1>1, <1>3, <4>1 DEF Fits, OlderFits
      <4>2. CASE Downward(j)
        BY <1>1, <1>3, <4>2 DEF Fits, HeadFits
      <4> QED
        BY <1>2, <2>2, <4>1, <4>2 DEF Walks, Downward
    <3>2. k \in Nat /\ lo <= k /\ k <= hi /\ lo <= lo
      BY <1>1
    <3> QED
      BY <1>1, <3>1, <3>2
  <2> QED
    BY <2>1, <2>2
<1>5. Alone!Cardinality(j.records) = b - a + 1
  <2>1. Cardinality(a..b) = b - a + 1
    BY <1>4, FS_Interval
  <2> QED
    BY <1>4, <2>1, HistoryCounts
<1>6. on <=> b - a + 1 = Page
  BY <1>5 DEF Alone!GoesOn
<1>7. last = IF j.walk = "newer" THEN b ELSE a
  BY <1>4, EndsOfRun DEF Alone!LastToken
<1>8. more \in Nat /\ (j.fetched + (b - a + 1) <= MaxHead => more = j.fetched + (b - a + 1))
  <2>1. j.fetched + (b - a + 1) \in Nat
    BY <1>2, <1>4
  <2> QED
    BY <1>2, <1>5, <2>1, LesserIsCount
<1> HIDE DEF on, last, more
<1>9. new \in JobType
  <2> DEFINE cursor == IF on THEN last ELSE j.cursor
             at == IF on THEN "fetch" ELSE "turn"
  <2>1. cursor \in Nat \ {0} /\ at \in Places
    BY <1>2, <1>4, <1>7 DEF Places
  <2>2. new = [j EXCEPT !.at = at, !.cursor = cursor, !.fetched = more, !.records = {}]
    OBVIOUS
  <2> HIDE DEF cursor, at, new
  <2> QED
    BY <1>2, <1>8, <2>1, <2>2 DEF JobType
<1>10. /\ new.at = (IF on THEN "fetch" ELSE "turn") /\ new.walk = j.walk
       /\ on => new.cursor = last
       /\ new.seen = j.seen /\ new.fetched = more /\ new.steady = j.steady
  BY <1>2 DEF JobType
<1> HIDE DEF new, j
<1> DEFINE low == IF hi < lo + CacheLimit THEN lo ELSE hi + 1 - CacheLimit
<1>11. /\ NewestOf(cache, CacheLimit) = low..hi
       /\ low \in Nat \ {0} /\ low <= hi /\ low <= head + 1 /\ CacheLimit \in Nat \ {0}
       /\ hi + 1 <= lo + CacheLimit => low = lo
  <2>1. CacheLimit \in Nat \ {0}
    BY LimitsArePositive
  <2>2. NewestOf(cache, CacheLimit) = low..hi
    BY <1>1, <2>1, NewestOfRun
  <2>3. lo <= hi /\ hi <= head /\ head \in Nat
    BY <1>1, <1>2, <1>4
  <2>4. low \in Nat \ {0} /\ low <= hi /\ low <= head + 1
    BY ONLY <2>1, <2>3, lo \in Nat \ {0}, hi \in Nat
  <2>5. hi + 1 <= lo + CacheLimit => low = lo
    BY ONLY <2>1, lo \in Nat \ {0}, hi \in Nat
  <2> QED
    BY <2>1, <2>2, <2>4, <2>5
<1> HIDE DEF low
<1>12. SUFFICES \E d \in Nat \ {0} :
                   /\ d <= head + 1 /\ cache' = d..hi /\ Fits(new, d, hi, full, head)
  <2>1. PICK d \in Nat \ {0} : d <= head + 1 /\ cache' = d..hi /\ Fits(new, d, hi, full, head)
    BY <1>12
  <2> QED
    BY <1>1, <1>2, <1>3, <1>9, <2>1, AloneEnds
<1>13. lo <= hi
  BY <1>1, <1>4
<1>14. CASE j.walk = "newer"
  <2>1. PICK d \in Nat \ {0} : d <= hi /\ d <= head + 1 /\ cache' = d..hi
    <3>1. CASE full
      BY <1>1, <1>3, <1>13, <3>1
    <3>2. CASE ~full
      BY <1>3, <1>11, <1>14, <3>2
    <3> QED
      BY <1>2, <3>1, <3>2
  <2>2. PICK k \in lo..hi : j.records = k..hi /\ (hi = j.seen \/ hi - k + 1 = Page)
    BY <1>1, <1>3, <1>14 DEF Fits, NewerFits
  <2>3. a = k /\ b = hi
    <3>1. k \in Int /\ k <= hi
      BY <1>1
    <3>2. /\ Alone!Min(k..hi) = k /\ Alone!Max(k..hi) = hi
          /\ Alone!Min(a..b) = a /\ Alone!Max(a..b) = b
      BY <1>1, <1>4, <3>1, EndsOfRun
    <3> QED
      BY <1>4, <2>2, <3>2
  <2>4. CASE on
    <3>1. new.at = "fetch" /\ new.walk = "newer" /\ new.cursor = hi
      BY <1>7, <1>10, <1>14, <2>3, <2>4
    <3>2. Fits(new, d, hi, full, head)
      BY <2>1, <3>1 DEF Fits, NewerFits, Downward
    <3> QED
      BY <2>1, <3>2
  <2>5. CASE ~on
    <3>1. new.at = "turn" /\ new.walk = "newer" /\ new.seen <= hi
      BY <1>1, <1>6, <1>10, <1>14, <2>2, <2>3, <2>5
    <3>2. Fits(new, d, hi, full, head)
      BY <2>1, <3>1 DEF Fits, NewerFits, Downward
    <3> QED
      BY <2>1, <3>2
  <2> QED
    BY <2>4, <2>5
<1>15. CASE j.walk # "newer"
  <2>1. PICK k \in lo..hi : j.records = lo..k /\ (lo = 1 \/ k - lo + 1 = Page)
    <3>1. CASE j.walk \in {"older", "backfill"}
      BY <1>1, <1>3, <3>1 DEF Fits, OlderFits
    <3>2. CASE Downward(j)
      BY <1>1, <1>3, <3>2 DEF Fits, HeadFits
    <3> QED
      BY <1>2, <1>15, <3>1, <3>2 DEF Walks, Downward
  <2>2. a = lo /\ b = k
    <3>1. k \in Int /\ lo <= k
      BY <1>1
    <3>2. /\ Alone!Min(lo..k) = lo /\ Alone!Max(lo..k) = k
          /\ Alone!Min(a..b) = a /\ Alone!Max(a..b) = b
      BY <1>1, <1>4, <3>1, EndsOfRun
    <3> QED
      BY <1>4, <2>1, <3>2
  <2>3. on => new.at = "fetch" /\ new.cursor = lo
    BY <1>7, <1>10, <1>15, <2>2
  <2>4. ~on => new.at = "turn" /\ lo = 1
    BY <1>6, <1>10, <2>1, <2>2
  <2>5. CASE j.walk \in {"older", "backfill"}
    <3>1. j.walk = "backfill" /\ j.seen <= hi
      BY <1>1, <1>3, <2>5 DEF Fits, OlderFits
    <3>2. cache' = lo..hi /\ new.walk = "backfill" /\ new.seen <= hi
      BY <1>1, <1>3, <1>10, <3>1
    <3>3. Fits(new, lo, hi, full, head)
      BY <1>13, <2>3, <2>4, <3>2 DEF Fits, OlderFits, Downward
    <3> QED
      BY <1>1, <3>2, <3>3
  <2>6. CASE Downward(j)
    <3>1. PICK m \in lo..hi :
              /\ j.records = lo..m
              /\ hi + 1 = lo + j.fetched + (m - lo + 1) /\ j.seen <= hi /\ InPages(j.fetched)
              /\ InWindow(j, m - lo + 1, full)
      BY <1>1, <1>3, <2>6 DEF Fits, HeadFits
    <3>2. m = b
      <4>1. m \in Int /\ lo <= m
        BY <1>1
      <4>2. Alone!Max(lo..m) = m /\ Alone!Max(a..b) = b
        BY <1>1, <1>4, <4>1, EndsOfRun
      <4> QED
        BY <1>4, <3>1, <4>2
    <3>3. hi + 1 = lo + j.fetched + (b - a + 1) /\ InWindow(j, b - a + 1, full)
      BY <2>2, <3>1, <3>2
    <3>4. more = j.fetched + (b - a + 1) /\ hi + 1 = lo + more
      <4>1. j.fetched + (b - a + 1) <= MaxHead
        BY <1>1, <1>2, <1>4, <3>3
      <4> QED
        BY <1>1, <1>2, <1>4, <1>8, <3>3, <4>1
    <3>5. on => InPages(more)
      BY <1>2, <1>6, <3>1, <3>4, PagesOfWindow
    <3>6. CASE full \/ more <= CacheLimit
      <4>1. cache' = lo..hi
        <5>1. CASE full
          BY <1>1, <1>3, <5>1
        <5>2. CASE ~full /\ more <= CacheLimit
          <6>1. hi + 1 <= lo + CacheLimit
            BY <1>1, <1>8, <1>11, <3>4, <5>2
          <6> QED
            BY <1>3, <1>11, <2>6, <5>2, <6>1 DEF Downward
        <5> QED
          BY <3>6, <5>1, <5>2
      <4>2. CASE on
        <5>1. AfterPages(new, lo, hi)
          BY <1>10, <1>13, <2>3, <3>1, <3>4, <3>5, <4>2 DEF AfterPages
        <5>2. Fits(new, lo, hi, full, head)
          BY <1>10, <2>3, <2>6, <4>2, <5>1 DEF Fits, HeadFits, Downward
        <5> QED
          BY <1>1, <4>1, <5>2
      <4>3. CASE ~on
        <5>1. 1..j.seen \subseteq lo..hi
          BY <1>1, <1>2, <2>4, <3>1, <4>3
        <5>2. Fits(new, lo, hi, full, head)
          BY <1>10, <2>4, <2>6, <4>3, <5>1 DEF Fits, HeadFits, Downward
        <5> QED
          BY <1>1, <4>1, <5>2
      <4> QED
        BY <4>2, <4>3
    <3>7. CASE ~full /\ ~(more <= CacheLimit)
      <4>1. ~j.steady
        BY <3>3, <3>4, <3>7 DEF InWindow
      <4>2. cache' = low..hi
        BY <1>3, <1>11, <2>6, <3>7 DEF Downward
      <4>3. ~full /\ ~new.steady /\ new.fetched >= CacheLimit
        BY <1>8, <1>10, <1>11, <3>7, <4>1
      <4>4. new.at \in {"fetch", "turn"}
        BY <1>10
      <4>5. Fits(new, low, hi, full, head)
        BY <1>10, <2>6, <4>3, <4>4 DEF Fits, HeadFits, Downward
      <4> QED
        BY <1>11, <4>2, <4>5
    <3> QED
      BY <3>6, <3>7
  <2> QED
    BY <1>2, <1>15, <2>5, <2>6 DEF Walks, Downward
<1> QED
  BY <1>14, <1>15

LEMMA AloneStep == ASSUME AloneInv, [Alone!Next]_historyVars PROVE AloneInv'
<1>1. CASE UNCHANGED historyVars
  <2>1. UNCHANGED <<head, cache, full, job>>
    BY <1>1 DEF historyVars
  <2> QED
    BY <2>1 DEF AloneInv
<1> QED
  BY <1>1, AloneBegins, AloneFetch, AloneStore, AloneTrim, AloneTurn, AloneFinish, AloneInterrupt,
     AloneChange, AloneHappens
     DEF Alone!Next, Alone!Continue

LEMMA RunIsWhole == ASSUME AloneInv PROVE Alone!NoHoles /\ Alone!FullHistoryIsComplete
<1> DEFINE j == job["w1"]
<1>1. PICK lo \in Nat \ {0}, hi \in Nat :
          lo <= head + 1 /\ hi <= head /\ cache = lo..hi /\ Fits(j, lo, hi, full, head)
  BY AloneRun
<1>2. j.walk \in Walks /\ j.seen \in Nat
  BY AloneRun
<1>3. Alone!NoHoles
  BY <1>1 DEF Alone!NoHoles, Alone!Contiguous, Alone!Operations
<1>4. ASSUME j.at = "last", j.walk \notin {"older", "refill"}, j.steady, full
      PROVE  1..j.seen \subseteq cache
  <2>1. CASE j.walk = "newer"
    BY <1>1, <1>4, <2>1 DEF Fits, NewerFits
  <2>2. CASE j.walk = "backfill"
    <3>1. lo = 1 /\ j.seen <= hi
      BY <1>1, <1>4, <2>2 DEF Fits, OlderFits
    <3> QED
      BY <1>1, <1>2, <3>1
  <2>3. CASE j.walk = "bootstrap"
    BY <1>1, <1>4, <2>3 DEF Fits, HeadFits, Downward
  <2> QED
    BY <1>2, <1>4, <2>1, <2>2, <2>3 DEF Walks
<1>5. Alone!FullHistoryIsComplete
  BY <1>4 DEF Alone!FullHistoryIsComplete, Alone!AtEnd
<1> QED
  BY <1>3, <1>5

\* The rows of the history (history_service.py sync_recent over the operations of datastore.py):
\* whatever fails, and if the mode changes once during a synchronisation, one worker leaves
\* consecutive operations, and a synchronisation in full mode that runs to its end has
\* everything; a hole that opens between two workers in one mode is closed when both are at
\* rest, unless a request failed after they met.
THEOREM HistoryStaysWhole == MCSpec => []HistoryIsWhole
<1> DEFINE Inv == (part = "alone" => AloneInv) /\ (part = "together" => TogetherInv)
<1>1. MCInit => Inv
  BY AloneInit, TogetherInit DEF MCInit
<1>2. Inv /\ [MCNext]_allVars => Inv'
  <2> SUFFICES ASSUME Inv, [MCNext]_allVars PROVE Inv'
    OBVIOUS
  <2>1. part' = part
    BY DEF MCNext, allVars
  <2>2. ASSUME part = "alone" PROVE AloneInv'
    <3>1. [Alone!Next]_historyVars
      BY <2>2 DEF MCNext, allVars
    <3> QED
      BY <2>2, <3>1, AloneStep
  <2>3. ASSUME part = "together" PROVE TogetherInv'
    <3>1. TogetherNext \/ UNCHANGED <<head, cache, full, job, met>>
      BY <2>3 DEF MCNext, allVars, historyVars
    <3> QED
      BY <2>3, <3>1, TogetherStep, TogetherStutters
  <2> QED
    BY <2>1, <2>2, <2>3
<1>3. Inv => HistoryIsWhole
  <2>1. TogetherInv => HolesClose
    BY HolesAreClosed DEF TogetherInv, HolesClose
  <2> QED
    BY <2>1, RunIsWhole DEF HistoryIsWhole
<1> QED
  BY <1>1, <1>2, <1>3, PTL DEF MCSpec

-----------------------------------------------------------------------------
(***************************************************************************)
(* Customer requests: of every reserved name the server reads the option   *)
(* that is stated, whatever the fields are called, and a form's parts are  *)
(* told apart by their names.                                              *)
(***************************************************************************)
\* The value of a part under a reserved name and, of two parts, that they do not share one.
Own(parts, name, value) == Customer!ReadsOnly(parts, name, value)

Named(text) == [text |-> text, padded |-> FALSE]
Field(text, value) == Customer!Part(Named(text), value, FALSE)

LEMMA NothingIsRead == \A name : Own(<<>>, name, NoValue)
BY DEF Own, Customer!ReadsOnly

AddsLast(s, u, e) ==
    /\ DOMAIN u = DOMAIN s \cup {Len(s) + 1}
    /\ Len(s) + 1 \notin DOMAIN s
    /\ \A i \in DOMAIN s : u[i] = s[i]
    /\ u[Len(s) + 1] = e

LEMMA WithForm ==
    ASSUME NEW S, NEW parts \in Seq(S), NEW text, NEW value
    PROVE  /\ value = NoValue => Customer!With(parts, text, value) = parts
           /\ value # NoValue => AddsLast(parts, Customer!With(parts, text, value), Field(text, value))
           /\ Field(text, value) \in S => Customer!With(parts, text, value) \in Seq(S)
<1>1. CASE value = NoValue
  BY <1>1 DEF Customer!With
<1>2. CASE value # NoValue
  <2> DEFINE e == Field(text, value)
             u == Append(parts, e)
             R == S \cup {e}
  <2>1. Customer!With(parts, text, value) = u
    BY <1>2 DEF Customer!With, Field, Named
  <2>2. parts \in Seq(R) /\ e \in R
    OBVIOUS
  <2> HIDE DEF e, R
  <2>3. /\ u \in Seq(R) /\ Len(parts) \in Nat /\ DOMAIN parts = 1..Len(parts)
        /\ DOMAIN u = 1..Len(parts) + 1
        /\ \A i \in DOMAIN parts : u[i] = parts[i]
        /\ u[Len(parts) + 1] = e
    BY <2>2
  <2>4. DOMAIN u = DOMAIN parts \cup {Len(parts) + 1} /\ Len(parts) + 1 \notin DOMAIN parts
    BY <2>3
  <2>5. e \in S => u \in Seq(S)
    OBVIOUS
  <2> QED
    BY <1>2, <2>1, <2>3, <2>4, <2>5 DEF e, AddsLast
<1> QED
  BY <1>1, <1>2

LEMMA WithReads ==
    ASSUME NEW S, NEW parts \in Seq(S), NEW text, NEW value, NEW name, NEW stated
    PROVE  /\ name # text /\ Own(parts, name, stated) => Own(Customer!With(parts, text, value), name, stated)
           /\ Own(parts, text, NoValue) => Own(Customer!With(parts, text, value), text, value)
<1>1. CASE value = NoValue
  BY <1>1 DEF Customer!With
<1>2. CASE value # NoValue
  <2> DEFINE u == Customer!With(parts, text, value)
             k == Len(parts) + 1
             was(t) == {i \in DOMAIN parts : Customer!Reads(parts[i], t)}
             is(t) == {i \in DOMAIN u : Customer!Reads(u[i], t)}
  <2>1. /\ DOMAIN u = DOMAIN parts \cup {k} /\ k \notin DOMAIN parts
        /\ \A i \in DOMAIN parts : u[i] = parts[i]
        /\ u[k] = Field(text, value)
    <3>1. AddsLast(parts, Customer!With(parts, text, value), Field(text, value))
      BY <1>2, WithForm
    <3> QED
      BY <3>1 DEF AddsLast
  <2> HIDE DEF u, k
  <2>2. \A t : Customer!Reads(u[k], t) <=> t = text
    BY <2>1 DEF Customer!Reads, Customer!Part, Field, Named
  <2>3. \A t : t # text => is(t) = was(t)
    BY <2>1, <2>2
  <2>4. was(text) = {} => is(text) = {k}
    BY <2>1, <2>2
  <2>5. u[k].value = value
    BY <2>1 DEF Customer!Part, Field
  <2>6. name # text /\ Own(parts, name, stated) => Own(u, name, stated)
    <3> SUFFICES ASSUME name # text, Own(parts, name, stated) PROVE Own(u, name, stated)
      OBVIOUS
    <3>1. is(name) = was(name)
      BY <2>3
    <3>2. \A i \in was(name) : u[i] = parts[i]
      BY <2>1
    <3> QED
      BY <3>1, <3>2 DEF Own, Customer!ReadsOnly
  <2>7. Own(parts, text, NoValue) => Own(u, text, value)
    <3> SUFFICES ASSUME Own(parts, text, NoValue) PROVE Own(u, text, value)
      OBVIOUS
    <3>1. is(text) = {k}
      BY <2>4 DEF Own, Customer!ReadsOnly
    <3> QED
      BY <1>2, <2>5, <3>1 DEF Own, Customer!ReadsOnly
  <2> QED
    BY <2>6, <2>7 DEF u
<1> QED
  BY <1>1, <1>2

\* The parts of the options: each reads what is stated, and has a reserved name.
OptionParts(o) == {Field(text, value) : text \in Customer!ReservedNames, value \in {o.id, o.type, o.transaction, o.lang}}

LEMMA QueryIsOwn ==
    ASSUME NEW o
    PROVE  LET m == Customer!MetadataParts(o)
               q == Customer!QueryParts(o)
           IN  /\ m \in Seq(OptionParts(o)) /\ q \in Seq(OptionParts(o))
               /\ \A name \in Customer!ReservedNames : Own(q, name, Customer!Stated(o, name))
               /\ o.lang = NoValue =>
                     \A name \in Customer!ReservedNames : Own(m, name, Customer!Stated(o, name))
<1> DEFINE S == OptionParts(o)
           a == Customer!With(<<>>, "id", o.id)
           b == Customer!With(a, "type", o.type)
           m == Customer!With(b, "transaction_id", o.transaction)
           q == Customer!With(m, "lang", o.lang)
<1>1. m = Customer!MetadataParts(o) /\ q = Customer!QueryParts(o)
  BY DEF Customer!MetadataParts, Customer!QueryParts
<1>2. /\ Field("id", o.id) \in S /\ Field("type", o.type) \in S
      /\ Field("transaction_id", o.transaction) \in S /\ Field("lang", o.lang) \in S
  BY DEF OptionParts, Customer!ReservedNames
<1>3. <<>> \in Seq(S)
  OBVIOUS
<1> HIDE DEF S
<1>4. a \in Seq(S)
  BY <1>2, <1>3, WithForm
<1> HIDE DEF a
<1>5. b \in Seq(S)
  BY <1>2, <1>4, WithForm
<1> HIDE DEF b
<1>6. m \in Seq(S)
  BY <1>2, <1>5, WithForm
<1> HIDE DEF m
<1>7. q \in Seq(S)
  BY <1>2, <1>6, WithForm
<1> HIDE DEF q
<1>8. ASSUME NEW name \in Customer!ReservedNames
      PROVE  /\ Own(q, name, Customer!Stated(o, name))
             /\ o.lang = NoValue => Own(m, name, Customer!Stated(o, name))
  <2>0. Own(<<>>, name, NoValue)
    BY NothingIsRead
  <2>1. Own(a, name, IF name = "id" THEN o.id ELSE NoValue)
    BY <1>3, <2>0, WithReads DEF a
  <2>2. Own(b, name, IF name = "id" THEN o.id ELSE IF name = "type" THEN o.type ELSE NoValue)
    BY <1>4, <2>1, WithReads DEF b
  <2>3. Own(m, name, IF name = "id" THEN o.id ELSE IF name = "type" THEN o.type
                     ELSE IF name = "transaction_id" THEN o.transaction ELSE NoValue)
    BY <1>5, <2>2, WithReads DEF m
  <2>4. Own(q, name, IF name = "id" THEN o.id ELSE IF name = "type" THEN o.type
                     ELSE IF name = "transaction_id" THEN o.transaction
                     ELSE IF name = "lang" THEN o.lang ELSE NoValue)
    BY <1>6, <2>3, WithReads DEF q
  <2>5. Customer!Stated(o, name) =
           IF name = "id" THEN o.id ELSE IF name = "type" THEN o.type
           ELSE IF name = "transaction_id" THEN o.transaction
           ELSE IF name = "lang" THEN o.lang ELSE NoValue
    BY DEF Customer!Stated
  <2>6. o.lang = NoValue => Customer!Stated(o, name) =
           IF name = "id" THEN o.id ELSE IF name = "type" THEN o.type
           ELSE IF name = "transaction_id" THEN o.transaction ELSE NoValue
    BY <2>5
  <2> QED
    BY <2>3, <2>4, <2>5, <2>6
<1> QED
  BY <1>1, <1>6, <1>7, <1>8 DEF S

\* A list of a set's members, each once.
Listed(f, T) ==
    /\ f \in Seq(T)
    /\ \A i, j \in DOMAIN f : f[i] = f[j] => i = j
    /\ \A x \in T : \E i \in DOMAIN f : f[i] = x

\* What the library's SetToSeq makes of a finite set.
LEMMA SetAsSequence ==
    ASSUME NEW T, IsFiniteSet(T)
    PROVE  Listed(Customer!SetToSeq(T), T)
<1> DEFINE n == Cardinality(T)
           f == Customer!SetToSeq(T)
<1>1. n \in Nat /\ ExistsBijection(1..n, T)
  BY FS_CardinalityType
<1>2. PICK g \in Bijection(1..n, T) : TRUE
  BY <1>1 DEF ExistsBijection
<1>3. g \in [1..n -> T] /\ \A i, j \in 1..n : g[i] = g[j] => i = j
  BY <1>2 DEF Bijection, Injection, IsInjective
<1>4. Customer!Cardinality(T) = n
  BY DEF Customer!Cardinality, Cardinality
<1>5. Customer!IsInjective(g)
  BY <1>3 DEF Customer!IsInjective
<1>6. f = CHOOSE h : h \in [1..n -> T] /\ Customer!IsInjective(h)
  BY <1>4 DEF Customer!SetToSeq
<1> HIDE DEF f, n
<1>7. f \in [1..n -> T] /\ Customer!IsInjective(f)
  BY <1>3, <1>5, <1>6
<1>8. \A i, j \in 1..n : f[i] = f[j] => i = j
  BY <1>7 DEF Customer!IsInjective
<1>9. f \in Injection(1..n, T)
  BY <1>7, <1>8 DEF Injection, IsInjective
<1>10. IsFiniteSet(1..n) /\ Cardinality(1..n) = n
  BY <1>1, FS_Interval
<1>11. f \in Surjection(1..n, T)
  BY <1>9, <1>10, FS_Injection DEF n
<1>12. \A x \in T : \E i \in 1..n : f[i] = x
  BY <1>11 DEF Surjection
<1>13. f \in Seq(T) /\ DOMAIN f = 1..n
  BY <1>1, <1>7
<1> QED
  BY <1>8, <1>12, <1>13 DEF f, Listed

\* Parts under other names change nothing of what is read under a reserved one.
LEMMA OthersAreNotRead ==
    ASSUME NEW S, NEW parts \in Seq(S), NEW R, NEW more \in Seq(R), NEW name, NEW stated,
           \A x \in R : x.name.text # name, Own(parts, name, stated)
    PROVE  Own(parts \o more, name, stated)
<1> DEFINE u == parts \o more
           n == Len(parts)
           was == {i \in DOMAIN parts : Customer!Reads(parts[i], name)}
           is == {i \in DOMAIN u : Customer!Reads(u[i], name)}
           E == S \cup R
<1>1. parts \in Seq(E) /\ more \in Seq(E)
  OBVIOUS
<1> HIDE DEF E
<1>2. /\ n \in Nat /\ Len(more) \in Nat /\ DOMAIN parts = 1..n /\ DOMAIN u = 1..n + Len(more)
      /\ \A i \in 1..n : u[i] = parts[i]
      /\ \A i \in 1..n + Len(more) : i > n => i - n \in 1..Len(more) /\ u[i] = more[i - n]
  BY <1>1
<1>3. \A j \in 1..Len(more) : more[j] \in R
  OBVIOUS
<1> HIDE DEF u, n
<1>4. \A i \in DOMAIN u : i \notin DOMAIN parts => ~Customer!Reads(u[i], name)
  BY <1>2, <1>3 DEF Customer!Reads
<1>5. DOMAIN parts \subseteq DOMAIN u /\ \A i \in DOMAIN parts : u[i] = parts[i]
  BY <1>2
<1>6. is = was
  BY <1>4, <1>5
<1>7. \A i \in was : u[i] = parts[i]
  BY <1>5
<1> QED
  BY <1>6, <1>7 DEF Own, Customer!ReadsOnly, u

-----------------------------------------------------------------------------
CustomerInv == Customer!MetadataIsOwn /\ Customer!BodiesAgree

LEMMA CustomerInit == Customer!Init => CustomerInv
<1> SUFFICES ASSUME Customer!Init PROVE CustomerInv
  OBVIOUS
<1>1. /\ request.parts = <<>> /\ request.fields = {}
      /\ request.options = Customer!NoOptions
  BY DEF Customer!Init, Customer!NoRequest
<1>2. \A name \in Customer!ReservedNames : Customer!Stated(request.options, name) = NoValue
  BY <1>1 DEF Customer!Stated, Customer!NoOptions
<1>3. DOMAIN request.parts = {}
  BY <1>1
<1> QED
  BY <1>1, <1>2, <1>3 DEF CustomerInv, Customer!MetadataIsOwn, Customer!BodiesAgree, Customer!ReadsOnly

\* Parts that are read singly under reserved names have different names.
LEMMA OptionsDiffer ==
    ASSUME NEW o, NEW parts \in Seq(OptionParts(o)),
           \A name \in Customer!ReservedNames : Own(parts, name, Customer!Stated(o, name))
    PROVE  \A i, j \in DOMAIN parts : parts[i].name = parts[j].name => i = j
<1> SUFFICES ASSUME NEW i \in DOMAIN parts, NEW j \in DOMAIN parts, parts[i].name = parts[j].name
             PROVE  i = j
  OBVIOUS
<1>1. parts[i] \in OptionParts(o)
  OBVIOUS
<1>2. PICK text \in Customer!ReservedNames : parts[i].name.text = text
  BY <1>1 DEF OptionParts, Field, Named, Customer!Part
<1>3. Own(parts, text, Customer!Stated(o, text))
  BY <1>2
<1> DEFINE read == {k \in DOMAIN parts : Customer!Reads(parts[k], text)}
<1>4. i \in read /\ j \in read
  BY <1>2 DEF Customer!Reads
<1>5. \E k : read = {k}
  BY <1>3, <1>4 DEF Own, Customer!ReadsOnly
<1> QED
  BY <1>4, <1>5

LEMMA GetStep ==
    ASSUME NEW o, NEW status, NEW statuses, Customer!Get(o, status, statuses)
    PROVE  CustomerInv'
<1>1. /\ request'.parts = Customer!QueryParts(o) /\ request'.options = o /\ request'.fields = {}
  BY DEF Customer!Get
<1>2. /\ Customer!QueryParts(o) \in Seq(OptionParts(o))
      /\ \A name \in Customer!ReservedNames : Own(Customer!QueryParts(o), name, Customer!Stated(o, name))
  BY QueryIsOwn
<1>3. \A i, j \in DOMAIN request'.parts : request'.parts[i].name = request'.parts[j].name => i = j
  BY <1>1, <1>2, OptionsDiffer
<1>4. Customer!MetadataIsOwn'
  BY <1>1, <1>2 DEF Customer!MetadataIsOwn, Own
<1>5. Customer!BodiesAgree'
  BY <1>1, <1>3 DEF Customer!BodiesAgree
<1> QED
  BY <1>4, <1>5 DEF CustomerInv

\* Where an index of three lists in a row is.
Joined(u, a, b, c) ==
    /\ DOMAIN u \subseteq Nat /\ Len(a) \in Nat /\ Len(b) \in Nat
    /\ \A i \in DOMAIN u :
          \/ i \in DOMAIN a /\ u[i] = a[i]
          \/ i - Len(a) \in DOMAIN b /\ u[i] = b[i - Len(a)]
          \/ i - Len(a) - Len(b) \in DOMAIN c /\ u[i] = c[i - Len(a) - Len(b)]
    /\ \A j \in DOMAIN b : Len(a) + j \in DOMAIN u /\ u[Len(a) + j] = b[j]
    /\ \A j \in DOMAIN c : Len(a) + Len(b) + j \in DOMAIN u /\ u[Len(a) + Len(b) + j] = c[j]

LEMMA ThreeInARow ==
    ASSUME NEW S, NEW a \in Seq(S), NEW b \in Seq(S), NEW c \in Seq(S)
    PROVE  Joined(a \o b \o c, a, b, c)
<1> DEFINE ab == a \o b
           u == ab \o c
<1>1. /\ Len(a) \in Nat /\ Len(b) \in Nat /\ Len(c) \in Nat
      /\ DOMAIN a = 1..Len(a) /\ DOMAIN b = 1..Len(b) /\ DOMAIN c = 1..Len(c)
  OBVIOUS
<1>2. /\ ab \in Seq(S) /\ Len(ab) = Len(a) + Len(b)
      /\ \A i \in 1..Len(a) + Len(b) : ab[i] = IF i <= Len(a) THEN a[i] ELSE b[i - Len(a)]
  BY <1>1
<1> HIDE DEF ab
<1>3. /\ DOMAIN u = 1..Len(ab) + Len(c)
      /\ \A i \in 1..Len(ab) + Len(c) : u[i] = IF i <= Len(ab) THEN ab[i] ELSE c[i - Len(ab)]
  <2>1. ab \in Seq(S) /\ c \in Seq(S)
    BY <1>2
  <2> QED
    BY ONLY <2>1
<1> HIDE DEF u
<1>4. ASSUME NEW i \in DOMAIN u
      PROVE  \/ i \in DOMAIN a /\ u[i] = a[i]
             \/ i - Len(a) \in DOMAIN b /\ u[i] = b[i - Len(a)]
             \/ i - Len(a) - Len(b) \in DOMAIN c /\ u[i] = c[i - Len(a) - Len(b)]
  <2>1. i \in 1..Len(a) + Len(b) + Len(c)
    BY <1>2, <1>3
  <2>2. CASE i <= Len(a)
    BY <1>1, <1>2, <1>3, <2>1, <2>2
  <2>3. CASE i > Len(a) /\ i <= Len(a) + Len(b)
    BY <1>1, <1>2, <1>3, <2>1, <2>3
  <2>4. CASE i > Len(a) + Len(b)
    <3>1. u[i] = c[i - Len(ab)] /\ i - Len(ab) = i - Len(a) - Len(b)
      BY <1>1, <1>2, <1>3, <2>1, <2>4
    <3> QED
      BY <1>1, <2>1, <2>4, <3>1
  <2> QED
    BY <1>1, <2>1, <2>2, <2>3, <2>4
<1>5. ASSUME NEW j \in DOMAIN b PROVE Len(a) + j \in DOMAIN u /\ u[Len(a) + j] = b[j]
  <2>1. Len(a) + j \in 1..Len(a) + Len(b) /\ Len(a) + j \in 1..Len(ab) + Len(c) /\ (Len(a) + j) - Len(a) = j
        /\ ~(Len(a) + j <= Len(a)) /\ Len(a) + j <= Len(ab)
    BY <1>1, <1>2
  <2>2. u[Len(a) + j] = ab[Len(a) + j]
    BY <1>3, <2>1
  <2>3. ab[Len(a) + j] = b[(Len(a) + j) - Len(a)]
    BY <1>2, <2>1
  <2> QED
    BY <1>3, <2>1, <2>2, <2>3
<1>6. ASSUME NEW j \in DOMAIN c PROVE Len(a) + Len(b) + j \in DOMAIN u /\ u[Len(a) + Len(b) + j] = c[j]
  <2>1. Len(a) + Len(b) + j \in 1..Len(ab) + Len(c) /\ (Len(a) + Len(b) + j) - Len(ab) = j
        /\ ~(Len(a) + Len(b) + j <= Len(ab))
    BY <1>1, <1>2
  <2>2. u[Len(a) + Len(b) + j] = c[(Len(a) + Len(b) + j) - Len(ab)]
    BY <1>3, <2>1
  <2> QED
    BY <1>3, <2>1, <2>2
<1> QED
  <2>1. DOMAIN u \subseteq Nat
    BY <1>1, <1>2, <1>3
  <2>2. Joined(u, a, b, c)
    BY <1>1, <1>4, <1>5, <1>6, <2>1 DEF Joined
  <2> QED
    BY <2>2 DEF u, ab

\* The parts of the text fields and of the files.
TextParts(fields) == {Customer!Part(n, fields[n], FALSE) : n \in DOMAIN fields}

LEMMA TextsAreFinite ==
    ASSUME NEW fields, IsFiniteSet(DOMAIN fields)
    PROVE  IsFiniteSet(TextParts(fields))
<1> DEFINE f == [n \in DOMAIN fields |-> Customer!Part(n, fields[n], FALSE)]
<1>1. f \in Surjection(DOMAIN fields, TextParts(fields))
  BY DEF Surjection, TextParts
<1> QED
  BY <1>1, FS_Surjection

LEMMA PutStep ==
    ASSUME NEW o, NEW names \in SUBSET Names, NEW fields \in [names -> Values],
           NEW count \in Nat, NEW files \in [1..count -> Names], Customer!Put(o, fields, files)
    PROVE  CustomerInv'
<1> DEFINE m == Customer!MetadataParts(o)
           t == Customer!FieldParts(fields)
           b == Customer!FileParts(files)
           T == TextParts(fields)
           B == {Customer!Part(n, "file", TRUE) : n \in {files[i] : i \in DOMAIN files}}
           M == OptionParts(o)
           E == M \cup T \cup B
           u == m \o t \o b
<1>1. /\ Customer!ValidUpdate(o, fields, files)
      /\ request'.parts = u /\ request'.options = o
      /\ request'.fields = DOMAIN fields \cup {files[i] : i \in DOMAIN files}
      /\ request'.form = (files # <<>>)
  BY DEF Customer!Put
<1>2. /\ o.lang = NoValue
      /\ \A n \in DOMAIN fields : n.text \notin Customer!ReservedNames
      /\ \A i \in DOMAIN files : files[i].text \notin Customer!ReservedNames /\ files[i] \notin DOMAIN fields
  BY <1>1 DEF Customer!ValidUpdate, Customer!ValidName
<1>3. /\ m \in Seq(M)
      /\ \A name \in Customer!ReservedNames : Own(m, name, Customer!Stated(o, name))
  BY <1>2, QueryIsOwn
<1>4. IsFiniteSet(T)
  <2>1. IsFiniteSet(Names)
    BY CustomerAssumption DEF Customer!CustomerAssumption, Customer!IsFiniteSet, IsFiniteSet
  <2>2. DOMAIN fields \in SUBSET Names
    OBVIOUS
  <2>3. IsFiniteSet(DOMAIN fields)
    BY <2>1, <2>2, FS_Subset
  <2> QED
    BY <2>3, TextsAreFinite
<1>5. /\ t \in Seq(T)
      /\ \A i, j \in DOMAIN t : t[i] = t[j] => i = j
      /\ \A x \in T : \E i \in DOMAIN t : t[i] = x
  <2>1. t = Customer!SetToSeq(T)
    BY DEF Customer!FieldParts, TextParts
  <2> HIDE DEF t, T
  <2>2. Listed(Customer!SetToSeq(T), T)
    BY <1>4, SetAsSequence
  <2> QED
    BY <2>1, <2>2 DEF Listed
<1>6. b \in Seq(B) /\ DOMAIN b = DOMAIN files /\ \A i \in DOMAIN files : b[i] = Customer!Part(files[i], "file", TRUE)
  <2>1. b = [i \in DOMAIN files |-> Customer!Part(files[i], "file", TRUE)]
    BY DEF Customer!FileParts
  <2>2. DOMAIN files = 1..count
    OBVIOUS
  <2>3. \A i \in DOMAIN files : Customer!Part(files[i], "file", TRUE) \in B
    OBVIOUS
  <2> HIDE DEF b, B
  <2>4. b \in [1..count -> B]
    BY <2>1, <2>2, <2>3
  <2>5. b \in Seq(B)
    BY ONLY <2>4, count \in Nat
  <2>6. DOMAIN b = DOMAIN files /\ \A i \in DOMAIN files : b[i] = Customer!Part(files[i], "file", TRUE)
    BY ONLY <2>1
  <2> QED
    BY ONLY <2>5, <2>6
<1>7. \A x \in M : x.name.text \in Customer!ReservedNames /\ ~x.binary
  BY DEF OptionParts, Field, Named, Customer!Part
<1>8. \A x \in T : x.name.text \notin Customer!ReservedNames /\ x.name \in DOMAIN fields /\ x = Customer!Part(x.name, fields[x.name], FALSE)
  <2> SUFFICES ASSUME NEW n \in DOMAIN fields, NEW x, x = Customer!Part(n, fields[n], FALSE)
               PROVE  /\ x.name.text \notin Customer!ReservedNames /\ x.name \in DOMAIN fields
                      /\ x = Customer!Part(x.name, fields[x.name], FALSE)
    BY DEF TextParts
  <2>1. x.name = n
    BY DEF Customer!Part
  <2> QED
    BY <1>2, <2>1
<1>9. \A x \in B : x.name.text \notin Customer!ReservedNames /\ x.name \notin DOMAIN fields /\ x.binary
  BY <1>2 DEF Customer!Part
<1> HIDE DEF m, t, b, T, B, M
<1>10. m \in Seq(E) /\ t \in Seq(E) /\ b \in Seq(E)
  <2>1. M \subseteq E /\ T \subseteq E /\ B \subseteq E
    OBVIOUS
  <2> HIDE DEF E
  <2>2. \A X, Y, s : X \subseteq Y /\ s \in Seq(X) => s \in Seq(Y)
    OBVIOUS
  <2> QED
    BY <1>3, <1>5, <1>6, <2>1, <2>2
<1> HIDE DEF E
<1>11. Customer!MetadataIsOwn'
  <2>1. ASSUME NEW name \in Customer!ReservedNames PROVE Own(u, name, Customer!Stated(o, name))
    <3>1. Own(m \o t, name, Customer!Stated(o, name))
      <4>1. \A x \in T : x.name.text # name
        BY <1>8
      <4>2. t \in Seq(T) /\ m \in Seq(M) /\ Own(m, name, Customer!Stated(o, name))
        BY <1>3, <1>5
      <4> QED
        BY ONLY <4>1, <4>2, OthersAreNotRead
    <3>2. m \o t \in Seq(E)
      BY <1>10
    <3> QED
      BY <1>6, <1>9, <3>1, <3>2, OthersAreNotRead
  <2> QED
    BY <1>1, <2>1 DEF Customer!MetadataIsOwn, Own
<1>12. /\ DOMAIN u \subseteq Nat /\ Len(m) \in Nat /\ Len(t) \in Nat
       /\ \A i \in DOMAIN u :
             \/ i \in DOMAIN m /\ u[i] = m[i]
             \/ i - Len(m) \in DOMAIN t /\ u[i] = t[i - Len(m)]
             \/ i - Len(m) - Len(t) \in DOMAIN b /\ u[i] = b[i - Len(m) - Len(t)]
       /\ \A j \in DOMAIN t : Len(m) + j \in DOMAIN u /\ u[Len(m) + j] = t[j]
       /\ \A j \in DOMAIN b : Len(m) + Len(t) + j \in DOMAIN u /\ u[Len(m) + Len(t) + j] = b[j]
  <2>1. Joined(u, m, t, b)
    BY <1>10, ThreeInARow
  <2> HIDE DEF u
  <2> QED
    BY <2>1 DEF Joined
<1>13. /\ \A i \in DOMAIN m : m[i] \in M
       /\ \A i \in DOMAIN t : t[i] \in T
       /\ \A i \in DOMAIN b : b[i] \in B
  BY <1>3, <1>5, <1>6
<1> HIDE DEF u
<1>14. ASSUME NEW i \in DOMAIN u, NEW j \in DOMAIN u, i # j, u[i].name = u[j].name
       PROVE  files # <<>> /\ u[i].binary /\ u[j].binary
  <2>1. i \in Nat /\ j \in Nat
    BY <1>12
  <2>2. CASE i \in DOMAIN m /\ u[i] = m[i]
    <3>1. u[i].name.text \in Customer!ReservedNames
      BY <1>7, <1>13, <2>2
    <3>2. j \in DOMAIN m /\ u[j] = m[j]
      BY <1>8, <1>9, <1>12, <1>13, <1>14, <3>1
    <3>3. m \in Seq(OptionParts(o))
      BY <1>3 DEF M
    <3> QED
      BY <1>3, <1>14, <2>2, <3>2, <3>3, OptionsDiffer
  <2>3. CASE i - Len(m) \in DOMAIN t /\ u[i] = t[i - Len(m)]
    <3>1. u[i] \in T /\ u[i].name.text \notin Customer!ReservedNames /\ u[i].name \in DOMAIN fields
      BY <1>8, <1>13, <2>3
    <3>2. j - Len(m) \in DOMAIN t /\ u[j] = t[j - Len(m)]
      BY <1>7, <1>9, <1>12, <1>13, <1>14, <3>1
    <3>3. u[j] \in T
      BY <1>13, <3>2
    <3>4. u[i] = u[j]
      BY <1>8, <1>14, <3>1, <3>3
    <3>5. i - Len(m) = j - Len(m)
      BY <1>5, <2>3, <3>2, <3>4
    <3> QED
      BY <1>12, <1>14, <2>1, <3>5
  <2>4. CASE i - Len(m) - Len(t) \in DOMAIN b /\ u[i] = b[i - Len(m) - Len(t)]
    <3>1. u[i] \in B /\ u[i].binary /\ u[i].name.text \notin Customer!ReservedNames /\ u[i].name \notin DOMAIN fields
      BY <1>9, <1>13, <2>4
    <3>2. u[j].binary
      BY <1>7, <1>8, <1>9, <1>12, <1>13, <1>14, <3>1
    <3>3. DOMAIN files # {}
      BY <1>6, <2>4
    <3>4. files # <<>>
      BY <3>3
    <3> QED
      BY <3>1, <3>2, <3>4
  <2> QED
    BY <1>12, <2>2, <2>3, <2>4
<1>15. ASSUME NEW n \in request'.fields PROVE \E i \in DOMAIN u : u[i].name = n
  <2>1. CASE n \in DOMAIN fields
    <3> DEFINE x == Customer!Part(n, fields[n], FALSE)
    <3>1. x \in T /\ x.name = n
      BY <2>1 DEF T, TextParts, Customer!Part
    <3>2. PICK i \in DOMAIN t : t[i] = x
      BY <1>5, <3>1
    <3> HIDE DEF x
    <3> QED
      BY <1>12, <3>1, <3>2
  <2>2. CASE n \notin DOMAIN fields
    <3>1. PICK i \in DOMAIN files : n = files[i]
      BY <1>1, <2>2
    <3>2. b[i].name = n /\ i \in DOMAIN b
      BY <1>6, <3>1 DEF Customer!Part
    <3> QED
      BY <1>12, <3>2
  <2> QED
    BY <2>1, <2>2
<1>16. Customer!BodiesAgree'
  BY <1>1, <1>14, <1>15 DEF Customer!BodiesAgree
<1> QED
  BY <1>11, <1>16 DEF CustomerInv

LEMMA CustomerStep == CustomerInv /\ [Customer!Next]_customerVars => CustomerInv'
<1> SUFFICES ASSUME CustomerInv, [Customer!Next]_customerVars PROVE CustomerInv'
  OBVIOUS
<1>1. CASE Customer!Next
  <2>1. CASE \E o \in Options, status \in {"ACCEPTED", "PROCESSING", "NEEDS_INFO", "REJECTED", "OTHER"},
               statuses \in SUBSET {"ACCEPTED", "VERIFICATION_REQUIRED", "unknown"} :
               Customer!Get(o, status, statuses)
    BY <2>1, GetStep
  <2>2. CASE \E o \in Options, names \in {S \in SUBSET Names : Customer!Cardinality(S) <= MaxFields},
               count \in 0..MaxFields :
               \E fields \in [names -> Values], files \in [1..count -> Names] : Customer!Put(o, fields, files)
    <3>1. PICK o \in Options, names \in SUBSET Names, count \in 0..MaxFields :
            \E fields \in [names -> Values], files \in [1..count -> Names] : Customer!Put(o, fields, files)
      BY <2>2
    <3>2. PICK fields \in [names -> Values], files \in [1..count -> Names] : Customer!Put(o, fields, files)
      BY <3>1
    <3>3. count \in Nat
      OBVIOUS
    <3> QED
      BY <3>2, <3>3, PutStep
  <2> QED
    BY <1>1, <2>1, <2>2 DEF Customer!Next
<1>2. CASE UNCHANGED customerVars
  BY <1>2 DEF customerVars, CustomerInv, Customer!MetadataIsOwn, Customer!BodiesAgree
<1> QED
  BY <1>1, <1>2

\* The server reads the metadata of the dedicated options and nothing else, and the JSON body and
\* the form of an update say the same (anchor.rs put_anchor_customer, get_anchor_customer): for
\* any options, languages, names, values and any number of fields and files.
THEOREM CustomersAreRead == MCSpec => []CustomerIsRead
<1>1. MCInit => CustomerInv
  BY CustomerInit DEF MCInit
<1>2. CustomerInv /\ [MCNext]_allVars => CustomerInv'
  <2>1. [MCNext]_allVars => [Customer!Next]_customerVars
    BY DEF MCNext, allVars
  <2> QED
    BY <2>1, CustomerStep
<1>3. CustomerInv => CustomerIsRead
  BY DEF CustomerInv, CustomerIsRead
<1> QED
  BY <1>1, <1>2, <1>3, PTL DEF MCSpec

\* Both parts at once: what an anchor is told is what was chosen (anchor_protocol.rs, anchor.rs).
THEOREM AnchorsAreUnderstood == MCSpec => []AnchorIsUnderstood
<1>1. TransferIsDetermined /\ CustomerIsRead => AnchorIsUnderstood
  BY DEF AnchorIsUnderstood
<1> QED
  BY <1>1, TransfersAreDetermined, CustomersAreRead, PTL
=============================================================================
