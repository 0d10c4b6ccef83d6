--------------------- MODULE SigningCoordinationProofs ---------------------
(***************************************************************************)
(* For any accounts, keys, weights, thresholds, custody and ledger         *)
(* changes: the coordination is well typed, never prompts a provider in a  *)
(* call that a local record refuses, never adds a signature the network    *)
(* would not consume, gives up only when all the keys at hand would not    *)
(* do, keeps what the review promised, and what it signs is what the       *)
(* network, or the anchor, accepts.                                        *)
(***************************************************************************)
EXTENDS SigningCoordination, FiniteSetTheorems, TLAPS

LEMMA SourcesAreAccounts ==
    ASSUME envelope \in Envelopes
    PROVE  /\ envelope.sources \in Seq(Accounts)
           /\ envelope.sources /= <<>>
           /\ Sources \subseteq Accounts
           /\ envelope.extras \subseteq Conditions
           /\ envelope.signed \subseteq Conditions
  BY EnvelopesAssumption DEF EnvelopeType, Sources, Range

LEMMA AllSourcesLoaded ==
    ASSUME TypeOK, Loaded
    PROVE  \A a \in Sources : plan[a] \in AccountAuthorization
  BY SourcesAreAccounts DEF TypeOK, Loaded

LEMMA RecognisedAreConditions ==
    ASSUME envelope \in Envelopes, NEW auth, NEW S,
           \A a \in Sources : auth[a] \in AccountAuthorization
    PROVE  Recognised(auth, S) \subseteq Conditions
  BY SourcesAreAccounts DEF Recognised, PlanConditions, AccountAuthorization

\* A selected key is an Ed25519 key that no one satisfied yet.
LEMMA SelectionTakesKeys ==
    ASSUME NEW k, SelectExtra(k) \/ SelectSigner(k) \/ SelectProof(k)
    PROVE  k \in Keys /\ Take(k) /\ pc = "select"
  BY DEF SelectExtra, SelectSigner, SelectProof, Candidates, BestSigners, BestProofs,
         AtRequirement, AtMinimum

LEMMA TypeInit == Init => TypeOK
<1> SUFFICES ASSUME Init PROVE TypeOK OBVIOUS
<1>1. MaxChanges \in Nat BY ConditionsAssumption
<1>2. review.made \in BOOLEAN /\ review.promised \in BOOLEAN BY DEF Init, NoReview
<1> QED BY LedgersAssumption, <1>1, <1>2 DEF Init, TypeOK, Pcs

\* Nothing but the pc of a call changes.
Control(p) ==
    /\ pc' = p
    /\ UNCHANGED <<ledger, changes, envelope, local, review, request, callVars>>

LEMMA ControlType ==
    ASSUME TypeOK, NEW p \in Pcs, Control(p),
           p \in {"select", "sign", "done", "unsatisfiable"} =>
               \A a \in Sources : plan[a] \in AccountAuthorization
    PROVE  TypeOK'
  BY DEF TypeOK, Control, callVars, Sources

LEMMA TakeType ==
    ASSUME TypeOK, NEW k \in Keys, Take(k)
    PROVE  TypeOK'
  BY DEF TypeOK, Take, Sources, Conditions

THEOREM TypeStep == TypeOK /\ [Next]_vars => TypeOK'
<1> SUFFICES ASSUME TypeOK, [Next]_vars PROVE TypeOK' OBVIOUS
<1> USE DEF Pcs
<1>0. CASE UNCHANGED vars BY <1>0 DEF vars, TypeOK, Sources
<1>1. CASE Review
  <2>1. \A auth, S : Satisfiable(auth, S) \in BOOLEAN BY Zenon DEF Satisfiable
  <2>2. review'.made \in BOOLEAN /\ review'.promised \in BOOLEAN BY <1>1, <2>1 DEF Review
  <2> QED BY <1>1, <2>2 DEF Review, TypeOK, callVars, Sources
<1>2. CASE Start BY <1>2, ControlType DEF Start, Control
<1>3. ASSUME NEW a \in Accounts, LoadAccount(a) PROVE TypeOK'
  <2>1. ledger[a] \in AccountAuthorization BY DEF TypeOK
  <2> QED BY <1>3, <2>1 DEF LoadAccount, TypeOK, Sources
<1>4. CASE LoadFails BY <1>4, ControlType DEF LoadFails, Control
<1>5. CASE Recognise
  <2>1. \A a \in Sources : plan[a] \in AccountAuthorization
    BY <1>5, AllSourcesLoaded DEF Recognise
  <2>2. Recognised(plan, {}) \subseteq Conditions
    BY <2>1, RecognisedAreConditions DEF TypeOK
  <2> QED BY <1>5, <2>1, <2>2, SourcesAreAccounts DEF Recognise, TypeOK, Sources
<1>6. CASE ProvidersRefused BY <1>6, ControlType DEF ProvidersRefused, Control
<1>7. ASSUME NEW k \in Keys, SelectExtra(k) \/ SelectSigner(k) \/ SelectProof(k)
      PROVE  TypeOK'
  BY <1>7, SelectionTakesKeys, TakeType
<1>8. CASE ExtraUnavailable \/ RequirementUnmet \/ ProofUnavailable
  <2>1. pc = "select" /\ Control("unsatisfiable")
    BY <1>8 DEF ExtraUnavailable, RequirementUnmet, ProofUnavailable, AtRequirement,
                AtMinimum, Unsatisfiable, Control
  <2> QED BY <2>1, ControlType DEF TypeOK
<1>9. CASE RequirementMet
  <2>1. Tail(requirements) \in Seq(Accounts)
    BY <1>9 DEF RequirementMet, AtRequirement, TypeOK
  <2> QED BY <1>9, <2>1 DEF RequirementMet, TypeOK, Sources
<1>10. CASE Selected
  <2>1. pc = "select" /\ Control("sign") BY <1>10 DEF Selected, AtMinimum, Control
  <2> QED BY <2>1, ControlType DEF TypeOK
<1>11. CASE PasscodeRefused BY <1>11, ControlType DEF PasscodeRefused, Control
<1>12. CASE SignNext
  <2>1. NextKey \in Keys BY <1>12 DEF SignNext, Signing, NextKey, TypeOK
  <2> QED BY <1>12, <2>1 DEF SignNext, TypeOK, Sources
<1>13. CASE SignFails BY <1>13, ControlType DEF SignFails, Control
<1>14. CASE Verify
  <2>1. CASE Authorized
    <3>1. pc = "sign" /\ Control("done") BY <1>14, <2>1 DEF Verify, Control
    <3> QED BY <3>1, ControlType DEF TypeOK
  <2>2. CASE ~Authorized
    <3>1. Control("refused") BY <1>14, <2>2 DEF Verify, Control
    <3> QED BY <3>1, ControlType
  <2> QED BY <2>1, <2>2
<1>15. CASE Again BY <1>15 DEF Again, TypeOK
<1>16. CASE ChangeLedger
  BY <1>16, ConditionsAssumption, LedgersAssumption DEF ChangeLedger, TypeOK, callVars, Sources
<1> QED
  BY <1>0, <1>1, <1>2, <1>3, <1>4, <1>5, <1>6, <1>7, <1>8, <1>9, <1>10, <1>11, <1>12,
     <1>13, <1>14, <1>15, <1>16 DEF Next, Load, Select, Sign

\* Every reachable state is well typed.
THEOREM CoordinationTypeCorrect == Spec => []TypeOK
  BY TypeInit, TypeStep, PTL DEF Spec

-----------------------------------------------------------------------------
(***************************************************************************)
(* Why a signature counts: its key was selected while the conditions       *)
(* selected before it left an extra signer or a source account short, and  *)
(* the keys sign in the order they were selected.                          *)
(***************************************************************************)

Chosen(i) == Recognised(plan, {}) \union {selected[j] : j \in 1..(i - 1)}

\* The i-th selected key was needed when it was selected.
Needed(i) ==
    \/ selected[i] \in envelope.extras
    \/ \E a \in Sources :
         /\ selected[i] \in plan[a].signers
         /\ AvailableWeight(plan, a, Chosen(i)) < Required(plan, a)

\* The added signatures are the first selected keys.
OrderInv ==
    /\ Len(added) <= Len(selected)
    /\ \A i \in 1..Len(added) : added[i] = selected[i]
    /\ pc \in {"prepared", "reviewed", "load"} => selected = <<>>
    /\ pc \in {"prepared", "reviewed", "load", "select"} => added = <<>>

SelectionInv ==
    /\ pc = "select" => current = Chosen(Len(selected) + 1)
    /\ \A i \in 1..Len(requirements) : requirements[i] \in Sources
    /\ ~ForChallenge => \A i \in 1..Len(selected) : Needed(i)

PasscodeInv ==
    request.path = "providers" /\ (pc \in {"sign", "done"} \/ added /= <<>>) =>
        PasscodeSigners \subseteq request.opens

CoordinationInv == TypeOK /\ OrderInv /\ SelectionInv /\ PasscodeInv

LEMMA CoordinationInit == Init => CoordinationInv
  BY TypeInit DEF Init, CoordinationInv, OrderInv, SelectionInv, PasscodeInv

\* Sources, recognised conditions and weights depend on envelope and plan only.
LEMMA PlanFrame ==
    ASSUME envelope' = envelope, plan' = plan
    PROVE  /\ Sources' = Sources
           /\ (ForChallenge <=> ForChallenge')
           /\ Recognised(plan, {})' = Recognised(plan, {})
           /\ \A a, S : /\ AvailableWeight(plan, a, S)' = AvailableWeight(plan, a, S)
                        /\ Required(plan, a)' = Required(plan, a)
<1>1. Sources' = Sources /\ (ForChallenge <=> ForChallenge') /\ Excluded' = Excluded
  BY DEF Sources, ForChallenge, Excluded
<1>2. PlanConditions(plan)' = PlanConditions(plan) BY <1>1 DEF PlanConditions
<1>3. Recognised(plan, {})' = Recognised(plan, {}) BY <1>1, <1>2 DEF Recognised
<1>4. \A a, S : AvailableWeight(plan, a, S)' = AvailableWeight(plan, a, S)
  BY DEF AvailableWeight
<1>5. \A a : Required(plan, a)' = Required(plan, a) BY <1>1 DEF Required, ForChallenge
<1> QED BY <1>1, <1>3, <1>4, <1>5

\* The reasons of a selection depend on envelope, plan and selected keys.
LEMMA CallFrame ==
    ASSUME envelope' = envelope, plan' = plan, selected' = selected
    PROVE  /\ Sources' = Sources
           /\ (ForChallenge <=> ForChallenge')
           /\ \A i : Chosen(i)' = Chosen(i)
           /\ \A i : Needed(i) => Needed(i)'
<1>1. \A i : Chosen(i)' = Chosen(i) BY PlanFrame DEF Chosen
<1>2. ASSUME NEW i, Needed(i) PROVE Needed(i)'
  <2>1. CASE selected[i] \in envelope.extras BY <2>1 DEF Needed
  <2>2. ASSUME NEW a \in Sources, selected[i] \in plan[a].signers,
               AvailableWeight(plan, a, Chosen(i)) < Required(plan, a)
        PROVE  Needed(i)'
    <3>1. AvailableWeight(plan, a, Chosen(i))' = AvailableWeight(plan, a, Chosen(i))
      BY <1>1 DEF AvailableWeight
    <3> QED BY <2>2, <3>1, PlanFrame DEF Needed
  <2> QED BY <1>2, <2>1, <2>2 DEF Needed
<1> QED BY <1>1, <1>2, PlanFrame

\* What an action that leaves the call's data alone must establish.
LEMMA ControlKeepsInv ==
    ASSUME CoordinationInv, TypeOK', NEW p, Control(p),
           p \in {"prepared", "reviewed", "load", "select"} =>
               pc \in {"prepared", "reviewed", "load"} /\ p /= "select",
           p \in {"sign", "done"} /\ request.path = "providers" =>
               PasscodeSigners \subseteq request.opens
    PROVE  CoordinationInv'
<1>1. /\ \A i : Needed(i) => Needed(i)'
      /\ Sources' = Sources /\ (ForChallenge <=> ForChallenge')
  BY CallFrame DEF Control, callVars
<1>2. OrderInv' BY DEF CoordinationInv, OrderInv, Control, callVars
<1>3. SelectionInv' BY <1>1 DEF CoordinationInv, SelectionInv, Control, callVars
<1>4. PasscodeInv'
  BY DEF CoordinationInv, OrderInv, PasscodeInv, Control, callVars, PasscodeSigners
<1> QED BY <1>2, <1>3, <1>4 DEF CoordinationInv

\* Selecting a key that is needed keeps the reasons of the earlier ones.
LEMMA TakeKeepsInv ==
    ASSUME CoordinationInv, TypeOK', NEW k \in Keys, Take(k), pc = "select",
           ~ForChallenge =>
             \/ k \in envelope.extras
             \/ \E a \in Sources :
                  /\ k \in plan[a].signers
                  /\ AvailableWeight(plan, a, current) < Required(plan, a)
    PROVE  CoordinationInv'
<1> PICK n \in Nat : n = Len(selected) BY DEF CoordinationInv, TypeOK
<1>1. /\ n \in Nat /\ Len(selected') = n + 1 /\ selected'[n + 1] = k
      /\ \A i \in 1..n : selected'[i] = selected[i]
  BY DEF CoordinationInv, TypeOK, Take
<1>2. /\ added' = <<>> /\ added = <<>> /\ pc' = "select"
      /\ current = Chosen(n + 1) /\ current' = current \union {k}
  BY DEF CoordinationInv, OrderInv, SelectionInv, Take
<1>3. /\ Recognised(plan, {})' = Recognised(plan, {}) /\ Sources' = Sources
      /\ plan' = plan /\ envelope' = envelope
      /\ (ForChallenge <=> ForChallenge')
      /\ \A a, S : /\ AvailableWeight(plan, a, S)' = AvailableWeight(plan, a, S)
                   /\ Required(plan, a)' = Required(plan, a)
  BY PlanFrame DEF Take
<1>4. \A i \in 1..(n + 1) : Chosen(i)' = Chosen(i)
  <2> SUFFICES ASSUME NEW i \in 1..(n + 1) PROVE Chosen(i)' = Chosen(i) OBVIOUS
  <2>1. \A j \in 1..(i - 1) : selected'[j] = selected[j] BY <1>1
  <2> QED BY <2>1, <1>3 DEF Chosen
<1>5. OrderInv'
  BY <1>1, <1>2
     DEF OrderInv
<1>6. SelectionInv'
  <2>1. Chosen(n + 2)' = current \union {k}
    <3>1. {selected'[j] : j \in 1..(n + 1)} = {selected[j] : j \in 1..n} \union {k}
      BY <1>1
    <3>2. (n + 2) - 1 = n + 1 /\ (n + 1) - 1 = n BY <1>1
    <3>3. Chosen(n + 2)' = Recognised(plan, {}) \union {selected'[j] : j \in 1..(n + 1)}
      BY <3>2, <1>3 DEF Chosen
    <3>4. Chosen(n + 1) = Recognised(plan, {}) \union {selected[j] : j \in 1..n}
      BY <3>2 DEF Chosen
    <3> QED BY <3>1, <3>3, <3>4, <1>2
  <2>0. \A a : \A i \in 1..(n + 1) :
          AvailableWeight(plan, a, Chosen(i))' = AvailableWeight(plan, a, Chosen(i))
    BY <1>3, <1>4 DEF AvailableWeight
  <2>2. ASSUME ~ForChallenge, NEW i \in 1..n PROVE Needed(i)'
    <3>1. Needed(i) /\ i \in 1..(n + 1) BY <2>2, <1>1 DEF CoordinationInv, SelectionInv
    <3> QED BY <2>0, <2>2, <3>1, <1>1, <1>3 DEF Needed
  <2>3. ASSUME ~ForChallenge PROVE Needed(n + 1)'
    <3>1. n + 1 \in 1..(n + 1) BY <1>1
    <3>2. CASE k \in envelope.extras BY <3>2, <1>1, <1>3 DEF Needed
    <3>3. ASSUME NEW a \in Sources, k \in plan[a].signers,
                 AvailableWeight(plan, a, current) < Required(plan, a)
          PROVE  Needed(n + 1)'
      <4>1. AvailableWeight(plan, a, Chosen(n + 1))' < Required(plan, a)'
        BY <2>0, <3>1, <3>3, <1>2, <1>3
      <4> QED BY <3>3, <4>1, <1>1, <1>3 DEF Needed
    <3> QED BY <2>3, <3>2, <3>3
  <2>4. \A i \in 1..Len(requirements)' : requirements'[i] \in Sources'
    BY <1>3 DEF CoordinationInv, SelectionInv, Take
  <2>5. \A i \in 1..(n + 1) : i \in 1..n \/ i = n + 1 BY <1>1
  <2>6. current' = Chosen(Len(selected) + 1)'
    <3>1. Len(selected') + 1 = n + 2 BY <1>1
    <3> QED BY <3>1, <2>1, <1>2
  <2>7. ~ForChallenge' => \A i \in 1..Len(selected') : Needed(i)'
    BY <1>1, <1>3, <2>2, <2>3, <2>5
  <2> QED BY <2>4, <2>6, <2>7 DEF SelectionInv
<1>7. PasscodeInv' BY <1>2 DEF PasscodeInv
<1> QED BY <1>5, <1>6, <1>7 DEF CoordinationInv

THEOREM CoordinationStep == CoordinationInv /\ [Next]_vars => CoordinationInv'
<1> SUFFICES ASSUME CoordinationInv, [Next]_vars PROVE CoordinationInv' OBVIOUS
<1>t. TypeOK /\ TypeOK' BY TypeStep DEF CoordinationInv
<1> USE <1>t
<1>0. CASE UNCHANGED vars
  <2>1. /\ \A i : Needed(i) => Needed(i)'
        /\ \A i : Chosen(i)' = Chosen(i)
        /\ Sources' = Sources /\ (ForChallenge <=> ForChallenge')
    BY <1>0, CallFrame DEF vars
  <2> QED
    BY <1>0, <2>1 DEF vars, CoordinationInv, OrderInv, SelectionInv, PasscodeInv,
       PasscodeSigners
<1>1. CASE Review
  <2>1. /\ \A i : Needed(i) => Needed(i)'
        /\ \A i : Chosen(i)' = Chosen(i)
        /\ Sources' = Sources /\ (ForChallenge <=> ForChallenge')
    BY <1>1, CallFrame DEF Review, callVars
  <2> QED
    BY <1>1, <2>1 DEF Review, callVars, CoordinationInv, OrderInv, SelectionInv, PasscodeInv,
       PasscodeSigners
<1>2. CASE Start \/ LoadFails \/ ProvidersRefused
  <2>1. \/ Control("load") /\ pc \in {"prepared", "reviewed"}
        \/ Control("refused")
    BY <1>2 DEF Start, LoadFails, ProvidersRefused, Control
  <2> QED BY <2>1, ControlKeepsInv
<1>3. ASSUME NEW a \in Accounts, LoadAccount(a) PROVE CoordinationInv'
  <2>1. selected = <<>> /\ added = <<>> BY <1>3 DEF LoadAccount, CoordinationInv, OrderInv
  <2> QED
    BY <1>3, <2>1 DEF LoadAccount, CoordinationInv, OrderInv, SelectionInv, PasscodeInv,
       Sources
<1>4. CASE Recognise
  <2>1. selected = <<>> /\ added = <<>>
    BY <1>4 DEF Recognise, Loaded, CoordinationInv, OrderInv
  <2>2. current' = Chosen(Len(selected) + 1)'
    BY <1>4, <2>1 DEF Recognise, Chosen, Recognised, PlanConditions, Sources, ForChallenge,
       Excluded
  <2>3. \A i \in 1..Len(requirements)' : requirements'[i] \in Sources'
    BY <1>4, SourcesAreAccounts DEF Recognise, Sources, Range, TypeOK
  <2> QED
    BY <1>4, <2>1, <2>2, <2>3 DEF Recognise, CoordinationInv, OrderInv, SelectionInv,
       PasscodeInv
<1>5. ASSUME NEW k \in Keys, SelectExtra(k) PROVE CoordinationInv'
  BY <1>5, SelectionTakesKeys, TakeKeepsInv DEF SelectExtra, Candidates, ExtrasLeft
<1>6. ASSUME NEW k \in Keys, SelectSigner(k) PROVE CoordinationInv'
  <2> DEFINE a == Head(requirements)
  <2>1. a \in Sources
    BY <1>6 DEF SelectSigner, AtRequirement, CoordinationInv, SelectionInv, TypeOK
  <2>2. k \in plan[a].signers /\ AvailableWeight(plan, a, current) < Required(plan, a)
    BY <1>6 DEF SelectSigner, BestSigners, Candidates, Met
  <2> QED BY <1>6, <2>1, <2>2, SelectionTakesKeys, TakeKeepsInv
<1>7. ASSUME NEW k \in Keys, SelectProof(k) PROVE CoordinationInv'
  <2>1. ForChallenge BY <1>7 DEF SelectProof, EnoughProofs
  <2> QED BY <1>7, <2>1, SelectionTakesKeys, TakeKeepsInv
<1>8. CASE ExtraUnavailable \/ RequirementUnmet \/ ProofUnavailable
  <2>1. Control("unsatisfiable")
    BY <1>8 DEF ExtraUnavailable, RequirementUnmet, ProofUnavailable, Unsatisfiable, Control
  <2> QED BY <2>1, ControlKeepsInv
<1>9. CASE RequirementMet
  <2>1. \A i \in 1..Len(Tail(requirements)) : Tail(requirements)[i] \in Sources
    BY <1>9 DEF RequirementMet, AtRequirement, CoordinationInv, SelectionInv, TypeOK
  <2>2. /\ \A i : Needed(i) => Needed(i)'
        /\ \A i : Chosen(i)' = Chosen(i)
        /\ Sources' = Sources /\ (ForChallenge <=> ForChallenge')
    BY <1>9, CallFrame DEF RequirementMet
  <2> QED
    BY <1>9, <2>1, <2>2 DEF RequirementMet, CoordinationInv, OrderInv, SelectionInv,
       PasscodeInv, PasscodeSigners
<1>10. CASE Selected
  <2>1. Control("sign") BY <1>10 DEF Selected, Control
  <2>2. request.path = "providers" => PasscodeSigners \subseteq request.opens
    BY <1>10 DEF Selected, PasscodeAccepted
  <2> QED BY <2>1, <2>2, ControlKeepsInv
<1>11. CASE PasscodeRefused \/ SignFails
  <2>1. Control("refused") BY <1>11 DEF PasscodeRefused, SignFails, Control
  <2> QED BY <2>1, ControlKeepsInv
<1>12. CASE SignNext
  <2> DEFINE n == Len(added)
  <2>1. /\ n \in Nat /\ n < Len(selected) /\ Len(selected) \in Nat
        /\ added' = Append(added, selected[n + 1]) /\ added \in Seq(Keys)
        /\ selected[n + 1] \in Keys /\ selected' = selected
    BY <1>12 DEF SignNext, Signing, NextKey, TypeOK
  <2>2. /\ Len(added') = n + 1 /\ added'[n + 1] = selected[n + 1]
        /\ \A i \in 1..n : added'[i] = added[i]
    BY <2>1
  <2>3. OrderInv'
    <3>1. \A i \in 1..(n + 1) : i \in 1..n \/ i = n + 1 BY <2>1
    <3>2. \A i \in 1..n : added[i] = selected[i] BY DEF CoordinationInv, OrderInv
    <3> QED BY <1>12, <2>1, <2>2, <3>1, <3>2 DEF OrderInv, SignNext, Signing
  <2>4. SelectionInv'
    BY <1>12, CallFrame DEF SignNext, Signing, CoordinationInv, SelectionInv
  <2>5. PasscodeInv'
    BY <1>12 DEF SignNext, Signing, CoordinationInv, PasscodeInv, PasscodeSigners
  <2> QED BY <2>3, <2>4, <2>5 DEF CoordinationInv
<1>13. CASE Verify
  <2>1. pc = "sign" /\ (Control("done") \/ Control("refused"))
    BY <1>13, Zenon DEF Verify, Control
  <2>2. request.path = "providers" => PasscodeSigners \subseteq request.opens
    BY <2>1 DEF CoordinationInv, PasscodeInv
  <2> QED BY <2>1, <2>2, ControlKeepsInv
<1>14. CASE Again
  BY <1>14 DEF Again, CoordinationInv, OrderInv, SelectionInv, PasscodeInv
<1>15. CASE ChangeLedger
  <2>1. /\ \A i : Needed(i) => Needed(i)'
        /\ \A i : Chosen(i)' = Chosen(i)
        /\ Sources' = Sources /\ (ForChallenge <=> ForChallenge')
    BY <1>15, CallFrame DEF ChangeLedger, callVars
  <2> QED
    BY <1>15, <2>1 DEF ChangeLedger, callVars, CoordinationInv, OrderInv, SelectionInv, PasscodeInv,
       PasscodeSigners
<1> QED
  BY <1>0, <1>1, <1>2, <1>3, <1>4, <1>5, <1>6, <1>7, <1>8, <1>9, <1>10, <1>11, <1>12,
     <1>13, <1>14, <1>15 DEF Next, Load, Select, Sign

LEMMA InvCounts == CoordinationInv => EverySignatureCounts
<1> SUFFICES ASSUME CoordinationInv, ~ForChallenge, NEW i \in DOMAIN added
             PROVE  \/ added[i] \in envelope.extras
                    \/ \E a \in Sources :
                         /\ added[i] \in plan[a].signers
                         /\ AvailableWeight(plan, a, Before(i)) < Required(plan, a)
  BY DEF EverySignatureCounts
<1>1. i \in 1..Len(added) /\ i \in 1..Len(selected)
      /\ \A j \in 1..i : added[j] = selected[j]
  BY DEF CoordinationInv, OrderInv, TypeOK
<1>2. Needed(i) BY <1>1 DEF CoordinationInv, SelectionInv
<1>3. Before(i) = Chosen(i)
  <2>1. \A j \in 1..(i - 1) : added[j] = selected[j] BY <1>1
  <2> QED BY <2>1 DEF Before, Chosen
<1> QED BY <1>1, <1>2, <1>3 DEF Needed

LEMMA InvPasscode == CoordinationInv => PasscodeBeforeProviders
  BY DEF CoordinationInv, PasscodeInv, PasscodeBeforeProviders

\* No transaction is signed with a key the network would not count: every added
\* signature met an extra signer or a source account that still lacked weight.
THEOREM SignaturesCount == Spec => []EverySignatureCounts
<1>1. Spec => []CoordinationInv BY CoordinationInit, CoordinationStep, PTL DEF Spec
<1> QED BY <1>1, InvCounts, PTL

\* A call that a local record refuses has not prompted a provider.
THEOREM PasscodeComesFirst == Spec => []PasscodeBeforeProviders
<1>1. Spec => []CoordinationInv BY CoordinationInit, CoordinationStep, PTL DEF Spec
<1> QED BY <1>1, InvPasscode, PTL
-----------------------------------------------------------------------------
(***************************************************************************)
(* Sums of weights.  available_weight adds the weights of the satisfied    *)
(* conditions; the model takes SumFunctionOnSet, a recursion over sets.    *)
(* Its value does not depend on the order the conditions are picked in,    *)
(* and more conditions never weigh less.  The argument is by minimal       *)
(* counterexample: inclusion is well founded on the subsets of a finite    *)
(* set.                                                                    *)
(***************************************************************************)

Picked(s) == CHOOSE x \in s : TRUE
SumRec(f, g, s) == IF s = {} THEN 0 ELSE f[Picked(s)] + g[s \ {Picked(s)}]
Solves(f, g, S) == g = [s \in SUBSET S |-> SumRec(f, g, s)]

\* A family of subsets of a finite set has a member none of its members is within.
LEMMA Minimal ==
  ASSUME NEW S, IsFiniteSet(S), NEW B \in SUBSET (SUBSET S), B # {}
  PROVE \E T \in B : \A U \in B : U \subseteq T => U = T
<1>1. IsWellFoundedOn(StrictSubsetOrdering(S), SUBSET S)
  BY FS_StrictSubsetOrderingWellFounded, FS_FiniteSubsetsOfFinite, Zenon
<1>2. PICK T \in B : \A U \in B : ~(<<U, T>> \in StrictSubsetOrdering(S))
  BY <1>1, WFMin, Zenon
<1> QED BY <1>2 DEF StrictSubsetOrdering

LEMMA PickedIn == \A s : s # {} => Picked(s) \in s
BY DEF Picked

\* The largest family with a solution is the whole powerset.
LEMMA Solvable ==
  ASSUME NEW S, IsFiniteSet(S), NEW f, \A x \in S : f[x] \in Nat
  PROVE \E g \in [SUBSET S -> Nat] : Solves(f, g, S)
<1> DEFINE Holds(g, D) == \A s \in D : /\ g[s] = SumRec(f, g, s)
                                       /\ s # {} => s \ {Picked(s)} \in D
           Open == {E \in SUBSET (SUBSET S) :
                      \E g \in [SUBSET S -> Nat] : Holds(g, (SUBSET S) \ E)}
<1>1. IsFiniteSet(SUBSET S)
  BY FS_SUBSET
<1>2. SUBSET S \in Open
  <2> DEFINE g == [s \in SUBSET S |-> 0]
  <2>1. g \in [SUBSET S -> Nat] /\ Holds(g, (SUBSET S) \ (SUBSET S))
    OBVIOUS
  <2> QED BY <2>1
<1>3. PICK E \in Open : \A F \in Open : F \subseteq E => F = E
  <2> HIDE DEF Open
  <2>1. Open \subseteq SUBSET (SUBSET S)
    BY DEF Open
  <2> QED BY <1>1, <1>2, <2>1, Minimal
<1>4. PICK g \in [SUBSET S -> Nat] : Holds(g, (SUBSET S) \ E)
  OBVIOUS
<1>5. CASE E = {}
  <2>1. \A s \in SUBSET S : g[s] = SumRec(f, g, s)
    BY <1>4, <1>5
  <2>2. g = [s \in SUBSET S |-> g[s]]
    OBVIOUS
  <2>3. g = [s \in SUBSET S |-> SumRec(f, g, s)]
    BY <2>1, <2>2
  <2> QED BY <2>3 DEF Solves
<1>6. CASE E # {}
  <2>1. E \in SUBSET (SUBSET S)
    OBVIOUS
  <2>2. PICK s \in E : \A u \in E : u \subseteq s => u = s
    <3> HIDE DEF Open
    <3> QED BY <1>6, <2>1, Minimal
  <2> DEFINE h == [g EXCEPT ![s] = SumRec(f, g, s)]
             F == E \ {s}
  <2>3. s \subseteq S
    BY <2>1
  <2>4. s # {} => Picked(s) \in S /\ s \ {Picked(s)} \in (SUBSET S) \ E
    BY <2>2, <2>3, PickedIn
  <2>5. SumRec(f, g, s) \in Nat
    BY <2>4 DEF SumRec
  <2>6. h \in [SUBSET S -> Nat]
    BY <2>5
  <2>7. h[s] = SumRec(f, g, s) /\ \A u \in SUBSET S : u # s => h[u] = g[u]
    BY <2>3
  <2>8. \A u \in (SUBSET S) \ F : u = s \/ u \in (SUBSET S) \ E
    OBVIOUS
  <2> HIDE DEF h
  <2>9. ASSUME NEW u \in (SUBSET S) \ E
        PROVE  h[u] = SumRec(f, h, u) /\ (u # {} => u \ {Picked(u)} \in (SUBSET S) \ F)
    <3>1. u # s /\ (u # {} => u \ {Picked(u)} \in (SUBSET S) \ E /\ u \ {Picked(u)} # s)
      BY <1>4, <2>9
    <3> QED BY <1>4, <2>7, <3>1 DEF SumRec
  <2>10. h[s] = SumRec(f, h, s) /\ (s # {} => s \ {Picked(s)} \in (SUBSET S) \ F)
    <3>1. s # {} => s \ {Picked(s)} # s
      BY PickedIn
    <3> QED BY <2>3, <2>4, <2>7, <3>1 DEF SumRec
  <2>11. Holds(h, (SUBSET S) \ F)
    BY <2>8, <2>9, <2>10
  <2>12. F \in Open
    BY <2>6, <2>11
  <2> QED BY <1>3, <2>12
<1> QED BY <1>5, <1>6

\* A solution over a set agrees with the solution over a smaller one.
LEMMA Agree ==
  ASSUME NEW S, IsFiniteSet(S), NEW T \in SUBSET S, NEW f, NEW g, NEW h,
         Solves(f, g, S), Solves(f, h, T)
  PROVE g[T] = h[T]
<1> DEFINE Bad == {s \in SUBSET T : g[s] # h[s]}
<1>1. SUFFICES ASSUME Bad # {} PROVE FALSE
  OBVIOUS
<1>2. PICK s \in Bad : \A u \in Bad : u \subseteq s => u = s
  <2>1. Bad \in SUBSET (SUBSET S)
    OBVIOUS
  <2> HIDE DEF Bad
  <2> QED BY <1>1, <2>1, Minimal
<1>3. g[s] = SumRec(f, g, s) /\ h[s] = SumRec(f, h, s)
  BY DEF Solves
<1>4. s # {} => g[s \ {Picked(s)}] = h[s \ {Picked(s)}]
  BY <1>2, PickedIn
<1> QED BY <1>3, <1>4 DEF SumRec

\* The sum over a set is what some solution of the recursion gives for it.
LEMMA Unfold ==
  ASSUME NEW S, IsFiniteSet(S), NEW f, \A x \in S : f[x] \in Nat
  PROVE \E g \in [SUBSET S -> Nat] : Solves(f, g, S) /\ SumFunctionOnSet(f, S) = g[S]
<1> DEFINE c == CHOOSE g : Solves(f, g, S)
<1>1. SumFunctionOnSet(f, S) = c[S]
  BY DEF SumFunctionOnSet, FoldFunctionOnSet, MapThenFoldSet, Solves, SumRec, Picked
<1>2. PICK g \in [SUBSET S -> Nat] : Solves(f, g, S)
  BY Solvable
<1>3. Solves(f, c, S)
  BY <1>2
<1> HIDE DEF c
<1>4. g[S] = c[S]
  BY <1>2, <1>3, Agree
<1> QED BY <1>1, <1>2, <1>4

\* Finitely many conditions with a weight each.
Weighs(f, S) == IsFiniteSet(S) /\ \A x \in S : f[x] \in Nat

\* A sum of natural numbers is one.
LEMMA SumType ==
  ASSUME NEW S, NEW f, Weighs(f, S)
  PROVE  SumFunctionOnSet(f, S) \in Nat
<1>1. PICK g \in [SUBSET S -> Nat] : Solves(f, g, S) /\ SumFunctionOnSet(f, S) = g[S]
  BY Unfold DEF Weighs
<1> QED BY <1>1

\* One step of the recursion, for the element it picks.
LEMMA SumPicked ==
  ASSUME NEW S, NEW f, Weighs(f, S), S # {}
  PROVE  SumFunctionOnSet(f, S) =
           f[Picked(S)] + SumFunctionOnSet(f, S \ {Picked(S)})
<1> DEFINE T == S \ {Picked(S)}
<1>1. PICK g \in [SUBSET S -> Nat] : Solves(f, g, S) /\ SumFunctionOnSet(f, S) = g[S]
  BY Unfold DEF Weighs
<1>2. IsFiniteSet(T)
  BY FS_Subset DEF Weighs
<1>3. PICK h \in [SUBSET T -> Nat] : Solves(f, h, T) /\ SumFunctionOnSet(f, T) = h[T]
  BY <1>2, Unfold DEF Weighs
<1>4. g[T] = h[T]
  BY <1>1, <1>3, Agree DEF Weighs
<1>5. g[S] = f[Picked(S)] + g[T]
  BY <1>1 DEF Solves, SumRec
<1> QED BY <1>1, <1>3, <1>4, <1>5

LEMMA SumEmpty == \A f : SumFunctionOnSet(f, {}) = 0
<1> SUFFICES ASSUME NEW f PROVE SumFunctionOnSet(f, {}) = 0
  OBVIOUS
<1>1. IsFiniteSet({})
  BY FS_EmptySet
<1>2. PICK g \in [SUBSET {} -> Nat] : Solves(f, g, {}) /\ SumFunctionOnSet(f, {}) = g[{}]
  BY <1>1, Unfold
<1> QED BY <1>2 DEF Solves, SumRec

\* Any element can be taken out first.
LEMMA SumOfRest ==
  ASSUME NEW S, NEW f, Weighs(f, S), NEW y \in S
  PROVE  SumFunctionOnSet(f, S) = f[y] + SumFunctionOnSet(f, S \ {y})
<1> DEFINE Sum(s) == SumFunctionOnSet(f, s)
           Bad == {s \in SUBSET S : \E x \in s : Sum(s) # f[x] + Sum(s \ {x})}
<1>1. SUFFICES ASSUME Bad # {} PROVE FALSE
  OBVIOUS
<1>2. PICK s \in Bad : \A u \in Bad : u \subseteq s => u = s
  <2>1. Bad \in SUBSET (SUBSET S)
    OBVIOUS
  <2> HIDE DEF Bad
  <2> QED BY <1>1, <2>1, Minimal DEF Weighs
<1>3. PICK x \in s : Sum(s) # f[x] + Sum(s \ {x})
  OBVIOUS
<1> DEFINE p == Picked(s)
<1>4. \A u \in SUBSET S : Weighs(f, u) /\ Sum(u) \in Nat
  BY FS_Subset, SumType DEF Weighs
<1>5. Sum(s) = f[p] + Sum(s \ {p})
  BY <1>3, <1>4, SumPicked
<1>6. p \in s /\ x # p
  BY <1>3, <1>5, PickedIn
<1>7. s \ {p} \notin Bad /\ s \ {x} \notin Bad
  BY <1>2, <1>6
<1>8. Sum(s \ {p}) = f[x] + Sum((s \ {p}) \ {x})
  BY <1>6, <1>7
<1>9. Sum(s \ {x}) = f[p] + Sum((s \ {x}) \ {p})
  BY <1>6, <1>7
<1>10. (s \ {p}) \ {x} = (s \ {x}) \ {p}
  OBVIOUS
<1>11. f[p] \in Nat /\ f[x] \in Nat /\ Sum((s \ {x}) \ {p}) \in Nat
  BY <1>4, <1>6 DEF Weighs
<1> DEFINE r == Sum((s \ {x}) \ {p})
<1>12. Sum(s) = f[p] + (f[x] + r) /\ Sum(s \ {x}) = f[p] + r
  BY <1>5, <1>8, <1>9, <1>10
<1>13. f[p] \in Nat /\ f[x] \in Nat /\ r \in Nat
  BY <1>11
<1> HIDE DEF p, r
<1> QED BY <1>3, <1>12, <1>13

\* More conditions never weigh less.
LEMMA SumIsMonotone ==
  ASSUME NEW S, NEW f, Weighs(f, S), NEW T \in SUBSET S
  PROVE  SumFunctionOnSet(f, T) <= SumFunctionOnSet(f, S)
<1> DEFINE Sum(s) == SumFunctionOnSet(f, s)
           Bad == {s \in SUBSET S : T \subseteq s /\ ~(Sum(T) <= Sum(s))}
<1>1. SUFFICES ASSUME Bad # {} PROVE FALSE
  OBVIOUS
<1>2. PICK s \in Bad : \A u \in Bad : u \subseteq s => u = s
  <2>1. Bad \in SUBSET (SUBSET S)
    OBVIOUS
  <2> HIDE DEF Bad
  <2> QED BY <1>1, <2>1, Minimal DEF Weighs
<1>3. \A u \in SUBSET S : Weighs(f, u) /\ Sum(u) \in Nat
  BY FS_Subset, SumType DEF Weighs
<1>4. s # T
  BY <1>3
<1>5. PICK y \in s : y \notin T
  BY <1>4
<1>6. Sum(s) = f[y] + Sum(s \ {y}) /\ f[y] \in Nat
  BY <1>3, SumOfRest DEF Weighs
<1>7. s \ {y} \notin Bad
  BY <1>2
<1>8. Sum(T) <= Sum(s \ {y})
  BY <1>5, <1>7
<1> QED
  BY <1>3, <1>6, <1>8
-----------------------------------------------------------------------------
(***************************************************************************)
(* Plans over an authorization: what a requirement, a weight and the       *)
(* recognised conditions depend on, and that more conditions never satisfy *)
(* less.                                                                   *)
(***************************************************************************)

\* The authorization of every source account has been loaded.
Complete(auth) == \A a \in Sources : auth[a] \in AccountAuthorization

\* A requirement of a transaction is at least one and at least every use's.
LEMMA RequiredIsMost ==
    ASSUME envelope \in Envelopes, NEW auth, Complete(auth), NEW a \in Sources
    PROVE  /\ Required(auth, a) \in Nat
           /\ ~ForChallenge =>
                /\ Required(auth, a) >= 1
                /\ \A l \in envelope.uses[a] : Required(auth, a) >= auth[a][l]
<1>1. /\ auth[a].low \in Nat /\ auth[a].medium \in Nat
  BY DEF Complete, AccountAuthorization
<1>2. CASE ForChallenge BY <1>1, <1>2 DEF Required
<1>3. CASE ~ForChallenge
  <2> DEFINE N == {1} \union {auth[a][l] : l \in envelope.uses[a]}
             Most(n) == n >= 1 /\ \A l \in envelope.uses[a] : n >= auth[a][l]
  <2>1. envelope.uses[a] \subseteq {"low", "medium"}
    BY SourcesAreAccounts, EnvelopesAssumption DEF EnvelopeType, Levels
  <2>2. N \subseteq Nat BY <1>1, <2>1
  <2>3. \E n \in N : Most(n)
    <3>1. \A l \in envelope.uses[a] : l = "low" \/ l = "medium" BY <2>1
    <3>2. auth[a]["low"] \in Nat /\ auth[a]["medium"] \in Nat BY <1>1
    <3>3. CASE \A l \in envelope.uses[a] : auth[a][l] <= 1
      <4>1. Most(1) BY <3>3
      <4> QED BY <4>1
    <3>4. ASSUME NEW l \in envelope.uses[a], ~(auth[a][l] <= 1)
          PROVE  \E n \in N : Most(n)
      <4>1. \A m \in envelope.uses[a] : auth[a][m] \in Nat BY <3>1, <3>2
      <4>2. \E m \in envelope.uses[a] :
              /\ ~(auth[a][m] <= 1)
              /\ \A n \in envelope.uses[a] : auth[a][n] <= auth[a][m]
        <5>1. CASE \A n \in envelope.uses[a] : auth[a][n] <= auth[a][l] BY <3>4, <5>1
        <5>2. ASSUME NEW n \in envelope.uses[a], ~(auth[a][n] <= auth[a][l])
              PROVE  /\ ~(auth[a][n] <= 1)
                     /\ \A m \in envelope.uses[a] : auth[a][m] <= auth[a][n]
          <6>1. auth[a][l] \in Nat /\ auth[a][n] \in Nat BY <4>1
          <6>2. \A m \in envelope.uses[a] : m = l \/ m = n BY <3>1, <5>2, <6>1
          <6> QED BY <3>4, <5>2, <6>1, <6>2
        <5> QED BY <5>1, <5>2
      <4>3. PICK m \in envelope.uses[a] :
              /\ ~(auth[a][m] <= 1)
              /\ \A n \in envelope.uses[a] : auth[a][n] <= auth[a][m]
        BY <4>2
      <4>4. auth[a][m] \in N /\ auth[a][m] >= 1 BY <4>1, <4>3
      <4>5. Most(auth[a][m]) BY <4>1, <4>3, <4>4
      <4> QED BY <4>4, <4>5
    <3> QED BY <3>3, <3>4
  <2>4. Required(auth, a) = CHOOSE n \in N : Most(n) BY <1>3 DEF Required
  <2> HIDE DEF N, Most
  <2>5. Required(auth, a) \in N /\ Most(Required(auth, a)) BY <2>3, <2>4
  <2> QED BY <1>3, <2>2, <2>5 DEF Most
<1> QED BY <1>2, <1>3

LEMMA WeightsAreNumbers ==
    ASSUME envelope \in Envelopes, NEW auth, Complete(auth), NEW a \in Sources,
           NEW S \in SUBSET Conditions
    PROVE  Weighs(auth[a].weight, S)
<1>1. IsFiniteSet(S) BY ConditionsAssumption, FS_Subset
<1> QED BY <1>1 DEF Weighs, Complete, AccountAuthorization

\* An account's available weight is a number, and more conditions weigh no less.
LEMMA AvailableIsMonotone ==
    ASSUME envelope \in Envelopes, NEW auth, Complete(auth), NEW a \in Sources, NEW T,
           NEW S, auth[a].signers \intersect S \subseteq T
    PROVE  /\ AvailableWeight(auth, a, S) \in Nat
           /\ AvailableWeight(auth, a, T) \in Nat
           /\ AvailableWeight(auth, a, S) <= AvailableWeight(auth, a, T)
<1> DEFINE s == auth[a].signers \intersect S
           t == auth[a].signers \intersect T
<1>1. s \subseteq t /\ t \subseteq Conditions BY DEF Complete, AccountAuthorization
<1>2. Weighs(auth[a].weight, t) /\ Weighs(auth[a].weight, s)
  BY <1>1, WeightsAreNumbers
<1> QED BY <1>1, <1>2, SumType, SumIsMonotone DEF AvailableWeight

LEMMA SatisfiableIsMonotone ==
    ASSUME envelope \in Envelopes, NEW auth, Complete(auth), NEW S, NEW T, S \subseteq T,
           Satisfiable(auth, S)
    PROVE  Satisfiable(auth, T)
<1>1. ASSUME NEW a \in Sources PROVE AvailableWeight(auth, a, T) >= Required(auth, a)
  <2>1. Required(auth, a) \in Nat BY RequiredIsMost
  <2>2. AvailableWeight(auth, a, S) >= Required(auth, a) BY DEF Satisfiable
  <2>3. /\ AvailableWeight(auth, a, S) \in Nat
        /\ AvailableWeight(auth, a, T) \in Nat
        /\ AvailableWeight(auth, a, S) <= AvailableWeight(auth, a, T)
    BY AvailableIsMonotone
  <2> QED BY <2>1, <2>2, <2>3
<1> QED BY <1>1 DEF Satisfiable

\* A plan is its source accounts' authorization.
LEMMA PlansAgree ==
    ASSUME NEW auth, NEW other, \A a \in Sources : auth[a] = other[a]
    PROVE  /\ PlanConditions(auth) = PlanConditions(other)
           /\ \A S : /\ Recognised(auth, S) = Recognised(other, S)
                     /\ Satisfiable(auth, S) <=> Satisfiable(other, S)
<1>1. PlanConditions(auth) = PlanConditions(other) BY DEF PlanConditions
<1>2. \A S : Recognised(auth, S) = Recognised(other, S) BY <1>1 DEF Recognised
<1>3. ASSUME NEW a \in Sources PROVE Required(auth, a) = Required(other, a)
  <2>1. auth[a] = other[a] OBVIOUS
  <2> QED BY <2>1 DEF Required
<1>4. \A S : \A a \in Sources : AvailableWeight(auth, a, S) = AvailableWeight(other, a, S)
  BY DEF AvailableWeight
<1>5. \A S : Satisfiable(auth, S) <=> Satisfiable(other, S)
  BY <1>3, <1>4, Zenon DEF Satisfiable
<1> QED BY <1>1, <1>2, <1>5

\* One of finitely many conditions weighs most.
LEMMA HeaviestExists ==
    ASSUME NEW C, IsFiniteSet(C), C /= {}, NEW w, \A c \in C : w[c] \in Nat
    PROVE  \E k \in C : \A c \in C : w[c] <= w[k]
<1> DEFINE NotLighter(k) == {c \in C : w[c] >= w[k]}
           Families == {NotLighter(k) : k \in C}
<1>1. Families \in SUBSET (SUBSET C) /\ Families /= {} OBVIOUS
<1>2. PICK F \in Families : \A U \in Families : U \subseteq F => U = F
  <2> HIDE DEF Families
  <2> QED BY <1>1, Minimal
<1>3. PICK k \in C : F = NotLighter(k) OBVIOUS
<1>4. ASSUME NEW c \in C, ~(w[c] <= w[k]) PROVE FALSE
  <2>1. NotLighter(c) \subseteq NotLighter(k) BY <1>4
  <2>2. k \in NotLighter(k) /\ k \notin NotLighter(c) BY <1>4
  <2>3. NotLighter(c) \in Families OBVIOUS
  <2> HIDE DEF NotLighter, Families
  <2> QED BY <1>2, <1>3, <2>1, <2>2, <2>3
<1> QED BY <1>4
-----------------------------------------------------------------------------
(***************************************************************************)
(* How a call ends.  While a call selects, what is satisfied is what the   *)
(* envelope satisfied and what was selected; an account once gone through  *)
(* stays satisfied; a signer without weight is chosen only when the        *)
(* account is lost anyway.                                                 *)
(***************************************************************************)

InCall == pc \in {"select", "sign", "done", "unsatisfiable"}

\* Every condition the call could have satisfied.
All == Recognised(plan, {}) \union (PlanConditions(plan) \intersect Available)

GatherInv ==
    InCall =>
        /\ current = Recognised(plan, {}) \union Range(selected)
        /\ Range(selected) \subseteq PlanConditions(plan) \intersect Available

MetInv ==
    /\ pc = "select" => \A a \in Sources : a \in Range(requirements) \/ Met(a)
    /\ pc \in {"sign", "done"} =>
         ExtrasLeft = {} /\ EnoughProofs /\ \A a \in Sources : Met(a)

\* The head requirement is unmet and no remaining candidate weighs anything.
Hopeless ==
    /\ AtRequirement
    /\ ~Met(Head(requirements))
    /\ LET a == Head(requirements)
       IN  \A k \in Candidates(plan[a].signers) : plan[a].weight[k] = 0

WeightInv ==
    pc \in {"select", "sign", "done"} /\ ~ForChallenge /\ ~Hopeless =>
        \A k \in Range(selected) \ envelope.extras :
            \E a \in Sources : plan[a].weight[k] > 0

GivenUpInv ==
    pc = "unsatisfiable" =>
        \/ ~Satisfiable(plan, All)
        \/ ForChallenge /\ All \intersect Keys = {}

ReviewInv ==
    review.made /\ review.promised =>
        /\ ~ForChallenge
        /\ Satisfiable(review.auth, Recognised(review.auth, {}) \union
                           (PlanConditions(review.auth) \intersect local))

OutcomeInv ==
    /\ CoordinationInv
    /\ GatherInv /\ MetInv /\ WeightInv /\ GivenUpInv /\ ReviewInv
    /\ pc = "done" => added = selected

\* No action but Again changes what a plan is made of.
LEMMA PlanKept ==
    ASSUME envelope' = envelope, local' = local, request' = request, plan' = plan
    PROVE  /\ Sources' = Sources
           /\ (ForChallenge <=> ForChallenge')
           /\ Available' = Available
           /\ PlanConditions(plan)' = PlanConditions(plan)
           /\ Recognised(plan, {})' = Recognised(plan, {})
           /\ All' = All
           /\ \A S : (Satisfiable(plan, S) <=> Satisfiable(plan, S)')
           /\ \A a, S : /\ AvailableWeight(plan, a, S)' = AvailableWeight(plan, a, S)
                        /\ Required(plan, a)' = Required(plan, a)
<1>1. Available' = Available BY DEF Available, Excluded
<1>2. PlanConditions(plan)' = PlanConditions(plan) BY DEF PlanConditions, Sources
<1>3. All' = All BY <1>1, <1>2, PlanFrame DEF All
<1>4. \A S : (Satisfiable(plan, S) <=> Satisfiable(plan, S)')
  <2> SUFFICES ASSUME NEW S PROVE Satisfiable(plan, S) <=> Satisfiable(plan, S)' OBVIOUS
  <2>1. \A a : /\ AvailableWeight(plan, a, S)' = AvailableWeight(plan, a, S)
               /\ Required(plan, a)' = Required(plan, a)
    BY PlanFrame
  <2>2. Sources' = Sources BY PlanFrame
  <2> QED BY <2>1, <2>2 DEF Satisfiable
<1> QED BY <1>1, <1>2, <1>3, <1>4, PlanFrame

\* What the review promised is a fact about the envelope and the local keys.
LEMMA ReviewKept ==
    ASSUME ReviewInv, envelope' = envelope, local' = local, review' = review
    PROVE  ReviewInv'
<1>1. Sources' = Sources /\ (ForChallenge <=> ForChallenge')
  BY DEF Sources, ForChallenge
<1>2. PlanConditions(review.auth)' = PlanConditions(review.auth)
  BY <1>1 DEF PlanConditions
<1>3. Recognised(review.auth, {})' = Recognised(review.auth, {})
  BY <1>1, <1>2 DEF Recognised, Excluded
<1> DEFINE S == Recognised(review.auth, {}) \union (PlanConditions(review.auth) \intersect local)
<1>4. S' = S BY <1>2, <1>3
<1> HIDE DEF S
<1>5. \A a : Required(review.auth, a)' = Required(review.auth, a)
  BY <1>1 DEF Required, ForChallenge
<1>6. \A a : AvailableWeight(review.auth, a, S)' = AvailableWeight(review.auth, a, S)
  BY <1>4 DEF AvailableWeight
<1>7. Satisfiable(review.auth, S) <=> Satisfiable(review.auth, S)'
  BY <1>1, <1>4, <1>5, <1>6 DEF Satisfiable
<1> QED BY <1>1, <1>7 DEF ReviewInv, S

\* What an action that leaves the call's data alone must establish.
LEMMA ControlKeepsOutcome ==
    ASSUME OutcomeInv, CoordinationInv', ReviewInv', NEW p, pc' = p,
           UNCHANGED <<envelope, local, request, callVars>>,
           p \in {"select", "sign", "done", "unsatisfiable"} =>
               pc \in {"select", "sign"} \/ pc = p,
           p = "select" => pc = "select",
           p \in {"sign", "done"} =>
               /\ ExtrasLeft = {} /\ EnoughProofs /\ \A a \in Sources : Met(a)
               /\ ~Hopeless,
           p = "unsatisfiable" =>
               \/ ~Satisfiable(plan, All)
               \/ ForChallenge /\ All \intersect Keys = {},
           p = "done" => added = selected
    PROVE  OutcomeInv'
<1>1. /\ envelope' = envelope /\ local' = local /\ request' = request /\ plan' = plan
      /\ current' = current /\ selected' = selected /\ requirements' = requirements
      /\ added' = added /\ pc' = p
  BY DEF callVars
<1>2. /\ Sources' = Sources /\ (ForChallenge <=> ForChallenge')
      /\ Available' = Available /\ PlanConditions(plan)' = PlanConditions(plan)
      /\ Recognised(plan, {})' = Recognised(plan, {}) /\ All' = All
      /\ (Satisfiable(plan, All) <=> Satisfiable(plan, All)')
  <2>1. All' = All BY <1>1, PlanKept
  <2>2. Satisfiable(plan, All) <=> Satisfiable(plan, All)'
    <3>1. \A S : (Satisfiable(plan, S) <=> Satisfiable(plan, S)') BY <1>1, PlanKept
    <3> QED BY <2>1, <3>1 DEF Satisfiable, AvailableWeight
  <2> QED BY <1>1, <2>1, <2>2, PlanKept
<1>3. \A a : (Met(a) <=> Met(a)')
  <2>1. \A a : AvailableWeight(plan, a, current)' = AvailableWeight(plan, a, current)
    BY <1>1 DEF AvailableWeight
  <2>2. \A a : Required(plan, a)' = Required(plan, a) BY <1>1, PlanKept
  <2> QED BY <2>1, <2>2 DEF Met
<1>4. GatherInv' BY <1>1, <1>2 DEF OutcomeInv, GatherInv, InCall
<1>5. MetInv' BY <1>1, <1>2, <1>3 DEF OutcomeInv, MetInv, ExtrasLeft, EnoughProofs
<1>6. WeightInv'
  <2>1. CASE p \in {"sign", "done"}
    <3>1. pc \in {"select", "sign", "done"} /\ ~Hopeless BY <2>1
    <3> QED BY <1>1, <1>2, <2>1, <3>1 DEF OutcomeInv, WeightInv
  <2>2. CASE p = "select"
    <3>1. pc = "select" BY <2>2
    <3>2. Hopeless <=> Hopeless'
      BY <1>1, <1>2, <1>3, <2>2, <3>1 DEF Hopeless, AtRequirement, ExtrasLeft, Candidates
    <3> QED BY <1>1, <1>2, <2>2, <3>1, <3>2 DEF OutcomeInv, WeightInv
  <2> QED BY <1>1, <2>1, <2>2 DEF WeightInv
<1>7. GivenUpInv' BY <1>1, <1>2 DEF GivenUpInv
<1> QED BY <1>1, <1>4, <1>5, <1>6, <1>7 DEF OutcomeInv

LEMMA RangeOfAppend ==
    ASSUME NEW S, NEW s \in Seq(S), NEW k \in S
    PROVE  Range(Append(s, k)) = Range(s) \union {k}
<1> DEFINE t == Append(s, k)
<1>1. /\ Len(s) \in Nat /\ DOMAIN s = 1..Len(s) /\ DOMAIN t = 1..(Len(s) + 1)
      /\ t[Len(s) + 1] = k /\ \A i \in 1..Len(s) : t[i] = s[i]
  OBVIOUS
<1> HIDE DEF t
<1>2. \A i \in 1..(Len(s) + 1) : i \in 1..Len(s) \/ i = Len(s) + 1 BY <1>1
<1>3. Range(t) \subseteq Range(s) \union {k} BY <1>1, <1>2 DEF Range
<1>4. Range(s) \union {k} \subseteq Range(t)
  <2>1. 1..Len(s) \subseteq 1..(Len(s) + 1) /\ Len(s) + 1 \in 1..(Len(s) + 1) BY <1>1
  <2> QED BY <1>1, <2>1 DEF Range
<1> QED BY <1>3, <1>4 DEF t

\* A selected key is one the plan asks for and the call can sign with.
LEMMA TakeKeepsOutcome ==
    ASSUME OutcomeInv, CoordinationInv', NEW k \in Keys, Take(k), pc = "select",
           k \in PlanConditions(plan), k \in Available, WeightInv'
    PROVE  OutcomeInv'
<1>1. /\ envelope' = envelope /\ local' = local /\ request' = request /\ plan' = plan
      /\ requirements' = requirements /\ review' = review /\ pc' = pc
      /\ current' = current \union {k}
      /\ selected' = Append(selected, k)
  BY DEF Take
<1>2. /\ Sources' = Sources /\ (ForChallenge <=> ForChallenge')
      /\ Available' = Available /\ PlanConditions(plan)' = PlanConditions(plan)
      /\ Recognised(plan, {})' = Recognised(plan, {})
  BY <1>1, PlanKept
<1>3. TypeOK BY DEF OutcomeInv, CoordinationInv
<1>4. GatherInv'
  <2>1. Range(selected') = Range(selected) \union {k}
    BY <1>1, <1>3, RangeOfAppend DEF TypeOK
  <2> QED BY <1>1, <1>2, <2>1 DEF OutcomeInv, GatherInv, InCall
<1>5. MetInv'
  <2>1. ASSUME NEW a \in Sources, Met(a) PROVE Met(a)'
    <3>1. Complete(plan) /\ envelope \in Envelopes BY <1>3 DEF Complete, TypeOK
    <3>2. /\ AvailableWeight(plan, a, current) \in Nat
          /\ AvailableWeight(plan, a, current') \in Nat
          /\ AvailableWeight(plan, a, current) <= AvailableWeight(plan, a, current')
      BY <1>1, <3>1, AvailableIsMonotone
    <3>3. Required(plan, a) \in Nat /\ Required(plan, a)' = Required(plan, a)
      BY <1>1, <3>1, RequiredIsMost, PlanKept
    <3>4. AvailableWeight(plan, a, current)' = AvailableWeight(plan, a, current')
      BY <1>1 DEF AvailableWeight
    <3> QED BY <2>1, <3>2, <3>3, <3>4 DEF Met
  <2> QED BY <1>1, <1>2, <2>1 DEF OutcomeInv, MetInv
<1>6. ReviewInv' BY <1>1, ReviewKept DEF OutcomeInv
<1> QED BY <1>1, <1>4, <1>5, <1>6 DEF OutcomeInv, GivenUpInv

\* A signer of weight is chosen for an account unless none is left; then the
\* account cannot be met any more.
LEMMA SignerKeepsWeights ==
    ASSUME OutcomeInv, NEW k \in Keys, SelectSigner(k)
    PROVE  WeightInv'
<1> DEFINE a == Head(requirements)
<1>1. /\ TypeOK /\ pc = "select" /\ requirements /= <<>> /\ ~Met(a) /\ ExtrasLeft = {}
      /\ k \in Candidates(plan[a].signers)
      /\ \A c \in Candidates(plan[a].signers) : plan[a].weight[c] <= plan[a].weight[k]
      /\ AtRequirement
  BY DEF SelectSigner, AtRequirement, BestSigners, OutcomeInv, CoordinationInv
<1>2. /\ envelope' = envelope /\ local' = local /\ request' = request /\ plan' = plan
      /\ requirements' = requirements /\ pc' = pc
      /\ current' = current \union {k}
      /\ selected' = Append(selected, k)
  BY DEF SelectSigner, Take
<1>3. Sources' = Sources /\ (ForChallenge <=> ForChallenge') /\ Available' = Available
  BY <1>2, PlanKept
<1>4. a \in Sources
  BY <1>1 DEF OutcomeInv, CoordinationInv, SelectionInv, TypeOK
<1>5. Complete(plan) /\ envelope \in Envelopes BY <1>1 DEF Complete, TypeOK
<1>6. \A c \in Conditions : plan[a].weight[c] \in Nat
  BY <1>4, <1>5 DEF Complete, AccountAuthorization
<1>7. Range(selected') = Range(selected) \union {k}
  BY <1>1, <1>2, RangeOfAppend DEF TypeOK
<1>8. CASE plan[a].weight[k] > 0
  <2>1. ~Hopeless BY <1>1, <1>8, <1>6 DEF Hopeless, Conditions
  <2> QED BY <1>1, <1>2, <1>3, <1>4, <1>7, <1>8, <2>1 DEF OutcomeInv, WeightInv
<1>9. CASE plan[a].weight[k] = 0
  <2>1. AvailableWeight(plan, a, current') = AvailableWeight(plan, a, current)
    <3> DEFINE S == plan[a].signers \intersect current'
    <3>1. k \in S /\ k \notin current /\ S \subseteq Conditions
      BY <1>1, <1>2, <1>4, <1>5 DEF Candidates, Complete, AccountAuthorization
    <3>2. S \ {k} = plan[a].signers \intersect current BY <1>2, <3>1
    <3>3. Weighs(plan[a].weight, S) /\ Weighs(plan[a].weight, S \ {k})
      BY <1>4, <1>5, <3>1, WeightsAreNumbers
    <3>4. /\ SumFunctionOnSet(plan[a].weight, S)
               = plan[a].weight[k] + SumFunctionOnSet(plan[a].weight, S \ {k})
          /\ SumFunctionOnSet(plan[a].weight, S \ {k}) \in Nat
      BY <3>1, <3>3, SumOfRest, SumType
    <3>5. /\ AvailableWeight(plan, a, current') = SumFunctionOnSet(plan[a].weight, S)
          /\ AvailableWeight(plan, a, current) = SumFunctionOnSet(plan[a].weight, S \ {k})
      BY <3>2 DEF AvailableWeight
    <3> HIDE DEF S, a
    <3> QED BY <1>9, <3>4, <3>5
  <2>2. ~Met(a)'
    <3>1. AvailableWeight(plan, a, current)' = AvailableWeight(plan, a, current')
      BY <1>2 DEF AvailableWeight
    <3>2. Required(plan, a)' = Required(plan, a) BY <1>2, PlanKept
    <3> QED BY <1>1, <1>2, <2>1, <3>1, <3>2 DEF Met
  <2>3. \A c \in Candidates(plan[a].signers)' : plan[a].weight[c] = 0
    <3>1. Candidates(plan[a].signers)' \subseteq Candidates(plan[a].signers)
      BY <1>2, <1>3 DEF Candidates
    <3>2. \A c \in Candidates(plan[a].signers) : c \in Conditions
      BY DEF Candidates, Conditions
    <3> QED BY <1>1, <1>6, <1>9, <3>1, <3>2
  <2>4. AtRequirement' BY <1>1, <1>2 DEF AtRequirement, ExtrasLeft
  <2>5. Hopeless' BY <1>2, <2>2, <2>3, <2>4 DEF Hopeless
  <2> QED BY <2>5 DEF WeightInv
<1>10. plan[a].weight[k] > 0 \/ plan[a].weight[k] = 0 BY <1>6 DEF Conditions
<1> QED BY <1>8, <1>9, <1>10

\* The call gives up only when all its keys together would not do.
LEMMA GivesUpRightly ==
    ASSUME OutcomeInv, ExtraUnavailable \/ RequirementUnmet \/ ProofUnavailable
    PROVE  \/ ~Satisfiable(plan, All)
           \/ ForChallenge /\ All \intersect Keys = {}
<1>1. /\ TypeOK /\ pc = "select" /\ Complete(plan) /\ envelope \in Envelopes
      /\ current = Recognised(plan, {}) \union Range(selected)
  BY DEF ExtraUnavailable, RequirementUnmet, ProofUnavailable, AtRequirement, AtMinimum,
         OutcomeInv, CoordinationInv, GatherInv, InCall, Complete, TypeOK
<1>2. Available \subseteq Keys
  BY <1>1, CustodiesAssumption, RequestsAssumption DEF Available, TypeOK, RequestType
<1>3. CASE ExtraUnavailable
  <2>1. PICK c \in envelope.extras : c \notin current /\ c \notin Available
    BY <1>2, <1>3 DEF ExtraUnavailable, ExtrasLeft, Candidates
  <2>2. c \notin All BY <1>1, <2>1 DEF All
  <2> QED BY <2>1, <2>2 DEF Satisfiable
<1>4. CASE RequirementUnmet
  <2> DEFINE a == Head(requirements)
  <2>1. a \in Sources
    BY <1>1, <1>4 DEF RequirementUnmet, AtRequirement, OutcomeInv, CoordinationInv,
       SelectionInv, TypeOK
  <2>2. Candidates(plan[a].signers) = {}
    <3>1. Candidates(plan[a].signers) \subseteq Conditions
      BY DEF Candidates, Conditions
    <3>2. \A c \in Candidates(plan[a].signers) : plan[a].weight[c] \in Nat
      BY <1>1, <2>1, <3>1 DEF Complete, AccountAuthorization
    <3>3. IsFiniteSet(Candidates(plan[a].signers))
      BY <3>1, ConditionsAssumption, FS_Subset
    <3>4. ~\E k \in Candidates(plan[a].signers) :
              \A c \in Candidates(plan[a].signers) : plan[a].weight[c] <= plan[a].weight[k]
      BY <1>4 DEF RequirementUnmet, BestSigners
    <3> HIDE DEF a
    <3> QED BY <3>2, <3>3, <3>4, HeaviestExists
  <2>3. plan[a].signers \intersect All \subseteq current
    BY <1>1, <1>2, <2>2 DEF All, Candidates
  <2>4. /\ AvailableWeight(plan, a, All) \in Nat
        /\ AvailableWeight(plan, a, current) \in Nat
        /\ AvailableWeight(plan, a, All) <= AvailableWeight(plan, a, current)
        /\ Required(plan, a) \in Nat
    BY <1>1, <2>1, <2>3, AvailableIsMonotone, RequiredIsMost
  <2>5. AvailableWeight(plan, a, current) < Required(plan, a)
    BY <1>4 DEF RequirementUnmet, Met
  <2>6. ~(AvailableWeight(plan, a, All) >= Required(plan, a)) BY <2>4, <2>5
  <2> QED BY <2>1, <2>6 DEF Satisfiable
<1>5. CASE ProofUnavailable
  <2>1. ForChallenge /\ current \intersect Keys = {} /\ BestProofs = {}
    BY <1>5 DEF ProofUnavailable, EnoughProofs
  <2> DEFINE a == Head(envelope.sources)
             w == plan[a].weight
             C == Candidates(plan[a].signers)
  <2>2. Sources = {a} /\ envelope.extras = {}
    <3>1. envelope.extras = {} /\ Len(envelope.sources) = 1
      BY <1>1, <2>1, EnvelopesAssumption DEF ForChallenge
    <3>2. DOMAIN envelope.sources = {1} /\ a = envelope.sources[1]
      BY <1>1, <3>1, SourcesAreAccounts
    <3> QED BY <3>1, <3>2 DEF Sources, Range
  <2>3. C = {}
    <3>1. C \subseteq Conditions /\ C \subseteq Keys BY DEF Candidates, Conditions
    <3>2. \A c \in C : w[c] \in Nat
      BY <1>1, <2>2, <3>1 DEF Complete, AccountAuthorization
    <3>3. IsFiniteSet(C) BY <3>1, ConditionsAssumption, FS_Subset
    <3>4. ASSUME NEW k \in C, \A c \in C : w[c] <= w[k] PROVE FALSE
      <4> DEFINE offers == UNION {{<<b, c>> : c \in Candidates(plan[b].signers)} : b \in Sources}
      <4>1. offers = {<<a, c>> : c \in C} BY <2>2
      <4>2. BestProofs = {c \in Keys : \E o \in offers :
                /\ o[2] = c
                /\ \A p \in offers : plan[p[1]].weight[p[2]] <= plan[o[1]].weight[c]}
        BY DEF BestProofs
      <4> HIDE DEF offers, C, a
      <4>3. <<a, k>> \in offers BY <4>1
      <4>4. \A p \in offers : plan[p[1]].weight[p[2]] <= plan[a].weight[k]
        BY <3>4, <4>1
      <4>5. k \in BestProofs BY <3>1, <4>2, <4>3, <4>4
      <4> QED BY <2>1, <4>5
    <3> HIDE DEF C, w
    <3> QED BY <3>2, <3>3, <3>4, HeaviestExists
  <2>4. All \intersect Keys = {}
    <3>1. PlanConditions(plan) = plan[a].signers BY <2>2 DEF PlanConditions
    <3> QED BY <1>1, <1>2, <2>1, <2>3, <3>1 DEF All, Candidates
  <2> QED BY <2>1, <2>4
<1> QED BY <1>3, <1>4, <1>5

\* Once every selected key has signed, what the envelope satisfies is what the
\* selection counted on.
LEMMA SignedIsCurrent ==
    ASSUME OutcomeInv, pc \in {"sign", "done"}, added = selected
    PROVE  Recognised(plan, Range(added)) = current /\ Range(added) \intersect Excluded = {}
<1>1. /\ current = Recognised(plan, {}) \union Range(selected)
      /\ Range(selected) \subseteq PlanConditions(plan) \intersect Available
  BY DEF OutcomeInv, GatherInv, InCall
<1>2. Range(selected) \subseteq Keys
  BY DEF OutcomeInv, CoordinationInv, TypeOK, Range
<1>3. Range(selected) \intersect Excluded = {} BY <1>1 DEF Available
<1> QED BY <1>1, <1>2, <1>3 DEF Recognised

LEMMA SignedIsAuthorized ==
    ASSUME OutcomeInv, pc \in {"sign", "done"}, added = selected
    PROVE  Authorized
<1>1. /\ Complete(plan) /\ envelope \in Envelopes
      /\ ExtrasLeft = {} /\ EnoughProofs /\ \A a \in Sources : Met(a)
      /\ Recognised(plan, Range(added)) = current
  BY SignedIsCurrent DEF OutcomeInv, CoordinationInv, TypeOK, MetInv, Complete
<1>2. ASSUME NEW a \in Sources PROVE AvailableWeight(plan, a, current) >= Required(plan, a)
  <2>1. AvailableWeight(plan, a, current) \in Nat /\ Required(plan, a) \in Nat
    BY <1>1, AvailableIsMonotone, RequiredIsMost
  <2> QED BY <1>1, <2>1 DEF Met
<1>3. Satisfiable(plan, current) BY <1>1, <1>2 DEF Satisfiable, ExtrasLeft
<1>4. ForChallenge => current /= {} BY <1>1 DEF EnoughProofs
<1> QED BY <1>1, <1>3, <1>4 DEF Authorized

LEMMA OutcomeInit == Init => OutcomeInv
  BY CoordinationInit
     DEF Init, NoReview, OutcomeInv, GatherInv, MetInv, WeightInv, GivenUpInv, ReviewInv,
         InCall

THEOREM OutcomeStep == OutcomeInv /\ [Next]_vars => OutcomeInv'
<1> SUFFICES ASSUME OutcomeInv, [Next]_vars PROVE OutcomeInv' OBVIOUS
<1>t. CoordinationInv /\ CoordinationInv' /\ TypeOK /\ TypeOK'
  BY CoordinationStep DEF OutcomeInv, CoordinationInv
<1> USE <1>t
<1>0. CASE UNCHANGED vars \/ ChangeLedger
  <2>1. pc' = pc /\ review' = review /\ UNCHANGED <<envelope, local, request, callVars>>
    BY <1>0 DEF vars, ChangeLedger, callVars
  <2>2. ReviewInv' BY <2>1, ReviewKept DEF OutcomeInv
  <2>3. ASSUME pc \in {"sign", "done"} PROVE ~Hopeless
    BY <2>3 DEF Hopeless, AtRequirement
  <2> HIDE DEF Hopeless
  <2>4. PICK p : p = pc OBVIOUS
  <2> QED
    BY <2>1, <2>2, <2>3, <2>4, ControlKeepsOutcome DEF OutcomeInv, MetInv, GivenUpInv
<1>1. CASE Review
  <2> DEFINE S == Recognised(ledger, {}) \union (PlanConditions(ledger) \intersect local)
  <2>1. /\ review'.auth = ledger /\ (review'.promised <=> Satisfiable(ledger, S))
        /\ ~ForChallenge /\ ledger' = ledger /\ envelope' = envelope /\ local' = local
    <3>1. Satisfiable(ledger, S) \in BOOLEAN BY Zenon DEF Satisfiable
    <3> QED BY <1>1, <3>1 DEF Review
  <2>2. ReviewInv'
    <3>1. Sources' = Sources /\ (ForChallenge <=> ForChallenge')
      BY <2>1 DEF Sources, ForChallenge
    <3>2. PlanConditions(review.auth)' = PlanConditions(ledger)
      BY <2>1, <3>1 DEF PlanConditions
    <3>3. Recognised(review.auth, {})' = Recognised(ledger, {})
      BY <2>1, <3>1, <3>2 DEF Recognised, Excluded
    <3>4. (Recognised(review.auth, {}) \union (PlanConditions(review.auth) \intersect local))' = S
      BY <2>1, <3>2, <3>3
    <3> HIDE DEF S
    <3>5. \A a : Required(review.auth, a)' = Required(ledger, a)
      BY <2>1, <3>1 DEF Required, ForChallenge
    <3>6. \A a : AvailableWeight(review'.auth, a, S) = AvailableWeight(ledger, a, S)
      BY <2>1 DEF AvailableWeight
    <3>7. review'.promised => /\ envelope'.extras \subseteq S
                              /\ \A a \in Sources : AvailableWeight(review'.auth, a, S)
                                                      >= Required(review.auth, a)'
      BY <2>1, <3>5, <3>6 DEF Satisfiable
    <3> QED BY <2>1, <3>1, <3>4, <3>7 DEF ReviewInv, Satisfiable, AvailableWeight
  <2>3. pc' = "reviewed" /\ UNCHANGED <<envelope, local, request, callVars>>
    BY <1>1 DEF Review
  <2> QED BY <2>2, <2>3, ControlKeepsOutcome
<1>2. CASE Start \/ LoadFails \/ ProvidersRefused \/ PasscodeRefused \/ SignFails
  <2>1. Control("load") \/ Control("refused")
    BY <1>2 DEF Start, LoadFails, ProvidersRefused, PasscodeRefused, SignFails, Control
  <2>2. ReviewInv' /\ UNCHANGED <<envelope, local, request, callVars>>
    BY <2>1, ReviewKept DEF OutcomeInv, Control
  <2>3. pc' \in {"load", "refused"} BY <2>1 DEF Control
  <2> QED BY <2>2, <2>3, ControlKeepsOutcome
<1>3. ASSUME NEW a \in Accounts, LoadAccount(a) PROVE OutcomeInv'
  <2>1. pc' = "load" BY <1>3 DEF LoadAccount
  <2>2. ReviewInv' BY <1>3, ReviewKept DEF LoadAccount, OutcomeInv
  <2> QED
    BY <2>1, <2>2 DEF OutcomeInv, GatherInv, MetInv, WeightInv, GivenUpInv, InCall
<1>4. CASE Recognise
  <2>1. selected = <<>> /\ Range(selected) = {}
    BY <1>4 DEF Recognise, Loaded, CoordinationInv, OrderInv, Range
  <2>2. /\ current' = Recognised(plan, {}) /\ selected' = <<>> /\ pc' = "select"
        /\ requirements' = envelope.sources /\ Recognised(plan, {})' = Recognised(plan, {})
        /\ Sources' = Sources
    BY <1>4, <2>1, PlanKept DEF Recognise
  <2>3. Range(selected') = {} BY <2>2 DEF Range
  <2>4. ReviewInv' BY <1>4, ReviewKept DEF Recognise, OutcomeInv
  <2>5. Range(requirements)' = Sources' BY <2>2 DEF Sources
  <2> QED
    BY <2>2, <2>3, <2>4, <2>5 DEF OutcomeInv, GatherInv, MetInv, WeightInv, GivenUpInv, InCall
<1>5. ASSUME NEW k \in Keys, SelectExtra(k) PROVE OutcomeInv'
  <2>1. /\ pc = "select" /\ Take(k) /\ k \in envelope.extras /\ k \in Available
        /\ ExtrasLeft /= {}
    BY <1>5 DEF SelectExtra, Candidates, ExtrasLeft
  <2>2. k \in PlanConditions(plan) BY <2>1 DEF PlanConditions
  <2>3. WeightInv'
    <3>1. ~Hopeless BY <2>1 DEF Hopeless, AtRequirement
    <3>2. Range(selected') = Range(selected) \union {k}
      BY <2>1, RangeOfAppend DEF Take, TypeOK
    <3>3. /\ envelope' = envelope /\ plan' = plan /\ Sources' = Sources
          /\ (ForChallenge <=> ForChallenge')
      BY <2>1, PlanFrame DEF Take
    <3> QED BY <2>1, <3>1, <3>2, <3>3 DEF OutcomeInv, WeightInv
  <2> QED BY <2>1, <2>2, <2>3, TakeKeepsOutcome
<1>6. ASSUME NEW k \in Keys, SelectSigner(k) PROVE OutcomeInv'
  <2>1. /\ pc = "select" /\ Take(k) /\ k \in Available
        /\ Head(requirements) \in Sources /\ k \in plan[Head(requirements)].signers
    BY <1>6 DEF SelectSigner, AtRequirement, BestSigners, Candidates, CoordinationInv,
       SelectionInv, TypeOK
  <2>2. k \in PlanConditions(plan) BY <2>1 DEF PlanConditions
  <2> QED BY <1>6, <2>1, <2>2, SignerKeepsWeights, TakeKeepsOutcome
<1>7. ASSUME NEW k \in Keys, SelectProof(k) PROVE OutcomeInv'
  <2>1. ForChallenge /\ pc = "select" /\ Take(k)
    BY <1>7 DEF SelectProof, AtMinimum, EnoughProofs
  <2>2. k \in Available /\ \E a \in Sources : k \in plan[a].signers
    BY <1>7 DEF SelectProof, BestProofs, Candidates
  <2>3. k \in PlanConditions(plan) BY <2>2 DEF PlanConditions
  <2>4. WeightInv' BY <2>1 DEF WeightInv, Take, ForChallenge
  <2> QED BY <2>1, <2>2, <2>3, <2>4, TakeKeepsOutcome
<1>8. CASE ExtraUnavailable \/ RequirementUnmet \/ ProofUnavailable
  <2>1. Control("unsatisfiable") /\ pc = "select"
    BY <1>8 DEF ExtraUnavailable, RequirementUnmet, ProofUnavailable, AtRequirement,
       AtMinimum, Unsatisfiable, Control
  <2>2. ReviewInv' /\ UNCHANGED <<envelope, local, request, callVars>>
    BY <2>1, ReviewKept DEF OutcomeInv, Control
  <2> QED BY <1>8, <2>1, <2>2, GivesUpRightly, ControlKeepsOutcome DEF Control
<1>9. CASE RequirementMet
  <2> DEFINE b == Head(requirements)
  <2>1. /\ envelope' = envelope /\ local' = local /\ request' = request /\ plan' = plan
        /\ current' = current /\ selected' = selected /\ pc' = "select" /\ pc = "select"
        /\ requirements' = Tail(requirements) /\ requirements /= <<>> /\ Met(b)
        /\ review' = review
    BY <1>9 DEF RequirementMet, AtRequirement
  <2>2. /\ Sources' = Sources /\ (ForChallenge <=> ForChallenge')
        /\ Available' = Available /\ PlanConditions(plan)' = PlanConditions(plan)
        /\ Recognised(plan, {})' = Recognised(plan, {})
    BY <2>1, PlanKept
  <2>3. GatherInv' BY <2>1, <2>2 DEF OutcomeInv, GatherInv, InCall
  <2>4. MetInv'
    <3>1. \A a : (Met(a) <=> Met(a)')
      BY <2>1, PlanKept DEF Met, AvailableWeight
    <3>2. Range(requirements) \subseteq {b} \union Range(Tail(requirements))
      <4>1. \A i \in DOMAIN requirements :
              i = 1 \/ (i - 1 \in DOMAIN Tail(requirements)
                        /\ requirements[i] = Tail(requirements)[i - 1])
        BY <2>1 DEF TypeOK
      <4> QED BY <4>1 DEF Range
    <3> QED BY <2>1, <2>2, <3>1, <3>2 DEF OutcomeInv, MetInv
  <2>5. WeightInv'
    <3>1. ~Hopeless BY <2>1 DEF Hopeless
    <3> QED BY <2>1, <2>2, <3>1 DEF OutcomeInv, WeightInv
  <2>6. ReviewInv' BY <2>1, ReviewKept DEF OutcomeInv
  <2> QED BY <2>1, <2>3, <2>4, <2>5, <2>6 DEF OutcomeInv, GivenUpInv
<1>10. CASE Selected
  <2>1. /\ pc = "select" /\ pc' = "sign" /\ review' = review
        /\ UNCHANGED <<envelope, local, request, callVars>>
        /\ requirements = <<>> /\ ExtrasLeft = {} /\ EnoughProofs
    BY <1>10 DEF Selected, AtMinimum
  <2>2. ReviewInv' BY <2>1, ReviewKept DEF OutcomeInv
  <2>3. (\A a \in Sources : Met(a)) /\ ~Hopeless
    BY <2>1 DEF OutcomeInv, MetInv, Range, Hopeless, AtRequirement
  <2> QED BY <2>1, <2>2, <2>3, ControlKeepsOutcome
<1>12. CASE SignNext
  <2>1. /\ envelope' = envelope /\ local' = local /\ request' = request /\ plan' = plan
        /\ current' = current /\ selected' = selected /\ pc' = "sign" /\ pc = "sign"
        /\ requirements' = requirements /\ review' = review
    BY <1>12 DEF SignNext, Signing
  <2>2. /\ Sources' = Sources /\ (ForChallenge <=> ForChallenge')
        /\ Available' = Available /\ PlanConditions(plan)' = PlanConditions(plan)
        /\ Recognised(plan, {})' = Recognised(plan, {})
    BY <2>1, PlanKept
  <2>3. GatherInv' BY <2>1, <2>2 DEF OutcomeInv, GatherInv, InCall
  <2>4. MetInv'
    <3>1. \A a : (Met(a) <=> Met(a)')
      BY <2>1, PlanKept DEF Met, AvailableWeight
    <3> QED BY <2>1, <2>2, <3>1 DEF OutcomeInv, MetInv, ExtrasLeft, EnoughProofs
  <2>5. WeightInv'
    <3>1. ~Hopeless BY <2>1 DEF Hopeless, AtRequirement
    <3> QED BY <2>1, <2>2, <3>1 DEF OutcomeInv, WeightInv
  <2>6. ReviewInv' BY <2>1, ReviewKept DEF OutcomeInv
  <2> QED BY <2>1, <2>3, <2>4, <2>5, <2>6 DEF OutcomeInv, GivenUpInv
<1>13. CASE Verify
  <2>1. /\ pc = "sign" /\ pc' \in {"done", "refused"} /\ review' = review
        /\ added = selected /\ UNCHANGED <<envelope, local, request, callVars>>
    BY <1>13, Zenon DEF Verify
  <2>2. ReviewInv' BY <2>1, ReviewKept DEF OutcomeInv
  <2>3. /\ ExtrasLeft = {} /\ EnoughProofs /\ \A a \in Sources : Met(a)
        /\ ~Hopeless
    BY <2>1 DEF OutcomeInv, MetInv, Hopeless, AtRequirement
  <2> QED BY <2>1, <2>2, <2>3, ControlKeepsOutcome
<1>14. CASE Again
  <2>1. pc' = "prepared" BY <1>14 DEF Again
  <2>2. ReviewInv' BY <1>14, ReviewKept DEF Again, OutcomeInv
  <2> QED
    BY <2>1, <2>2 DEF OutcomeInv, GatherInv, MetInv, WeightInv, GivenUpInv, InCall
<1> QED
  BY <1>0, <1>1, <1>2, <1>3, <1>4, <1>5, <1>6, <1>7, <1>8, <1>9, <1>10, <1>12,
     <1>13, <1>14 DEF Next, Load, Select, Sign

LEMMA InvComplete == OutcomeInv => SelectionIsComplete
<1> SUFFICES ASSUME OutcomeInv PROVE SelectionIsComplete OBVIOUS
<1>1. pc = "unsatisfiable" =>
         \/ ~Satisfiable(plan, All)
         \/ ForChallenge /\ All \intersect Keys = {}
  BY DEF OutcomeInv, GivenUpInv
<1>2. pc = "sign" /\ added = selected => Authorized BY SignedIsAuthorized
<1> QED BY <1>1, <1>2 DEF SelectionIsComplete, All

LEMMA InvHonest == OutcomeInv => ReviewIsHonest
<1> SUFFICES ASSUME OutcomeInv, pc = "unsatisfiable", review.made, review.promised,
                    \A a \in Sources : review.auth[a] = plan[a]
             PROVE  FALSE
  BY DEF ReviewIsHonest
<1> DEFINE S == Recognised(plan, {}) \union (PlanConditions(plan) \intersect local)
<1>1. ~ForChallenge /\ ~Satisfiable(plan, All)
  BY DEF OutcomeInv, ReviewInv, GivenUpInv
<1>2. Satisfiable(plan, S)
  <2>1. /\ PlanConditions(review.auth) = PlanConditions(plan)
        /\ \A T : /\ Recognised(review.auth, T) = Recognised(plan, T)
                  /\ Satisfiable(review.auth, T) <=> Satisfiable(plan, T)
    BY PlansAgree
  <2> QED BY <2>1 DEF OutcomeInv, ReviewInv
<1>3. S \subseteq All
  <2>1. Excluded = {}
    BY <1>1, EnvelopesAssumption
       DEF Excluded, ForChallenge, OutcomeInv, CoordinationInv, TypeOK, EnvelopeType
  <2> QED BY <2>1 DEF All, Available
<1>4. Complete(plan) /\ envelope \in Envelopes
  BY DEF OutcomeInv, CoordinationInv, TypeOK, Complete
<1> HIDE DEF S
<1> QED BY <1>1, <1>2, <1>3, <1>4, SatisfiableIsMonotone

\* What a finished call leaves on the envelope.
LEMMA SignedSatisfies ==
    ASSUME OutcomeInv, pc = "done"
    PROVE  /\ Complete(plan) /\ envelope \in Envelopes /\ TypeOK
           /\ added = selected /\ EnoughProofs
           /\ current = Recognised(plan, Range(added))
           /\ Range(added) \intersect Excluded = {}
           /\ Satisfiable(plan, current)
           /\ envelope.signed \union Range(added) \subseteq Conditions
<1>1. added = selected BY DEF OutcomeInv
<1>2. Complete(plan) /\ envelope \in Envelopes /\ TypeOK /\ EnoughProofs
  BY DEF OutcomeInv, CoordinationInv, TypeOK, Complete, MetInv
<1>3. Satisfiable(plan, current)
  BY <1>1, SignedIsCurrent, SignedIsAuthorized DEF Authorized
<1>4. Range(added) \subseteq Conditions BY <1>2 DEF TypeOK, Range, Conditions
<1> QED BY <1>1, <1>2, <1>3, <1>4, SignedIsCurrent, SourcesAreAccounts

LEMMA InvNetwork == OutcomeInv => AcceptedByNetwork
<1> SUFFICES ASSUME OutcomeInv, pc = "done", ~ForChallenge,
                    \A a \in Sources : plan[a] = ledger[a]
             PROVE  LET signatures == envelope.signed \union Range(added)
                        Weight(a) == SumFunctionOnSet(ledger[a].weight, signatures)
                    IN  /\ envelope.extras \subseteq signatures
                        /\ \A a \in Sources : \A l \in envelope.uses[a] :
                             Weight(a) >= ledger[a][l] /\ Weight(a) > 0
                        /\ \A k \in Range(added) \ envelope.extras :
                             \E a \in Sources : ledger[a].weight[k] > 0
  BY DEF AcceptedByNetwork
<1> DEFINE signatures == envelope.signed \union Range(added)
           Weight(a) == SumFunctionOnSet(ledger[a].weight, signatures)
<1>1. /\ Complete(plan) /\ envelope \in Envelopes /\ added = selected
      /\ current \subseteq signatures /\ Satisfiable(plan, current)
      /\ signatures \subseteq Conditions
  BY SignedSatisfies DEF Recognised
<1> HIDE DEF signatures
<1>2. ASSUME NEW a \in Sources, NEW l \in envelope.uses[a]
      PROVE  Weight(a) >= ledger[a][l] /\ Weight(a) > 0
  <2> DEFINE S == plan[a].signers \intersect current
  <2>1. Weighs(plan[a].weight, signatures) BY <1>1, WeightsAreNumbers
  <2>2. S \in SUBSET signatures BY <1>1
  <2>3. /\ SumFunctionOnSet(plan[a].weight, S) <= SumFunctionOnSet(plan[a].weight, signatures)
        /\ SumFunctionOnSet(plan[a].weight, signatures) \in Nat
    BY <2>1, <2>2, SumIsMonotone, SumType
  <2>4. SumFunctionOnSet(plan[a].weight, S) >= Required(plan, a)
    BY <1>1 DEF Satisfiable, AvailableWeight
  <2>5. /\ Required(plan, a) \in Nat /\ Required(plan, a) >= 1
        /\ Required(plan, a) >= plan[a][l]
    BY <1>1, RequiredIsMost
  <2>6. plan[a][l] \in Nat
    <3>1. l \in {"low", "medium"}
      BY <1>1, SourcesAreAccounts, EnvelopesAssumption DEF EnvelopeType, Levels
    <3> QED BY <1>1, <3>1 DEF Complete, AccountAuthorization
  <2>7. SumFunctionOnSet(plan[a].weight, S) \in Nat
    BY <1>1, AvailableIsMonotone DEF AvailableWeight
  <2>8. ledger[a] = plan[a] OBVIOUS
  <2> HIDE DEF S
  <2> QED BY <2>3, <2>4, <2>5, <2>6, <2>7, <2>8
<1>3. envelope.extras \subseteq signatures BY <1>1 DEF Satisfiable
<1>4. ~Hopeless BY DEF Hopeless, AtRequirement
<1>5. \A k \in Range(added) \ envelope.extras : \E a \in Sources : plan[a].weight[k] > 0
  BY <1>1, <1>4 DEF OutcomeInv, WeightInv
<1> QED BY <1>2, <1>3, <1>5 DEF signatures

LEMMA InvAnchor == OutcomeInv => AcceptedByAnchor
<1> SUFFICES ASSUME OutcomeInv, pc = "done", ForChallenge
             PROVE  LET client == ((envelope.signed \union Range(added)) \intersect Keys) \ Excluded
                        a == Head(envelope.sources)
                    IN  /\ client \intersect plan[a].signers /= {}
                        /\ AvailableWeight(plan, a, client) >= plan[a].medium
                        /\ Range(added) \intersect Excluded = {}
  BY DEF AcceptedByAnchor
<1> DEFINE client == ((envelope.signed \union Range(added)) \intersect Keys) \ Excluded
           a == Head(envelope.sources)
<1>1. /\ Complete(plan) /\ envelope \in Envelopes
      /\ EnoughProofs /\ Satisfiable(plan, current)
      /\ current = (PlanConditions(plan) \intersect (envelope.signed \union Range(added))
                      \intersect Keys) \ Excluded
      /\ Range(added) \intersect Excluded = {}
  BY SignedSatisfies DEF Recognised
<1>2. Sources = {a} /\ envelope.extras = {}
  <2>1. envelope.extras = {} /\ Len(envelope.sources) = 1
    BY <1>1, EnvelopesAssumption DEF ForChallenge
  <2>2. DOMAIN envelope.sources = {1} /\ a = envelope.sources[1]
    BY <1>1, <2>1, SourcesAreAccounts
  <2> QED BY <2>1, <2>2 DEF Sources, Range
<1>3. PlanConditions(plan) = plan[a].signers BY <1>2 DEF PlanConditions
<1>4. current \subseteq client /\ current \subseteq plan[a].signers /\ current /= {}
  BY <1>1, <1>3 DEF EnoughProofs
<1> HIDE DEF client, a
<1>5. /\ AvailableWeight(plan, a, current) \in Nat /\ AvailableWeight(plan, a, client) \in Nat
      /\ AvailableWeight(plan, a, current) <= AvailableWeight(plan, a, client)
  BY <1>1, <1>2, <1>4, AvailableIsMonotone
<1>6. AvailableWeight(plan, a, current) >= Required(plan, a) /\ Required(plan, a) \in Nat
  BY <1>1, <1>2, RequiredIsMost DEF Satisfiable
<1>7. Required(plan, a) = plan[a].medium BY DEF Required
<1>8. AvailableWeight(plan, a, client) >= plan[a].medium BY <1>5, <1>6, <1>7
<1>9. client \intersect plan[a].signers /= {} BY <1>4
<1> QED BY <1>1, <1>8, <1>9 DEF client, a

\* A signed transaction is one the network authorises: for any accounts,
\* thresholds and weights, as long as the ledger is what was loaded.
THEOREM SignedIsAccepted == Spec => []AcceptedByNetwork
<1>1. Spec => []OutcomeInv BY OutcomeInit, OutcomeStep, PTL DEF Spec
<1> QED BY <1>1, InvNetwork, PTL

\* A signed challenge satisfies an anchor that counts for itself.
THEOREM ChallengeIsAccepted == Spec => []AcceptedByAnchor
<1>1. Spec => []OutcomeInv BY OutcomeInit, OutcomeStep, PTL DEF Spec
<1> QED BY <1>1, InvAnchor, PTL

\* The greedy selection gives up only when all the keys at hand together would
\* not do, and what it selected passes the closing check.
THEOREM GreedyIsComplete == Spec => []SelectionIsComplete
<1>1. Spec => []OutcomeInv BY OutcomeInit, OutcomeStep, PTL DEF Spec
<1> QED BY <1>1, InvComplete, PTL

\* A plan the review called locally satisfiable is not refused as unsatisfiable.
THEOREM ReviewIsKept == Spec => []ReviewIsHonest
<1>1. Spec => []OutcomeInv BY OutcomeInit, OutcomeStep, PTL DEF Spec
<1> QED BY <1>1, InvHonest, PTL
=============================================================================
