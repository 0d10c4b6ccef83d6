------------------------ MODULE SigningCoordination ------------------------
(***************************************************************************)
(* Authorising one prepared envelope: load the ledger authorization of     *)
(* every source account, recognise the conditions the envelope satisfies,  *)
(* select the Ed25519 signers still needed, sign with one key after the    *)
(* other, and verify the result against the same plan.                     *)
(*                                                                         *)
(* Two purposes share the code: a transaction (sign_with_ed25519_providers *)
(* and its passcode-only form sign_with_local_ed25519) and a SEP-10        *)
(* challenge, whose plan and final check are in anchor_protocol.rs and     *)
(* whose caller, a product, passes the server key as excluded and asks for *)
(* one signature at least.                                                 *)
(*                                                                         *)
(* The ledger is read account by account and may change at any time.       *)
(***************************************************************************)
EXTENDS Naturals, Sequences, FiniteSets, Functions

CONSTANTS
    Accounts,    \* source accounts of the envelope's uses
    Keys,        \* Ed25519 signer conditions
    Others,      \* preauthorized-transaction, Hash-X, signed-payload conditions
    Ledgers,     \* authorization states of the accounts the ledger can be in
    Envelopes,   \* prepared envelopes
    Custodies,   \* sets of keys with a local protected record on the network
    Requests,    \* signing calls: providers, passcode, purpose
    MaxChanges,  \* bound of the ledger changes
    NotLoaded    \* an account whose authorization has not been fetched

Conditions == Keys \union Others
Levels == {"low", "medium"}

\* LedgerAccountAuthorization: thresholds, the signers Horizon lists (the
\* master key is listed with weight zero too) and their weights.
AccountAuthorization ==
    [low: Nat, medium: Nat, signers: SUBSET Conditions, weight: [Conditions -> Nat]]

\* sources: source accounts in the order of their first use, the transaction
\* source first; uses: the threshold levels each is used at; signed: the
\* conditions the envelope's existing signatures and hash satisfy; supported:
\* every operation has a known threshold; server: the anchor's signing key.
EnvelopeType ==
    [purpose: {"transaction", "sep10"}, sources: Seq(Accounts),
     uses: [Accounts -> SUBSET Levels], extras: SUBSET Conditions,
     signed: SUBSET Conditions, supported: BOOLEAN, server: SUBSET Keys]

\* repeated: a provider list names a key twice; opens: the local records the
\* passcode given (if any) opens.
RequestType ==
    [path: {"providers", "local"}, system: SUBSET Keys, external: SUBSET Keys,
     repeated: BOOLEAN, given: BOOLEAN, opens: SUBSET Keys]

ASSUME LedgersAssumption == Ledgers \subseteq [Accounts -> AccountAuthorization]
ASSUME EnvelopesAssumption ==
    \A e \in Envelopes :
        /\ e \in EnvelopeType
        /\ e.sources /= <<>>
        /\ e.purpose = "transaction" => e.server = {}
        /\ e.purpose = "sep10" => e.extras = {} /\ Len(e.sources) = 1
ASSUME RequestsAssumption ==
    \A r \in Requests :
        /\ r \in RequestType
        /\ r.path = "local" => r.system = {} /\ r.external = {} /\ r.given /\ ~r.repeated
        /\ ~r.given => r.opens = {}
ASSUME CustodiesAssumption == Custodies \subseteq SUBSET Keys
ASSUME ConditionsAssumption ==
    /\ Keys \intersect Others = {}
    /\ MaxChanges \in Nat
    /\ NotLoaded \notin AccountAuthorization
    /\ IsFiniteSet(Conditions)

VARIABLES
    ledger,        \* account -> authorization on the ledger
    changes,       \* number of ledger changes, for the bound
    envelope,      \* the prepared envelope
    local,         \* keys with a local protected record
    pc,            \* where the flow is
    review,        \* what the review promised, and for which authorization
    request,       \* the signing call
    plan,          \* account -> authorization as loaded for this call
    current,       \* conditions satisfied or selected so far
    selected,      \* keys selected, in order
    requirements,  \* source accounts not yet gone through
    added          \* keys whose signature this call added, in order

vars == <<ledger, changes, envelope, local, pc, review, request, plan, current,
          selected, requirements, added>>

Sources == Range(envelope.sources)
ForChallenge == envelope.purpose = "sep10"

\* excluded_keys, an argument that only a SEP-10 caller sets.
Excluded == envelope.server

-----------------------------------------------------------------------------
(***************************************************************************)
(* The authorization plan (ledger_authorization.rs, sep10_authorization_   *)
(* plan), over the account authorizations in auth.                         *)
(***************************************************************************)

\* Mutant: the transaction source's low threshold is all that is asked for.
RequiredForSource(auth, a) ==
    IF ForChallenge THEN auth[a].medium
    ELSE IF auth[a].low = 0 THEN 1 ELSE auth[a].low

\* A transaction needs the strongest of an account's uses and never less than
\* weight one; a SEP-10 challenge the raw medium threshold.
Required(auth, a) ==
    IF ForChallenge THEN auth[a].medium
    ELSE CHOOSE n \in {1} \union {auth[a][l] : l \in envelope.uses[a]} :
            n >= 1 /\ \A l \in envelope.uses[a] : n >= auth[a][l]

AvailableWeight(auth, a, conditions) ==
    SumFunctionOnSet(auth[a].weight, auth[a].signers \intersect conditions)

Satisfiable(auth, conditions) ==
    /\ envelope.extras \subseteq conditions
    /\ \A a \in Sources : AvailableWeight(auth, a, conditions) >= Required(auth, a)

PlanConditions(auth) == envelope.extras \union UNION {auth[a].signers : a \in Sources}

\* Mutant: the server's own signature counts for the client.
RecognisedWithServer(auth, signatures) ==
    LET satisfied == PlanConditions(auth) \intersect (envelope.signed \union signatures)
    IN  IF ForChallenge THEN satisfied \intersect Keys ELSE satisfied

\* Conditions of the plan the envelope satisfies with these added signatures.
\* A transaction recognises every kind; SEP-10 only Ed25519 signatures, and
\* never the server's.
Recognised(auth, signatures) ==
    LET satisfied == PlanConditions(auth) \intersect (envelope.signed \union signatures)
    IN  IF ForChallenge
        THEN (satisfied \intersect Keys) \ Excluded
        ELSE satisfied

-----------------------------------------------------------------------------
(***************************************************************************)
(* Keys a call can sign with.                                              *)
(***************************************************************************)

Available == (local \union request.external) \ Excluded

\* Ed25519 signers among these conditions that can still be added.
Candidates(signers) == ((signers \intersect Keys) \intersect Available) \ current

\* Mutant: a signer is chosen only if it meets the requirement alone.
SufficientSigners(a) ==
    {k \in Candidates(plan[a].signers) : plan[a].weight[k] >= Required(plan, a)}

\* best_available_signer of one account: greatest weight, ties as Horizon orders.
BestSigners(a) ==
    LET candidates == Candidates(plan[a].signers)
    IN  {k \in candidates : \A c \in candidates : plan[a].weight[c] <= plan[a].weight[k]}

\* best_available_signer over the signers of every requirement.
BestProofs ==
    LET offers == UNION {{<<a, k>> : k \in Candidates(plan[a].signers)} : a \in Sources}
    IN  {k \in Keys :
           \E o \in offers :
             /\ o[2] = k
             /\ \A p \in offers :
                  plan[p[1]].weight[p[2]] <= plan[o[1]].weight[k]}

\* Selected keys signed with the passcode.
PasscodeSigners == Range(selected) \ (request.external \union request.system)

-----------------------------------------------------------------------------
NoReview == [made |-> FALSE, promised |-> FALSE, auth |-> [a \in Accounts |-> NotLoaded]]

Init ==
    /\ ledger \in Ledgers
    /\ changes = 0
    /\ envelope \in Envelopes
    /\ local \in Custodies
    /\ pc = "prepared"
    /\ review = NoReview
    /\ request \in Requests
    /\ plan = [a \in Accounts |-> NotLoaded]
    /\ current = {}
    /\ selected = <<>>
    /\ requirements = <<>>
    /\ added = <<>>

callVars == <<plan, current, selected, requirements, added>>

\* review_ledger_authorization: would the local keys alone satisfy the plan?
Review ==
    /\ pc = "prepared" /\ envelope.supported
    /\ ~ForChallenge
    /\ LET satisfied == Recognised(ledger, {})
       IN  review' = [made |-> TRUE, auth |-> ledger,
                      promised |-> Satisfiable(ledger,
                          satisfied \union (PlanConditions(ledger) \intersect local))]
    /\ pc' = "reviewed"
    /\ UNCHANGED <<ledger, changes, envelope, local, request, callVars>>

\* A signing call starts: on a reviewed envelope, or on one a product made.
Start ==
    /\ pc \in {"prepared", "reviewed"}
    /\ pc' = "load"
    /\ UNCHANGED <<ledger, changes, envelope, local, review, request, callVars>>

-----------------------------------------------------------------------------
(***************************************************************************)
(* load_classic_ledger_authorization_plan: every source is fetched once,   *)
(* one request after the other.                                            *)
(***************************************************************************)

LoadAccount(a) ==
    /\ pc = "load" /\ envelope.supported
    /\ a \in Sources /\ plan[a] = NotLoaded
    /\ plan' = [plan EXCEPT ![a] = ledger[a]]
    /\ UNCHANGED <<ledger, changes, envelope, local, pc, review, request, current,
                   selected, requirements, added>>

\* Mutant: a failed request counts as an account nobody can sign for.
LoadFailsUnsatisfiable ==
    /\ pc = "load"
    /\ pc' = "unsatisfiable"
    /\ UNCHANGED <<ledger, changes, envelope, local, review, request, callVars>>

\* An operation without a known threshold, a failed request, another account's
\* state, a malformed or duplicate signer.
LoadFails ==
    /\ pc = "load"
    /\ pc' = "refused"
    /\ UNCHANGED <<ledger, changes, envelope, local, review, request, callVars>>

\* system-auth providers must match local records, no provider may be given
\* twice, and no key may have both kinds.
ProvidersConsistent ==
    /\ request.system \subseteq local
    /\ ~request.repeated
    /\ request.system \intersect request.external = {}

Loaded == pc = "load" /\ envelope.supported /\ \A a \in Sources : plan[a] /= NotLoaded

Recognise ==
    /\ Loaded
    /\ ProvidersConsistent
    /\ current' = Recognised(plan, {})
    /\ requirements' = envelope.sources
    /\ pc' = "select"
    /\ UNCHANGED <<ledger, changes, envelope, local, review, request, plan, selected,
                   added>>

ProvidersRefused ==
    /\ Loaded
    /\ ~ProvidersConsistent
    /\ pc' = "refused"
    /\ UNCHANGED <<ledger, changes, envelope, local, review, request, callVars>>

-----------------------------------------------------------------------------
(***************************************************************************)
(* select_ed25519_signers.                                                 *)
(***************************************************************************)

Take(k) ==
    /\ current' = current \union {k}
    /\ selected' = Append(selected, k)
    /\ UNCHANGED <<ledger, changes, envelope, local, pc, review, request, plan,
                   requirements, added>>

Unsatisfiable ==
    /\ pc' = "unsatisfiable"
    /\ UNCHANGED <<ledger, changes, envelope, local, review, request, callVars>>

ExtrasLeft == envelope.extras \ current

SelectExtra(k) ==
    /\ pc = "select"
    /\ k \in Candidates(ExtrasLeft)
    /\ Take(k)

ExtraUnavailable ==
    /\ pc = "select"
    /\ \E c \in ExtrasLeft : c \notin Candidates(ExtrasLeft)
    /\ Unsatisfiable

\* The requirement at the head of the list, once the extra signers are done.
AtRequirement == pc = "select" /\ ExtrasLeft = {} /\ requirements /= <<>>

\* Mutant: a threshold reached exactly is not enough.
MetStrictly(a) == AvailableWeight(plan, a, current) > Required(plan, a)

Met(a) == ~(AvailableWeight(plan, a, current) < Required(plan, a))

SelectSigner(k) ==
    /\ AtRequirement /\ ~Met(Head(requirements))
    /\ k \in BestSigners(Head(requirements))
    /\ Take(k)

RequirementUnmet ==
    /\ AtRequirement /\ ~Met(Head(requirements))
    /\ BestSigners(Head(requirements)) = {}
    /\ Unsatisfiable

RequirementMet ==
    /\ AtRequirement /\ Met(Head(requirements))
    /\ requirements' = Tail(requirements)
    /\ UNCHANGED <<ledger, changes, envelope, local, pc, review, request, plan, current,
                   selected, added>>

AtMinimum == pc = "select" /\ ExtrasLeft = {} /\ requirements = <<>>

\* Mutant: the caller does not ask for a signature of its own.
NoProofNeeded == TRUE

\* minimum_signatures: none for a transaction, one for a challenge.
EnoughProofs == ForChallenge => current \intersect Keys /= {}

SelectProof(k) ==
    /\ AtMinimum /\ ~EnoughProofs
    /\ k \in BestProofs
    /\ Take(k)

ProofUnavailable ==
    /\ AtMinimum /\ ~EnoughProofs
    /\ BestProofs = {}
    /\ Unsatisfiable

\* Mutant: the passcode is tried only when its turn comes.
PasscodeTriedLate == TRUE

\* The passcode must open every record it is needed for before anything is
\* signed; the passcode-only form finds out key by key.
PasscodeAccepted ==
    \/ request.path = "local"
    \/ PasscodeSigners = {}
    \/ request.given /\ PasscodeSigners \subseteq request.opens

Selected ==
    /\ AtMinimum /\ EnoughProofs
    /\ PasscodeAccepted
    /\ pc' = "sign"
    /\ UNCHANGED <<ledger, changes, envelope, local, review, request, callVars>>

PasscodeRefused ==
    /\ AtMinimum /\ EnoughProofs
    /\ ~PasscodeAccepted
    /\ pc' = "refused"
    /\ UNCHANGED <<ledger, changes, envelope, local, review, request, callVars>>

-----------------------------------------------------------------------------
(***************************************************************************)
(* Signing, one selected key after the other.                              *)
(***************************************************************************)

Signing == pc = "sign" /\ Len(added) < Len(selected)

NextKey == selected[Len(added) + 1]

ByPasscode(k) == k \in PasscodeSigners

SignNext ==
    /\ Signing
    /\ ByPasscode(NextKey) => NextKey \in request.opens
    /\ added' = Append(added, NextKey)
    /\ UNCHANGED <<ledger, changes, envelope, local, pc, review, request, plan, current,
                   selected, requirements>>

\* A provider fails, is cancelled or returns an invalid signature, or the
\* passcode does not open the record.
SignFails ==
    /\ Signing
    /\ ByPasscode(NextKey) => NextKey \notin request.opens
    /\ pc' = "refused"
    /\ UNCHANGED <<ledger, changes, envelope, local, review, request, callVars>>

\* The closing check of sign_with_ed25519_providers, and the one of
\* exchange_anchor_sep10_challenge.
Authorized ==
    LET satisfied == Recognised(plan, Range(added))
    IN  /\ Satisfiable(plan, satisfied)
        /\ ForChallenge => satisfied /= {}

Verify ==
    /\ pc = "sign" /\ added = selected
    /\ pc' = IF Authorized THEN "done" ELSE "refused"
    /\ UNCHANGED <<ledger, changes, envelope, local, review, request, callVars>>

\* The holder of the prepared envelope calls again, with the passcode and the
\* providers it now has.  Every attempt signs a fresh copy of the envelope.
Again ==
    /\ pc \in {"refused", "unsatisfiable", "done"}
    /\ pc' = "prepared"
    /\ request' \in Requests
    /\ plan' = [a \in Accounts |-> NotLoaded]
    /\ current' = {} /\ selected' = <<>> /\ requirements' = <<>> /\ added' = <<>>
    /\ UNCHANGED <<ledger, changes, envelope, local, review>>

\* Signers or thresholds of the accounts change on the ledger, external.
ChangeLedger ==
    /\ changes < MaxChanges
    /\ changes' = changes + 1
    /\ ledger' \in Ledgers
    /\ UNCHANGED <<envelope, local, pc, review, request, callVars>>

-----------------------------------------------------------------------------
Load == (\E a \in Accounts : LoadAccount(a)) \/ LoadFails \/ Recognise \/ ProvidersRefused

Select ==
    \/ \E k \in Keys : SelectExtra(k) \/ SelectSigner(k) \/ SelectProof(k)
    \/ ExtraUnavailable \/ RequirementUnmet \/ RequirementMet \/ ProofUnavailable
    \/ Selected \/ PasscodeRefused

Sign == SignNext \/ SignFails \/ Verify

Next == Review \/ Start \/ Load \/ Select \/ Sign \/ Again \/ ChangeLedger

Spec == Init /\ [][Next]_vars
-----------------------------------------------------------------------------
(***************************************************************************)
(* Properties.                                                             *)
(***************************************************************************)

Pcs == {"prepared", "reviewed", "load", "select", "sign", "done", "refused",
        "unsatisfiable"}

\* Types of the state; the plan is complete once selection starts.
TypeOK ==
    /\ ledger \in [Accounts -> AccountAuthorization] /\ changes \in 0..MaxChanges
    /\ envelope \in Envelopes /\ local \in Custodies /\ request \in Requests
    /\ pc \in Pcs
    /\ review.made \in BOOLEAN /\ review.promised \in BOOLEAN
    /\ plan \in [Accounts -> AccountAuthorization \union {NotLoaded}]
    /\ current \subseteq Conditions
    /\ selected \in Seq(Keys) /\ added \in Seq(Keys)
    /\ requirements \in Seq(Accounts)
    /\ pc \in {"select", "sign", "done", "unsatisfiable"} =>
         \A a \in Sources : plan[a] \in AccountAuthorization

Before(i) == Recognised(plan, {}) \union {added[j] : j \in 1..(i - 1)}

\* Stellar rejects a transaction that carries a signature no check consumed
\* (txBAD_AUTH_EXTRA).  Every added signature is consumed: when the network
\* goes through the signatures in order, it meets each one while an extra signer
\* or a source account with that signer still lacks weight.
EverySignatureCounts ==
    ~ForChallenge =>
        \A i \in DOMAIN added :
            \/ added[i] \in envelope.extras
            \/ \E a \in Sources :
                 /\ added[i] \in plan[a].signers
                 /\ AvailableWeight(plan, a, Before(i)) < Required(plan, a)

\* A signed transaction is one the network authorises, as long as the ledger is
\* what was loaded: each use on its own has its threshold, every extra signer
\* signed, and no added signature comes from a signer without weight.
AcceptedByNetwork ==
    pc = "done" /\ ~ForChallenge /\ (\A a \in Sources : plan[a] = ledger[a]) =>
        LET signatures == envelope.signed \union Range(added)
            Weight(a) == SumFunctionOnSet(ledger[a].weight, signatures)
        IN  /\ envelope.extras \subseteq signatures
            /\ \A a \in Sources : \A l \in envelope.uses[a] :
                 Weight(a) >= ledger[a][l] /\ Weight(a) > 0
            /\ \A k \in Range(added) \ envelope.extras :
                 \E a \in Sources : ledger[a].weight[k] > 0

\* A signed challenge proves control of the client account to an anchor that
\* counts for itself: without its own signature there is at least one client
\* signature, and their weight reaches the medium threshold.
AcceptedByAnchor ==
    pc = "done" /\ ForChallenge =>
        LET client == ((envelope.signed \union Range(added)) \intersect Keys) \ Excluded
            a == Head(envelope.sources)
        IN  /\ client \intersect plan[a].signers /= {}
            /\ AvailableWeight(plan, a, client) >= plan[a].medium
            /\ Range(added) \intersect Excluded = {}

\* The selection is greedy but never gives up too early: it fails only when all
\* the keys at hand together could not authorise the envelope, and once the
\* selected keys have signed the closing check does not fail.
SelectionIsComplete ==
    /\ pc = "unsatisfiable" =>
         LET all == Recognised(plan, {}) \union (PlanConditions(plan) \intersect Available)
         IN  \/ ~Satisfiable(plan, all)
             \/ ForChallenge /\ all \intersect Keys = {}
    /\ pc = "sign" /\ added = selected => Authorized

\* What the review promised holds at signing time: a plan it called locally
\* satisfiable is not refused as unsatisfiable, unless the ledger changed.
ReviewIsHonest ==
    pc = "unsatisfiable" /\ review.made /\ (\A a \in Sources : review.auth[a] = plan[a])
        => ~review.promised

\* A wrong or missing passcode is found before anyone is asked to sign: no
\* provider was prompted in a call that a local record refuses.
PasscodeBeforeProviders ==
    pc = "refused" /\ request.path = "providers" /\ added /= <<>> =>
        PasscodeSigners \subseteq request.opens

\* "asks Signing Coordination for only the remaining local software Ed25519
\* signatures needed": none of the added signatures could be left out.
OnlyNeededSignatures ==
    pc = "done" /\ ~ForChallenge =>
        \A k \in Range(added) :
            ~Satisfiable(plan, Recognised(plan, {}) \union (Range(added) \ {k}))
=============================================================================
