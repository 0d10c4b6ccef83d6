----------------------------- MODULE MCServices -----------------------------
(***************************************************************************)
(* What a wallet talks to: the operating system's key store, anchors, and  *)
(* Horizon's history.  The components share no state; each is explored     *)
(* alone while the others rest.  "part" says which.                        *)
(*   "domain"    system authorization on Android (SystemAuthDomain)        *)
(*   "session"   a SEP-10 session (AnchorSession)                          *)
(*   "choice", "forms", "payment"                                          *)
(*               protocols, request forms, withdrawals (AnchorTransfers)   *)
(*   "customer"  SEP-12 requests (AnchorCustomer)                          *)
(*   "alone"     one worker on the history cache, whose requests fail and  *)
(*               whose mode changes (HistoryCache)                         *)
(*   "together"  two workers on one cache, whose requests fail and whose   *)
(*               mode changes when both rest                               *)
(***************************************************************************)
EXTENDS SystemAuthDomain

CONSTANTS
    Anchors, Accounts, Networks, Plans, MaxTime,                \* session
    ListedDocuments, FormDocuments, PaymentDocuments,           \* transfers: what anchors publish,
    FormAnswers, PaymentAnswers, FormIds, PaymentIds, Account,  \* and what their servers answer
    Options, Languages, Names, Values, MaxFields, NoValue,      \* customer
    MaxHead, SharedHead, Page, CacheLimit                       \* history

VARIABLES
    part,
    session, posted, now,               \* session
    caps, transfer, report, payment,    \* transfers
    request, snapshot,                  \* customer
    head, cache, full, job,             \* history
    met                                 \* history of "together": see After

domainVars == vars
sessionVars == <<session, posted, now>>
transferVars == <<caps, transfer, report, payment>>
customerVars == <<request, snapshot>>
historyVars == <<head, cache, full, job>>
allVars == <<part, domainVars, sessionVars, transferVars, customerVars, historyVars, met>>

-----------------------------------------------------------------------------
Given == INSTANCE MCAnchors
TwoAnchors == Given!TwoAnchors
MCPlans == Given!MCPlans
MCDocuments == Given!MCDocuments
MCForms == Given!Forms
SometimesDown == Given!SometimesDown
OneAnswer == Given!OneAnswer
ManyAnswers == Given!ManyAnswers
MCOptions == Given!MCOptions
MCNames == Given!MCNames

Session == INSTANCE AnchorSession

Choice == INSTANCE AnchorTransfers WITH
    Documents <- ListedDocuments, Answers <- FormAnswers, Ids <- {}

Forms == INSTANCE AnchorTransfers WITH
    Documents <- FormDocuments, Answers <- FormAnswers, Ids <- FormIds

Withdrawal == INSTANCE AnchorTransfers WITH
    Documents <- PaymentDocuments, Answers <- PaymentAnswers, Ids <- PaymentIds

Customer == INSTANCE AnchorCustomer

Alone == INSTANCE HistoryCache WITH
    Workers <- {"w1"}, Interrupts <- TRUE, ChangesUnderWay <- TRUE

Together == INSTANCE HistoryCache WITH
    Workers <- {"w1", "w2"}, MaxHead <- SharedHead, Interrupts <- TRUE, ChangesUnderWay <- FALSE

ASSUME SessionAssumption == Session!AnchorsAssumption /\ Session!PlansAssumption
ASSUME CustomerAssumption == Customer!CustomerAssumption
ASSUME HistoryAssumption ==
    /\ Alone!LimitsAreCounts /\ Alone!WindowIsPages /\ Alone!FaultsAreBoolean
    /\ Together!LimitsAreCounts /\ Together!WindowIsPages /\ Together!FaultsAreBoolean

-----------------------------------------------------------------------------
HistoryRests == Alone!Init /\ head = 0 /\ ~full

\* Since both workers were last at rest with no hole in the rows, they kept "apart", have
\* "met", or a request failed after they met: "torn".
After(fails) ==
    met' = IF Together!AtRest' /\ Together!Contiguous(cache') THEN "apart"
           ELSE IF met = "met" /\ fails THEN "torn"
           ELSE IF met = "apart" /\ job["w1"].at' /= "idle" /\ job["w2"].at' /= "idle" THEN "met"
           ELSE met

TogetherNext ==
    \/ /\ \E w \in {"w1", "w2"} : Together!SyncRecent(w) \/ Together!LoadOlder(w) \/ Together!Continue(w)
       /\ After(FALSE)
    \/ /\ \E w \in {"w1", "w2"} : Together!Interrupt(w)
       /\ After(TRUE)
    \/ /\ Together!SetKeepFullHistory \/ Together!Happens
       /\ After(FALSE)

MCInit ==
    /\ met = "apart" /\ Init /\ Session!Init /\ Choice!Init /\ Customer!Init
    /\ \/ part = "alone" /\ Alone!Init
       \/ part = "together" /\ Together!Init
       \/ part \in {"domain", "session", "choice", "forms", "payment", "customer"} /\ HistoryRests

\* Bound: one discovery in "choice" and one request in "customer", of which the next one would
\* leave nothing.
MCNext ==
    /\ UNCHANGED part
    /\ \/ /\ part = "domain" /\ Next
          /\ UNCHANGED <<sessionVars, transferVars, customerVars, historyVars, met>>
       \/ /\ part = "session" /\ Session!Next
          /\ UNCHANGED <<domainVars, transferVars, customerVars, historyVars, met>>
       \/ /\ \/ part = "choice" /\ caps = Choice!Unlisted /\ Choice!Next
             \/ part = "forms" /\ Forms!Next
             \/ part = "payment" /\ Withdrawal!Next
          /\ UNCHANGED <<domainVars, sessionVars, customerVars, historyVars, met>>
       \/ /\ part = "customer" /\ request = Customer!NoRequest /\ Customer!Next
          /\ UNCHANGED <<domainVars, sessionVars, transferVars, historyVars, met>>
       \/ /\ \/ part = "alone" /\ Alone!Next /\ UNCHANGED met
             \/ part = "together" /\ TogetherNext
          /\ UNCHANGED <<domainVars, sessionVars, transferVars, customerVars>>

\* The fairness of SystemAuthDomain and of HistoryCache.
MCSpec ==
    /\ MCInit /\ [][MCNext]_allVars
    /\ WF_domainVars(MainThread)
    /\ WF_historyVars(Alone!Continue("w1"))

-----------------------------------------------------------------------------
\* What is posted to an anchor is its own challenge for this account, with a proof
\* by the client's signers (anchor_protocol.rs exchange_anchor_sep10_challenge).
PostedIsBound == part = "session" => Session!PostedIsBound

\* A transfer at an anchor (anchor_protocol.rs): the selected protocol can be executed, and one
\* is selected if any can; a status protocol is selected only where there is no other; what is
\* filled into a SEP-6 request is the only choice the anchor offers; a withdrawal is paid as
\* the transaction that was asked for says.
TransferIsDetermined ==
    /\ part = "choice" => Choice!SelectedCanRun /\ Choice!StatusIsNotGuessed
    /\ part = "forms" => Forms!FieldsAreUnambiguous
    /\ part = "payment" => Withdrawal!PaymentIsAskedFor

\* The customer server reads the metadata of the dedicated options and nothing else, and the
\* JSON body and the form of an update say the same (anchor.rs).
CustomerIsRead == part = "customer" => Customer!MetadataIsOwn /\ Customer!BodiesAgree

\* What goes to an anchor about a transfer and about its customer is what was chosen, and goes
\* under one meaning: the two parts of SEP-6 and SEP-12 above (anchor_protocol.rs, anchor.rs).
AnchorIsUnderstood == TransferIsDetermined /\ CustomerIsRead

\* Two workers at once can open a hole while pages are under way.  When both are at rest again
\* it is closed, unless a request failed after they met (history_service.py sync_recent).
HolesClose == met /= "torn" /\ Together!AtRest => Together!Contiguous(cache)

\* The rows of the history are consecutive, whatever fails: with one worker always, also when the
\* mode changes once during a synchronisation, and a synchronisation in full mode that runs to
\* its end has everything; with two workers in one mode when both are at rest, unless a request
\* failed after they met (history_service.py sync_recent).
HistoryIsWhole ==
    /\ part = "alone" => Alone!NoHoles /\ Alone!FullHistoryIsComplete
    /\ part = "together" => HolesClose

\* Every synchronisation that a fair worker starts ends (history_service.py).
SyncEnds == Alone!SyncEnds
=============================================================================
