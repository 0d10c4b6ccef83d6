----------------------- MODULE MCSigningCoordination -----------------------
(***************************************************************************)
(* Three scenarios of SigningCoordination in one state space: one source   *)
(* account with every kind of signer, two source accounts that share a     *)
(* signer on a ledger that changes, and a SEP-10 challenge.  The first     *)
(* and the last use account A only; B is not a source there.               *)
(***************************************************************************)
EXTENDS SigningCoordination, TLC

CONSTANTS k1, k2, k3, h

\* Accounts and their listed signers: A's master key k1 is listed even without
\* weight, and B's master key k3.
MasterKey == "A" :> k1 @@ "B" :> k3

Authorization(a, thresholds, w) ==
    [low |-> thresholds[1], medium |-> thresholds[2], weight |-> w,
     signers |-> {c \in Conditions : w[c] > 0} \union {MasterKey[a]}]

Transaction(sources, uses, extras, signed, supported) ==
    [purpose |-> "transaction", sources |-> sources, uses |-> uses, extras |-> extras,
     signed |-> signed, supported |-> supported, server |-> {}]

WithProviders(system, external, repeated, given, opens) ==
    [path |-> "providers", system |-> system, external |-> external,
     repeated |-> repeated, given |-> given, opens |-> opens]

LocalOnly(opens) ==
    [path |-> "local", system |-> {}, external |-> {}, repeated |-> FALSE,
     given |-> TRUE, opens |-> opens]

\* The account that is not a source.
Aside == "B" :> Authorization("B", <<0, 0>>, [c \in Conditions |-> 0])
NotUsed == "B" :> {}

\* One account, every combination of weights, thresholds of zero included.
OneAccountLedgers ==
    {"A" :> Authorization("A", t, w) @@ Aside :
       t \in {<<0, 0>>, <<1, 2>>, <<1, 3>>},
       w \in {f \in [Conditions -> 0..2] : f[h] <= 1 /\ f[k3] <= 1}}
OneAccountEnvelopes ==
    {Transaction(<<"A">>, "A" :> u @@ NotUsed, x, s, TRUE) :
       u \in {{"low"}, {"low", "medium"}}, x \in {{}, {k3}}, s \in {{}, {h, k2}}}
OneAccountCustodies == {{k1, k2}, {k1, k2, k3}}
OneAccountRequests ==
    {WithProviders({k1}, {k3}, FALSE, TRUE, {k2}),
     WithProviders({}, {k1, k2}, FALSE, TRUE, {k1}),
     WithProviders({k3}, {k2}, FALSE, FALSE, {}),
     LocalOnly({k1})}

\* Two accounts with the same medium threshold and a shared signer; the ledger
\* changes once.
TwoAccounts == {"A", "B"}
TwoAccountLedgers ==
    {"A" :> Authorization("A", <<1, 2>>, v) @@ "B" :> Authorization("B", <<0, 1>>, w) :
       v \in {f \in [Conditions -> {0, 1, 2}] : f[h] = 0 /\ f[k3] <= 1 /\ f[k1] <= 1},
       w \in {f \in [Conditions -> {0, 1}] : f[h] = 0 /\ f[k1] = 0}}
TwoAccountEnvelopes ==
    {Transaction(s, "A" :> {"low", "medium"} @@ "B" :> {"medium"}, {}, g, TRUE) :
       s \in {<<"A", "B">>, <<"B", "A">>}, g \in {{}, {k2}}}
       \union {Transaction(<<"A", "B">>, [a \in TwoAccounts |-> {"low"}], {}, {}, FALSE)}
TwoAccountCustodies == {{k1, k2}, {k1, k2, k3}}
TwoAccountRequests == {LocalOnly({k1, k2, k3})}

\* One challenge: A is the client account, k3 the anchor's key, which is also a
\* signer of the account in some ledgers.
ChallengeLedgers ==
    {"A" :> Authorization("A", <<0, m>>, w) @@ Aside :
       m \in 0..3, w \in {f \in [Conditions -> 0..2] : f[h] <= 1}}
ChallengeEnvelopes ==
    {[purpose |-> "sep10", sources |-> <<"A">>, uses |-> "A" :> {"medium"} @@ NotUsed,
      extras |-> {}, signed |-> {k3} \union s, supported |-> TRUE, server |-> {k3}] :
       s \in {{}, {h}, {k2}}}
ChallengeCustodies == {{}, {k1, k2}, {k1, k3}}
ChallengeRequests ==
    {WithProviders({}, {k2}, FALSE, TRUE, {k1}),
     WithProviders({k1}, {k3}, FALSE, FALSE, {}),
     WithProviders({k1}, {k1, k2}, FALSE, TRUE, {k1}),
     WithProviders({}, {k2}, TRUE, TRUE, {k1}),
     LocalOnly({k1, k2, k3})}

-----------------------------------------------------------------------------
One == INSTANCE SigningCoordination WITH
    Ledgers <- OneAccountLedgers, Envelopes <- OneAccountEnvelopes,
    Custodies <- OneAccountCustodies, Requests <- OneAccountRequests, MaxChanges <- 0

Two == INSTANCE SigningCoordination WITH
    Ledgers <- TwoAccountLedgers, Envelopes <- TwoAccountEnvelopes,
    Custodies <- TwoAccountCustodies, Requests <- TwoAccountRequests

Challenge == INSTANCE SigningCoordination WITH
    Ledgers <- ChallengeLedgers, Envelopes <- ChallengeEnvelopes,
    Custodies <- ChallengeCustodies, Requests <- ChallengeRequests, MaxChanges <- 0

MCInit == One!Init \/ Two!Init \/ Challenge!Init

\* The envelope says which scenario a state belongs to.
MCNext ==
    \/ envelope \in OneAccountEnvelopes /\ One!Next
    \/ envelope \in TwoAccountEnvelopes /\ Two!Next
    \/ envelope \in ChallengeEnvelopes /\ Challenge!Next

MCSpec == MCInit /\ [][MCNext]_vars

\* What the properties range over.
MCLedgers == {x : x \in OneAccountLedgers \union TwoAccountLedgers \union ChallengeLedgers}
MCEnvelopes == {x : x \in OneAccountEnvelopes \union TwoAccountEnvelopes \union ChallengeEnvelopes}
MCCustodies == {x : x \in OneAccountCustodies \union TwoAccountCustodies \union ChallengeCustodies}
MCRequests == {x : x \in OneAccountRequests \union TwoAccountRequests \union ChallengeRequests}
=============================================================================
