----------------------------- MODULE MCAnchors -----------------------------
(***************************************************************************)
(* Values of the constants of the anchor modules for TLC.                  *)
(* Every combination of servers, sections and authentication metadata, for *)
(* the choices; a few of them for transfers and their status.              *)
(***************************************************************************)
CONSTANT NoValue    \* of an option that is not stated

Kinds == {"deposit", "withdraw"}
LocalAccount == "local"
Ids == {"first", "second"}
Nothing == [none |-> TRUE]
MemoFields ==
    [type: {"absent", "text", "id", "hash", "return"}, value: {"absent", "42", "32 bytes", "words"}]

Info(enabled, auth, methods, types) ==
    [enabled |-> enabled, auth |-> auth, methods |-> methods, types |-> types]

Serving(auth) == Info(TRUE, auth, "absent", "none")

Sections(infos) == [Kinds -> infos]

Lookups == [enabled: BOOLEAN, auth: BOOLEAN]

Sixes ==
    {[state |-> "absent"], [state |-> "down"]}
    \union [state: {"up"}, lookup: Lookups,
            info: Sections({Nothing, Serving(FALSE), Serving(TRUE), Info(FALSE, FALSE, "absent", "none")})]

TwentyFours ==
    {[state |-> "absent"], [state |-> "down"]}
    \union [state: {"up"}, info: Sections({Nothing, Serving(FALSE)})]

MCDocuments ==
    [listed: {TRUE}, sep6: Sixes, sep24: TwentyFours, webAuth: BOOLEAN, signingKey: BOOLEAN,
     contractAuth: BOOLEAN]
    \union [listed: {FALSE}]

Form(methods, types, lookup, state24) ==
    [listed |-> TRUE,
     sep6 |-> [state |-> "up", lookup |-> [enabled |-> lookup, auth |-> FALSE],
               info |-> [k \in Kinds |-> Info(TRUE, FALSE, methods, types)]],
     sep24 |-> [state |-> state24, info |-> [k \in Kinds |-> Serving(FALSE)]],
     webAuth |-> TRUE, signingKey |-> TRUE, contractAuth |-> FALSE]

\* Forms of the SEP-6 request.
Forms ==
    {Form(m, t, TRUE, "up") : m \in {"absent", "empty", "one", "many"}, t \in {"none", "one", "many"}}

\* An anchor whose SEP-24 /info fails at times.
SometimesDown == {Form("absent", "none", TRUE, s) : s \in {"up", "down"}}

Plain ==
    [id |-> "first", status |-> "pending_user_transfer_start", kind |-> "withdraw", from |-> "local",
     asset |-> "this", destination |-> "classic", amount |-> TRUE,
     memo |-> [type |-> "absent", value |-> "absent"]]

OneAnswer == {Plain}

\* Answers that miss what a payment needs, in one place or with any memo.
ManyAnswers ==
    [id: Ids, status: {"pending_user_transfer_start", "completed"}, kind: Kinds,
     from: {LocalAccount, "another account", "absent"}, asset: {"this", "other"},
     destination: {"classic"}, amount: {TRUE}, memo: {Plain.memo, [type |-> "text", value |-> "words"]}]
    \union [id: Ids, status: {"pending_user_transfer_start"}, kind: {"withdraw"}, from: {LocalAccount},
            asset: {"this", "absent"}, destination: {"classic", "contract", "absent"}, amount: {TRUE},
            memo: MemoFields]
    \union {[Plain EXCEPT !.id = i, !.amount = FALSE] : i \in Ids}

-----------------------------------------------------------------------------
\* Two anchors, two accounts; the first anchor's key may be a signer of an account, a signer
\* may have no weight, and the medium threshold may be zero.
TwoAnchors ==
    {[key |-> "KA", domain |-> "a.example", endpoint |-> "auth.a.example"],
     [key |-> "KB", domain |-> "b.example", endpoint |-> "auth.b.example"]}

MCPlans ==
    {[weight |-> [k \in {"C"} |-> 1], medium |-> 1],
     [weight |-> [k \in {"C", "D", "KA"} |-> 1], medium |-> 2],
     [weight |-> [k \in {"C", "D"} |-> IF k = "C" THEN 1 ELSE 0], medium |-> 0]}

\* Fields with names of their own, reserved names and padded ones.
MCOptions ==
    [id: {NoValue, "", "customer"}, type: {NoValue, "sep6-deposit"},
     transaction: {NoValue, "t1"}, lang: {NoValue, "en", "english"}]

MCNames ==
    {[text |-> t, padded |-> p] : t \in {"id", "photo", ""}, p \in BOOLEAN}
    \union {[text |-> "transaction_id", padded |-> TRUE]}
=============================================================================
