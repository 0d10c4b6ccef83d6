-------------------------- MODULE AnchorTransfers --------------------------
(***************************************************************************)
(* Deposits and withdrawals at an anchor (anchor_protocol.rs): discovery,  *)
(* the choice between SEP-24 and SEP-6, the start of a transfer, the       *)
(* lookup of its status later on, after another discovery perhaps, and the *)
(* payment a withdrawal asks for.                                          *)
(***************************************************************************)
EXTENDS Naturals, FiniteSets

CONSTANTS
    Documents,      \* what an anchor may publish at one time or another
    Answers,        \* what either of its servers may answer about a transaction
    Ids,            \* transaction identifiers; each server has its own
    Account         \* the local account

Kinds == {"deposit", "withdraw"}
Protocols == {"sep24", "sep6"}

VARIABLES
    caps,           \* what the last discovery found
    transfer,       \* the transfer that was started, if there is one
    report,         \* the answer of the last status lookup
    payment         \* the payment derived for a withdrawal

vars == <<caps, transfer, report, payment>>

Nothing == [none |-> TRUE]
Refused == "refused"

-----------------------------------------------------------------------------
(***************************************************************************)
(* Discovery.  A document lists the asset or not; its servers are absent,  *)
(* there, or there with an /info that does not answer; info[kind] is       *)
(* Nothing when the asset is not in that section.                          *)
(***************************************************************************)
NoInfo == [auth |-> FALSE, enabled |-> FALSE, methods |-> "absent", types |-> "none"]

\* asset_info, or {} instead
AssetInfo(doc, server, kind) ==
    IF doc[server].state = "up" /\ doc[server].info[kind] /= Nothing
      THEN doc[server].info[kind] ELSE NoInfo

NoTransactionInfo == [enabled |-> TRUE, auth |-> FALSE]

Unlisted ==
    [sep6 |-> FALSE, sep24 |-> FALSE, sep10 |-> FALSE, sep45 |-> FALSE,
     six |-> [k \in Kinds |-> NoInfo], lookup |-> NoTransactionInfo,
     twentyFour |-> [k \in Kinds |-> FALSE]]

\* capabilities_from_document
Capabilities(doc) ==
    IF ~doc.listed THEN Unlisted
    ELSE [sep6 |-> doc.sep6.state /= "absent",
          sep24 |-> doc.sep24.state /= "absent",
          sep10 |-> doc.webAuth /\ doc.signingKey,
          sep45 |-> doc.contractAuth /\ doc.signingKey,
          six |-> [k \in Kinds |-> AssetInfo(doc, "sep6", k)],
          lookup |-> IF doc.sep6.state = "up" THEN doc.sep6.lookup ELSE NoTransactionInfo,
          twentyFour |-> [k \in Kinds |-> AssetInfo(doc, "sep24", k).enabled]]

-----------------------------------------------------------------------------
(***************************************************************************)
(* The choice of a protocol.                                               *)
(***************************************************************************)
\* anchor_transfer_requires_sep10
TransferRequiresSep10(c, p, kind) == p = "sep24" \/ c.six[kind].auth

\* Mutant: the authentication SEP-6 asks for is not looked at.
SelectTransferUnauthenticated(c, kind) ==
    IF c.twentyFour[kind] /\ c.sep24 /\ c.sep10 THEN "sep24"
    ELSE IF c.six[kind].enabled /\ c.sep6 THEN "sep6" ELSE Refused

\* select_anchor_transfer_protocol
SelectTransfer(c, kind) ==
    IF c.twentyFour[kind] /\ c.sep24 /\ c.sep10 THEN "sep24"
    ELSE IF c.six[kind].enabled /\ c.sep6 /\ (c.six[kind].auth => c.sep10) THEN "sep6"
    ELSE Refused

\* anchor_status_requires_sep10
StatusRequiresSep10(c, p) == p = "sep24" \/ c.lookup.auth

\* validate_status_protocol
StatusIsValid(c, p) ==
    CASE p = "sep24" -> c.sep24 /\ c.sep10
      [] p = "sep6" -> c.sep6 /\ c.lookup.enabled /\ (c.lookup.auth => c.sep10)

\* Mutant: of two candidates the preferred protocol is taken.
StatusCandidatesPreferred(c) ==
    LET sep24 == c.sep24 /\ c.sep10 /\ \E k \in Kinds : c.twentyFour[k]
        sep6 == /\ c.sep6 /\ c.lookup.enabled /\ \E k \in Kinds : c.six[k].enabled
                /\ c.lookup.auth => c.sep10
    IN  IF sep24 THEN {"sep24"} ELSE IF sep6 THEN {"sep6"} ELSE {}

StatusCandidates(c) ==
    LET sep24 == c.sep24 /\ c.sep10 /\ \E k \in Kinds : c.twentyFour[k]
        sep6 == /\ c.sep6 /\ c.lookup.enabled /\ \E k \in Kinds : c.six[k].enabled
                /\ c.lookup.auth => c.sep10
    IN  {p \in Protocols : IF p = "sep24" THEN sep24 ELSE sep6}

\* select_anchor_status_protocol: the requested one, or the only candidate.
SelectStatus(c, requested) ==
    IF requested \in Protocols THEN (IF StatusIsValid(c, requested) THEN requested ELSE Refused)
    ELSE IF Cardinality(StatusCandidates(c)) = 1 THEN CHOOSE p \in StatusCandidates(c) : TRUE
    ELSE Refused

\* One advertised choice is filled in; of several the caller has to choose.
FilledIn(advertised, name, given) ==
    CASE advertised = "one" -> given \union {name}
      [] advertised = "many" -> {Refused}
      [] OTHER -> given

\* Mutant: the legacy types are looked at before the current methods.
RequestFieldsTypesFirst(info, given) ==
    IF "funding_method" \in given \/ "type" \in given THEN given
    ELSE IF info.types /= "none" THEN FilledIn(info.types, "type", given)
    ELSE FilledIn(info.methods, "funding_method", given)

\* sep6_request_fields: advertised methods, also an empty list of them, hide the legacy types.
RequestFields(info, given) ==
    IF "funding_method" \in given THEN given
    ELSE IF info.methods /= "absent" THEN FilledIn(info.methods, "funding_method", given)
    ELSE IF "type" \in given THEN given
    ELSE FilledIn(info.types, "type", given)

-----------------------------------------------------------------------------
(***************************************************************************)
(* Withdrawals.                                                            *)
(***************************************************************************)
MemoFields ==
    [type: {"absent", "text", "id", "hash", "return"}, value: {"absent", "42", "32 bytes", "words"}]

\* PaymentMemo::from_anchor_fields
PaymentMemo(m) ==
    CASE m.type = "absent" /\ m.value = "absent" -> [kind |-> "none"]
      [] m.type = "text" /\ m.value /= "absent" -> [kind |-> "text", value |-> m.value]
      [] m.type = "id" /\ m.value = "42" -> [kind |-> "id", value |-> m.value]
      [] m.type = "hash" /\ m.value = "32 bytes" -> [kind |-> "hash", value |-> m.value]
      [] OTHER -> Nothing

\* anchor_withdrawal_payment_from_transaction; amount says if one is stated.
PaymentOf(t) ==
    IF /\ t.status = "pending_user_transfer_start" /\ t.kind = "withdraw"
       /\ t.from = Account /\ t.asset /= "other" /\ t.destination = "classic" /\ t.amount
       /\ PaymentMemo(t.memo) /= Nothing
      THEN [memo |-> PaymentMemo(t.memo)] ELSE Nothing

\* anchor_withdrawal_payment_from_sep6_response: an older anchor answers the start
\* of a withdrawal with the payment itself, of the amount that was requested.
ImmediatePayment(r, requested) ==
    IF r.destination = "classic" /\ requested /\ PaymentMemo(r.memo) /= Nothing
      THEN [memo |-> PaymentMemo(r.memo)] ELSE Nothing

-----------------------------------------------------------------------------
Init ==
    /\ caps = Unlisted
    /\ transfer = Nothing /\ report = Nothing /\ payment = Nothing

\* The document is one of the moment; a transfer outlives it.
Discover(doc) ==
    /\ report = Nothing /\ payment = Nothing
    /\ caps' = Capabilities(doc)
    /\ UNCHANGED <<transfer, report, payment>>

\* start_anchor_sep24_transfer and start_anchor_sep6_transfer, with a token when
\* the client could authenticate.  The anchor names the transaction.
Start(kind, p, token, given, id) ==
    /\ transfer = Nothing
    /\ token => caps.sep10
    /\ IF p = "sep24" THEN caps.sep24 /\ token ELSE caps.sep6 /\ (caps.six[kind].auth => token)
    /\ p = "sep6" => RequestFields(caps.six[kind], given) /= {Refused}
    /\ transfer' = [protocol |-> p, kind |-> kind, id |-> id, given |-> given,
                    info |-> caps.six[kind], token |-> token,
                    fields |-> IF p = "sep6" THEN RequestFields(caps.six[kind], given) ELSE given]
    /\ UNCHANGED <<caps, report, payment>>

\* The answer to a SEP-6 withdrawal is taken for the payment.
PayAtOnce(r, requested) ==
    /\ transfer /= Nothing /\ report = Nothing /\ payment = Nothing
    /\ transfer.protocol = "sep6" /\ transfer.kind = "withdraw"
    /\ ImmediatePayment(r, requested) /= Nothing
    /\ payment' = [of |-> r, memo |-> ImmediatePayment(r, requested).memo]
    /\ UNCHANGED <<caps, transfer, report>>

\* Mutant: the transaction in the answer is taken as it is.
ExpectedTransactionAny(t) == TRUE

\* parse_anchor_transaction_response
ExpectedTransaction(t) == t.id = transfer.id

\* fetch_anchor_transaction
Lookup(requested, token, t) ==
    /\ transfer /= Nothing /\ report = Nothing /\ payment = Nothing
    /\ token => caps.sep10
    /\ LET p == SelectStatus(caps, requested) IN
         /\ p /= Refused
         /\ StatusRequiresSep10(caps, p) => token
         /\ ExpectedTransaction(t)
         /\ report' = [protocol |-> p, requested |-> requested, transaction |-> t]
    /\ UNCHANGED <<caps, transfer, payment>>

Pay ==
    /\ report /= Nothing /\ payment = Nothing
    /\ PaymentOf(report.transaction) /= Nothing
    /\ payment' = [of |-> report.transaction, memo |-> PaymentOf(report.transaction).memo]
    /\ UNCHANGED <<caps, transfer, report>>

Done == transfer /= Nothing /\ (report /= Nothing \/ payment /= Nothing) /\ UNCHANGED vars

Next ==
    \/ \E doc \in Documents : Discover(doc)
    \/ \E kind \in Kinds, p \in Protocols, token \in BOOLEAN,
          given \in {{}, {"type"}, {"funding_method"}}, id \in Ids : Start(kind, p, token, given, id)
    \/ \E requested \in Protocols \union {"not given"}, token \in BOOLEAN, t \in Answers :
         Lookup(requested, token, t)
    \/ \E r \in {[destination |-> t.destination, memo |-> t.memo] : t \in Answers},
          requested \in BOOLEAN : PayAtOnce(r, requested)
    \/ Pay \/ Done

Spec == Init /\ [][Next]_vars

-----------------------------------------------------------------------------
(***************************************************************************)
(* Properties.                                                             *)
(***************************************************************************)
\* A path that can be executed: there is a server, it serves the kind of transfer
\* and a token can be had if one is asked for.
Executable(c, p, kind) ==
    /\ IF p = "sep24" THEN c.sep24 /\ c.twentyFour[kind] ELSE c.sep6 /\ c.six[kind].enabled
    /\ TransferRequiresSep10(c, p, kind) => c.sep10

\* A protocol is selected exactly if one can be executed, SEP-24 before SEP-6; the
\* start then needs no more than what requires_sep10 said.
SelectedCanRun ==
    \A kind \in Kinds :
        LET p == SelectTransfer(caps, kind)
            usable == {q \in Protocols : Executable(caps, q, kind)}
        IN  /\ p = Refused <=> usable = {}
            /\ "sep24" \in usable => p = "sep24"
            /\ p /= Refused => p \in usable

\* Without a requested protocol the status is looked up where it can be, and only if
\* there is one place for it: the selection never decides between two transfers.
StatusIsNotGuessed ==
    LET p == SelectStatus(caps, "not given") IN
        p /= Refused =>
            /\ StatusIsValid(caps, p)
            /\ \A q \in Protocols \ {p} :
                 ~(StatusIsValid(caps, q) /\ \E k \in Kinds : Executable(caps, q, k))

\* A report is about the transfer that was started, and a payment is derived from a
\* report only: for this account, of a withdrawal that waits for it, of the amount and
\* with the memo the anchor stated in the form it stated.
PaymentIsAskedFor ==
    /\ report /= Nothing => report.transaction.id = transfer.id
    /\ payment /= Nothing =>
         /\ payment.of.destination = "classic"
         /\ (payment.memo.kind = "none") = (payment.of.memo.type = "absent" /\ payment.of.memo.value = "absent")
         /\ payment.memo.kind /= "none" =>
              payment.memo = [kind |-> payment.of.memo.type, value |-> payment.of.memo.value]
         /\ report /= Nothing =>
              report.transaction.from = Account /\ report.transaction.kind = "withdraw" /\ report.transaction.amount

\* A SEP-6 request leaves no choice open that the anchor asks for, never chooses
\* between several, and sends no legacy type the current methods replace.
FieldsAreUnambiguous ==
    (transfer /= Nothing /\ transfer.protocol = "sep6") =>
        LET added == transfer.fields \ transfer.given IN
        /\ transfer.given \subseteq transfer.fields
        /\ "funding_method" \in added => transfer.info.methods = "one"
        /\ "type" \in added => transfer.info.methods = "absent" /\ transfer.info.types = "one"
        /\ transfer.info.methods \in {"one", "many"} => "funding_method" \in transfer.fields

\* The status of a transfer is looked up with the protocol it was started with, or
\* not at all ("must not silently guess").
StatusOfTransfer ==
    (report /= Nothing /\ report.requested \notin Protocols) => report.protocol = transfer.protocol
=============================================================================
