--------------------------- MODULE AnchorCustomer ---------------------------
(***************************************************************************)
(* SEP-12 customer information (anchor.rs): what is sent to the anchor's   *)
(* customer server and what is taken from its answers.                     *)
(*                                                                         *)
(* A request is a sequence of named parts, as a form or a query is; the    *)
(* JSON body is the same with a later part replacing an earlier one of its *)
(* name.                                                                   *)
(***************************************************************************)
EXTENDS Naturals, FiniteSets, SequencesExt

CONSTANTS
    Options,        \* [id, type, transaction, lang]: values or NoValue
    Languages,      \* the two-letter codes
    Names,          \* of fields: [text, padded]; padded with spaces
    Values,         \* of fields; "" is empty
    MaxFields,      \* bound: text fields, and files, of an update
    NoValue

CustomerAssumption == IsFiniteSet(Names) /\ NoValue \notin Languages

ReservedNames == {"id", "type", "transaction_id", "account", "memo", "memo_type", "lang"}

VARIABLES request, snapshot

vars == <<request, snapshot>>

NoOptions == [id |-> NoValue, type |-> NoValue, transaction |-> NoValue, lang |-> NoValue]
NoRequest == [parts |-> <<>>, options |-> NoOptions, fields |-> {}, form |-> FALSE]

\* AnchorCustomerQuery::validate
ValidOptions(o) ==
    /\ \A k \in DOMAIN o : o[k] /= ""
    /\ o.transaction /= NoValue => o.type /= NoValue
    /\ o.lang \in Languages \union {NoValue}

\* Mutant: the name is compared before it is trimmed.
ValidNameUntrimmed(name) == name.text # "" /\ (name.padded \/ name.text \notin ReservedNames)

\* validate_field_name: metadata has options of its own.
ValidName(name) == name.text # "" /\ name.text \notin ReservedNames

\* Mutant: a file may have the name of a text field.
ValidUpdateOverlapping(o, fields, files) ==
    /\ ValidOptions(o) /\ o.lang = NoValue
    /\ DOMAIN fields /= {} \/ files /= <<>>
    /\ \A name \in DOMAIN fields : ValidName(name) /\ fields[name] /= ""
    /\ \A i \in DOMAIN files : ValidName(files[i])

\* AnchorCustomerUpdate::validate; an update has no language.  Files is the list of the
\* names of binary fields: one name may have several.
ValidUpdate(o, fields, files) ==
    /\ ValidOptions(o) /\ o.lang = NoValue
    /\ DOMAIN fields /= {} \/ files /= <<>>
    /\ \A name \in DOMAIN fields : ValidName(name) /\ fields[name] /= ""
    /\ \A i \in DOMAIN files : ValidName(files[i]) /\ files[i] \notin DOMAIN fields

Part(name, value, binary) == [name |-> name, value |-> value, binary |-> binary]

\* The request with an option that is stated.
With(parts, text, value) ==
    IF value = NoValue THEN parts
    ELSE Append(parts, Part([text |-> text, padded |-> FALSE], value, FALSE))

\* update_metadata, and the same for a form and for a query, which may name a language
MetadataParts(o) ==
    With(With(With(<<>>, "id", o.id), "type", o.type), "transaction_id", o.transaction)
QueryParts(o) == With(MetadataParts(o), "lang", o.lang)

\* Names are sent as they are given.
FieldParts(fields) == SetToSeq({Part(n, fields[n], FALSE) : n \in DOMAIN fields})
FileParts(files) == [i \in DOMAIN files |-> Part(files[i], "file", TRUE)]

Init == request = NoRequest /\ snapshot = NoValue

\* get_anchor_customer and parse_customer_snapshot: an unknown status of the
\* customer or of a field, or a malformed field, refuses the whole answer.
Get(o, status, fieldStatuses) ==
    /\ ValidOptions(o)
    /\ status \in {"ACCEPTED", "PROCESSING", "NEEDS_INFO", "REJECTED"}
    /\ "unknown" \notin fieldStatuses
    /\ request' = [parts |-> QueryParts(o), options |-> o, fields |-> {}, form |-> FALSE]
    /\ snapshot' = [status |-> status, fields |-> fieldStatuses]

\* put_anchor_customer: a form if there are files.
Put(o, fields, files) ==
    /\ ValidUpdate(o, fields, files)
    /\ request' = [parts |-> MetadataParts(o) \o FieldParts(fields) \o FileParts(files),
                   options |-> o, fields |-> DOMAIN fields \union {files[i] : i \in DOMAIN files},
                   form |-> files /= <<>>]
    /\ UNCHANGED snapshot

Next ==
    \/ \E o \in Options, status \in {"ACCEPTED", "PROCESSING", "NEEDS_INFO", "REJECTED", "OTHER"},
          statuses \in SUBSET {"ACCEPTED", "VERIFICATION_REQUIRED", "unknown"} : Get(o, status, statuses)
    \/ \E o \in Options, names \in {S \in SUBSET Names : Cardinality(S) <= MaxFields},
          count \in 0..MaxFields :
         \E fields \in [names -> Values], files \in [1..count -> Names] : Put(o, fields, files)

Spec == Init /\ [][Next]_vars

-----------------------------------------------------------------------------
\* A server may trim a name before it reads it.
Reads(part, name) == part.name.text = name

Stated(o, name) ==
    CASE name = "id" -> o.id
      [] name = "type" -> o.type
      [] name = "transaction_id" -> o.transaction
      [] name = "lang" -> o.lang
      [] OTHER -> NoValue

\* Of a name the server reads one part, with this value, or none.
ReadsOnly(parts, name, value) ==
    LET read == {i \in DOMAIN parts : Reads(parts[i], name)} IN
    IF value = NoValue THEN read = {}
    ELSE \E i \in read : read = {i} /\ parts[i].value = value

\* Whatever the fields are called, the server reads the metadata the dedicated
\* options state and nothing else, and reads no other reserved name.
MetadataIsOwn ==
    \A name \in ReservedNames : ReadsOnly(request.parts, name, Stated(request.options, name))

\* The JSON body, where a later part replaces an earlier one, and the form say the
\* same: no name occurs twice but that of several files, which make the body a form,
\* and every field of the update arrives.
BodiesAgree ==
    /\ \A i, j \in DOMAIN request.parts :
          (i /= j /\ request.parts[i].name = request.parts[j].name) =>
             request.form /\ request.parts[i].binary /\ request.parts[j].binary
    /\ \A n \in request.fields : \E i \in DOMAIN request.parts : request.parts[i].name = n
=============================================================================
