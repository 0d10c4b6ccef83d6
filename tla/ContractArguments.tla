------------------------- MODULE ContractArguments -------------------------
(***************************************************************************)
(* The arguments of a contract call (ContractInvokeRequest::resolve):      *)
(* given by name or position, as text, JSON or encoded values, and turned  *)
(* into the values of the invocation and the review the user sees.         *)
(*                                                                         *)
(* How a text or a JSON value becomes a value is a parameter; it is that   *)
(* of ContractValues wherever the module is instantiated.                  *)
(***************************************************************************)
EXTENDS ContractForms

CONSTANTS
    FromText(_, _),     \* the value of a text for a type, or NoValue
    ParseJson(_, _),    \* parse_json_argument
    Conforms(_, _),     \* validate_scval_against_type
    ToJson(_, _),       \* the review of a value, or NoJson
    InOrder(_, _),      \* the maps of a value have the order of the ledger's
    Calls,              \* [inputs, request]: inputs is a sequence of [name, type], request is
                        \* [positional, given], and given a sequence of [name, source]
    AddressNames,       \* names of accounts, with their addresses
    Spelling            \* of a parameter's name, with dashes for underscores

VARIABLE call

vars == <<call>>

NoCall == [inputs |-> <<>>, request |-> [positional |-> FALSE, given |-> <<>>], values |-> <<>>, review |-> <<>>]
Refusal == <<NoValue>>

\* Types are those of the spec, spelling a name twice changes nothing more, the mark of a
\* refusal is no value, prepare_json_argument_value refuses results, and a value in order,
\* of a type that may be shown, can be shown.
CallsAssumption ==
    /\ \A n \in DOMAIN Spelling : Spelling[n] \in DOMAIN Spelling /\ Spelling[Spelling[n]] = Spelling[n]
    /\ \A c \in Calls :
         /\ c.inputs \in Seq([name: DOMAIN Spelling, type: InputTypes])
         /\ c.request.positional \in BOOLEAN
         /\ c.request.given \in Seq(Elements(c.request.given))
         /\ \A k \in DOMAIN c.request.given :
              LET source == c.request.given[k].source IN
              /\ source.s \in {"text", "json", "xdr"}
              /\ source.s = "xdr" => source.value /= NoValue
              /\ source.s = "json" => \A i \in DOMAIN c.inputs :
                   c.inputs[i].type.t = "result" => ParseJson(source.json, c.inputs[i].type) = NoValue
              /\ source.s = "xdr" => \A i \in DOMAIN c.inputs :
                   LET T == c.inputs[i].type IN
                   Conforms(source.value, T) /\ Normalizable(T) /\ InOrder(source.value, T) =>
                       ToJson(source.value, T) /= NoJson

-----------------------------------------------------------------------------
\* Mutant: a name is looked up before the text is read as an address.
TextArgumentNameFirst(j, T) ==
    IF T = Prim("address") /\ j.j = "string" /\ j.text \in DOMAIN AddressNames
      THEN FromText(Text(AddressNames[j.text]), T) ELSE FromText(j, T)

\* parse_argument: what the text says, or else the address of that name.
TextArgument(j, T) ==
    LET direct == FromText(j, T)
    IN  IF direct = NoValue /\ T = Prim("address") /\ j.j = "string" /\ j.text \in DOMAIN AddressNames
          THEN FromText(Text(AddressNames[j.text]), T) ELSE direct

Argument(source, T) ==
    CASE source.s = "text" -> TextArgument(source.json, T)
      [] source.s = "json" -> ParseJson(source.json, T)
      [] source.s = "xdr" -> source.value

\* contract_argument_review: the normaliser reads a struct by position, and stops at a value
\* that is not of the type of its place.
Reviewable(v, T) == Conforms(v, T) /\ Normalizable(T) /\ ToJson(v, T) /= NoJson

\* The argument of one input: an optional one may be left out.
ValueOf(sources, T) ==
    LET v == IF sources /= {} THEN Argument(CHOOSE s \in sources : TRUE, T)
             ELSE IF T.t = "option" THEN VoidValue ELSE NoValue
    IN  IF v /= NoValue /\ Reviewable(v, T) THEN v ELSE NoValue

NoDuplicates(given) == \A i, k \in DOMAIN given : given[i].name = given[k].name => i = k

\* remove_argument: the argument of that name, or else of the other spelling.
Removed(rest, given, name) ==
    LET as(n) == {k \in rest : given[k].name = n}
    IN  IF as(name) /= {} THEN as(name) ELSE as(Spelling[name])

\* The arguments that the first inputs leave.
Left(inputs, given) ==
    LET left[i \in 0..Len(inputs)] ==
            IF i = 0 THEN DOMAIN given ELSE left[i - 1] \ Removed(left[i - 1], given, inputs[i].name)
    IN  left

\* The arguments an input takes: one or none.
Taken(inputs, r) ==
    [i \in DOMAIN inputs |->
        IF r.positional THEN {i} \intersect DOMAIN r.given
        ELSE Removed(Left(inputs, r.given)[i - 1], r.given, inputs[i].name)]

\* Mutant: names no input has are ignored.
AllKnownAlways(inputs, given) == TRUE

\* Every name given is one of an input, in one spelling.
AllKnown(inputs, given) == Left(inputs, given)[Len(inputs)] = {}

\* ContractInvokeRequest::resolve
Resolve(inputs, r) ==
    LET taken == Taken(inputs, r)
        values == [i \in DOMAIN inputs |-> ValueOf({r.given[k].source : k \in taken[i]}, inputs[i].type)]
        wellFormed ==
            IF r.positional
              THEN /\ Len(r.given) <= Len(inputs)
                   /\ \A i \in DOMAIN r.given : r.given[i].source.s = "text"
              ELSE NoDuplicates(r.given) /\ AllKnown(inputs, r.given)
    IN  IF ~wellFormed \/ NoValue \in Elements(values) THEN Refusal ELSE values

Init == call = NoCall

Invoke(inputs, r) ==
    LET values == Resolve(inputs, r) IN
    call' = [inputs |-> inputs, request |-> r, values |-> values,
             review |-> IF values = Refusal THEN <<>>
                        ELSE [i \in DOMAIN inputs |-> ToJson(values[i], inputs[i].type)]]

Next == call = NoCall /\ \E c \in Calls : Invoke(c.inputs, c.request)

Spec == Init /\ [][Next]_vars

-----------------------------------------------------------------------------
(***************************************************************************)
(* Properties.                                                             *)
(***************************************************************************)
\* What the interface advertises for an input is what a call accepts: no call with an
\* unsupported one, given or left out, no JSON for a result, and for every other any value
\* of its type with its maps in order, encoded, under its name.
FormIsHonest ==
    LET inputs == call.inputs
        given == call.request.given
        named(i, k) == given[k].name = inputs[i].name
    IN  /\ \A i \in DOMAIN inputs : Form(inputs[i].type) = "unsupported" => call.values = Refusal
        /\ \A i \in DOMAIN inputs, k \in DOMAIN given :
             (named(i, k) /\ inputs[i].type.t = "result" /\ given[k].source.s = "json"
              /\ \A m \in DOMAIN inputs : inputs[m].name = inputs[i].name => m = i) => call.values = Refusal
        /\ (/\ ~call.request.positional /\ NoDuplicates(given) /\ NoDuplicates(inputs)
            /\ \A k \in DOMAIN given : \E i \in DOMAIN inputs : named(i, k)
            /\ \A i \in DOMAIN inputs :
                 /\ Form(inputs[i].type) /= "unsupported"
                 /\ \E k \in DOMAIN given :
                      /\ named(i, k) /\ given[k].source.s = "xdr"
                      /\ Conforms(given[k].source.value, inputs[i].type)
                      /\ InOrder(given[k].source.value, inputs[i].type)) =>
             /\ call.values /= Refusal
             /\ \A i \in DOMAIN inputs, k \in DOMAIN given : named(i, k) => call.values[i] = given[k].source.value

\* What a source means: a text that can be read is what it says, whatever accounts are
\* called.
Means(source, T, v) ==
    CASE source.s = "xdr" -> v = source.value
      [] source.s = "json" -> v = ParseJson(source.json, T)
      [] source.s = "text" ->
           \/ v = FromText(source.json, T)
           \/ /\ FromText(source.json, T) = NoValue /\ T = Prim("address")
              /\ source.json.j = "string" /\ source.json.text \in DOMAIN AddressNames
              /\ v = FromText(Text(AddressNames[source.json.text]), T)

\* An accepted call takes every argument that was given, each for one input in one of its
\* spellings or its place, and as what it means; only optional inputs are left out, and
\* they are void.
ArgumentsAreTaken ==
    LET inputs == call.inputs
        given == call.request.given
        takes(i, k) ==
            IF call.request.positional THEN i = k ELSE given[k].name \in {inputs[i].name, Spelling[inputs[i].name]}
    IN  call.values /= Refusal =>
        \E place \in [DOMAIN given -> DOMAIN inputs] :
            /\ \A k, m \in DOMAIN given : place[k] = place[m] => k = m
            /\ \A k \in DOMAIN given :
                 takes(place[k], k) /\ Means(given[k].source, inputs[place[k]].type, call.values[place[k]])
            /\ \A i \in DOMAIN inputs \ {place[k] : k \in DOMAIN given} :
                 inputs[i].type.t = "option" /\ call.values[i] = VoidValue

\* The review of a guided argument says which value is signed: given back as JSON, it
\* is that value again.  An encoded value whose maps are not in the order of the ledger's,
\* or name a key twice, may pass and be shown as another one: the validation goes by the
\* names of fields and the review by their places.
ReviewIsExact ==
    call.values /= Refusal =>
        \A i \in DOMAIN call.values :
            Form(call.inputs[i].type) = "json" /\ InOrder(call.values[i], call.inputs[i].type) =>
                ParseJson(call.review[i], call.inputs[i].type) = call.values[i]
=============================================================================
