--------------------------- MODULE ContractValues ---------------------------
(***************************************************************************)
(* How JSON and values of contract calls are checked against the types of  *)
(* a Contract Spec, and converted (contract.rs).  Conversions between JSON *)
(* and values are those of the official spec tools, as far as this code    *)
(* relies on them.                                                         *)
(***************************************************************************)
EXTENDS ContractTypes, FiniteSets, SequencesExt

-----------------------------------------------------------------------------
(***************************************************************************)
(* Values against types.                                                   *)
(***************************************************************************)
CaseNamed(d, name) == SelectSeq(d.cases, LAMBDA c : c.name = name)
FieldNamed(d, name) == SelectSeq(d.fields, LAMBDA f : f.name = name)
ByName(fields) == SortSeq(fields, LAMBDA f, g : f.rank < g.rank)

\* validate_scval_against_type
RECURSIVE Conforms(_, _, _)
Conforms(spec, v, T) ==
    LET AllConform(values, types) ==
            Len(values) = Len(types) /\ \A i \in DOMAIN values : Conforms(spec, values[i], types[i])
        Types(fields) == [i \in DOMAIN fields |-> fields[i].type]
    IN CASE T.t = "prim" -> T.prim \in {"val", v.v}
         [] T.t = "option" -> v.v = "void" \/ Conforms(spec, v, T.inner)
         [] T.t = "result" -> v.v /= "error" /\ Conforms(spec, v, T.inner)
         [] T.t = "vec" -> v.v = "vec" /\ \A i \in DOMAIN v.seq : Conforms(spec, v.seq[i], T.inner)
         [] T.t = "map" ->
              /\ v.v = "map"
              /\ \A i \in DOMAIN v.entries :
                   Conforms(spec, v.entries[i].key, T.key) /\ Conforms(spec, v.entries[i].val, T.inner)
         [] T.t = "tuple" -> v.v = "vec" /\ AllConform(v.seq, T.items)
         [] T.t = "udt" /\ T.name \notin DOMAIN spec -> FALSE
         [] OTHER ->
              LET d == spec[T.name] IN
              CASE d.kind = "struct" /\ TupleStruct(d) -> v.v = "vec" /\ AllConform(v.seq, Types(d.fields))
                [] d.kind = "struct" /\ ~TupleStruct(d) ->
                     /\ v.v = "map" /\ Len(v.entries) = Len(d.fields)
                     /\ \A i \in DOMAIN v.entries :
                          /\ v.entries[i].key.v = "symbol"
                          /\ \E f \in ToSet(FieldNamed(d, v.entries[i].key.symbol)) :
                               Conforms(spec, v.entries[i].val, f.type)
                [] d.kind = "union" ->
                     /\ v.v = "vec" /\ v.seq /= <<>> /\ v.seq[1].v = "symbol"
                     /\ \E c \in ToSet(CaseNamed(d, v.seq[1].symbol)) : AllConform(Tail(v.seq), c.payload)
                [] d.kind = "enum" -> v.v = "u32" /\ v.n \in d.values
                [] d.kind = "error_enum" -> v.v = "error"

-----------------------------------------------------------------------------
(***************************************************************************)
(* JSON against types.                                                     *)
(***************************************************************************)
AllOrNone(items) == IF NoJson \in ToSet(items) THEN NoJson ELSE Array(items)

\* prepare_json_argument_value, with the struct, union and enum cases: JSON in the
\* form the official parser reads, or NoJson.
RECURSIVE Prepared(_, _, _)
Prepared(spec, j, T) ==
    LET EachAs(values, types) ==
            IF Len(values) /= Len(types) THEN NoJson
            ELSE AllOrNone([i \in DOMAIN values |-> Prepared(spec, values[i], types[i])])
        Types(fields) == [i \in DOMAIN fields |-> fields[i].type]
        Fields(d) ==
            LET f == [n \in DOMAIN j.fields |-> Prepared(spec, j.fields[n], FieldNamed(d, n)[1].type)]
            IN  IF \E n \in DOMAIN f : f[n] = NoJson THEN NoJson ELSE Object(f)
        Case(c) ==
            LET given == j.fields[c.name]
                payload == IF Len(c.payload) = 1 THEN Prepared(spec, given, c.payload[1])
                           ELSE IF given.j = "array" THEN EachAs(given.seq, c.payload) ELSE NoJson
            IN  IF payload = NoJson THEN NoJson ELSE Object([n \in {c.name} |-> payload])
    IN CASE T.t = "prim" ->
              (CASE T.prim = "void" /\ j = Null -> Text("void")
                 [] T.prim = "timepoint" /\ j.j = "number" -> Tagged("timepoint", j.n)
                 [] T.prim = "error" -> NoJson
                 [] OTHER -> j)
         [] T.t = "result" -> NoJson
         [] T.t = "option" -> IF j = Null THEN Null ELSE Prepared(spec, j, T.inner)
         [] T.t = "vec" ->
              IF j.j = "array" THEN AllOrNone([i \in DOMAIN j.seq |-> Prepared(spec, j.seq[i], T.inner)]) ELSE j
         [] T.t = "map" ->
              IF j.j /= "entries" THEN j
              ELSE LET e == [i \in DOMAIN j.entries |->
                               [key |-> Prepared(spec, j.entries[i].key, T.key),
                                val |-> Prepared(spec, j.entries[i].val, T.inner)]]
                   IN  IF \E i \in DOMAIN e : NoJson \in {e[i].key, e[i].val} THEN NoJson ELSE MapObject(e)
         [] T.t = "tuple" -> IF j.j = "array" THEN EachAs(j.seq, T.items) ELSE j
         [] T.t = "udt" /\ T.name \notin DOMAIN spec -> NoJson
         [] OTHER ->
              LET d == spec[T.name] IN
              CASE d.kind = "struct" ->
                     IF ~CanonicalStruct(d) THEN NoJson
                     ELSE IF j.j = "array" /\ TupleStruct(d) THEN EachAs(j.seq, Types(d.fields))
                     ELSE IF j.j = "object" /\ DOMAIN j.fields = ToSet(FieldNames(d)) THEN Fields(d) ELSE NoJson
                [] d.kind = "union" ->
                     IF j.j = "string" /\ \E c \in ToSet(CaseNamed(d, j.text)) : c.payload = <<>> THEN j
                     ELSE IF j.j = "object"
                       THEN LET fits == {c \in ToSet(d.cases) : DOMAIN j.fields = {c.name} /\ c.payload /= <<>>}
                            IN  IF fits = {} THEN NoJson ELSE Case(CHOOSE c \in fits : TRUE)
                       ELSE NoJson
                [] d.kind = "enum" -> IF j.j = "number" /\ j.n \in d.values THEN j ELSE NoJson
                [] d.kind = "error_enum" -> NoJson

\* Spec::from_json of the official tools, for prepared JSON: maps are sorted by their keys,
\* which are numbers here.
RECURSIVE FromJson(_, _, _, _)
FromJson(spec, addresses, j, T) ==
    LET Vector(values) == IF NoValue \in ToSet(values) THEN NoValue ELSE VecValue(values)
        Pairs(e) == IF \E i \in DOMAIN e : NoValue \in {e[i].key, e[i].val} THEN NoValue ELSE MapValue(e)
        Sorted(m) == IF m = NoValue THEN m ELSE MapValue(SortSeq(m.entries, LAMBDA a, b : a.key.n < b.key.n))
        EachAs(values, types) ==
            IF Len(values) /= Len(types) THEN NoValue
            ELSE Vector([i \in DOMAIN values |-> FromJson(spec, addresses, values[i], types[i])])
        Types(fields) == [i \in DOMAIN fields |-> fields[i].type]
        FieldPairs(d) ==
            LET sorted == ByName(d.fields)
            IN  Pairs([i \in DOMAIN sorted |->
                         [key |-> SymbolValue(sorted[i].name),
                          val |-> FromJson(spec, addresses, j.fields[sorted[i].name], sorted[i].type)]])
        Case(c) ==
            LET given == j.fields[c.name]
                payload == IF Len(c.payload) = 1 THEN EachAs(<<given>>, c.payload) ELSE EachAs(given.seq, c.payload)
            IN  IF payload = NoValue THEN NoValue ELSE VecValue(<<SymbolValue(c.name)>> \o payload.seq)
    IN CASE T.t = "prim" ->
              (CASE T.prim = "u32" /\ j.j = "number" -> Scalar("u32", j.n)
                 [] T.prim = "timepoint" /\ j.j = "tagged" -> Scalar("timepoint", j.n)
                 [] T.prim = "void" /\ j = Text("void") -> VoidValue
                 [] T.prim = "address" /\ j.j = "string" /\ j.text \in addresses -> AddressValue(j.text)
                 [] T.prim = "val" /\ j.j = "scval" -> j.value
                 [] OTHER -> NoValue)
         [] T.t = "result" -> NoValue
         [] T.t = "option" -> IF j = Null THEN VoidValue ELSE FromJson(spec, addresses, j, T.inner)
         [] T.t = "vec" ->
              IF j.j = "array" THEN Vector([i \in DOMAIN j.seq |-> FromJson(spec, addresses, j.seq[i], T.inner)])
              ELSE NoValue
         [] T.t = "map" ->
              IF j.j = "entries"
                THEN Sorted(Pairs([i \in DOMAIN j.entries |->
                              [key |-> FromJson(spec, addresses, j.entries[i].key, T.key),
                               val |-> FromJson(spec, addresses, j.entries[i].val, T.inner)]]))
                ELSE NoValue
         [] T.t = "tuple" -> IF j.j = "array" THEN EachAs(j.seq, T.items) ELSE NoValue
         [] OTHER ->
              LET d == spec[T.name] IN
              CASE d.kind = "struct" /\ TupleStruct(d) ->
                     EachAs(IF j.j = "array" THEN j.seq ELSE [i \in DOMAIN d.fields |-> j.fields[d.fields[i].name]],
                            Types(d.fields))
                [] d.kind = "struct" /\ ~TupleStruct(d) -> FieldPairs(d)
                [] d.kind = "union" ->
                     IF j.j = "string" THEN VecValue(<<SymbolValue(j.text)>>)
                     ELSE Case(CHOOSE c \in ToSet(d.cases) : {c.name} = DOMAIN j.fields)
                [] d.kind = "enum" -> IF j.j = "number" /\ j.n \in d.values THEN Scalar("u32", j.n) ELSE NoValue

\* The maps of a value that conforms have the order of the ledger's: that of their keys,
\* each once.
RECURSIVE InOrder(_, _, _)
InOrder(spec, v, T) ==
    LET Each(values, types) == \A i \in DOMAIN values : InOrder(spec, values[i], types[i])
        Types(fields) == [i \in DOMAIN fields |-> fields[i].type]
    IN CASE T.t = "option" -> v.v = "void" \/ InOrder(spec, v, T.inner)
         [] T.t = "result" -> InOrder(spec, v, T.inner)
         [] T.t = "vec" -> \A i \in DOMAIN v.seq : InOrder(spec, v.seq[i], T.inner)
         [] T.t = "map" ->
              /\ \A i, k \in DOMAIN v.entries : i < k => v.entries[i].key.n < v.entries[k].key.n
              /\ \A i \in DOMAIN v.entries : InOrder(spec, v.entries[i].val, T.inner)
         [] T.t = "tuple" -> Each(v.seq, T.items)
         [] T.t = "udt" ->
              LET d == spec[T.name] IN
              CASE d.kind = "struct" /\ TupleStruct(d) -> Each(v.seq, Types(d.fields))
                [] d.kind = "struct" /\ ~TupleStruct(d) ->
                     LET sorted == ByName(d.fields) IN
                     \A i \in DOMAIN sorted :
                       v.entries[i].key.symbol = sorted[i].name /\ InOrder(spec, v.entries[i].val, sorted[i].type)
                [] d.kind = "union" -> Each(Tail(v.seq), CaseNamed(d, v.seq[1].symbol)[1].payload)
                [] OTHER -> TRUE
         [] OTHER -> TRUE

\* The entries of an object: of those with the same key the last is left.
Collapsed(entries) ==
    LET left == SetToSortSeq({i \in DOMAIN entries : \A k \in DOMAIN entries : i < k => entries[i].key /= entries[k].key}, <)
    IN  [m \in DOMAIN left |-> entries[left[m]]]

\* Spec::xdr_to_json of the official tools, for values that conform: the fields of a
\* struct are taken in the order of the definition, whatever their names, and there is
\* no JSON when one is not of the type of its place.
RECURSIVE ToJson(_, _, _)
ToJson(spec, v, T) ==
    LET Types(fields) == [i \in DOMAIN fields |-> fields[i].type]
        Each(values, types) == [i \in DOMAIN values |-> ToJson(spec, values[i], types[i])]
        Fields(d) ==
            LET at(i) == v.entries[i].val
                shown == [i \in DOMAIN d.fields |->
                            IF Conforms(spec, at(i), d.fields[i].type) THEN ToJson(spec, at(i), d.fields[i].type) ELSE NoJson]
                place(n) == CHOOSE i \in DOMAIN d.fields : d.fields[i].name = n
            IN  IF NoJson \in ToSet(shown) THEN NoJson ELSE Object([n \in ToSet(FieldNames(d)) |-> shown[place(n)]])
        Entries ==
            LET e == [i \in DOMAIN v.entries |->
                        [key |-> ToJson(spec, v.entries[i].key, T.key), val |-> ToJson(spec, v.entries[i].val, T.inner)]]
            IN  IF \E i \in DOMAIN e : NoJson \in {e[i].key, e[i].val} THEN NoJson ELSE MapObject(Collapsed(e))
    IN CASE T.t = "prim" ->
              (CASE T.prim = "void" -> Null
                 [] T.prim = "address" -> Text(v.address)
                 [] T.prim = "val" -> Explicit([v |-> "payload"])
                 [] OTHER -> Number(v.n))
         [] T.t = "option" -> IF v.v = "void" THEN Null ELSE ToJson(spec, v, T.inner)
         [] T.t = "result" -> ToJson(spec, v, T.inner)
         [] T.t = "vec" -> AllOrNone([i \in DOMAIN v.seq |-> ToJson(spec, v.seq[i], T.inner)])
         [] T.t = "map" -> Entries
         [] T.t = "tuple" -> AllOrNone(Each(v.seq, T.items))
         [] OTHER ->
              LET d == spec[T.name] IN
              CASE d.kind = "struct" /\ TupleStruct(d) -> AllOrNone(Each(v.seq, Types(d.fields)))
                [] d.kind = "struct" /\ ~TupleStruct(d) -> Fields(d)
                [] d.kind = "union" ->
                     LET c == CaseNamed(d, v.seq[1].symbol)[1]
                         payload == Each(Tail(v.seq), c.payload)
                     IN  IF payload = <<>> THEN Text(c.name)
                         ELSE IF NoJson \in ToSet(payload) THEN NoJson
                         ELSE Object([n \in {c.name} |-> IF Len(payload) = 1 THEN payload[1] ELSE Array(payload)])
                [] d.kind = "enum" -> Number(v.n)

\* parse_json_argument
ParseJson(spec, addresses, j, T) ==
    LET prepared == Prepared(spec, j, T)
    IN  IF prepared = NoJson THEN NoValue ELSE FromJson(spec, addresses, prepared, T)
=============================================================================
