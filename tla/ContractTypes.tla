--------------------------- MODULE ContractTypes ---------------------------
(***************************************************************************)
(* Types, values and JSON of contract calls (contract.rs): what a Contract *)
(* Spec says of an argument.  A spec is a function from names of           *)
(* user-defined types to their definitions.                                *)
(***************************************************************************)
EXTENDS Naturals, Sequences

Prim(p) == [t |-> "prim", prim |-> p]
OptionOf(T) == [t |-> "option", inner |-> T]
ResultOf(T) == [t |-> "result", inner |-> T]
VecOf(T) == [t |-> "vec", inner |-> T]
MapOf(K, T) == [t |-> "map", key |-> K, inner |-> T]
Tuple(Ts) == [t |-> "tuple", items |-> Ts]
Udt(name) == [t |-> "udt", name |-> name]

VoidValue == [v |-> "void"]
ErrorValue == [v |-> "error"]
Scalar(kind, n) == [v |-> kind, n |-> n]
AddressValue(a) == [v |-> "address", address |-> a]
SymbolValue(s) == [v |-> "symbol", symbol |-> s]
VecValue(s) == [v |-> "vec", seq |-> s]
MapValue(s) == [v |-> "map", entries |-> s]

Null == [j |-> "null"]
Number(n) == [j |-> "number", n |-> n]
Tagged(kind, n) == [j |-> "tagged", kind |-> kind, n |-> n]
Text(s) == [j |-> "string", text |-> s]
Array(s) == [j |-> "array", seq |-> s]
Object(f) == [j |-> "object", fields |-> f]         \* from names
MapObject(s) == [j |-> "entries", entries |-> s]    \* from JSON keys
Explicit(value) == [j |-> "scval", value |-> value]

NoJson == [j |-> "refused"]
NoValue == [v |-> "refused"]

-----------------------------------------------------------------------------
FieldNames(d) == [i \in DOMAIN d.fields |-> d.fields[i].name]
Digits == <<"0", "1", "2">>

TupleStruct(d) == d.fields /= <<>> /\ d.fields[1].name = "0"

\* Mutant: the order of the names is not looked at.
CanonicalAnyOrder(d) ==
    TupleStruct(d) => \A i \in DOMAIN d.fields : d.fields[i].name = Digits[i]

\* contract_struct_is_tuple: fields are 0, 1, ... of a tuple, or names in ascending
\* order; the definition gives each name its rank.
CanonicalStruct(d) ==
    IF TupleStruct(d) THEN \A i \in DOMAIN d.fields : d.fields[i].name = Digits[i]
    ELSE /\ \A i \in DOMAIN d.fields : d.fields[i].name /= "0"
         /\ \A i, k \in DOMAIN d.fields : i < k => d.fields[i].rank < d.fields[k].rank

Elements(s) == {s[i] : i \in DOMAIN s}

\* The types inside a type, and those a definition mentions.
Parts(T) ==
    CASE T.t \in {"option", "result", "vec"} -> {T.inner}
      [] T.t = "map" -> {T.key, T.inner}
      [] T.t = "tuple" -> Elements(T.items)
      [] OTHER -> {}

Mentioned(d) ==
    CASE d.kind = "struct" -> {d.fields[i].type : i \in DOMAIN d.fields}
      [] d.kind = "union" -> UNION {Elements(d.cases[i].payload) : i \in DOMAIN d.cases}
      [] OTHER -> {}
=============================================================================
