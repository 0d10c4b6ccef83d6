------------------------ MODULE MCContractArguments ------------------------
(***************************************************************************)
(* Values of the constants of ContractArguments for TLC.                   *)
(* User-defined types of every kind, one of them recursive, one not        *)
(* canonical, one missing, and every type made of them in two steps; and a *)
(* function with several inputs for the ways arguments are given.          *)
(***************************************************************************)
EXTENDS ContractValues

Field(name, rank, T) == [name |-> name, rank |-> rank, type |-> T]
Void == Prim("void")
U32 == Prim("u32")
Address == Prim("address")

MCDefinitions ==
    "Node" :> [kind |-> "struct", fields |-> <<Field("next", 1, OptionOf(Udt("Node"))), Field("when", 2, Prim("timepoint"))>>]
    @@ "Pair" :> [kind |-> "struct", fields |-> <<Field("0", 1, U32), Field("1", 2, Void)>>]
    @@ "Shuffled" :> [kind |-> "struct", fields |-> <<Field("b", 2, U32), Field("a", 1, U32)>>]
    @@ "Range" :> [kind |-> "struct", fields |-> <<Field("from", 1, U32), Field("to", 2, U32)>>]
    @@ "Action" :> [kind |-> "union",
                    cases |-> <<[name |-> "Stop", payload |-> <<>>], [name |-> "Pay", payload |-> <<Address>>],
                                [name |-> "Move", payload |-> <<U32, Prim("timepoint")>>]>>]
    @@ "Mode" :> [kind |-> "enum", values |-> {0}]
    @@ "Fault" :> [kind |-> "error_enum", values |-> {0}]

Basic == {Prim(p) : p \in {"void", "u32", "timepoint", "address", "val", "error"}}
         \union {Udt(n) : n \in DOMAIN MCDefinitions \union {"Missing"}}
Made(S) == UNION {{OptionOf(T), ResultOf(T), VecOf(T), MapOf(U32, T), Tuple(<<U32, T>>)} : T \in S}
FewBasic == {Prim(p) : p \in {"void", "timepoint", "val", "error"}} \union {Udt("Action"), Udt("Node")}
MCTypes == Basic \union Made(Basic) \union Made(Made(FewBasic))

\* The values of a type, up to a depth: fields and keys in order, in another one, and
\* named twice.
RECURSIVE ValuesOf(_, _)
ValuesOf(T, depth) ==
    IF depth = 0 THEN {}
    ELSE LET Of(U) == ValuesOf(U, depth - 1)
             Named(unsorted) ==
                 LET fields == SortSeq(unsorted, LAMBDA f, g : f.rank < g.rank) IN
                 UNION {{MapValue(<<[key |-> SymbolValue(fields[i].name), val |-> a],
                                    [key |-> SymbolValue(fields[k].name), val |-> b]>>)
                           : a \in Of(fields[i].type), b \in Of(fields[k].type)} : i, k \in {1, 2}}
             Payload(Ts) ==
                 CASE Len(Ts) = 0 -> {<<>>}
                   [] Len(Ts) = 1 -> {<<a>> : a \in Of(Ts[1])}
                   [] OTHER -> {<<a, b>> : a \in Of(Ts[1]), b \in Of(Ts[2])}
         IN CASE T.t = "prim" ->
                   (CASE T.prim = "void" -> {VoidValue}
                      [] T.prim = "error" -> {ErrorValue}
                      [] T.prim = "address" -> {AddressValue("G1")}
                      [] T.prim = "val" -> {VoidValue, Scalar("u32", 0)}
                      [] OTHER -> {Scalar(T.prim, n) : n \in {0, 1}})
              [] T.t = "option" -> {VoidValue} \union Of(T.inner)
              [] T.t = "result" -> {ErrorValue} \union Of(T.inner)
              [] T.t = "vec" -> {VecValue(<<>>)} \union {VecValue(<<a>>) : a \in Of(T.inner)}
              [] T.t = "map" -> {MapValue(<<>>)}
                   \union {MapValue(<<[key |-> k, val |-> a]>>) : k \in Of(T.key), a \in Of(T.inner)}
                   \union {MapValue(<<[key |-> k, val |-> a], [key |-> l, val |-> b]>>)
                             : k, l \in Of(T.key), a, b \in IF T.inner = U32 THEN Of(U32) ELSE {}}
              [] T.t = "tuple" -> {VecValue(p) : p \in Payload(T.items)}
              [] T.t = "udt" /\ T.name \notin DOMAIN MCDefinitions -> {}
              [] OTHER ->
                   LET d == MCDefinitions[T.name] IN
                   CASE d.kind = "struct" /\ TupleStruct(d) ->
                          {VecValue(p) : p \in Payload([i \in DOMAIN d.fields |-> d.fields[i].type])}
                     [] d.kind = "struct" /\ ~TupleStruct(d) -> Named(d.fields)
                     [] d.kind = "union" ->
                          UNION {{VecValue(<<SymbolValue(c.name)>> \o p) : p \in Payload(c.payload)} : c \in ToSet(d.cases)}
                     [] d.kind = "enum" -> {Scalar("u32", 0), Scalar("u32", 1)}
                     [] d.kind = "error_enum" -> {ErrorValue}

MCValues == UNION {ValuesOf(T, 4) : T \in Basic \union Made(Basic)}
            \union {MapValue(<<[key |-> SymbolValue("next"), val |-> VoidValue]>>),
                    VecValue(<<SymbolValue("Pay")>>), VecValue(<<SymbolValue("Stop"), VoidValue>>),
                    VecValue(<<SymbolValue("Pay"), AddressValue("G1"), VoidValue>>)}

MCDepth == [T \in MCTypes |-> IF T \in Basic THEN 0 ELSE IF T \in Made(Basic) THEN 1 ELSE 2]

Forms == INSTANCE ContractForms WITH
    Definitions <- MCDefinitions, InputTypes <- MCTypes, Depth <- MCDepth, MaxDepth <- 2

MCJson ==
    UNION {{ToJson(MCDefinitions, v, T) : v \in {w \in ValuesOf(T, 4) : Conforms(MCDefinitions, w, T)}}
             : T \in {U \in Basic \union Made(Basic) : Forms!Normalizable(U)}}
    \union {Explicit(VoidValue), Explicit(Scalar("u32", 0)), Text("void"), Array(<<Null>>)}

OneInput == {<<[name |-> "x", type |-> T]>> : T \in MCTypes}
OneArgument ==
    {[positional |-> FALSE, given |-> <<[name |-> "x", source |-> s]>>] :
       s \in [s: {"xdr"}, value: MCValues] \union [s: {"json"}, json: MCJson]}

Inputs == {<<[name |-> "to", type |-> Address], [name |-> "amount_in", type |-> U32],
             [name |-> "memo", type |-> OptionOf(Udt("Mode"))]>>,
           <<[name |-> "to", type |-> Address], [name |-> "from_to", type |-> Address]>>}
MCSpelling == [n \in {"x", "to", "amount_in", "amount-in", "memo", "from_to", "from-to"} |->
                CASE n = "amount_in" -> "amount-in" [] n = "from_to" -> "from-to" [] OTHER -> n]
Names == {"to", "amount_in", "amount-in", "memo", "from_to", "from-to", "other"}
Sources == [s: {"text"}, json: {Text("G1"), Text("G2"), Text("alice"), Number(0)}]
           \union [s: {"json"}, json: {Text("G1"), Number(0), Null}]
           \union [s: {"xdr"}, value: {Scalar("u32", 0)}]
SeveralArguments ==
    [positional: BOOLEAN, given: {<<>>} \union UNION {[1..n -> [name: Names, source: Sources]] : n \in 1..2}]
    \union [positional: {FALSE},
            given: {<<[name |-> "to", source |-> s], [name |-> "amount_in", source |-> [s |-> "json", json |-> Number(0)]],
                      [name |-> n, source |-> t]>> : s \in Sources, n \in Names, t \in Sources}]

MCCalls == [inputs: OneInput, request: OneArgument] \union [inputs: Inputs, request: SeveralArguments]

\* An account may be called like the address of another one.
MCAddressNames == "alice" :> "G1" @@ "G2" :> "G1"
=============================================================================
