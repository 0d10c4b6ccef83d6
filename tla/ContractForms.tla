--------------------------- MODULE ContractForms ---------------------------
(***************************************************************************)
(* Two walks through a type (contract.rs): the form of input the client    *)
(* advertises for an argument of it, and whether a value of it can be      *)
(* shown for review.  Both follow the definitions of user-defined types,   *)
(* each definition once on a path.                                         *)
(***************************************************************************)
EXTENDS ContractTypes, FiniteSets

CONSTANTS
    Definitions,            \* user-defined types of the contract's spec
    InputTypes,             \* types of inputs, and all that are inside of them
    Depth, MaxDepth         \* how deeply each is nested

\* A type and the definitions that were entered on the way to it.
Visits == InputTypes \X SUBSET DOMAIN Definitions

\* What is looked at next.
Inside(T, visited) ==
    IF T.t /= "udt" THEN {<<U, visited>> : U \in Parts(T)}
    ELSE IF T.name \in visited \/ T.name \notin DOMAIN Definitions THEN {}
    ELSE {<<U, visited \union {T.name}>> : U \in Mentioned(Definitions[T.name])}

\* Types are finite, and what they mention is a type.
FormsAssumption ==
    /\ MaxDepth \in Nat
    /\ Depth \in [InputTypes -> 0..MaxDepth]
    /\ IsFiniteSet(DOMAIN Definitions)
    /\ \A n \in DOMAIN Definitions : Mentioned(Definitions[n]) \subseteq InputTypes
    /\ \A T \in InputTypes :
         /\ T.t \in {"prim", "option", "result", "vec", "map", "tuple", "udt"}
         /\ \A U \in Parts(T) : U \in InputTypes /\ Depth[U] < Depth[T]

-----------------------------------------------------------------------------
\* From the most to the least restrictive.
Compositions == <<"unsupported", "xdr", "dynamic", "json">>
Strength(c) == CHOOSE i \in 1..4 : Compositions[i] = c

\* Mutant: the least restrictive part decides.
MergeStrongest(S) ==
    IF S = {} THEN "json" ELSE CHOOSE c \in S : \A d \in S : Strength(d) <= Strength(c)

\* merge_input_composition
Merge(S) ==
    IF S = {} THEN "json" ELSE CHOOSE c \in S : \A d \in S : Strength(c) <= Strength(d)

\* contract_input_composition
composition[p \in Visits] ==
    LET T == p[1]
        inside == Merge({composition[q] : q \in Inside(T, p[2])})
    IN  CASE T.t = "prim" ->
               (CASE T.prim = "val" -> "dynamic" [] T.prim = "error" -> "unsupported" [] OTHER -> "json")
          [] T.t = "result" -> IF inside = "unsupported" THEN "unsupported" ELSE "xdr"
          [] T.t \in {"option", "vec", "map", "tuple"} -> inside
          [] T.t = "udt" /\ T.name \in p[2] -> "json"
          [] T.t = "udt" /\ T.name \notin p[2] ->
               IF \/ T.name \notin DOMAIN Definitions
                  \/ Definitions[T.name].kind = "error_enum"
                  \/ Definitions[T.name].kind = "struct" /\ ~CanonicalStruct(Definitions[T.name])
                 THEN "unsupported" ELSE inside

\* ensure_contract_type_normalization_safe
normalizable[p \in Visits] ==
    LET T == p[1]
        inside == \A q \in Inside(T, p[2]) : normalizable[q]
    IN  CASE T.t = "prim" -> T.prim /= "error"
          [] T.t \in {"option", "result", "vec", "map", "tuple"} -> inside
          [] T.t = "udt" ->
               \/ T.name \in p[2]
               \/ /\ T.name \in DOMAIN Definitions
                  /\ Definitions[T.name].kind /= "error_enum"
                  /\ Definitions[T.name].kind = "struct" => CanonicalStruct(Definitions[T.name])
                  /\ inside

Form(T) == composition[<<T, {}>>]
Normalizable(T) == normalizable[<<T, {}>>]
=============================================================================
