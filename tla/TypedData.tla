------------------------------ MODULE TypedData -------------------------------
(***************************************************************************)
(* convertCBORToEIP712TypedData (utils/cbor/cbor_to_eip712_converter.ts):  *)
(* the EIP-712 types of a message, by which wallets sign what the node     *)
(* then verifies.  A field that has no type is in no signature.            *)
(*                                                                         *)
(* A value is a map (its fields in the order of Field, which CBOR gives    *)
(* them), a list of values of one type or a plain value, by its JavaScript *)
(* type.  A type is named by its path.  Maps without a field, maps within  *)
(* lists and lists within lists are left out.                              *)
(***************************************************************************)
EXTENDS Integers, Sequences, FiniteSets, SequencesExt

CONSTANTS
  Field,  \* the names of fields, in CBOR's order
  Root    \* the name of the primary type

\* What the constants must be.
TypedDataAssumption == Len(Field) > 0 /\ IsInjective(Field) /\ Root \notin ToSet(Field)

VARIABLES
  message,
  pc,     \* "decode", "types", "done" or "failed"
  next,   \* partialType: the leaf whose types come next
  types   \* the fields of each type so far

vars == <<message, pc, next, types>>

-------------------------------------------------------------------------------
(* Messages. *)

Elem == <<"[0]", "[1]">>  \* the names of a list's elements

Plain(t) == [plain |-> t]
List(t, n) == [list |-> [i \in 1..n |-> t]]
Map(f) == [map |-> f]

Is(v, kind) == kind \in DOMAIN v

Flat ==
  {Plain(t) : t \in {"number", "string", "object"}}
  \cup {List(t, n) : t \in {"number", "string"}, n \in 0..2}
Maps(values) == {Map(f) : f \in UNION {[S -> values] : S \in (SUBSET ToSet(Field)) \ {{}}}}
Message == Maps(Flat \cup Maps(Flat))

Names(v) == SelectSeq(Field, LAMBDA k : k \in DOMAIN v.map)

-------------------------------------------------------------------------------
(* Decoding calls the visitor for every leaf with its path. *)

Prim(t) == [prim |-> IF t = "number" THEN "uint256" ELSE t]  \* eip712Type
Array(t) == [array |-> t]
Struct(path) == [struct |-> path]

Leaf(path, type) == [of |-> Front(path), name |-> Last(path), type |-> type]

RECURSIVE Leaves(_, _)
Leaves(path, v) ==
  IF Is(v, "map")
  THEN FlattenSeq([i \in DOMAIN Names(v) |->
         Leaves(Append(path, Names(v)[i]), v.map[Names(v)[i]])])
  ELSE IF Is(v, "list") /\ v.list # <<>>
  THEN [i \in DOMAIN v.list |-> Leaf(Append(path, Elem[i]), Prim(v.list[i]))]
  ELSE <<Leaf(path, IF Is(v, "list") THEN Array(Prim("undefined")) ELSE Prim(v.plain))>>

TypeMap == Leaves(<<Root>>, message)

\* typeof null is "object": the visitor does not take it.
Decode ==
  /\ pc = "decode"
  /\ pc' = IF \E i \in DOMAIN TypeMap : TypeMap[i].type = Prim("object")
           THEN "failed" ELSE "types"
  /\ UNCHANGED <<message, next, types>>

-------------------------------------------------------------------------------
(* The types, leaf by leaf. *)

Declared(ts, type) == IF type \in DOMAIN ts THEN ts[type] ELSE <<>>

\* Mutant: what is declared already is declared again.
HasNever(ts, type, name) == FALSE

Has(ts, type, name) == \E f \in ToSet(Declared(ts, type)) : f.name = name

Declare(ts, type, name, is) ==
  [t \in DOMAIN ts \cup {type} |->
     IF t = type THEN Append(Declared(ts, t), [name |-> name, type |-> is]) ELSE ts[t]]

\* The leaves that are right below a type; the first gives the type of a list.
Below(type) == {i \in DOMAIN TypeMap : TypeMap[i].of = type}
First(type) == TypeMap[CHOOSE i \in Below(type) : \A j \in Below(type) : i =< j]

\* The types on the path to a leaf, from the primary one.  A leaf that is a list's
\* element takes the first field not declared yet for its list.
OnPath(leaf, acc, i) ==
  LET before == SubSeq(leaf.of, 1, i)
      deeper == SubSeq(leaf.of, 1, i + 1)
      name == leaf.of[i + 1]
  IN IF acc.stop THEN acc
     ELSE IF i = Len(leaf.of)
     THEN [acc EXCEPT !.types = Declare(@, before, leaf.name, leaf.type)]
     ELSE IF Has(acc.types, before, name) THEN acc
     ELSE IF leaf.name \notin ToSet(Elem)
     THEN [acc EXCEPT !.types = Declare(@, before, name, Struct(deeper))]
     ELSE IF Below(deeper) = {}
     THEN [acc EXCEPT !.stop = TRUE, !.failed = TRUE]
     ELSE [acc EXCEPT !.stop = TRUE,
                      !.types = Declare(@, before, name, Array(First(deeper).type))]

AddTypes ==
  /\ pc = "types" /\ next =< Len(TypeMap)
  /\ LET leaf == TypeMap[next]
         end == FoldLeft(LAMBDA acc, i : OnPath(leaf, acc, i),
                         [types |-> types, stop |-> FALSE, failed |-> FALSE],
                         [i \in DOMAIN leaf.of |-> i])
     IN types' = end.types /\ pc' = IF end.failed THEN "failed" ELSE pc
  /\ next' = next + 1 /\ UNCHANGED message

Return ==
  /\ pc = "types" /\ next > Len(TypeMap) /\ pc' = "done"
  /\ UNCHANGED <<message, next, types>>

Init == message \in Message /\ pc = "decode" /\ next = 1 /\ types = [t \in {} |-> <<>>]
Next == Decode \/ AddTypes \/ Return
Spec == Init /\ [][Next]_vars

-------------------------------------------------------------------------------
TypedDataTypeOK ==
  /\ pc \in {"decode", "types", "done", "failed"} /\ next \in 1..(Len(TypeMap) + 1)
  /\ \A t \in DOMAIN types : t[1] = Root /\ types[t] # <<>>

\* What a map's field is, and the maps within a value with their paths.
TypeOf(path, v) ==
  IF Is(v, "map") THEN Struct(path)
  ELSE IF Is(v, "plain") THEN Prim(v.plain)
  ELSE Array(Prim(IF v.list = <<>> THEN "undefined" ELSE v.list[1]))

RECURSIVE Within(_, _)
Within(path, v) ==
  IF ~Is(v, "map") THEN {}
  ELSE {[path |-> path, map |-> v.map]}
       \cup UNION {Within(Append(path, k), v.map[k]) : k \in DOMAIN v.map}
AllMaps == Within(<<Root>>, message)

\* No map below the first begins with a list that has elements.
ListsComeLater ==
  \A m \in AllMaps : Len(m.path) > 1 =>
    Leaves(m.path, Map(m.map))[1].name \notin ToSet(Elem)

\* Every field of every map is declared once, by its name and with its type,
\* and conversion fails for null alone: what is signed is all of the message.
EveryFieldIsTyped ==
  ListsComeLater =>
    /\ pc = "done" => \A m \in AllMaps :
         LET fields == Declared(types, m.path) IN
         /\ Len(fields) = Cardinality(DOMAIN m.map)
         /\ ToSet(fields) = {[name |-> k, type |-> TypeOf(Append(m.path, k), m.map[k])] :
                               k \in DOMAIN m.map}
    /\ pc = "failed" => next = 1
===============================================================================
