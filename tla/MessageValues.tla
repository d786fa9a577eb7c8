----------------------------- MODULE MessageValues -----------------------------
(***************************************************************************)
(* Dynamic messages as the text and JSON formats see them.                 *)
(*                                                                         *)
(* A message is a function from the numbers set in it to values; under a   *)
(* number that its type does not have are the unknown fields read.  What   *)
(* the bytes of google.protobuf.Any hold is kept as the message they       *)
(* encode: WireRelay is about the encoding.  A list also says whether it   *)
(* is one: "lone" is a value stored where its field has a list.            *)
(***************************************************************************)
EXTENDS Integers, Sequences, FiniteSets, SequencesExt, TLC

CONSTANTS
  Schema,    \* type -> number -> field
  EnumOf,    \* enum type -> name of a value -> number
  FullName,  \* type -> its full name, in bytes
  Bits       \* width of an integer kind, scaled

Kinds == {"int32", "int64", "uint32", "double", "bool", "string", "bytes", "enum", "message"}
Integral == {"int32", "int64", "uint32"}
Field ==
  [index : Nat, name : STRING, json : STRING, text : STRING, card : {"one", "list", "map"}, kind : Kinds,
   presence : BOOLEAN, oneof : STRING, ext : BOOLEAN, of : STRING]

ASSUME SchemaAssumption ==
  \A t \in DOMAIN Schema : \A n \in DOMAIN Schema[t] : n \in Nat \ {0} /\ Schema[t][n] \in Field

Width(kind) == IF kind = "uint32" THEN 0..(2^Bits[kind] - 1) ELSE -(2^(Bits[kind] - 1))..(2^(Bits[kind] - 1) - 1)

Nothing == [n \in {} |-> 0]
List(items) == [lone |-> FALSE, items |-> items]
Lone(x) == [lone |-> TRUE, items |-> <<x>>]
Finite(v) == [is |-> "finite", value |-> v]
Data(bytes) == [is |-> "data", bytes |-> bytes]
Payload(t, m) == [is |-> "payload", type |-> t, message |-> m]

\* Of a set of one element, its element.
The(S) == CHOOSE x \in S : TRUE

\* One of each of a sequence of sets, if none is empty.
Together(sets) ==
  IF \E i \in DOMAIN sets : sets[i] = {} THEN {} ELSE {[i \in DOMAIN sets |-> The(sets[i])]}

Ordered(S, Less(_, _)) ==
  [i \in 1..Cardinality(S) |-> CHOOSE x \in S : Cardinality({ y \in S : Less(y, x) }) = i - 1]

\* Value::default_value_for_field, without custom defaults.
Default(f) ==
  CASE f.card = "list" -> List(<< >>)
    [] f.card = "map" \/ (f.card = "one" /\ f.kind = "message") -> Nothing
    [] f.card = "one" /\ f.kind = "double" -> Finite(0)
    [] f.card = "one" /\ f.kind = "bool" -> FALSE
    [] f.card = "one" /\ f.kind = "string" -> << >>
    [] f.card = "one" /\ f.kind = "bytes" -> Data(<< >>)
    [] OTHER -> 0

Shows(f, x) == f.presence \/ x # Default(f)
Has(t, m, n) == n \in DOMAIN m /\ n \in DOMAIN Schema[t] /\ Shows(Schema[t][n], m[n])
Get(t, m, n) == IF n \in DOMAIN m THEN m[n] ELSE Default(Schema[t][n])

\* The fields of the oneof of a field.
Oneofs ==
  [t \in DOMAIN Schema |-> [n \in DOMAIN Schema[t] |->
     { k \in DOMAIN Schema[t] : Schema[t][k].oneof = Schema[t][n].oneof /\ Schema[t][n].oneof # "" }]]
Members(t, n) == Oneofs[t][n]

\* DynamicMessageFieldSet::set
Put(t, m, n, x) == (n :> x) @@ [k \in DOMAIN m \ (Members(t, n) \ {n}) |-> m[k]]

\* DynamicMessageFieldSet::iter: the fields of the type, then the rest.
Iterated(t, m, defaults, indexed) ==
  LET f == Schema[t]
      own == { n \in DOMAIN f : ~f[n].ext /\ (Has(t, m, n) \/ (defaults /\ ~f[n].presence)) }
      rest == { n \in DOMAIN m : n \in DOMAIN f => f[n].ext /\ Shows(f[n], m[n]) }
  IN Ordered(own, LAMBDA a, b : IF indexed THEN f[a].index < f[b].index ELSE a < b)
       \o Ordered(rest, <)

\* The entries of a map, a HashMap, in one order or another.
Keys(map, ascending) == IF ascending THEN SetToSeq(DOMAIN map) ELSE Reverse(SetToSeq(DOMAIN map))

-----------------------------------------------------------------------------
(* google.protobuf.Any.                                                    *)

Shown(t, m) == [n \in { k \in DOMAIN m : k \in DOMAIN Schema[t] => Shows(Schema[t][k], m[k]) } |-> m[n]]

\* encode_to_vec, and DynamicMessage::decode: the messages it gives, if any.
Encode(t, m) == IF Shown(t, m) = Nothing THEN Data(<< >>) ELSE Payload(t, Shown(t, m))
Decode(t, data) ==
  IF data = Data(<< >>) THEN {Nothing}
  ELSE IF data.is = "payload" /\ data.type = t THEN {data.message} ELSE {}

\* get_type_url_message_name and get_message_by_name: what follows the last slash.
Slash == 47
TypesOf(url) ==
  { t \in DOMAIN FullName : /\ Len(url) > Len(FullName[t]) /\ IsSuffix(FullName[t], url)
                            /\ url[Len(url) - Len(FullName[t])] = Slash }

AnyOf(url, data) == (1 :> url) @@ (2 :> data)

\* as_any: the type and the message in it.
Expanded(t, m) ==
  IF t # "Any" THEN {}
  ELSE UNION { { [type |-> u, message |-> body] : body \in Decode(u, Get(t, m, 2)) } : u \in TypesOf(Get(t, m, 1)) }
================================================================================
