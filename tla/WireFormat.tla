------------------------------ MODULE WireFormat ------------------------------
(***************************************************************************)
(* The binary format of a DynamicMessage (impl Message for DynamicMessage, *)
(* Value, MapKey and UnknownFieldSet), and a message that travels through  *)
(* programs with different versions of its type.                           *)
(*                                                                         *)
(* Bytes are abstracted to tokens, each with its size: the key of a field, *)
(* a varint, a fixed-width number, the contents of a bytes field.  Lengths *)
(* on the wire are in bytes and decide where the decoder stops.  Integers  *)
(* keep their width: "32 bits" are W bits here, "64 bits" 2 * W, and a     *)
(* byte has G bits of a varint and one that says whether more follow.      *)
(*                                                                         *)
(* A message is a function from the numbers set in it to a value, if its   *)
(* type has the number, and otherwise to the unknown fields read.  Oneofs  *)
(* and the operations of the map are in FieldSet.                          *)
(***************************************************************************)
EXTENDS Integers, Sequences, FiniteSets, SequencesExt

CONSTANTS
  Schema,    \* version -> type -> number -> field
  First,     \* version of the program that writes the message first
  Messages,  \* messages of type "Message" in that version
  W, G,      \* bits of a "32-bit" integer, bits of a varint in one byte
  Limit,     \* nested messages that DecodeContext::default() allows
  MaxHops    \* bound on the programs a message travels through

Versions == DOMAIN Schema
Kinds == {"int32", "int64", "uint32", "sint32", "fixed32", "fixed64", "bytes", "message", "group"}
Field == [card : {"one", "list", "map"}, kind : Kinds, presence : BOOLEAN, packed : BOOLEAN,
          of : STRING]

ASSUME WireAssumption ==
  /\ First \in Versions
  /\ \A v \in Versions : \A t \in DOMAIN Schema[v] : \A n \in DOMAIN Schema[v][t] :
       n \in Nat \ {0} /\ Schema[v][t][n] \in Field
  /\ {W, G} \subseteq Nat \ {0} /\ W % (G + 1) = 0

-----------------------------------------------------------------------------
(* Tokens.                                                                  *)

\* Kind::wire_type; a group is between a start and an end.
WireType(kind) ==
  CASE kind \in {"int32", "int64", "uint32", "sint32"} -> "varint"
    [] kind = "fixed32" -> "32bit"
    [] kind = "fixed64" -> "64bit"
    [] kind \in {"bytes", "message"} -> "len"
    [] kind = "group" -> "start"

Key(n, wt) == [is |-> "key", number |-> n, wire |-> wt]
Number(wt, u) == [is |-> wt, value |-> u]
Varint(u) == Number("varint", u)

VarintLen(u) == CHOOSE k \in 1..(4 * W) : u < 2^(G * k) /\ (k = 1 \/ u >= 2^(G * (k - 1)))
KeyLen(n) == VarintLen(8 * n)

WireLen(wt, u) == CASE wt = "varint" -> VarintLen(u)
                    [] wt = "32bit" -> W \div (G + 1)
                    [] wt = "64bit" -> (2 * W) \div (G + 1)

Size(token) == CASE token.is = "key" -> KeyLen(token.number)
                 [] token.is = "contents" -> Len(token.value)
                 [] OTHER -> WireLen(token.is, token.value)

Bytes(tokens) == FoldLeft(LAMBDA sum, token : sum + Size(token), 0, tokens)
Sum(numbers) == FoldLeft(+, 0, numbers)

\* "v as u64" and from_sint32: what a varint carries of an integer.
ToU64(kind, v) ==
  CASE kind \in {"int32", "int64"} -> v % 2^(2 * W)
    [] kind = "sint32" -> IF v >= 0 THEN 2 * v ELSE -2 * v - 1
    [] OTHER -> v

\* What the decoder makes of it: the low bits of a "32-bit" kind.
Signed(u, bits) == IF u < 2^(bits - 1) THEN u ELSE u - 2^bits
FromU64(kind, u) ==
  LET low == u % 2^W
  IN CASE kind = "int32" -> Signed(low, W)
       [] kind = "int64" -> Signed(u, 2 * W)
       [] kind = "uint32" -> low
       [] kind = "sint32" -> IF low % 2 = 0 THEN low \div 2 ELSE -((low + 1) \div 2)
       [] OTHER -> u

Contents(data) == IF data = << >> THEN << >> ELSE <<[is |-> "contents", value |-> data]>>

\* The values of an integer kind.
ValuesOf(kind) ==
  CASE kind \in {"int32", "sint32"} -> -(2^(W - 1))..(2^(W - 1) - 1)
    [] kind = "int64" -> -(2^(2 * W - 1))..(2^(2 * W - 1) - 1)
    [] kind \in {"uint32", "fixed32"} -> 0..(2^W - 1)
    [] kind = "fixed64" -> 0..(2^(2 * W) - 1)

\* Default values; messages and maps without entries are the empty function.
Default(f) == IF f.card # "one" \/ f.kind \in {"bytes", "message", "group"} THEN << >> ELSE 0

\* Fields without presence are written when they are not the default.
Written(f, x) == f.presence \/ x # Default(f)

\* Fault: lists are read packed only by those who write them packed.
PackableIfPacked(f) == f.packed

\* KindIndex::is_packable
Packable(f) == f.kind \notin {"bytes", "message", "group"}

-----------------------------------------------------------------------------
(* encoded_len.                                                             *)

RECURSIVE EncodedLen(_, _, _), UnknownLen(_)

\* Fault: a negative "int32" counts as if it had "32 bits" on the wire.
ScalarLenNarrow(kind, x) ==
  IF kind = "bytes" THEN VarintLen(Len(x)) + Len(x)
  ELSE WireLen(WireType(kind), ToU64(kind, x) % 2^W)

ScalarLen(kind, x) ==
  IF kind = "bytes" THEN VarintLen(Len(x)) + Len(x)
  ELSE WireLen(WireType(kind), ToU64(kind, x))

DelimitedLen(n, len) == KeyLen(n) + VarintLen(len) + len

ElementLen(S, f, n, x) ==
  CASE f.kind = "message" -> DelimitedLen(n, EncodedLen(S, f.of, x))
    [] f.kind = "group" -> 2 * KeyLen(n) + EncodedLen(S, f.of, x)
    [] OTHER -> KeyLen(n) + ScalarLen(f.kind, x)

PackedLen(f, x) == Sum([i \in DOMAIN x |-> ScalarLen(f.kind, x[i])])

RECURSIVE FieldLen(_, _, _, _)

EntryLen(S, entry, k, v) == FieldLen(S, entry[1], 1, k) + FieldLen(S, entry[2], 2, v)

FieldLen(S, f, n, x) ==
  CASE ~Written(f, x) -> 0
    [] Written(f, x) /\ f.card = "one" -> ElementLen(S, f, n, x)
    [] Written(f, x) /\ f.card = "list" ->
         IF f.packed THEN DelimitedLen(n, PackedLen(f, x))
         ELSE Sum([i \in DOMAIN x |-> ElementLen(S, f, n, x[i])])
    [] Written(f, x) /\ f.card = "map" ->
         LET keys == SetToSortSeq(DOMAIN x, <)
         IN Sum([i \in DOMAIN keys |-> DelimitedLen(n, EntryLen(S, S[f.of], keys[i], x[keys[i]]))])

UnknownLen(u) ==
  CASE u.wire = "len" -> DelimitedLen(u.number, Bytes(u.value))
    [] u.wire = "start" -> 2 * KeyLen(u.number) + Sum([i \in DOMAIN u.value |-> UnknownLen(u.value[i])])
    [] OTHER -> KeyLen(u.number) + WireLen(u.wire, u.value)

EncodedLen(S, t, m) ==
  LET numbers == SetToSortSeq(DOMAIN m, <)
      LenOf(n) == IF n \in DOMAIN S[t] THEN FieldLen(S, S[t][n], n, m[n])
                  ELSE Sum([i \in DOMAIN m[n] |-> UnknownLen(m[n][i])])
  IN Sum([i \in DOMAIN numbers |-> LenOf(numbers[i])])

-----------------------------------------------------------------------------
(* encode_raw.  A map is a HashMap, whose order the caller does not choose:  *)
(* "ascending" stands for it.                                               *)

RECURSIVE EncodeRaw(_, _, _, _), EncodeUnknown(_)

Scalar(kind, x) == IF kind = "bytes" THEN <<Varint(Len(x))>> \o Contents(x)
                   ELSE <<Number(WireType(kind), ToU64(kind, x))>>

EncodeElement(S, f, n, x, ascending) ==
  CASE f.kind = "message" -> <<Key(n, "len"), Varint(EncodedLen(S, f.of, x))>> \o EncodeRaw(S, f.of, x, ascending)
    [] f.kind = "group" -> <<Key(n, "start")>> \o EncodeRaw(S, f.of, x, ascending) \o <<Key(n, "end")>>
    [] OTHER -> <<Key(n, WireType(f.kind))>> \o Scalar(f.kind, x)

EncodePacked(f, n, x) ==
  <<Key(n, "len"), Varint(PackedLen(f, x))>> \o FlattenSeq([i \in DOMAIN x |-> Scalar(f.kind, x[i])])

RECURSIVE EncodeField(_, _, _, _, _)

EncodeEntry(S, f, n, k, v, ascending) ==
  LET entry == S[f.of]
  IN <<Key(n, "len"), Varint(EntryLen(S, entry, k, v))>>
     \o EncodeField(S, entry[1], 1, k, ascending) \o EncodeField(S, entry[2], 2, v, ascending)

EncodeField(S, f, n, x, ascending) ==
  CASE ~Written(f, x) -> << >>
    [] Written(f, x) /\ f.card = "one" -> EncodeElement(S, f, n, x, ascending)
    [] Written(f, x) /\ f.card = "list" ->
         IF f.packed THEN EncodePacked(f, n, x)
         ELSE FlattenSeq([i \in DOMAIN x |-> EncodeElement(S, f, n, x[i], ascending)])
    [] Written(f, x) /\ f.card = "map" ->
         LET keys == SetToSortSeq(DOMAIN x, LAMBDA j, k : IF ascending THEN j < k ELSE j > k)
         IN FlattenSeq([i \in DOMAIN keys |-> EncodeEntry(S, f, n, keys[i], x[keys[i]], ascending)])

\* UnknownField::encode: of a group the fields in the order they were read.
EncodeUnknown(u) ==
  CASE u.wire = "len" -> <<Key(u.number, "len"), Varint(Bytes(u.value))>> \o u.value
    [] u.wire = "start" -> <<Key(u.number, "start")>>
         \o FlattenSeq([i \in DOMAIN u.value |-> EncodeUnknown(u.value[i])]) \o <<Key(u.number, "end")>>
    [] OTHER -> <<Key(u.number, u.wire), Number(u.wire, u.value)>>

EncodeRaw(S, t, m, ascending) ==
  LET numbers == SetToSortSeq(DOMAIN m, <)
      TokensOf(n) == IF n \in DOMAIN S[t] THEN EncodeField(S, S[t][n], n, m[n], ascending)
                     ELSE FlattenSeq([i \in DOMAIN m[n] |-> EncodeUnknown(m[n][i])])
  IN FlattenSeq([i \in DOMAIN numbers |-> TokensOf(numbers[i])])

-----------------------------------------------------------------------------
(* merge_field.  "c" is what is left of the recursion limit.  A result has   *)
(* the value merged into and the tokens that follow it.                     *)

Fail == [ok |-> FALSE]
Got(x, rest) == [ok |-> TRUE, value |-> x, rest |-> rest]

\* The ? of Rust.
Then(r, next(_, _)) == IF r.ok THEN next(r.value, r.rest) ELSE Fail
Appended(list, r) == Then(r, LAMBDA x, rest : Got(Append(list, x), rest))

\* A loop reads the fields of a type, unknown fields, the elements of a packed
\* list, or the key and the value of a map entry.
FieldsOf(t) == [each |-> "field", of |-> t]
UnknownFields == [each |-> "unknown"]
ElementsOf(f, n) == [each |-> "element", field |-> f, number |-> n]
EntryOf(t) == [each |-> "entry", of |-> t]

RECURSIVE MergeNext(_, _, _, _, _), MergeLoop(_, _, _, _, _, _), MergeGroup(_, _, _, _, _, _)

\* prost::encoding::merge_loop: a length, and rounds until it is used up.
MergeLoop(S, what, x, wire, stop, c) ==
  IF Bytes(wire) <= stop THEN IF Bytes(wire) = stop THEN Got(x, wire) ELSE Fail
  ELSE Then(MergeNext(S, what, x, wire, c), LAMBDA y, rest : MergeLoop(S, what, y, rest, stop, c))

Short(wire) == wire = << >> \/ wire[1].value > Bytes(Tail(wire))

MergeDelimited(S, what, x, wire, c) ==
  IF Short(wire) THEN Fail
  ELSE MergeLoop(S, what, x, Tail(wire), Bytes(Tail(wire)) - wire[1].value, c)

AtKey(wire) == wire # << >> /\ wire[1].is = "key"

\* The loop of prost::encoding::group::merge, up to the end of group n.
MergeGroup(S, what, n, x, wire, c) ==
  CASE ~AtKey(wire) -> Fail
    [] AtKey(wire) /\ wire[1].wire = "end" -> IF wire[1].number = n THEN Got(x, Tail(wire)) ELSE Fail
    [] AtKey(wire) /\ wire[1].wire # "end" ->
         Then(MergeNext(S, what, x, wire, c), LAMBDA y, rest : MergeGroup(S, what, n, y, rest, c))

\* prost::encoding::bytes::merge: the tokens that a length covers.
Covers(wire, k) == Bytes(SubSeq(wire, 2, k)) = wire[1].value
Chunk(wire) ==
  IF Short(wire) \/ \A k \in 1..Len(wire) : ~Covers(wire, k) THEN Fail
  ELSE LET k == CHOOSE k \in 1..Len(wire) : Covers(wire, k)
       IN Got(SubSeq(wire, 2, k), SubSeq(wire, k + 1, Len(wire)))

MergeScalar(kind, wt, wire) ==
  IF wt # WireType(kind) \/ wire = << >> THEN Fail ELSE Got(FromU64(kind, wire[1].value), Tail(wire))

\* A value of field f, without regard to its cardinality.
MergeElement(S, f, n, x, wt, wire, c) ==
  CASE f.kind = "message" ->
         IF wt # "len" \/ c = 0 THEN Fail ELSE MergeDelimited(S, FieldsOf(f.of), x, wire, c - 1)
    [] f.kind = "group" ->
         IF wt # "start" \/ c = 0 THEN Fail ELSE MergeGroup(S, FieldsOf(f.of), n, x, wire, c - 1)
    [] f.kind = "bytes" ->
         IF wt # "len" THEN Fail
         ELSE Then(Chunk(wire), LAMBDA data, rest : Got(IF data = << >> THEN << >> ELSE data[1].value, rest))
    [] OTHER -> MergeScalar(f.kind, wt, wire)

Single(f) == [f EXCEPT !.card = "one"]

\* Key and value start from their defaults; a key already in the map loses its
\* value.  The entry does not count as a nested message.
MergeEntry(S, f, x, wire, c) ==
  LET initial == <<Default(S[f.of][1]), Default(S[f.of][2])>>
  IN Then(MergeDelimited(S, EntryOf(f.of), initial, wire, c),
          LAMBDA entry, rest : Got([k \in DOMAIN x \cup {entry[1]} |->
                                      IF k = entry[1] THEN entry[2] ELSE x[k]], rest))

\* Value::merge_field.  A map does not look at the wire type.
MergeValue(S, f, n, x, wt, wire, c) ==
  CASE f.card = "one" -> MergeElement(S, f, n, x, wt, wire, c)
    [] f.card = "list" /\ wt = "len" /\ Packable(f) -> MergeDelimited(S, ElementsOf(f, n), x, wire, c)
    [] f.card = "list" /\ ~(wt = "len" /\ Packable(f)) ->
         Appended(x, MergeElement(S, f, n, Default(Single(f)), wt, wire, c))
    [] f.card = "map" -> MergeEntry(S, f, x, wire, c)

\* Fault: the contents of an unknown field end where the input ends.
UnknownBytesToEnd(wire) == IF wire # << >> /\ Short(wire) THEN Got(Tail(wire), << >>) ELSE Chunk(wire)

\* The contents of an unknown length-delimited field.
UnknownBytes(wire) == Chunk(wire)

\* UnknownField::decode_value
DecodeUnknown(S, n, wt, wire, c) ==
  LET Unknown(r) == Then(r, LAMBDA x, rest : Got([number |-> n, wire |-> wt, value |-> x], rest))
  IN CASE wt = "len" -> Unknown(UnknownBytes(wire))
       [] wt = "start" -> IF c = 0 THEN Fail ELSE Unknown(MergeGroup(S, UnknownFields, n, << >>, wire, c - 1))
       [] wt = "end" -> Fail
       [] OTHER -> IF wire = << >> THEN Fail ELSE Unknown(Got(wire[1].value, Tail(wire)))

\* prost::encoding::skip_field
SkipField(S, n, wt, wire, c) == IF c = 0 THEN Fail ELSE DecodeUnknown(S, n, wt, wire, c)

\* DynamicMessage::merge_field
MergeField(S, t, m, n, wt, wire, c) ==
  LET f == S[t][n]
      known == n \in DOMAIN S[t]
      old == IF n \in DOMAIN m THEN m[n] ELSE IF known THEN Default(f) ELSE << >>
      r == IF known THEN MergeValue(S, f, n, old, wt, wire, c)
           ELSE Appended(old, DecodeUnknown(S, n, wt, wire, c))
  IN Then(r, LAMBDA x, rest : Got([k \in DOMAIN m \cup {n} |-> IF k = n THEN x ELSE m[k]], rest))

\* The closure of the map's merge_loop: an entry is <<key, value>>.
MergeEntryField(S, entry, x, n, wt, wire, c) ==
  IF n \in {1, 2}
  THEN Then(MergeElement(S, entry[n], n, x[n], wt, wire, c), LAMBDA y, rest : Got([x EXCEPT ![n] = y], rest))
  ELSE Then(SkipField(S, n, wt, wire, c), LAMBDA y, rest : Got(x, rest))

\* One round of a loop.
MergeNext(S, what, x, wire, c) ==
  IF what.each = "element"
  THEN Appended(x, MergeElement(S, what.field, what.number, 0, WireType(what.field.kind), wire, c))
  ELSE IF ~AtKey(wire) THEN Fail
  ELSE LET n == wire[1].number
           wt == wire[1].wire
       IN CASE what.each = "field" -> MergeField(S, what.of, x, n, wt, Tail(wire), c)
            [] what.each = "entry" -> MergeEntryField(S, S[what.of], x, n, wt, Tail(wire), c)
            [] what.each = "unknown" ->
                 Appended(x, DecodeUnknown(S, n, wt, Tail(wire), c))

\* DynamicMessage::decode
Decode(S, wire) == MergeLoop(S, FieldsOf("Message"), << >>, wire, 0, Limit)
=============================================================================
