------------------------------- MODULE FieldSet -------------------------------
(***************************************************************************)
(* The fields of a DynamicMessage (DynamicMessageFieldSet) and the         *)
(* operations of DynamicMessage and of its encoding on them.               *)
(*                                                                         *)
(* A BTreeMap takes a number to a value, to the unknown fields read under  *)
(* that number, or to a mark left by a draining iterator.  Which of these  *)
(* it may be depends on the descriptor of the message, but the map is also *)
(* reached through descriptors of its own: an ExtensionDescriptor of a     *)
(* newer pool ("late") has a number that the message's own descriptor does *)
(* not know.                                                               *)
(*                                                                         *)
(* A value is the sequence of its elements: one for a scalar, those of the *)
(* list for a repeated field, those of its one repeated field for a        *)
(* message.  A message on the wire is a sequence of <<number, value>>.     *)
(***************************************************************************)
EXTENDS Naturals, Sequences, FiniteSets, SequencesExt

CONSTANTS
  Numbers,                    \* field numbers
  Fields, Extensions, Late,   \* those of fields, of extensions, of late extensions
  Atoms, Zero,                \* elements of field values, and their default
  Scalar,                     \* numbers whose values replace each other; others accumulate
  Strings,                    \* the scalars of type string
  Presence,                   \* numbers that can be set to their default value
  Unpacked,                   \* numbers of lists written element by element
  Oneofs,                     \* the oneofs of the type: sets of numbers
  MaxLen                      \* bound on the length of values

Known == Fields \cup Extensions
Usable == Known \cup Late     \* numbers the program has a descriptor for

ASSUME DescriptorAssumption ==
  /\ Numbers \subseteq Nat \ {0} /\ IsFiniteSet(Numbers)
  /\ Known \cup Late \subseteq Numbers /\ Strings \subseteq Scalar
  /\ Fields \cap Extensions = {} /\ Known \cap Late = {}
  /\ Zero \in Atoms
  /\ MaxLen \in Nat \ {0}
  /\ Unpacked \cap (Scalar \cup Presence) = {}
  /\ \A O \in Oneofs : O \subseteq Fields \cap Presence
  /\ \A O, P \in Oneofs : O = P \/ O \cap P = {}

VARIABLES
  entry,    \* number -> the entry of the BTreeMap, or Absent
  failed    \* the number that the last operation failed to merge, or None

vars == <<entry, failed>>

None == 0

Tags == {"absent", "taken", "value", "unknown"}
Entry == [tag : Tags, value : Seq(Atoms), unknown : Seq(Seq(Atoms))]

Absent == [tag |-> "absent", value |-> << >>, unknown |-> << >>]
Taken == [tag |-> "taken", value |-> << >>, unknown |-> << >>]
ValueEntry(v) == [tag |-> "value", value |-> v, unknown |-> << >>]
UnknownEntry(vs) == [tag |-> "unknown", value |-> << >>, unknown |-> vs]

Empty == [n \in Numbers |-> Absent]

-----------------------------------------------------------------------------
(* The operations, as functions of the entries "e".  "known" holds the      *)
(* numbers that the descriptor in use knows.                                *)

\* Value::default_value_for_field and FieldDescriptorLike::has.
Default(n) == IF n \in Scalar THEN <<Zero>> ELSE << >>
Shows(n, v) == n \in Presence \/ v # Default(n)
Has(e, n) == e[n].tag = "value" /\ Shows(n, e[n].value)

\* Fault: only the later fields of the oneof are cleared.
RivalsAfter(n) == { m \in UNION { O \in Oneofs : n \in O } : m > n }

\* clear_oneof_fields: the other fields of the oneof of n; extensions have none.
Rivals(n) == (UNION { O \in Oneofs : n \in O }) \ {n}

\* DynamicMessageFieldSet::set; get_mut does the same with the current value.
Stored(e, n, v, known) ==
  [m \in Numbers |-> IF m = n THEN ValueEntry(v)
                     ELSE IF m \in Rivals(n) \cap known THEN Absent
                     ELSE e[m]]

\* The value that get_mut finds or puts in place.
Current(e, n) == IF e[n].tag = "value" THEN e[n].value ELSE Default(n)

\* Fault: scalars accumulate too.
MergedAppending(n, old, new) == old \o new

\* Value::merge_field on one occurrence of the field.
Merged(n, old, new) == IF n \in Scalar THEN new ELSE old \o new

\* Fault: the latest unknown field of a number replaces the earlier ones.
WithLastUnknown(e, n, v) == [e EXCEPT ![n] = UnknownEntry(<<v>>)]

\* add_unknown, on an entry that is not a value.
WithUnknown(e, n, v) == [e EXCEPT ![n] = UnknownEntry(Append(e[n].unknown, v))]

\* DynamicMessage::merge_field: fields and extensions through get_mut, anything
\* else is kept as unknown.
Received(e, n, v, known) ==
  IF n \in known THEN Stored(e, n, Merged(n, Current(e, n), v), known)
  ELSE WithUnknown(e, n, v)

\* What iter_set and encode_field make of number n: of a value that shows one
\* occurrence, or one for each element; every unknown field read.
Occurrences(e, n) ==
  CASE Has(e, n) /\ n \in Unpacked -> [i \in DOMAIN e[n].value |-> <<e[n].value[i]>>]
    [] Has(e, n) /\ n \notin Unpacked -> <<e[n].value>>
    [] e[n].tag = "unknown" -> e[n].unknown
    [] OTHER -> << >>

\* The numbers in the order of the BTreeMap.
InOrder ==
  CHOOSE q \in [1..Cardinality(Numbers) -> Numbers] : \A i, j \in DOMAIN q : i < j => q[i] < q[j]

\* Occurrences of number n on the wire.
Tagged(n, occurrences) == [i \in DOMAIN occurrences |-> <<n, occurrences[i]>>]

\* encode_raw: ascending numbers.
Encode(e) == FoldLeft(LAMBDA wire, n : wire \o Tagged(n, Occurrences(e, n)), << >>, InOrder)

\* Message::decode: merge_field on each occurrence, from an empty message.
Decode(wire, known) == FoldLeft(LAMBDA e, o : Received(e, o[1], o[2], known), Empty, wire)

-----------------------------------------------------------------------------
Init == entry = Empty /\ failed = None

\* Values the model assigns: one element for a scalar.
Candidates(n) == IF n \in Scalar THEN [1..1 -> Atoms] ELSE SeqOf(Atoms, MaxLen)

\* set_field, set_extension
Set(n, v) == entry' = Stored(entry, n, v, Known)

\* get_field_mut, get_extension_mut
GetMut(n) == entry' = Stored(entry, n, Current(entry, n), Known)

\* A write through the reference that get_mut or fields_mut returned.
Mutate(n, v) ==
  /\ entry[n].tag = "value"
  /\ entry' = [entry EXCEPT ![n] = ValueEntry(v)]

\* clear_field, clear_extension, take_field, take_extension: the entry goes,
\* whatever it is.
Clear(n) == entry' = [entry EXCEPT ![n] = Absent]

ClearAll == entry' = Empty

\* take_fields, take_extensions: the draining iterator has passed the numbers up
\* to "last" when it is dropped.
Drain(S, last) ==
  entry' = [n \in Numbers |-> IF n \in S /\ n <= last /\ Has(entry, n) THEN Taken ELSE entry[n]]

\* take_unknown_fields
DrainUnknown(last) ==
  entry' = [n \in Numbers |-> IF n <= last /\ entry[n].tag = "unknown" THEN Taken ELSE entry[n]]

\* DynamicMessage::merge_field: get_field_mut, then the merge.
Merge(n, v) ==
  /\ n \in Scalar \/ Len(Current(entry, n)) + Len(v) <= MaxLen
  /\ entry' = Received(entry, n, v, Known)

\* Fault: a failed merge leaves the default.
MergeFailsResetting(n) == entry' = IF n \in Known THEN Stored(entry, n, Default(n), Known) ELSE entry

\* ... when the bytes do not decode: what get_mut did stays, but prost empties the string
\* that it merges into.  (Elements decoded before the error stay too: a Merge of those.)
\* Bytes of an unknown number are decoded before anything is added.
MergeFails(n) ==
  entry' = IF n \in Known
           THEN Stored(entry, n, IF n \in Strings THEN Default(n) ELSE Current(entry, n), Known)
           ELSE entry

\* ... for an unknown number: add_unknown panics on a value, and the message
\* stays as it was.
MergeUnknown(n, v) ==
  /\ Len(entry[n].unknown) < MaxLen
  /\ entry[n].tag # "value"
  /\ entry' = Received(entry, n, v, Known)

Operate ==
  \/ \E n \in Usable : \E v \in Candidates(n) : Set(n, v) \/ Mutate(n, v)
  \/ \E n \in Usable : GetMut(n) \/ Clear(n)
  \/ \E n \in Known : \E v \in Candidates(n) : Merge(n, v)
  \/ \E n \in Numbers \ Known : \E v \in Candidates(n) : MergeUnknown(n, v)
  \/ \E last \in Numbers : Drain(Fields, last) \/ Drain(Extensions, last) \/ DrainUnknown(last)
  \/ ClearAll

Next ==
  \/ Operate /\ failed' = None
  \/ \E n \in Numbers : MergeFails(n) /\ failed' = n

Spec == Init /\ [][Next]_vars

-----------------------------------------------------------------------------
(* Properties.                                                             *)

\* Every entry is one of the three kinds of ValueOrUnknown, or there is none.  A
\* scalar has one element; an Unknown entry is never empty.
WellTyped(n) ==
  /\ entry[n].tag # "value" => entry[n].value = << >>
  /\ entry[n].tag = "value" /\ n \in Scalar => Len(entry[n].value) = 1
  /\ entry[n].tag = "unknown" <=> entry[n].unknown # << >>

TypeOK ==
  /\ entry \in [Numbers -> Entry]
  /\ \A n \in Numbers : WellTyped(n)
  /\ failed \in Numbers \cup {None}

\* At most one field of a oneof has a value, whichever mix of assignments,
\* mutable accesses, merged bytes, failed merges and drains led here: nothing but
\* clear_oneof_fields keeps it so, and get_mut and set each have to call it.
OneofExclusive ==
  \A O \in Oneofs : \A n, m \in O : entry[n].tag = "value" /\ entry[m].tag = "value" => n = m

\* What a user of the message can tell of it: marks of draining iterators and
\* defaults that get_mut left in fields without presence cannot be told from
\* fields never set.
View(e) == [n \in Numbers |-> IF Has(e, n) \/ e[n].tag = "unknown" THEN e[n] ELSE Absent]

\* "Unknown fields are preserved when decoding and re-encoding a message": a
\* reader that knows only some of the fields ("known") passes on bytes from which
\* a reader of the full type gets the message the first writer had, whatever
\* operations built it; encoding writes all that is set, and the order it writes in
\* does not let a oneof field clear another.
OldReadersPreserve ==
  \A known \in SUBSET Known :
     View(Decode(Encode(Decode(Encode(entry), known)), Known)) = View(entry)

\* The promise of MessageMap: fields set or unset, unknown fields in order.
Map == INSTANCE MessageMap WITH
  field <- [n \in Known |-> IF Has(entry, n) THEN [set |-> TRUE, value |-> entry[n].value]
                            ELSE [set |-> FALSE, value |-> << >>]],
  unknown <- [n \in Numbers \ Known |-> entry[n].unknown]

\* Each operation changes what it names and nothing else: unknown fields survive
\* every operation on fields and extensions, fields survive draining of unknown
\* fields.  A merge that fails changes no field but the one that failed and the rivals
\* of its oneof: that one keeps the value it had, except that a string is empty then.
ImplementsMap == Map!Spec
=============================================================================
