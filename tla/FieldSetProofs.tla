---------------------------- MODULE FieldSetProofs ----------------------------
(***************************************************************************)
(* Proofs about FieldSet, for every descriptor and every bound: the types  *)
(* of entries, that a oneof has one value, and that a message reached      *)
(* through descriptors of its own pool only is the map of fields that      *)
(* MessageMap has, and passes unharmed through readers that know only some *)
(* of its fields.                                                          *)
(***************************************************************************)
EXTENDS FieldSet, FoldTheorems, FiniteSetTheorems, SequenceTheorems

-----------------------------------------------------------------------------
(* Values.                                                                 *)

\* A value a field may have: a sequence of elements, one for a scalar.
ValuesOf(n) == { v \in Seq(Atoms) : n \in Scalar => Len(v) = 1 }

\* Functions from an initial segment of the naturals are sequences.
LEMMA FunctionIsSeq ==
  ASSUME NEW S, NEW k \in Nat, NEW f \in [1..k -> S]
  PROVE  f \in Seq(S) /\ Len(f) = k
<1>1. f \in Seq(S)
  BY SeqDef
<1>2. DOMAIN f = 1..k /\ DOMAIN f = 1..Len(f) /\ Len(f) \in Nat
  BY <1>1, LenProperties
<1> QED BY <1>1, <1>2

\* The values the model assigns are values of the field.
LEMMA CandidatesAreValues ==
  ASSUME NEW n, NEW v \in Candidates(n)
  PROVE  v \in ValuesOf(n)
<1>1. CASE n \in Scalar
  <2>1. v \in [1..1 -> Atoms]
    BY <1>1 DEF Candidates
  <2>2. v \in Seq(Atoms) /\ Len(v) = 1
    BY <2>1, FunctionIsSeq
  <2> QED BY <2>2 DEF ValuesOf
<1>2. CASE n \notin Scalar
  <2>1. v \in UNION { [1..k -> Atoms] : k \in 0..MaxLen }
    BY <1>2 DEF Candidates, SeqOf
  <2>2. PICK k \in 0..MaxLen : v \in [1..k -> Atoms]
    BY <2>1
  <2>3. v \in Seq(Atoms)
    BY <2>2, FunctionIsSeq, DescriptorAssumption
  <2> QED BY <1>2, <2>3 DEF ValuesOf
<1> QED BY <1>1, <1>2

\* The default of a field is a value of it.
LEMMA DefaultIsValue ==
  ASSUME NEW n
  PROVE  Default(n) \in ValuesOf(n)
BY DescriptorAssumption, EmptySeq DEF Default, ValuesOf

\* So is what merging makes of two values.
LEMMA MergedIsValue ==
  ASSUME NEW n, NEW old \in ValuesOf(n), NEW new \in ValuesOf(n)
  PROVE  Merged(n, old, new) \in ValuesOf(n)
BY ConcatProperties DEF Merged, ValuesOf

-----------------------------------------------------------------------------
(* Entries.                                                                *)

\* The kinds of entries number n can have: TypeOK, for one entry.
EntriesOf(n) ==
  {Absent, Taken} \cup { ValueEntry(v) : v \in ValuesOf(n) }
  \cup { UnknownEntry(vs) : vs \in Seq(Seq(Atoms)) \ {<< >>} }

Typed(e) == e = [n \in Numbers |-> e[n]] /\ \A n \in Numbers : e[n] \in EntriesOf(n)

\* The inductive invariant behind the theorems.
TypedInv == Typed(entry)

\* What the last operation failed to merge has a number of the message.
FailedTyped == failed \in Numbers \cup {None}

LEMMA TypedImpliesWellTyped ==
  Typed(entry) => entry \in [Numbers -> Entry] /\ \A n \in Numbers : WellTyped(n)
<1> SUFFICES ASSUME Typed(entry)
             PROVE  entry \in [Numbers -> Entry] /\ \A n \in Numbers : WellTyped(n)
  OBVIOUS
<1>1. ASSUME NEW n \in Numbers PROVE entry[n] \in Entry /\ WellTyped(n)
  <2>1. entry[n] \in EntriesOf(n)
    BY DEF Typed
  <2>2. << >> \in Seq(Atoms) /\ << >> \in Seq(Seq(Atoms))
    BY EmptySeq
  <2>3. CASE entry[n] = Absent \/ entry[n] = Taken
    <3>1. entry[n].value = << >> /\ entry[n].unknown = << >> /\ entry[n].tag \in {"absent", "taken"}
      BY <2>3 DEF Absent, Taken
    <3>2. entry[n] \in [tag : Tags, value : {<< >>}, unknown : {<< >>}]
      BY <2>3 DEF Absent, Taken, Tags
    <3>3. entry[n] \in Entry
      BY <2>2, <3>2 DEF Entry
    <3> QED BY <3>1, <3>3 DEF WellTyped
  <2>4. CASE entry[n] \in { ValueEntry(v) : v \in ValuesOf(n) }
    <3>1. PICK v \in ValuesOf(n) : entry[n] = ValueEntry(v)
      BY <2>4
    <3> QED BY <2>2, <3>1 DEF ValueEntry, ValuesOf, Entry, Tags, WellTyped
  <2>5. CASE entry[n] \in { UnknownEntry(vs) : vs \in Seq(Seq(Atoms)) \ {<< >>} }
    <3>1. PICK vs \in Seq(Seq(Atoms)) \ {<< >>} : entry[n] = UnknownEntry(vs)
      BY <2>5
    <3> QED BY <2>2, <3>1 DEF UnknownEntry, Entry, Tags, WellTyped
  <2> QED BY <2>1, <2>3, <2>4, <2>5 DEF EntriesOf
<1>2. entry \in [Numbers -> Entry]
  BY <1>1 DEF Typed
<1> QED BY <1>1, <1>2

\* What get_mut returns is a value of the field.
LEMMA CurrentIsValue ==
  ASSUME NEW e, Typed(e), NEW n \in Numbers
  PROVE  Current(e, n) \in ValuesOf(n)
<1>1. CASE e[n].tag = "value"
  <2>1. e[n] \in EntriesOf(n)
    BY DEF Typed
  <2>2. e[n] \in { ValueEntry(v) : v \in ValuesOf(n) }
    BY <1>1, <2>1 DEF EntriesOf, Absent, Taken, UnknownEntry
  <2>3. PICK v \in ValuesOf(n) : e[n] = ValueEntry(v)
    BY <2>2
  <2> QED BY <1>1, <2>3 DEF Current, ValueEntry
<1>2. CASE e[n].tag # "value"
  BY <1>2, DefaultIsValue DEF Current
<1> QED BY <1>1, <1>2

\* Storing a value keeps entries typed.
LEMMA StoredTyped ==
  ASSUME NEW e, Typed(e), NEW n \in Numbers, NEW v \in ValuesOf(n), NEW known
  PROVE  Typed(Stored(e, n, v, known))
<1> DEFINE s == Stored(e, n, v, known)
<1>1. s = [m \in Numbers |-> s[m]]
  BY DEF Stored
<1>2. ASSUME NEW m \in Numbers PROVE s[m] \in EntriesOf(m)
  <2>1. s[m] = IF m = n THEN ValueEntry(v)
               ELSE IF m \in Rivals(n) \cap known THEN Absent ELSE e[m]
    BY DEF Stored
  <2>2. e[m] \in EntriesOf(m)
    BY DEF Typed
  <2> HIDE DEF s
  <2> QED BY <2>1, <2>2 DEF EntriesOf
<1> HIDE DEF s
<1>3. Typed(s)
  BY <1>1, <1>2 DEF Typed
<1> QED BY <1>3 DEF s

\* So does reading an unknown field, where there is no value.
LEMMA WithUnknownTyped ==
  ASSUME NEW e, Typed(e), NEW n \in Numbers, e[n].tag # "value", NEW v \in Seq(Atoms)
  PROVE  Typed(WithUnknown(e, n, v))
<1> DEFINE s == WithUnknown(e, n, v)
           vs == Append(e[n].unknown, v)
<1>1. e[n].unknown \in Seq(Seq(Atoms))
  <2>1. e[n] \in EntriesOf(n) /\ << >> \in Seq(Seq(Atoms))
    BY EmptySeq DEF Typed
  <2>2. CASE e[n] \in {Absent, Taken}
    <3>1. e[n].unknown = << >>
      BY <2>2 DEF Absent, Taken
    <3> QED BY <2>1, <3>1
  <2>3. CASE e[n] \in { UnknownEntry(us) : us \in Seq(Seq(Atoms)) \ {<< >>} }
    BY <2>3 DEF UnknownEntry
  <2> QED BY <2>1, <2>2, <2>3 DEF EntriesOf, ValueEntry
<1>2. vs \in Seq(Seq(Atoms)) /\ vs # << >>
  BY <1>1
<1>3. s = [m \in Numbers |-> IF m = n THEN UnknownEntry(vs) ELSE e[m]]
  BY DEF Typed, WithUnknown
<1> HIDE DEF s, vs
<1>4. Typed(s)
  BY <1>2, <1>3 DEF Typed, EntriesOf
<1> QED BY <1>4 DEF s

-----------------------------------------------------------------------------
(* Types.                                                                  *)

LEMMA TypedInit == Init => Typed(entry)
BY DEF Init, Empty, Typed, EntriesOf

\* Every operation keeps entries typed.
LEMMA TypedStep == Typed(entry) /\ [Next]_vars => Typed(entry')
<1> SUFFICES ASSUME Typed(entry), [Next]_vars PROVE Typed(entry')
  OBVIOUS
<1> USE DescriptorAssumption
<1>1. ASSUME NEW n \in Usable, NEW v \in Candidates(n), Set(n, v)
      PROVE  Typed(entry')
  BY <1>1, CandidatesAreValues, StoredTyped DEF Set, Usable
<1>2. ASSUME NEW n \in Usable, NEW v \in Candidates(n), Mutate(n, v)
      PROVE  Typed(entry')
  <2>1. v \in ValuesOf(n) /\ n \in Numbers
    BY CandidatesAreValues DEF Usable
  <2>2. entry' = [m \in Numbers |-> IF m = n THEN ValueEntry(v) ELSE entry[m]]
    BY <1>2 DEF Mutate, Typed
  <2> QED BY <2>1, <2>2 DEF Typed, EntriesOf
<1>3. ASSUME NEW n \in Usable, GetMut(n)
      PROVE  Typed(entry')
  BY <1>3, CurrentIsValue, StoredTyped DEF GetMut, Usable
<1>4. ASSUME NEW n \in Usable, Clear(n)
      PROVE  Typed(entry')
  <2>1. entry' = [m \in Numbers |-> IF m = n THEN Absent ELSE entry[m]]
    BY <1>4 DEF Clear, Typed
  <2> QED BY <2>1 DEF Typed, EntriesOf
<1>5. ASSUME NEW n \in Known, NEW v \in Candidates(n), Merge(n, v)
      PROVE  Typed(entry')
  <2>1. n \in Numbers /\ v \in ValuesOf(n) /\ Current(entry, n) \in ValuesOf(n)
    BY CandidatesAreValues, CurrentIsValue
  <2>2. entry' = Stored(entry, n, Merged(n, Current(entry, n), v), Known)
    BY <1>5 DEF Merge, Received
  <2> QED BY <2>1, <2>2, MergedIsValue, StoredTyped
<1>6. ASSUME NEW n \in Numbers, MergeFails(n)
      PROVE  Typed(entry')
  <2>1. CASE n \in Known
    <3> DEFINE w == IF n \in Strings THEN Default(n) ELSE Current(entry, n)
    <3>1. w \in ValuesOf(n)
      BY CurrentIsValue, DefaultIsValue
    <3>2. entry' = Stored(entry, n, w, Known)
      BY <1>6, <2>1 DEF MergeFails
    <3> HIDE DEF w
    <3> QED BY <3>1, <3>2, StoredTyped
  <2>2. CASE n \notin Known
    BY <1>6, <2>2 DEF MergeFails
  <2> QED BY <2>1, <2>2
<1>7. ASSUME NEW n \in Numbers \ Known, NEW v \in Candidates(n), MergeUnknown(n, v)
      PROVE  Typed(entry')
  <2>1. v \in Seq(Atoms)
    BY CandidatesAreValues DEF ValuesOf
  <2>2. entry[n].tag # "value" /\ entry' = WithUnknown(entry, n, v)
    BY <1>7 DEF MergeUnknown, Received
  <2> QED BY <2>1, <2>2, WithUnknownTyped
<1>8. ASSUME NEW S, NEW last \in Numbers, Drain(S, last)
      PROVE  Typed(entry')
  BY <1>8 DEF Drain, Typed, EntriesOf
<1>9. ASSUME NEW last \in Numbers, DrainUnknown(last)
      PROVE  Typed(entry')
  BY <1>9 DEF DrainUnknown, Typed, EntriesOf
<1>10. CASE ClearAll
  BY <1>10 DEF ClearAll, Empty, Typed, EntriesOf
<1>11. CASE UNCHANGED vars
  BY <1>11 DEF vars
<1> QED BY <1>1, <1>2, <1>3, <1>4, <1>5, <1>6, <1>7, <1>8, <1>9, <1>10, <1>11 DEF Next, Operate

\* Every entry is of one of the kinds of ValueOrUnknown, with contents of the
\* type of its field (DynamicMessageFieldSet).
THEOREM TypeCorrect == Spec => []TypeOK
<1>1. Init => TypedInv /\ FailedTyped
  BY TypedInit DEF TypedInv, Init, FailedTyped
<1>2. TypedInv /\ FailedTyped /\ [Next]_vars => TypedInv' /\ FailedTyped'
  BY TypedStep DEF TypedInv, Next, vars, FailedTyped
<1>3. TypedInv /\ FailedTyped => TypeOK
  BY TypedImpliesWellTyped DEF TypedInv, FailedTyped, TypeOK
<1> QED BY <1>1, <1>2, <1>3, PTL DEF Spec

-----------------------------------------------------------------------------
(* Oneofs.                                                                 *)

\* Storing a value of a known number makes it the only one of its oneof.
LEMMA StoredExclusive ==
  ASSUME OneofExclusive, NEW n \in Numbers, NEW v,
         entry' = Stored(entry, n, v, Known)
  PROVE  OneofExclusive'
<1> SUFFICES ASSUME NEW O \in Oneofs, NEW k \in O, NEW m \in O,
                    entry'[k].tag = "value", entry'[m].tag = "value"
             PROVE  k = m
  BY DEF OneofExclusive
<1>1. k \in Known /\ m \in Known /\ k \in Numbers /\ m \in Numbers
  BY DescriptorAssumption DEF Known
<1>2. \A j \in Numbers : j # n => entry'[j] = IF j \in Rivals(n) \cap Known THEN Absent ELSE entry[j]
  BY DEF Stored
<1>3. Absent.tag # "value"
  BY DEF Absent
<1>4. CASE n \in O
  <2>1. \A j \in O \ {n} : j \in Rivals(n)
    BY <1>4 DEF Rivals
  <2> QED BY <1>1, <1>2, <1>3, <2>1
<1>5. CASE n \notin O
  <2>1. entry[k].tag = "value" /\ entry[m].tag = "value"
    BY <1>1, <1>2, <1>3, <1>5
  <2> QED BY <2>1 DEF OneofExclusive
<1> QED BY <1>4, <1>5

\* Operations that turn no entry into a value keep oneofs exclusive.
LEMMA NoNewValueExclusive ==
  ASSUME OneofExclusive,
         \A n \in Numbers : entry'[n].tag = "value" => entry[n].tag = "value"
  PROVE  OneofExclusive'
<1>1. \A O \in Oneofs : O \subseteq Numbers
  BY DescriptorAssumption DEF Known
<1> QED BY <1>1 DEF OneofExclusive

LEMMA OneofInit == Init => OneofExclusive
<1>1. \A O \in Oneofs : O \subseteq Numbers
  BY DescriptorAssumption DEF Known
<1> QED BY <1>1 DEF Init, Empty, Absent, OneofExclusive

LEMMA OneofStep == Typed(entry) /\ OneofExclusive /\ [Next]_vars => OneofExclusive'
<1> SUFFICES ASSUME Typed(entry), OneofExclusive, [Next]_vars PROVE OneofExclusive'
  OBVIOUS
<1> USE DescriptorAssumption
<1>1. ASSUME NEW n \in Usable, NEW v, Set(n, v)
      PROVE  OneofExclusive'
  BY <1>1, StoredExclusive DEF Set, Usable
<1>2. ASSUME NEW n \in Usable, NEW v, Mutate(n, v)
      PROVE  OneofExclusive'
  <2>1. \A m \in Numbers : m # n => entry'[m] = entry[m]
    BY <1>2 DEF Mutate, Typed
  <2> QED BY <1>2, <2>1, NoNewValueExclusive DEF Mutate
<1>3. ASSUME NEW n \in Usable, GetMut(n)
      PROVE  OneofExclusive'
  BY <1>3, StoredExclusive DEF GetMut, Usable
<1>4. ASSUME NEW n \in Usable, Clear(n)
      PROVE  OneofExclusive'
  <2>1. \A m \in Numbers : entry'[m] = IF m = n THEN Absent ELSE entry[m]
    BY <1>4 DEF Clear, Typed
  <2>2. \A m \in Numbers : entry'[m].tag = "value" => entry[m].tag = "value"
    BY <2>1 DEF Absent
  <2> QED BY <2>2, NoNewValueExclusive
<1>5. ASSUME NEW n \in Known, NEW v, Merge(n, v)
      PROVE  OneofExclusive'
  BY <1>5, StoredExclusive DEF Merge, Received
<1>6. ASSUME NEW n \in Numbers, MergeFails(n)
      PROVE  OneofExclusive'
  <2>1. CASE n \in Known
    BY <1>6, <2>1, StoredExclusive DEF MergeFails
  <2>2. CASE n \notin Known
    BY <1>6, <2>2 DEF MergeFails, OneofExclusive
  <2> QED BY <2>1, <2>2
<1>7. ASSUME NEW n \in Numbers \ Known, NEW v, MergeUnknown(n, v)
      PROVE  OneofExclusive'
  <2>1. \A m \in Numbers : entry'[m].tag = "value" => entry[m].tag = "value"
    BY <1>7 DEF MergeUnknown, Received, WithUnknown, UnknownEntry, Typed
  <2> QED BY <2>1, NoNewValueExclusive
<1>8. ASSUME NEW S, NEW last \in Numbers, Drain(S, last)
      PROVE  OneofExclusive'
  BY <1>8, NoNewValueExclusive DEF Drain, Taken
<1>9. ASSUME NEW last \in Numbers, DrainUnknown(last)
      PROVE  OneofExclusive'
  BY <1>9, NoNewValueExclusive DEF DrainUnknown, Taken
<1>10. CASE ClearAll
  BY <1>10, NoNewValueExclusive DEF ClearAll, Empty, Absent
<1>11. CASE UNCHANGED vars
  BY <1>11 DEF vars, OneofExclusive
<1> QED BY <1>1, <1>2, <1>3, <1>4, <1>5, <1>6, <1>7, <1>8, <1>9, <1>10, <1>11 DEF Next, Operate

\* At most one field of a oneof has a value, also when extensions of other pools
\* are set on the message (clear_oneof_fields in set and get_mut).
THEOREM OneofsExclusive == Spec => []OneofExclusive
<1>1. Init => TypedInv /\ OneofExclusive
  BY TypedInit, OneofInit DEF TypedInv
<1>2. TypedInv /\ OneofExclusive /\ [Next]_vars => TypedInv' /\ OneofExclusive'
  BY TypedStep, OneofStep DEF TypedInv
<1> QED BY <1>1, <1>2, PTL DEF Spec

-----------------------------------------------------------------------------
(* Known and unknown numbers.                                              *)

\* Values belong to numbers that the descriptor of the message knows, unknown fields
\* to the others: iter_set and add_unknown count on it.  An extension of another pool
\* ("Late") breaks it.
ValuesAreKnown ==
  \A n \in Numbers : /\ entry[n].tag = "value" => n \in Known
                     /\ entry[n].tag = "unknown" => n \notin Known

LEMMA StoredKnown ==
  ASSUME ValuesAreKnown, NEW n \in Known, NEW v, entry' = Stored(entry, n, v, Known)
  PROVE  ValuesAreKnown'
BY DescriptorAssumption DEF ValuesAreKnown, Stored, ValueEntry, Absent

\* Operations that change no entry but to one that has nothing.
LEMMA OnlyLessKnown ==
  ASSUME ValuesAreKnown,
         \A n \in Numbers : entry'[n].tag \in {entry[n].tag, "absent", "taken"}
  PROVE  ValuesAreKnown'
BY DEF ValuesAreKnown

LEMMA KnownStep ==
  ASSUME Late = {}
  PROVE  Typed(entry) /\ ValuesAreKnown /\ [Next]_vars => ValuesAreKnown'
<1> SUFFICES ASSUME Typed(entry), ValuesAreKnown, [Next]_vars PROVE ValuesAreKnown'
  OBVIOUS
<1> USE DescriptorAssumption
<1>0. Usable = Known
  BY DEF Usable
<1>1. ASSUME NEW n \in Usable, NEW v, Set(n, v)
      PROVE  ValuesAreKnown'
  BY <1>0, <1>1, StoredKnown DEF Set
<1>2. ASSUME NEW n \in Usable, NEW v, Mutate(n, v)
      PROVE  ValuesAreKnown'
  <2>1. \A m \in Numbers : entry'[m] = IF m = n THEN ValueEntry(v) ELSE entry[m]
    BY <1>2 DEF Mutate, Typed
  <2> QED BY <1>2, <2>1, OnlyLessKnown DEF Mutate, ValueEntry
<1>3. ASSUME NEW n \in Usable, GetMut(n)
      PROVE  ValuesAreKnown'
  BY <1>0, <1>3, StoredKnown DEF GetMut
<1>4. ASSUME NEW n \in Usable, Clear(n)
      PROVE  ValuesAreKnown'
  <2>1. \A m \in Numbers : entry'[m] = IF m = n THEN Absent ELSE entry[m]
    BY <1>4 DEF Clear, Typed
  <2> QED BY <2>1, OnlyLessKnown DEF Absent
<1>5. ASSUME NEW n \in Known, NEW v, Merge(n, v)
      PROVE  ValuesAreKnown'
  BY <1>5, StoredKnown DEF Merge, Received
<1>6. ASSUME NEW n \in Numbers, MergeFails(n)
      PROVE  ValuesAreKnown'
  <2>1. CASE n \in Known
    BY <1>6, <2>1, StoredKnown DEF MergeFails
  <2>2. CASE n \notin Known
    BY <1>6, <2>2 DEF MergeFails, ValuesAreKnown
  <2> QED BY <2>1, <2>2
<1>7. ASSUME NEW n \in Numbers \ Known, NEW v, MergeUnknown(n, v)
      PROVE  ValuesAreKnown'
  <2>1. \A m \in Numbers : m # n => entry'[m] = entry[m]
    BY <1>7 DEF MergeUnknown, Received, WithUnknown, Typed
  <2>2. entry'[n].tag = "unknown"
    BY <1>7 DEF MergeUnknown, Received, WithUnknown, UnknownEntry, Typed
  <2> QED BY <2>1, <2>2 DEF ValuesAreKnown
<1>8. ASSUME NEW S, NEW last \in Numbers, Drain(S, last)
      PROVE  ValuesAreKnown'
  BY <1>8, OnlyLessKnown DEF Drain, Taken
<1>9. ASSUME NEW last \in Numbers, DrainUnknown(last)
      PROVE  ValuesAreKnown'
  BY <1>9, OnlyLessKnown DEF DrainUnknown, Taken
<1>10. CASE ClearAll
  BY <1>10, OnlyLessKnown DEF ClearAll, Empty, Absent
<1>11. CASE UNCHANGED vars
  BY <1>11 DEF vars, ValuesAreKnown
<1> QED BY <1>1, <1>2, <1>3, <1>4, <1>5, <1>6, <1>7, <1>8, <1>9, <1>10, <1>11 DEF Next, Operate

-----------------------------------------------------------------------------
(* The promise of MessageMap.  "FieldOf" and "UnknownOf" are its variables, *)
(* as functions of the entries.                                             *)

Seen(e, n) == IF Has(e, n) THEN [set |-> TRUE, value |-> e[n].value]
              ELSE [set |-> FALSE, value |-> << >>]
FieldOf(e) == [n \in Known |-> Seen(e, n)]
UnknownOf(e) == [n \in Numbers \ Known |-> e[n].unknown]

\* The inductive invariant that a step needs to be one of MessageMap.
MapInv == TypedInv /\ OneofExclusive /\ ValuesAreKnown

\* The values the model assigns are values of the map.
LEMMA CandidatesInMap ==
  ASSUME NEW n, NEW v \in Candidates(n)
  PROVE  v \in Map!Values
<1>1. Map!Values = UNION { [1..k -> Atoms] : k \in 0..MaxLen }
  BY DEF Map!Values, Map!SeqOf
<1>2. 1 \in 0..MaxLen
  BY DescriptorAssumption
<1>3. CASE n \in Scalar
  BY <1>1, <1>2, <1>3 DEF Candidates
<1>4. CASE n \notin Scalar
  BY <1>1, <1>4 DEF Candidates, SeqOf
<1> QED BY <1>3, <1>4

\* Storing a value puts it in the map.
LEMMA StoredInMap ==
  ASSUME NEW e, Typed(e), NEW n \in Known, NEW v
  PROVE  /\ FieldOf(Stored(e, n, v, Known)) =
              [m \in Known |-> IF m = n THEN Map!Visible(n, v)
                               ELSE IF m \in Map!Rivals(n) THEN Map!Unset ELSE FieldOf(e)[m]]
         /\ UnknownOf(Stored(e, n, v, Known)) = UnknownOf(e)
<1> DEFINE s == Stored(e, n, v, Known)
<1>1. \A m \in Numbers : s[m] = IF m = n THEN ValueEntry(v)
                                ELSE IF m \in Rivals(n) \cap Known THEN Absent ELSE e[m]
  BY DEF Stored
<1>2. Known \subseteq Numbers /\ Rivals(n) = Map!Rivals(n) /\ Default(n) = Map!Default(n)
  BY DescriptorAssumption DEF Rivals, Map!Rivals, Default, Map!Default
<1> HIDE DEF s
<1>3. Seen(s, n) = Map!Visible(n, v)
  <2>1. s[n] = ValueEntry(v) /\ ValueEntry(v).tag = "value" /\ ValueEntry(v).value = v
    BY <1>1, <1>2 DEF ValueEntry
  <2> QED BY <1>2, <2>1 DEF Seen, Has, Shows, Map!Visible, Map!SetTo, Map!Unset
<1>4. ASSUME NEW m \in Known, m # n
      PROVE  Seen(s, m) = IF m \in Map!Rivals(n) THEN Map!Unset ELSE Seen(e, m)
  <2>1. CASE m \in Rivals(n)
    <3>1. s[m] = Absent /\ Absent.tag # "value"
      BY <1>1, <1>2, <1>4, <2>1 DEF Absent
    <3> QED BY <1>2, <2>1, <3>1 DEF Seen, Has, Map!Unset
  <2>2. CASE m \notin Rivals(n)
    <3>1. s[m] = e[m]
      BY <1>1, <1>2, <1>4, <2>2
    <3> QED BY <1>2, <2>2, <3>1 DEF Seen, Has
  <2> QED BY <2>1, <2>2
<1>5. FieldOf(s) = [m \in Known |-> IF m = n THEN Map!Visible(n, v)
                               ELSE IF m \in Map!Rivals(n) THEN Map!Unset ELSE FieldOf(e)[m]]
  BY <1>3, <1>4 DEF FieldOf
<1>6. UnknownOf(s) = UnknownOf(e)
  BY <1>1, <1>2 DEF UnknownOf
<1> QED BY <1>5, <1>6 DEF s

\* What get_mut finds or puts in place is the value that the map has.
LEMMA CurrentInMap ==
  ASSUME NEW n \in Known
  PROVE  Map!ValueOf(n) = Current(entry, n)
BY DEF Map!ValueOf, Current, Has, Shows, Default, Map!Default

\* A step that stores a value in a field, in the variables of the map.
LEMMA StoredPuts ==
  ASSUME Typed(entry), NEW n \in Known, NEW v, entry' = Stored(entry, n, v, Known)
  PROVE  Map!Put(n, v) /\ UnknownOf(entry') = UnknownOf(entry)
<1>1. /\ FieldOf(entry') = [m \in Known |-> IF m = n THEN Map!Visible(n, v)
                               ELSE IF m \in Map!Rivals(n) THEN Map!Unset
                               ELSE FieldOf(entry)[m]]
      /\ UnknownOf(entry') = UnknownOf(entry)
  BY StoredInMap
<1>2. Map!Put(n, v)
  BY <1>1 DEF Map!Put, FieldOf, Seen
<1> QED BY <1>1, <1>2

\* set_field, set_extension
LEMMA SetMaps ==
  ASSUME Typed(entry), NEW n \in Known, NEW v \in Candidates(n), Set(n, v)
  PROVE  Map!Assign(n, v)
BY StoredPuts, CandidatesInMap DEF Set, Map!Assign, UnknownOf

\* get_field_mut
LEMMA GetMutMaps ==
  ASSUME Typed(entry), NEW n \in Known, GetMut(n)
  PROVE  Map!Touch(n)
<1>1. entry' = Stored(entry, n, Map!ValueOf(n), Known)
  BY CurrentInMap DEF GetMut
<1> DEFINE w == Map!ValueOf(n)
<1>2. /\ UnknownOf(entry') = UnknownOf(entry)
      /\ FieldOf(entry') = [m \in Known |-> IF m = n THEN Map!Visible(n, w)
                               ELSE IF m \in Map!Rivals(n) THEN Map!Unset
                               ELSE FieldOf(entry)[m]]
  BY <1>1, StoredInMap
<1> HIDE DEF w
<1>3. Map!Put(n, w)
  BY <1>2 DEF Map!Put, FieldOf, Seen
<1> QED BY <1>2, <1>3 DEF Map!Touch, UnknownOf, w

\* A merge that fails after it.
LEMMA MergeFailsMaps ==
  ASSUME Typed(entry), NEW n \in Numbers, MergeFails(n)
  PROVE  Map!Fail(n)
<1>1. CASE n \in Known
  <2> DEFINE w == IF n \in Strings THEN Map!Default(n) ELSE Map!ValueOf(n)
  <2>1. entry' = Stored(entry, n, w, Known)
    BY <1>1, CurrentInMap DEF MergeFails, Default, Map!Default
  <2>2. /\ UnknownOf(entry') = UnknownOf(entry)
        /\ FieldOf(entry') = [m \in Known |-> IF m = n THEN Map!Visible(n, w)
                                 ELSE IF m \in Map!Rivals(n) THEN Map!Unset
                                 ELSE FieldOf(entry)[m]]
    BY <1>1, <2>1, StoredInMap
  <2> HIDE DEF w
  <2>3. Map!Put(n, w)
    BY <2>2 DEF Map!Put, FieldOf, Seen
  <2> QED BY <1>1, <2>2, <2>3 DEF Map!Fail, UnknownOf, w
<1>2. CASE n \notin Known
  BY <1>2 DEF MergeFails, Map!Fail, Has
<1> QED BY <1>1, <1>2

LEMMA MergeMaps ==
  ASSUME Typed(entry), NEW n \in Known, NEW v \in Candidates(n), Merge(n, v)
  PROVE  Map!Merge(n, v)
<1>1. entry' = Stored(entry, n, Merged(n, Current(entry, n), v), Known)
  BY DEF Merge, Received
<1>2. Merged(n, Current(entry, n), v) = Map!Merged(n, Map!ValueOf(n), v)
  BY CurrentInMap DEF Merged, Map!Merged
<1>3. entry' = Stored(entry, n, Map!Merged(n, Map!ValueOf(n), v), Known)
  BY <1>1, <1>2
<1> DEFINE w == Map!Merged(n, Map!ValueOf(n), v)
<1>4. /\ UnknownOf(entry') = UnknownOf(entry)
      /\ FieldOf(entry') = [m \in Known |-> IF m = n THEN Map!Visible(n, w)
                               ELSE IF m \in Map!Rivals(n) THEN Map!Unset
                               ELSE FieldOf(entry)[m]]
  BY <1>3, StoredInMap
<1> HIDE DEF w
<1>5. Map!Put(n, w)
  BY <1>4 DEF Map!Put, FieldOf, Seen
<1> QED BY <1>4, <1>5, CandidatesInMap DEF Map!Merge, UnknownOf, w

\* A write through the reference of get_mut: the rivals of the field have no
\* value, since the field has one.
LEMMA MutateMaps ==
  ASSUME MapInv, NEW n \in Known, NEW v \in Candidates(n), Mutate(n, v)
  PROVE  Map!Assign(n, v)
<1>1. /\ Known \subseteq Numbers /\ \A O \in Oneofs : O \subseteq Numbers
      /\ Rivals(n) = Map!Rivals(n)
  BY DescriptorAssumption DEF Known, Rivals, Map!Rivals
<1>2. ASSUME NEW m \in Rivals(n)
      PROVE  entry[m].tag # "value"
  <2>1. PICK O \in Oneofs : n \in O /\ m \in O /\ m # n
    BY DEF Rivals
  <2> QED BY <2>1 DEF Mutate, MapInv, OneofExclusive
<1>3. entry' = [m \in Numbers |-> IF m = n THEN ValueEntry(v) ELSE entry[m]]
  BY DEF Mutate, MapInv, TypedInv, Typed
<1>4. \A m \in Numbers : entry'[m] = IF m = n THEN ValueEntry(v)
                                     ELSE entry[m]
  BY <1>3
<1>5. \A m \in Numbers : Stored(entry, n, v, Known)[m] = IF m = n THEN ValueEntry(v)
                                ELSE IF m \in Rivals(n) \cap Known THEN Absent ELSE entry[m]
  BY DEF Stored
<1>6. ASSUME NEW m \in Known
      PROVE  Seen(entry', m) = Seen(Stored(entry, n, v, Known), m)
  <2>1. CASE m # n /\ m \in Rivals(n)
    <3>1. entry'[m] = entry[m] /\ Stored(entry, n, v, Known)[m] = Absent
      BY <1>1, <1>4, <1>5, <2>1
    <3>2. entry[m].tag # "value" /\ Absent.tag # "value"
      BY <1>2, <2>1 DEF Absent
    <3> QED BY <3>1, <3>2 DEF Seen, Has
  <2>2. CASE m = n \/ m \notin Rivals(n)
    <3>1. entry'[m] = Stored(entry, n, v, Known)[m]
      BY <1>1, <1>4, <1>5, <2>2
    <3> QED BY <3>1 DEF Seen, Has
  <2> QED BY <2>1, <2>2
<1>7. FieldOf(entry') = FieldOf(Stored(entry, n, v, Known))
  BY <1>6 DEF FieldOf
<1>8. FieldOf(entry') = [m \in Known |-> IF m = n THEN Map!Visible(n, v)
                               ELSE IF m \in Map!Rivals(n) THEN Map!Unset
                               ELSE FieldOf(entry)[m]]
  BY <1>7, StoredInMap DEF MapInv, TypedInv
<1>9. Map!Put(n, v)
  BY <1>8 DEF Map!Put, FieldOf, Seen
<1>10. UnknownOf(entry') = UnknownOf(entry)
  BY <1>1, <1>4 DEF UnknownOf
<1> QED BY <1>9, <1>10, CandidatesInMap DEF Map!Assign, UnknownOf

\* Removing values of fields, in the variables of the map.
LEMMA RemovedMaps ==
  ASSUME NEW S \in SUBSET Known,
         \A n \in Known : Seen(entry', n) = IF n \in S THEN Map!Unset ELSE Seen(entry, n),
         UnknownOf(entry') = UnknownOf(entry)
  PROVE  Map!Unassign(S)
<1>1. FieldOf(entry') = [n \in Known |-> IF n \in S THEN Map!Unset ELSE FieldOf(entry)[n]]
  BY DEF FieldOf
<1> QED BY <1>1 DEF Map!Unassign, FieldOf, Seen, UnknownOf

LEMMA ClearMaps ==
  ASSUME Typed(entry), NEW n \in Known, Clear(n)
  PROVE  Map!Unassign({n})
<1>1. \A m \in Numbers : entry'[m] = IF m = n THEN Absent ELSE entry[m]
  BY DEF Clear, Typed
<1>2. Known \subseteq Numbers
  BY DescriptorAssumption
<1>3. ASSUME NEW m \in Known
      PROVE  Seen(entry', m) = IF m \in {n} THEN Map!Unset ELSE Seen(entry, m)
  <2>1. CASE m = n
    <3>1. entry'[m] = Absent /\ Absent.tag # "value"
      BY <1>1, <1>2, <2>1 DEF Absent
    <3> QED BY <2>1, <3>1 DEF Seen, Has, Map!Unset
  <2>2. CASE m # n
    <3>1. entry'[m] = entry[m]
      BY <1>1, <1>2, <2>2
    <3> QED BY <2>2, <3>1 DEF Seen, Has
  <2> QED BY <2>1, <2>2
<1>4. UnknownOf(entry') = UnknownOf(entry)
  BY <1>1, <1>2 DEF UnknownOf
<1> QED BY <1>3, <1>4, RemovedMaps

\* take_fields, take_extensions
LEMMA DrainMaps ==
  ASSUME NEW S \in SUBSET Known, NEW last \in Numbers, Drain(S, last)
  PROVE  Map!Unassign({ n \in S : n <= last })
<1>1. \A n \in Numbers : entry'[n] = IF n \in S /\ n <= last /\ Has(entry, n) THEN Taken
                                     ELSE entry[n]
  BY DEF Drain
<1>2. Known \subseteq Numbers
  BY DescriptorAssumption
<1>3. ASSUME NEW n \in Known
      PROVE  Seen(entry', n) = IF n \in { m \in S : m <= last } THEN Map!Unset
                               ELSE Seen(entry, n)
  <2>1. CASE n \in S /\ n <= last /\ Has(entry, n)
    <3>1. entry'[n] = Taken /\ Taken.tag # "value"
      BY <1>1, <1>2, <2>1 DEF Taken
    <3> QED BY <2>1, <3>1 DEF Seen, Has, Map!Unset
  <2>2. CASE ~(n \in S /\ n <= last /\ Has(entry, n))
    <3>1. entry'[n] = entry[n]
      BY <1>1, <1>2, <2>2
    <3>2. Seen(entry', n) = Seen(entry, n)
      BY <3>1 DEF Seen, Has
    <3> QED BY <2>2, <3>2 DEF Seen, Map!Unset
  <2> QED BY <2>1, <2>2
<1>4. UnknownOf(entry') = UnknownOf(entry)
  BY <1>1, <1>2 DEF UnknownOf
<1> QED BY <1>3, <1>4, RemovedMaps

\* take_unknown_fields: the fields stay, since none of them has unknown fields.
LEMMA DrainUnknownMaps ==
  ASSUME MapInv, NEW last \in Numbers, DrainUnknown(last)
  PROVE  Map!Forget({ n \in Numbers \ Known : n <= last })
<1>1. \A n \in Numbers : entry'[n] = IF n <= last /\ entry[n].tag = "unknown" THEN Taken
                                     ELSE entry[n]
  BY DEF DrainUnknown
<1>2. Known \subseteq Numbers
  BY DescriptorAssumption
<1>3. \A n \in Numbers : entry[n].tag = "unknown" <=> entry[n].unknown # << >>
  BY TypedImpliesWellTyped DEF MapInv, TypedInv, WellTyped
<1>4. \A n \in Known : entry'[n] = entry[n]
  BY <1>1, <1>2 DEF MapInv, ValuesAreKnown
<1>5. FieldOf(entry') = FieldOf(entry)
  BY <1>4 DEF FieldOf, Seen, Has
<1>6. ASSUME NEW n \in Numbers \ Known
      PROVE  entry'[n].unknown = IF n <= last THEN << >> ELSE entry[n].unknown
  BY <1>1, <1>3 DEF Taken
<1>7. UnknownOf(entry') = [n \in Numbers \ Known |->
                             IF n \in { m \in Numbers \ Known : m <= last } THEN << >>
                             ELSE UnknownOf(entry)[n]]
  BY <1>6 DEF UnknownOf
<1> QED BY <1>5, <1>7 DEF Map!Forget, FieldOf, Seen, UnknownOf

LEMMA MergeUnknownMaps ==
  ASSUME Typed(entry), NEW n \in Numbers \ Known, NEW v \in Candidates(n),
         MergeUnknown(n, v)
  PROVE  Map!Receive(n, v)
<1>1. entry' = [m \in Numbers |-> IF m = n THEN UnknownEntry(Append(entry[n].unknown, v))
                                 ELSE entry[m]]
  BY DEF MergeUnknown, Received, WithUnknown, Typed
<1>2. Known \subseteq Numbers
  BY DescriptorAssumption
<1>3. \A m \in Known : entry'[m] = entry[m]
  BY <1>1, <1>2
<1>4. FieldOf(entry') = FieldOf(entry)
  BY <1>3 DEF FieldOf, Seen, Has
<1>5. \A m \in Numbers \ Known : entry'[m].unknown = IF m = n THEN Append(entry[n].unknown, v)
                                                     ELSE entry[m].unknown
  BY <1>1 DEF UnknownEntry
<1>6. UnknownOf(entry') = [UnknownOf(entry) EXCEPT ![n] = Append(@, v)]
  BY <1>5 DEF UnknownOf
<1>7. v \in Map!Values
  BY CandidatesInMap
<1> QED BY <1>4, <1>6, <1>7 DEF Map!Receive, FieldOf, Seen, UnknownOf

LEMMA ClearAllMaps ==
  ASSUME ClearAll
  PROVE  Map!Reset
<1>1. Known \subseteq Numbers /\ \A n \in Numbers : entry'[n] = Absent
  BY DescriptorAssumption DEF ClearAll, Empty
<1>2. \A n \in Known : Seen(entry', n) = Map!Unset
  BY <1>1 DEF Seen, Has, Absent, Map!Unset
<1>3. \A n \in Numbers : entry'[n].unknown = << >>
  BY <1>1 DEF Absent
<1> QED BY <1>2, <1>3 DEF Map!Reset, Map!NoUnknown, Seen

LEMMA MapInit == Init => Map!Init
<1>1. Known \subseteq Numbers
  BY DescriptorAssumption
<1> QED BY <1>1 DEF Init, Empty, Absent, Has, None, Map!Init, Map!None, Map!NoUnknown, Map!Unset

LEMMA MapStep ==
  ASSUME Late = {}
  PROVE  MapInv /\ [Next]_vars => [Map!Next]_(Map!vars)
<1> SUFFICES ASSUME MapInv, [Next]_vars PROVE [Map!Next]_(Map!vars)
  OBVIOUS
<1>0. /\ Usable = Known /\ Fields \in SUBSET Known /\ Extensions \in SUBSET Known
      /\ Known \subseteq Numbers /\ Typed(entry)
  BY DescriptorAssumption DEF Usable, Known, MapInv, TypedInv
<1>1. ASSUME NEW n \in Known, NEW v \in Candidates(n), Set(n, v) \/ Mutate(n, v)
      PROVE  Map!Operate
  BY <1>0, <1>1, SetMaps, MutateMaps, CandidatesInMap DEF Map!Operate
<1>2. ASSUME NEW n \in Known, GetMut(n)
      PROVE  Map!Operate
  BY <1>0, <1>2, GetMutMaps DEF Map!Operate
<1>3. ASSUME NEW n \in Known, Clear(n)
      PROVE  Map!Operate
  BY <1>0, <1>3, ClearMaps DEF Map!Operate
<1>4. ASSUME NEW n \in Known, NEW v \in Candidates(n), Merge(n, v)
      PROVE  Map!Operate
  BY <1>0, <1>4, MergeMaps, CandidatesInMap DEF Map!Operate
<1>5. ASSUME NEW n \in Numbers \ Known, NEW v \in Candidates(n), MergeUnknown(n, v)
      PROVE  Map!Operate
  BY <1>0, <1>5, MergeUnknownMaps, CandidatesInMap DEF Map!Operate
<1>6. ASSUME NEW S \in SUBSET Known, NEW last \in Numbers, Drain(S, last)
      PROVE  Map!Operate
  <2>1. { n \in S : n <= last } \in SUBSET Known
    OBVIOUS
  <2> QED BY <1>6, <2>1, DrainMaps DEF Map!Operate
<1>7. ASSUME NEW last \in Numbers, DrainUnknown(last)
      PROVE  Map!Operate
  <2>1. { n \in Numbers \ Known : n <= last } \in SUBSET (Numbers \ Known)
    OBVIOUS
  <2> QED BY <1>7, <2>1, DrainUnknownMaps DEF Map!Operate
<1>8. ASSUME ClearAll
      PROVE  Map!Operate
  BY <1>8, ClearAllMaps DEF Map!Operate
<1>9. CASE Operate /\ failed' = None
  <2>1. Map!Operate
    BY <1>0, <1>1, <1>2, <1>3, <1>4, <1>5, <1>6, <1>7, <1>8, <1>9 DEF Operate
  <2> QED BY <1>9, <2>1 DEF Map!Next, None, Map!None
<1>10. ASSUME NEW n \in Numbers, MergeFails(n), failed' = n
       PROVE  Map!Next
  BY <1>0, <1>10, MergeFailsMaps DEF Map!Next
<1>11. CASE UNCHANGED vars
  BY <1>11 DEF vars, Map!vars, Has
<1> QED BY <1>9, <1>10, <1>11 DEF Next

\* Reached through descriptors of its own pool only, a DynamicMessage keeps the
\* promise of MessageMap: each operation changes the field it names and its oneof,
\* or the unknown fields, and nothing else, and a merge that fails loses no value but
\* that of a string and of the rivals of its oneof, for every message type.
THEOREM KeepsMap ==
  ASSUME Late = {}
  PROVE  Spec => ImplementsMap
<1>1. Init => MapInv
  BY TypedInit, OneofInit DEF MapInv, TypedInv, Init, Empty, Absent, ValuesAreKnown
<1>2. MapInv /\ [Next]_vars => MapInv'
  BY TypedStep, OneofStep, KnownStep DEF MapInv, TypedInv
<1>3. MapInv /\ [Next]_vars => [Map!Next]_(Map!vars)
  BY MapStep
<1> QED BY <1>1, <1>2, <1>3, MapInit, PTL DEF Spec, ImplementsMap, Map!Spec

-----------------------------------------------------------------------------
(* Decoding.                                                               *)

\* What is on the wire: occurrences of numbers.
Wire == Seq(Numbers \X Seq(Atoms))

Messages == [Numbers -> Entry]

LEMMA EmptyIsMessage == Empty \in Messages
<1>1. Absent \in Entry
  BY EmptySeq DEF Absent, Entry, Tags
<1> QED BY <1>1 DEF Empty, Messages

\* Whatever is read, a message stays a message.
LEMMA ReceivedIsMessage ==
  ASSUME NEW e \in Messages, NEW n \in Numbers, NEW v \in Seq(Atoms), NEW known
  PROVE  Received(e, n, v, known) \in Messages
<1>1. e[n] \in Entry
  BY DEF Messages
<1>2. ASSUME NEW w \in Seq(Atoms) PROVE Stored(e, n, w, known) \in Messages
  <2>1. ValueEntry(w) \in Entry /\ Absent \in Entry
    BY EmptySeq DEF ValueEntry, Absent, Entry, Tags
  <2> QED BY <2>1 DEF Stored, Messages
<1>3. Current(e, n) \in Seq(Atoms)
  BY <1>1, DefaultIsValue DEF Current, Entry, ValuesOf
<1>4. Merged(n, Current(e, n), v) \in Seq(Atoms)
  BY <1>3, ConcatProperties DEF Merged
<1>5. WithUnknown(e, n, v) \in Messages
  <2>1. Append(e[n].unknown, v) \in Seq(Seq(Atoms))
    BY <1>1, AppendProperties DEF Entry
  <2>2. UnknownEntry(Append(e[n].unknown, v)) \in Entry
    BY <2>1, EmptySeq DEF UnknownEntry, Entry, Tags
  <2> QED BY <2>2 DEF WithUnknown, Messages
<1> QED BY <1>2, <1>4, <1>5 DEF Received

\* Decoding is a walk over the occurrences.
DecodeWalk(f, wire, known) ==
  /\ f[0] = Empty /\ f[Len(wire)] = Decode(wire, known)
  /\ \A k \in 1..Len(wire) : f[k] = Received(f[k - 1], wire[k][1], wire[k][2], known)

LEMMA DecodeSteps ==
  ASSUME NEW wire \in Wire, NEW known
  PROVE  \E f : DecodeWalk(f, wire, known)
<1> DEFINE L == Len(wire)
           op == [p \in Messages \X (1..L) |->
                    Received(p[1], wire[p[2]][1], wire[p[2]][2], known)]
           iter == CHOOSE d : d = [s \in SUBSET (DOMAIN wire) |->
                     IF s = {} THEN Empty
                     ELSE Received(d[s \ {Max(s)}], wire[Max(s)][1], wire[Max(s)][2], known)]
<1>1. /\ L \in Nat /\ DOMAIN wire = 1..L
      /\ \A k \in 1..L : wire[k][1] \in Numbers /\ wire[k][2] \in Seq(Atoms)
  <2>1. L \in Nat /\ DOMAIN wire = 1..L /\ wire \in [1..L -> Numbers \X Seq(Atoms)]
    BY LenProperties DEF Wire
  <2> QED BY <2>1
<1>2. Decode(wire, known) = iter[DOMAIN wire]
  BY DEF Decode, FoldLeft, MapThenFoldSet
<1> HIDE DEF L
<1>3. op \in [Messages \X (1..L) -> Messages]
  BY <1>1, ReceivedIsMessage
<1>4. \A e \in Messages, k \in 1..L : op[<<e, k>>] = Received(e, wire[k][1], wire[k][2], known)
  OBVIOUS
<1>5. PICK d : IsFold(d, L, Messages, op, Empty)
  <2> HIDE DEF op, iter
  <2> QED BY <1>1, <1>3, FoldExists, EmptyIsMessage
<1> HIDE DEF op
<1>6. ASSUME NEW s \in SUBSET (1..L), s # {}
      PROVE  d[s] = Received(d[s \ {Max(s)}], wire[Max(s)][1], wire[Max(s)][2], known)
  <2>1. Max(s) \in 1..L /\ s \ {Max(s)} \in SUBSET (1..L)
    BY <1>1, <1>6, LastIsIn
  <2>2. d[s \ {Max(s)}] \in Messages
    BY <1>5, <2>1 DEF IsFold
  <2>3. d[s] = op[<<d[s \ {Max(s)}], Max(s)>>]
    BY <1>5, <1>6 DEF IsFold
  <2> QED BY <1>4, <2>1, <2>2, <2>3
<1>7. d = [s \in SUBSET (DOMAIN wire) |->
             IF s = {} THEN Empty
             ELSE Received(d[s \ {Max(s)}], wire[Max(s)][1], wire[Max(s)][2], known)]
  BY <1>1, <1>5, <1>6 DEF IsFold
<1>8. iter = [s \in SUBSET (DOMAIN wire) |->
                IF s = {} THEN Empty
                ELSE Received(iter[s \ {Max(s)}], wire[Max(s)][1], wire[Max(s)][2], known)]
  BY <1>7, Zenon
<1> HIDE DEF iter
<1> DEFINE f == [k \in 0..L |-> iter[1..k]]
<1>9. f[0] = Empty /\ f[L] = Decode(wire, known)
  <2>1. 1..0 = {} /\ 1..0 \in SUBSET (DOMAIN wire)
    OBVIOUS
  <2>2. iter[1..0] = Empty
    BY <1>8, <2>1
  <2> QED BY <1>1, <1>2, <2>2
<1>10. ASSUME NEW k \in 1..L PROVE f[k] = Received(f[k - 1], wire[k][1], wire[k][2], known)
  <2>1. 1..k \in SUBSET (DOMAIN wire) /\ 1..k # {} /\ Max(1..k) = k /\ (1..k) \ {k} = 1..k - 1
    BY <1>1, PrefixOfPositions
  <2>2. iter[1..k] = Received(iter[(1..k) \ {Max(1..k)}], wire[Max(1..k)][1], wire[Max(1..k)][2],
                              known)
    BY <1>8, <2>1
  <2>3. f[k] = iter[1..k] /\ f[k - 1] = iter[1..k - 1]
    BY <1>1
  <2> HIDE DEF f
  <2> QED BY <2>1, <2>2, <2>3
<1> HIDE DEF f
<1>11. DecodeWalk(f, wire, known)
  BY <1>9, <1>10 DEF L, DecodeWalk
<1> QED BY <1>11
\* Nothing read, nothing there; one more occurrence, one more step.
LEMMA DecodeEmpty ==
  ASSUME NEW known
  PROVE  Decode(<< >>, known) = Empty
<1>1. << >> \in Wire /\ Len(<< >>) = 0
  BY EmptySeq DEF Wire
<1> QED BY <1>1, DecodeSteps DEF DecodeWalk

LEMMA DecodeAppend ==
  ASSUME NEW wire \in Wire, NEW n \in Numbers, NEW v \in Seq(Atoms), NEW known
  PROVE  Decode(Append(wire, <<n, v>>), known) = Received(Decode(wire, known), n, v, known)
<1> DEFINE L == Len(wire)
           more == Append(wire, <<n, v>>)
<1>1. /\ more \in Wire /\ Len(more) = L + 1 /\ L \in Nat
      /\ more[L + 1] = <<n, v>> /\ \A k \in 1..L : more[k] = wire[k]
  <2>1. <<n, v>> \in Numbers \X Seq(Atoms)
    OBVIOUS
  <2> QED BY <2>1, AppendProperties, LenProperties DEF Wire
<1> HIDE DEF L, more
<1>2. PICK f : DecodeWalk(f, wire, known)
  BY DecodeSteps
<1>3. PICK g : DecodeWalk(g, more, known)
  BY <1>1, DecodeSteps
<1>4. /\ f[0] = Empty /\ f[L] = Decode(wire, known)
      /\ \A k \in 1..L : f[k] = Received(f[k - 1], wire[k][1], wire[k][2], known)
  BY <1>2 DEF L, DecodeWalk
<1>5. /\ g[0] = Empty /\ g[L + 1] = Decode(more, known)
      /\ \A k \in 1..L + 1 : g[k] = Received(g[k - 1], more[k][1], more[k][2], known)
  BY <1>1, <1>3 DEF DecodeWalk
<1> DEFINE S == { k \in Nat : k <= L => g[k] = f[k] }
<1>6. 0 \in S
  BY <1>4, <1>5
<1>7. ASSUME NEW k \in Nat, k \in S PROVE k + 1 \in S
  <2> SUFFICES ASSUME k + 1 <= L PROVE g[k + 1] = f[k + 1]
    OBVIOUS
  <2>1. k + 1 \in 1..L /\ k + 1 \in 1..L + 1 /\ (k + 1) - 1 = k /\ k <= L
    BY <1>1
  <2>2. g[k + 1] = Received(g[k], more[k + 1][1], more[k + 1][2], known)
    BY <1>5, <2>1
  <2>3. f[k + 1] = Received(f[k], wire[k + 1][1], wire[k + 1][2], known)
    BY <1>4, <2>1
  <2> QED BY <1>1, <1>7, <2>1, <2>2, <2>3
<1>8. L \in S
  <2> HIDE DEF S
  <2> QED BY <1>1, <1>6, <1>7, SetInduction
<1>9. g[L] = Decode(wire, known)
  BY <1>1, <1>4, <1>8
<1>10. L + 1 \in 1..L + 1 /\ (L + 1) - 1 = L
  BY <1>1
<1>11. g[L + 1] = Received(g[L], n, v, known)
  BY <1>1, <1>5, <1>10
<1> QED BY <1>5, <1>9, <1>11 DEF more

-----------------------------------------------------------------------------
(* Encoding.                                                               *)

\* A set of naturals with k members has an ascending enumeration.
LEMMA AscendingExists ==
  ASSUME NEW T \in SUBSET Nat, IsFiniteSet(T)
  PROVE  \E q \in [1..Cardinality(T) -> T] :
            /\ \A i, j \in 1..Cardinality(T) : i < j => q[i] < q[j]
            /\ \A x \in T : \E i \in 1..Cardinality(T) : q[i] = x
<1> DEFINE Ascending(q, U, k) == /\ q \in [1..k -> U]
                                 /\ \A i, j \in 1..k : i < j => q[i] < q[j]
                                 /\ \A x \in U : \E i \in 1..k : q[i] = x
           S == { k \in Nat : \A U \in SUBSET Nat :
                    IsFiniteSet(U) /\ Cardinality(U) = k => \E q : Ascending(q, U, k) }
<1>1. 0 \in S
  <2> SUFFICES ASSUME NEW U \in SUBSET Nat, IsFiniteSet(U), Cardinality(U) = 0
               PROVE  \E q : Ascending(q, U, 0)
    OBVIOUS
  <2>1. U = {}
    BY FS_EmptySet
  <2> DEFINE q == [i \in 1..0 |-> 0]
  <2>2. Ascending(q, U, 0)
    BY <2>1
  <2> HIDE DEF q, Ascending
  <2> QED BY <2>2
<1>2. ASSUME NEW k \in Nat, k \in S PROVE k + 1 \in S
  <2> SUFFICES ASSUME NEW U \in SUBSET Nat, IsFiniteSet(U), Cardinality(U) = k + 1
               PROVE  \E q : Ascending(q, U, k + 1)
    OBVIOUS
  <2>1. U # {}
    BY FS_EmptySet
  <2>2. PICK least \in U : \A x \in U : ~(x < least)
    <3> DEFINE R == { ss \in Nat \X Nat : ss[1] < ss[2] }
    <3>1. IsWellFoundedOn(R, Nat)
      <4>1. IsWellFoundedOn({ ss \in Nat \X Nat : ss[1] < ss[2] }, Nat)
        BY NatLessThanWellFounded DEF OpToRel
      <4> QED BY <4>1
    <3> HIDE DEF R
    <3>2. PICK x \in U : \A y \in U : <<y, x>> \notin R
      <4>1. U \subseteq Nat
        OBVIOUS
      <4> HIDE DEF S
      <4> QED BY <2>1, <3>1, <4>1, WFMin
    <3>3. \A y \in U : y \in Nat
      OBVIOUS
    <3> QED BY <3>2, <3>3 DEF R
  <2> DEFINE V == U \ {least}
  <2>3. IsFiniteSet(V) /\ Cardinality(V) = k /\ V \in SUBSET Nat
    BY FS_RemoveElement
  <2>4. PICK p : Ascending(p, V, k)
    <3> HIDE DEF V, Ascending
    <3> QED BY <1>2, <2>3
  <2> DEFINE q == [i \in 1..k + 1 |-> IF i = 1 THEN least ELSE p[i - 1]]
  <2>5. \A i \in 1..k + 1 : i # 1 => i - 1 \in 1..k
    OBVIOUS
  <2>6. q \in [1..k + 1 -> U]
    BY <2>4, <2>5
  <2>7. ASSUME NEW i \in 1..k + 1, NEW j \in 1..k + 1, i < j PROVE q[i] < q[j]
    <3>1. j # 1 /\ q[j] = p[j - 1] /\ p[j - 1] \in V
      BY <2>4, <2>5, <2>7
    <3>2. CASE i = 1
      <4>1. q[i] = least /\ q[j] # least /\ q[j] \in U
        BY <3>1, <3>2
      <4>2. q[j] \in Nat /\ least \in Nat /\ ~(q[j] < least)
        BY <2>2, <4>1
      <4> HIDE DEF q
      <4> QED BY <4>1, <4>2
    <3>3. CASE i # 1
      <4>1. q[i] = p[i - 1] /\ i - 1 \in 1..k /\ j - 1 \in 1..k /\ i - 1 < j - 1
        BY <2>5, <2>7, <3>1, <3>3
      <4> QED BY <2>4, <3>1, <4>1
    <3> QED BY <3>2, <3>3
  <2>8. ASSUME NEW x \in U PROVE \E i \in 1..k + 1 : q[i] = x
    <3>1. CASE x = least
      BY <3>1
    <3>2. CASE x # least
      <4>1. PICK i \in 1..k : p[i] = x
        BY <2>4, <3>2
      <4>2. i + 1 \in 1..k + 1 /\ (i + 1) - 1 = i /\ i + 1 # 1
        OBVIOUS
      <4> QED BY <4>1, <4>2
    <3> QED BY <3>1, <3>2
  <2> HIDE DEF q, V
  <2>9. Ascending(q, U, k + 1)
    BY <2>6, <2>7, <2>8
  <2> HIDE DEF Ascending
  <2> QED BY <2>9
<1>3. Cardinality(T) \in S
  <2> HIDE DEF S
  <2>1. Cardinality(T) \in Nat
    BY FS_CardinalityType
  <2> QED BY <1>1, <1>2, <2>1, SetInduction
<1> QED BY <1>3

\* InOrder enumerates the numbers.
LEMMA InOrderEnumerates ==
  /\ Cardinality(Numbers) \in Nat
  /\ InOrder \in [1..Cardinality(Numbers) -> Numbers]
  /\ \A i, j \in 1..Cardinality(Numbers) : i < j => InOrder[i] < InOrder[j]
  /\ \A n \in Numbers : \E i \in 1..Cardinality(Numbers) : InOrder[i] = n
<1> DEFINE N == Cardinality(Numbers)
<1>1. N \in Nat
  BY FS_CardinalityType, DescriptorAssumption
<1>2. Numbers \in SUBSET Nat /\ IsFiniteSet(Numbers)
  BY DescriptorAssumption
<1>3. \E q \in [1..N -> Numbers] : \A i, j \in DOMAIN q : i < j => q[i] < q[j]
  BY <1>2, AscendingExists
<1>4. /\ InOrder \in [1..N -> Numbers]
      /\ \A i, j \in DOMAIN InOrder : i < j => InOrder[i] < InOrder[j]
  BY <1>3 DEF InOrder
<1>5. \A n \in Numbers : \E i \in 1..N : InOrder[i] = n
  <2>1. IsFiniteSet(1..N) /\ Cardinality(1..N) = N
    BY <1>1, FS_Interval
  <2>2. \A i, j \in 1..N : InOrder[i] = InOrder[j] => i = j
    <3>1. \A i \in 1..N : InOrder[i] \in Nat
      BY <1>2, <1>4
    <3> QED BY <1>1, <1>4, <3>1
  <2>3. InOrder \in Injection(1..N, Numbers)
    BY <1>4, <2>2 DEF Injection, IsInjective
  <2>4. InOrder \in Surjection(1..N, Numbers)
    <3> HIDE DEF N
    <3>1. N = Cardinality(Numbers)
      BY DEF N
    <3> QED BY <1>2, <2>1, <2>3, <3>1, FS_Injection
  <2> QED BY <2>4 DEF Surjection
<1> QED BY <1>1, <1>4, <1>5
\* Messages whose fields can be written: e's occurrences are values.
Writable(e) == \A n \in Numbers : Occurrences(e, n) \in Seq(Seq(Atoms))

LEMMA TaggedOnWire ==
  ASSUME NEW n \in Numbers, NEW os \in Seq(Seq(Atoms))
  PROVE  /\ Tagged(n, os) \in Wire /\ Len(Tagged(n, os)) = Len(os)
         /\ \A i \in 1..Len(os) : Tagged(n, os)[i] = <<n, os[i]>>
<1>1. Len(os) \in Nat /\ DOMAIN os = 1..Len(os) /\ os \in [1..Len(os) -> Seq(Atoms)]
  BY LenProperties
<1>2. Tagged(n, os) \in [1..Len(os) -> Numbers \X Seq(Atoms)]
  BY <1>1 DEF Tagged
<1>3. Tagged(n, os) \in Seq(Numbers \X Seq(Atoms)) /\ Len(Tagged(n, os)) = Len(os)
  <2> HIDE DEF Tagged
  <2> QED BY <1>1, <1>2, FunctionIsSeq
<1> QED BY <1>1, <1>3 DEF Tagged, Wire

\* Encoding is a walk over the numbers.
EncodeWalk(w, e) ==
  /\ w[0] = << >> /\ w[Cardinality(Numbers)] = Encode(e)
  /\ \A k \in 1..Cardinality(Numbers) :
        w[k] = w[k - 1] \o Tagged(InOrder[k], Occurrences(e, InOrder[k]))

LEMMA EncodeSteps ==
  ASSUME NEW e, Writable(e)
  PROVE  \E w : EncodeWalk(w, e)
<1> DEFINE L == Cardinality(Numbers)
           Written(k) == Tagged(InOrder[k], Occurrences(e, InOrder[k]))
           op == [p \in Wire \X (1..L) |-> p[1] \o Written(p[2])]
           iter == CHOOSE d : d = [s \in SUBSET (DOMAIN InOrder) |->
                     IF s = {} THEN << >>
                     ELSE d[s \ {Max(s)}] \o Written(Max(s))]
<1>1. L \in Nat /\ DOMAIN InOrder = 1..L /\ \A k \in 1..L : InOrder[k] \in Numbers
  BY InOrderEnumerates
<1>2. Encode(e) = iter[DOMAIN InOrder]
  BY DEF Encode, FoldLeft, MapThenFoldSet
<1> HIDE DEF L
<1>3. op \in [Wire \X (1..L) -> Wire]
  <2> SUFFICES ASSUME NEW w \in Wire, NEW k \in 1..L
               PROVE  w \o Tagged(InOrder[k], Occurrences(e, InOrder[k])) \in Wire
    OBVIOUS
  <2>1. Tagged(InOrder[k], Occurrences(e, InOrder[k])) \in Wire
    BY <1>1, TaggedOnWire DEF Writable
  <2> QED BY <2>1, ConcatProperties DEF Wire
<1>4. \A w \in Wire, k \in 1..L :
         op[<<w, k>>] = w \o Tagged(InOrder[k], Occurrences(e, InOrder[k]))
  OBVIOUS
<1>5. PICK d : IsFold(d, L, Wire, op, << >>)
  <2>1. << >> \in Wire
    BY EmptySeq DEF Wire
  <2> HIDE DEF op, iter
  <2> QED BY <1>1, <1>3, <2>1, FoldExists
<1> HIDE DEF op
<1>6. ASSUME NEW s \in SUBSET (1..L), s # {}
      PROVE  d[s] = d[s \ {Max(s)}] \o Written(Max(s))
  <2>1. Max(s) \in 1..L /\ s \ {Max(s)} \in SUBSET (1..L)
    BY <1>1, <1>6, LastIsIn
  <2>2. d[s \ {Max(s)}] \in Wire
    BY <1>5, <2>1 DEF IsFold
  <2>3. d[s] = op[<<d[s \ {Max(s)}], Max(s)>>]
    BY <1>5, <1>6 DEF IsFold
  <2> QED BY <1>4, <2>1, <2>2, <2>3
<1>7. d = [s \in SUBSET (DOMAIN InOrder) |->
             IF s = {} THEN << >>
             ELSE d[s \ {Max(s)}] \o Written(Max(s))]
  BY <1>1, <1>5, <1>6 DEF IsFold
<1>8. iter = [s \in SUBSET (DOMAIN InOrder) |->
                IF s = {} THEN << >>
                ELSE iter[s \ {Max(s)}] \o Written(Max(s))]
  BY <1>7, Zenon
<1> HIDE DEF iter
<1> DEFINE w == [k \in 0..L |-> iter[1..k]]
<1>9. w[0] = << >> /\ w[L] = Encode(e)
  <2>1. 1..0 = {} /\ 1..0 \in SUBSET (DOMAIN InOrder)
    OBVIOUS
  <2>2. iter[1..0] = << >>
    BY <1>8, <2>1
  <2> QED BY <1>1, <1>2, <2>2
<1>10. ASSUME NEW k \in 1..L
       PROVE  w[k] = w[k - 1] \o Tagged(InOrder[k], Occurrences(e, InOrder[k]))
  <2>1. 1..k \in SUBSET (DOMAIN InOrder) /\ 1..k # {} /\ Max(1..k) = k /\ (1..k) \ {k} = 1..k - 1
    BY <1>1, PrefixOfPositions
  <2>2. iter[1..k] = iter[(1..k) \ {Max(1..k)}]
                       \o Tagged(InOrder[Max(1..k)], Occurrences(e, InOrder[Max(1..k)]))
    BY <1>8, <2>1
  <2>3. w[k] = iter[1..k] /\ w[k - 1] = iter[1..k - 1]
    BY <1>1
  <2> HIDE DEF w
  <2> QED BY <2>1, <2>2, <2>3
<1> HIDE DEF w
<1>11. EncodeWalk(w, e)
  BY <1>9, <1>10 DEF L, EncodeWalk
<1> QED BY <1>11

\* The wire depends on the occurrences only.
LEMMA SameOccurrencesSameWire ==
  ASSUME NEW e, Writable(e), NEW f, \A n \in Numbers : Occurrences(f, n) = Occurrences(e, n)
  PROVE  Encode(f) = Encode(e)
<1> DEFINE L == Cardinality(Numbers)
<1>1. Writable(f)
  BY DEF Writable
<1>2. PICK w : EncodeWalk(w, e)
  BY EncodeSteps
<1>3. PICK x : EncodeWalk(x, f)
  BY <1>1, EncodeSteps
<1>4. L \in Nat /\ \A k \in 1..L : InOrder[k] \in Numbers
  BY InOrderEnumerates
<1> DEFINE S == { k \in Nat : k <= L => x[k] = w[k] }
<1>5. 0 \in S
  BY <1>2, <1>3 DEF EncodeWalk
<1>6. ASSUME NEW k \in Nat, k \in S PROVE k + 1 \in S
  <2> SUFFICES ASSUME k + 1 <= L PROVE x[k + 1] = w[k + 1]
    OBVIOUS
  <2>1. k + 1 \in 1..L /\ (k + 1) - 1 = k /\ x[k] = w[k]
    BY <1>4, <1>6
  <2>2. Occurrences(f, InOrder[k + 1]) = Occurrences(e, InOrder[k + 1])
    BY <1>4, <2>1
  <2> QED BY <1>2, <1>3, <2>1, <2>2 DEF EncodeWalk
<1>7. L \in S
  <2> HIDE DEF S
  <2> QED BY <1>4, <1>5, <1>6, SetInduction
<1>8. x[L] = w[L]
  BY <1>4, <1>7
<1> QED BY <1>2, <1>3, <1>8 DEF EncodeWalk
-----------------------------------------------------------------------------
(* Reading the occurrences of one number.                                  *)

LEMMA PrefixStep ==
  ASSUME NEW A, NEW s \in Seq(A), NEW j \in 1..Len(s)
  PROVE  /\ SubSeq(s, 1, j) = Append(SubSeq(s, 1, j - 1), s[j])
         /\ SubSeq(s, 1, j - 1) \in Seq(A) /\ Len(SubSeq(s, 1, j - 1)) = j - 1
         /\ s[j] \in A
<1> DEFINE L == Len(s)
<1>1. L \in Nat /\ \A i \in 1..L : s[i] \in A
  BY LenProperties
<1> HIDE DEF L
<1>2. j \in 1..L
  BY DEF L
<1>3. j \in Int /\ j - 1 \in Int /\ 1 \in Int /\ \A i \in 1..j : s[i] \in A
  BY <1>1, <1>2
<1>4. /\ SubSeq(s, 1, j) \in Seq(A) /\ Len(SubSeq(s, 1, j)) = j
      /\ \A i \in 1..j : SubSeq(s, 1, j)[i] = s[i]
  BY <1>1, <1>2, <1>3, SubSeqProperties
<1>5. /\ SubSeq(s, 1, j - 1) \in Seq(A) /\ Len(SubSeq(s, 1, j - 1)) = j - 1
      /\ \A i \in 1..j - 1 : SubSeq(s, 1, j - 1)[i] = s[i]
  BY <1>1, <1>2, <1>3, SubSeqProperties
<1>6. s[j] \in A
  BY <1>1, <1>2
<1> DEFINE t == SubSeq(s, 1, j - 1)
           a == Append(t, s[j])
<1>7. /\ a \in Seq(A) /\ Len(a) = j
      /\ \A i \in 1..j - 1 : a[i] = t[i]
      /\ a[j] = s[j]
  <2> HIDE DEF t
  <2>1. t \in Seq(A) /\ Len(t) = j - 1
    BY <1>5 DEF t
  <2>2. (j - 1) + 1 = j
    BY <1>3
  <2> QED BY <1>6, <2>1, <2>2, AppendProperties
<1> HIDE DEF a
<1>8. \A i \in 1..j : a[i] = SubSeq(s, 1, j)[i]
  <2> TAKE i \in 1..j
  <2>1. CASE i = j
    BY <1>2, <1>3, <1>4, <1>7, <2>1
  <2>2. CASE i # j
    <3>1. i \in 1..j - 1
      BY <1>3, <2>2
    <3> QED BY <1>4, <1>5, <1>7, <3>1
  <2> QED BY <2>1, <2>2
<1>9. a = SubSeq(s, 1, j)
  BY <1>4, <1>7, <1>8, SeqEqual
<1> QED BY <1>5, <1>6, <1>9 DEF a

\* One more of them is one more on the wire.
LEMMA DecodeTagged ==
  ASSUME NEW w \in Wire, NEW n \in Numbers, NEW os \in Seq(Seq(Atoms)), NEW known,
         NEW j \in 1..Len(os)
  PROVE  Decode(w \o Tagged(n, SubSeq(os, 1, j)), known)
           = Received(Decode(w \o Tagged(n, SubSeq(os, 1, j - 1)), known), n, os[j], known)
<1> DEFINE p == SubSeq(os, 1, j - 1)
           o == <<n, os[j]>>
<1>1. SubSeq(os, 1, j) = Append(p, os[j]) /\ p \in Seq(Seq(Atoms)) /\ os[j] \in Seq(Atoms)
  BY PrefixStep
<1> HIDE DEF p
<1>2. Tagged(n, p) \in Wire /\ Len(Tagged(n, p)) = Len(p) /\ Len(p) \in Nat
      /\ \A i \in 1..Len(p) : Tagged(n, p)[i] = <<n, p[i]>>
  BY <1>1, TaggedOnWire, LenProperties
<1>3. o \in Numbers \X Seq(Atoms)
  BY <1>1
<1>4. /\ Append(p, os[j]) \in Seq(Seq(Atoms)) /\ Len(Append(p, os[j])) = Len(p) + 1
      /\ \A i \in 1..Len(p) : Append(p, os[j])[i] = p[i]
      /\ Append(p, os[j])[Len(p) + 1] = os[j]
  BY <1>1, AppendProperties
<1>5. Tagged(n, Append(p, os[j])) = Append(Tagged(n, p), o)
  <2> DEFINE a == Tagged(n, Append(p, os[j]))
             b == Append(Tagged(n, p), o)
             k == Len(p)
  <2>1. /\ a \in Wire /\ Len(a) = k + 1
        /\ \A i \in 1..k + 1 : a[i] = <<n, Append(p, os[j])[i]>>
    BY <1>4, TaggedOnWire
  <2>2. /\ b \in Wire /\ Len(b) = k + 1 /\ b[k + 1] = o
        /\ \A i \in 1..k : b[i] = Tagged(n, p)[i]
    <3> HIDE DEF o
    <3> QED BY <1>2, <1>3, AppendProperties DEF Wire
  <2>3. k \in Nat
    BY <1>2
  <2> HIDE DEF a, b, k
  <2>4. \A i \in 1..k + 1 : a[i] = b[i]
    <3> TAKE i \in 1..k + 1
    <3>1. CASE i = k + 1
      BY <1>4, <2>1, <2>2, <3>1 DEF k
    <3>2. CASE i # k + 1
      <4>1. i \in 1..k
        BY <2>3, <3>2
      <4> QED BY <1>2, <1>4, <2>1, <2>2, <4>1 DEF k
    <3> QED BY <3>1, <3>2
  <2>5. a = b
    BY <2>1, <2>2, <2>4, SeqEqual DEF Wire
  <2> QED BY <2>5 DEF a, b
<1>6. w \o Append(Tagged(n, p), o) = Append(w \o Tagged(n, p), o)
  <2> DEFINE t == Tagged(n, p)
  <2>1. t \in Seq(Numbers \X Seq(Atoms)) /\ w \in Seq(Numbers \X Seq(Atoms))
    BY <1>2 DEF Wire
  <2> HIDE DEF t, o
  <2>2. <<o>> \in Seq(Numbers \X Seq(Atoms))
    BY <1>3
  <2>3. w \o t \in Seq(Numbers \X Seq(Atoms))
    BY <2>1, ConcatProperties
  <2>4. Append(t, o) = t \o <<o>> /\ Append(w \o t, o) = (w \o t) \o <<o>>
    BY <1>3, <2>1, <2>3, AppendIsConcat
  <2> DEFINE u == <<o>>
  <2>5. u \in Seq(Numbers \X Seq(Atoms))
    BY <2>2
  <2> DEFINE X == Numbers \X Seq(Atoms)
  <2> HIDE DEF u, X
  <2>6. w \in Seq(X) /\ t \in Seq(X) /\ u \in Seq(X)
    BY <2>1, <2>5 DEF X
  <2>7. (w \o t) \o u = w \o (t \o u)
    BY SMTT(60), <2>6, ConcatAssociative
  <2> QED BY <2>4, <2>7 DEF t, u
<1>7. w \o Tagged(n, p) \in Wire
  BY <1>2, ConcatProperties DEF Wire
<1>8. Decode(Append(w \o Tagged(n, p), o), known)
        = Received(Decode(w \o Tagged(n, p), known), n, os[j], known)
  BY <1>1, <1>7, DecodeAppend
<1> QED BY <1>1, <1>5, <1>6, <1>8 DEF p

LEMMA DecodeNone ==
  ASSUME NEW w \in Wire, NEW n, NEW os, NEW known
  PROVE  Decode(w \o Tagged(n, SubSeq(os, 1, 0)), known) = Decode(w, known)
<1>1. SubSeq(os, 1, 0) = << >>
  BY SubSeqEmpty
<1>2. Tagged(n, << >>) = << >>
  BY DEF Tagged
<1>3. w \o << >> = w
  BY ConcatEmptySeq DEF Wire
<1> QED BY <1>1, <1>2, <1>3
\* Unknown to the reader: the occurrences are kept, in order.
LEMMA ReadUnknown ==
  ASSUME NEW w \in Wire, NEW n \in Numbers, NEW known, n \notin known,
         NEW os \in Seq(Seq(Atoms)), os # << >>,
         NEW r \in Messages, r = Decode(w, known), r[n] = Absent
  PROVE  Decode(w \o Tagged(n, os), known) = [r EXCEPT ![n] = UnknownEntry(os)]
<1> DEFINE L == Len(os)
           Read(j) == Decode(w \o Tagged(n, SubSeq(os, 1, j)), known)
           Kept(j) == [r EXCEPT ![n] = UnknownEntry(SubSeq(os, 1, j))]
           S == { j \in Nat : j + 1 <= L => Read(j + 1) = Kept(j + 1) }
<1>1. L \in Nat \ {0} /\ SubSeq(os, 1, L) = os
  BY EmptySeq, SubSeqFull
<1>2. \A j \in 1..L : Read(j) = WithUnknown(Read(j - 1), n, os[j])
  BY DecodeTagged DEF Received
<1>3. Read(0) = r
  BY DecodeNone
<1>4. SubSeq(os, 1, 0) = << >>
  BY SubSeqEmpty
<1>5. \A j \in 1..L : SubSeq(os, 1, j) = Append(SubSeq(os, 1, j - 1), os[j])
  BY PrefixStep
<1> HIDE DEF Read, L
<1>6. 0 \in S
  <2>1. 1 \in 1..L /\ 0 + 1 = 1 /\ 1 - 1 = 0
    BY <1>1
  <2>2. Read(1) = [r EXCEPT ![n] = UnknownEntry(Append(<< >>, os[1]))]
    <3>1. Read(1) = WithUnknown(r, n, os[1])
      BY <1>2, <1>3, <2>1
    <3>2. r[n].unknown = << >>
      BY DEF Absent
    <3> QED BY <3>1, <3>2 DEF WithUnknown
  <2>3. SubSeq(os, 1, 1) = Append(<< >>, os[1])
    BY <1>4, <1>5, <2>1
  <2> QED BY <2>1, <2>2, <2>3
<1>7. ASSUME NEW j \in Nat, j \in S PROVE j + 1 \in S
  <2> SUFFICES ASSUME (j + 1) + 1 <= L PROVE Read((j + 1) + 1) = Kept((j + 1) + 1)
    OBVIOUS
  <2> DEFINE k == (j + 1) + 1
  <2>1. k \in 1..L /\ k - 1 = j + 1 /\ j + 1 <= L
    BY <1>1
  <2>2. Read(k - 1) = [r EXCEPT ![n] = UnknownEntry(SubSeq(os, 1, k - 1))]
    BY <1>7, <2>1
  <2> HIDE DEF k
  <2>3. Read(k) = [Read(k - 1) EXCEPT ![n] = UnknownEntry(Append(Read(k - 1)[n].unknown, os[k]))]
    <3>1. Read(k) = WithUnknown(Read(k - 1), n, os[k])
      BY <1>2, <2>1
    <3> QED BY <3>1 DEF WithUnknown
  <2>4. Read(k - 1)[n].unknown = SubSeq(os, 1, k - 1)
    <3>1. Read(k - 1)[n] = UnknownEntry(SubSeq(os, 1, k - 1))
      BY <2>2 DEF Messages
    <3> QED BY <3>1 DEF UnknownEntry
  <2>5. Read(k) = Kept(k)
    BY <1>5, <2>1, <2>2, <2>3, <2>4 DEF Messages
  <2> HIDE DEF Kept
  <2> QED BY <2>5 DEF k
<1>8. L - 1 \in S /\ (L - 1) + 1 = L /\ L - 1 \in Nat
  <2> HIDE DEF S, Kept
  <2>1. L - 1 \in Nat /\ (L - 1) + 1 = L
    BY <1>1
  <2>2. Nat \subseteq S
    BY <1>6, <1>7, SetInduction
  <2> QED BY <2>1, <2>2
<1>9. Read(L) = Kept(L)
  BY <1>1, <1>8
<1> QED BY <1>1, <1>9 DEF Read

\* Storing in a message without rivals of the field changes that field only.
LEMMA StoredAlone ==
  ASSUME NEW r \in Messages, NEW n \in Numbers, NEW v, NEW known,
         \A m \in Rivals(n) \cap known : r[m] = Absent
  PROVE  Stored(r, n, v, known) = [r EXCEPT ![n] = ValueEntry(v)]
<1>1. r = [m \in Numbers |-> r[m]]
  BY DEF Messages
<1>2. \A m \in Numbers : (IF m = n THEN ValueEntry(v)
                          ELSE IF m \in Rivals(n) \cap known THEN Absent ELSE r[m])
                         = IF m = n THEN ValueEntry(v) ELSE r[m]
  OBVIOUS
<1> QED BY <1>1, <1>2 DEF Stored

\* Known to the reader, written at once: the value is there again.
LEMMA ReadWhole ==
  ASSUME NEW w \in Wire, NEW n \in Numbers, NEW known, n \in known,
         NEW v \in ValuesOf(n),
         NEW r \in Messages, r = Decode(w, known), r[n] = Absent,
         \A m \in Rivals(n) \cap known : r[m] = Absent
  PROVE  Decode(w \o Tagged(n, <<v>>), known) = [r EXCEPT ![n] = ValueEntry(v)]
<1>1. v \in Seq(Atoms)
  BY DEF ValuesOf
<1>2. <<v>> \in Seq(Seq(Atoms)) /\ Len(<<v>>) = 1 /\ SubSeq(<<v>>, 1, 1) = <<v>>
  <2>1. <<v>> \in Seq(Seq(Atoms)) /\ Len(<<v>>) = 1
    BY <1>1
  <2> QED BY <2>1, SubSeqFull
<1>3. Decode(w \o Tagged(n, <<v>>), known) = Received(r, n, v, known)
  <2> DEFINE os == <<v>>
  <2>1. os \in Seq(Seq(Atoms)) /\ Len(os) = 1 /\ os[1] = v /\ SubSeq(os, 1, 1) = os
    BY <1>2
  <2> HIDE DEF os
  <2>2. 1 \in 1..Len(os) /\ 1 - 1 = 0
    BY <2>1
  <2>3. Decode(w \o Tagged(n, SubSeq(os, 1, 1)), known)
          = Received(Decode(w \o Tagged(n, SubSeq(os, 1, 0)), known), n, os[1], known)
    BY <2>1, <2>2, DecodeTagged
  <2>4. Decode(w \o Tagged(n, SubSeq(os, 1, 0)), known) = r
    BY DecodeNone
  <2> QED BY <2>1, <2>3, <2>4 DEF os
<1>4. Current(r, n) = Default(n)
  BY DEF Current, Absent
<1>5. Merged(n, Default(n), v) = v
  BY <1>1, ConcatEmptySeq DEF Merged, Default
<1> QED BY <1>3, <1>4, <1>5, StoredAlone DEF Received

\* The elements of v, each an occurrence.
Apart(v) == [i \in DOMAIN v |-> <<v[i]>>]

\* Known to the reader, written element by element: the list is there again.
LEMMA ReadElements ==
  ASSUME NEW w \in Wire, NEW n \in Numbers, NEW known, n \in known, n \notin Scalar,
         NEW v \in Seq(Atoms), v # << >>,
         NEW r \in Messages, r = Decode(w, known), r[n] = Absent,
         \A m \in Rivals(n) \cap known : r[m] = Absent
  PROVE  Decode(w \o Tagged(n, Apart(v)), known) = [r EXCEPT ![n] = ValueEntry(v)]
<1> DEFINE L == Len(v)
           Read(j) == Decode(w \o Tagged(n, SubSeq(Apart(v), 1, j)), known)
           Got(j) == [r EXCEPT ![n] = ValueEntry(SubSeq(v, 1, j))]
           S == { j \in Nat : j + 1 <= L => Read(j + 1) = Got(j + 1) }
<1>1. L \in Nat \ {0} /\ SubSeq(v, 1, L) = v /\ DOMAIN v = 1..L /\ \A i \in 1..L : v[i] \in Atoms
  BY EmptySeq, SubSeqFull, LenProperties
<1>2. Apart(v) \in Seq(Seq(Atoms)) /\ Len(Apart(v)) = L /\ \A i \in 1..L : Apart(v)[i] = <<v[i]>>
  <2> HIDE DEF L
  <2>1. \A i \in 1..L : <<v[i]>> \in Seq(Atoms)
    BY <1>1
  <2>2. Apart(v) \in [1..L -> Seq(Atoms)]
    BY <1>1, <2>1 DEF Apart
  <2>3. \A i \in 1..L : Apart(v)[i] = <<v[i]>>
    BY <1>1 DEF Apart
  <2> QED BY <1>1, <2>2, <2>3, FunctionIsSeq
<1>3. ASSUME NEW j \in 1..L PROVE Read(j) = Received(Read(j - 1), n, <<v[j]>>, known)
  <2> DEFINE os == Apart(v)
  <2>1. os \in Seq(Seq(Atoms)) /\ j \in 1..Len(os) /\ os[j] = <<v[j]>>
    BY <1>2
  <2> HIDE DEF os
  <2>2. Decode(w \o Tagged(n, SubSeq(os, 1, j)), known)
          = Received(Decode(w \o Tagged(n, SubSeq(os, 1, j - 1)), known), n, os[j], known)
    BY <2>1, DecodeTagged
  <2> QED BY <2>1, <2>2 DEF os
<1>4. Read(0) = r
  BY DecodeNone
<1>5. SubSeq(v, 1, 0) = << >> /\ SubSeq(Apart(v), 1, L) = Apart(v)
  BY <1>2, SubSeqEmpty, SubSeqFull
<1>6. \A j \in 1..L : /\ SubSeq(v, 1, j) = SubSeq(v, 1, j - 1) \o <<v[j]>>
                      /\ SubSeq(v, 1, j - 1) \in Seq(Atoms)
  BY <1>1, PrefixStep, AppendIsConcat
<1> HIDE DEF Read, L
<1>7. 0 \in S
  <2>1. 1 \in 1..L /\ 0 + 1 = 1 /\ 1 - 1 = 0
    BY <1>1
  <2>2. Current(r, n) = SubSeq(v, 1, 0)
    BY <1>5 DEF Current, Absent, Default
  <2>3. Read(1) = Stored(r, n, SubSeq(v, 1, 0) \o <<v[1]>>, known)
    <3>1. Read(1) = Received(r, n, <<v[1]>>, known)
      BY <1>3, <1>4, <2>1
    <3> QED BY <2>2, <3>1 DEF Received, Merged
  <2>4. Read(1) = Got(1)
    <3>1. SubSeq(v, 1, 1) = SubSeq(v, 1, 0) \o <<v[1]>>
      BY <1>6, <2>1
    <3>2. Stored(r, n, SubSeq(v, 1, 1), known) = [r EXCEPT ![n] = ValueEntry(SubSeq(v, 1, 1))]
      BY StoredAlone
    <3> QED BY <2>3, <3>1, <3>2
  <2> QED BY <2>1, <2>4
<1>8. ASSUME NEW j \in Nat, j \in S PROVE j + 1 \in S
  <2> SUFFICES ASSUME (j + 1) + 1 <= L PROVE Read((j + 1) + 1) = Got((j + 1) + 1)
    OBVIOUS
  <2> DEFINE k == (j + 1) + 1
             g == Got(k - 1)
  <2>1. k \in 1..L /\ k - 1 = j + 1 /\ j + 1 <= L
    BY <1>1
  <2>2. Read(k - 1) = g
    BY <1>8, <2>1
  <2> HIDE DEF k
  <2>3. /\ g \in Messages /\ g[n] = ValueEntry(SubSeq(v, 1, k - 1))
        /\ \A m \in Numbers : m # n => g[m] = r[m]
    <3>1. ValueEntry(SubSeq(v, 1, k - 1)) \in Entry
      BY <1>6, <2>1, EmptySeq DEF ValueEntry, Entry, Tags
    <3> QED BY <3>1 DEF Messages
  <2> HIDE DEF g
  <2>4. \A m \in Rivals(n) \cap known : g[m] = Absent
    <3>1. \A m \in Rivals(n) : m \in Numbers /\ m # n
      BY DescriptorAssumption DEF Rivals, Known
    <3> QED BY <2>3, <3>1
  <2>5. Current(g, n) = SubSeq(v, 1, k - 1)
    <3> DEFINE u == SubSeq(v, 1, k - 1)
    <3> HIDE DEF u
    <3>1. g[n] = ValueEntry(u)
      BY <2>3 DEF u
    <3>2. g[n].tag = "value" /\ g[n].value = u
      BY <3>1 DEF ValueEntry
    <3> QED BY <3>2 DEF Current, u
  <2>6. Read(k) = Stored(g, n, SubSeq(v, 1, k), known)
    BY <1>3, <1>6, <2>1, <2>2, <2>5 DEF Received, Merged
  <2>7. Read(k) = [g EXCEPT ![n] = ValueEntry(SubSeq(v, 1, k))]
    BY <2>3, <2>4, <2>6, StoredAlone
  <2>8. Read(k) = [r EXCEPT ![n] = ValueEntry(SubSeq(v, 1, k))]
    BY <2>7 DEF g, Messages
  <2> QED BY <2>8 DEF k
<1>9. L - 1 \in S /\ (L - 1) + 1 = L /\ L - 1 \in Nat
  <2> HIDE DEF S, Got
  <2>1. L - 1 \in Nat /\ (L - 1) + 1 = L
    BY <1>1
  <2>2. Nat \subseteq S
    BY <1>7, <1>8, SetInduction
  <2> QED BY <2>1, <2>2
<1>10. Read(L) = Got(L)
  BY <1>1, <1>9
<1> QED BY <1>1, <1>5, <1>10 DEF Read
-----------------------------------------------------------------------------
(* A round trip.                                                           *)

\* What the invariants say of the entries e.
Sound(e) ==
  /\ Typed(e)
  /\ \A O \in Oneofs : \A n, m \in O : e[n].tag = "value" /\ e[m].tag = "value" => n = m
  /\ \A n \in Numbers : /\ e[n].tag = "value" => n \in Known
                        /\ e[n].tag = "unknown" => n \notin Known

\* The occurrences of a known number are those of its value ...
LEMMA KnownOccurrences ==
  ASSUME NEW e, Sound(e), NEW n \in Known, Occurrences(e, n) # << >>
  PROVE  /\ Has(e, n) /\ e[n].value \in ValuesOf(n) /\ e[n] = ValueEntry(e[n].value)
         /\ n \notin Unpacked => Occurrences(e, n) = <<e[n].value>>
         /\ n \in Unpacked => /\ Occurrences(e, n) = Apart(e[n].value)
                              /\ n \notin Scalar /\ e[n].value # << >>
<1>1. n \in Numbers /\ e[n].tag # "unknown"
  BY DescriptorAssumption DEF Sound
<1>2. Has(e, n)
  BY <1>1 DEF Occurrences
<1>3. e[n] \in EntriesOf(n) /\ e[n].tag = "value"
  BY <1>1, <1>2 DEF Sound, Typed, Has
<1>4. PICK v \in ValuesOf(n) : e[n] = ValueEntry(v)
  BY <1>3 DEF EntriesOf, Absent, Taken, UnknownEntry
<1>5. e[n].value = v
  BY <1>4 DEF ValueEntry
<1>6. n \in Unpacked => n \notin Scalar /\ v # << >>
  BY <1>2, <1>5, DescriptorAssumption DEF Has, Shows, Default
<1>7. e[n] = ValueEntry(e[n].value)
  BY <1>4, <1>5
<1>8. n \notin Unpacked => Occurrences(e, n) = <<e[n].value>>
  BY <1>2 DEF Occurrences, Has
<1>9. n \in Unpacked => Occurrences(e, n) = Apart(e[n].value)
  BY <1>2 DEF Occurrences, Has, Apart
<1> QED BY <1>2, <1>4, <1>5, <1>6, <1>7, <1>8, <1>9

\* ... and those of any other number what was read of it.
LEMMA OtherOccurrences ==
  ASSUME NEW e, Sound(e), NEW n \in Numbers \ Known
  PROVE  /\ e[n].tag = "unknown" => /\ Occurrences(e, n) # << >>
                                    /\ e[n] = UnknownEntry(Occurrences(e, n))
                                    /\ Occurrences(e, n) \in Seq(Seq(Atoms))
         /\ e[n].tag # "unknown" => Occurrences(e, n) = << >>
<1>1. e[n].tag # "value" /\ ~Has(e, n)
  BY DEF Sound, Has
<1>2. CASE e[n].tag = "unknown"
  <2>1. e[n] \in EntriesOf(n)
    BY DEF Sound, Typed
  <2>2. PICK vs \in Seq(Seq(Atoms)) \ {<< >>} : e[n] = UnknownEntry(vs)
    BY <1>2, <2>1 DEF EntriesOf, Absent, Taken, ValueEntry
  <2>3. Occurrences(e, n) = vs
    BY <1>1, <1>2, <2>2 DEF Occurrences, UnknownEntry
  <2> QED BY <1>2, <2>2, <2>3
<1>3. CASE e[n].tag # "unknown"
  BY <1>1, <1>3 DEF Occurrences
<1> QED BY <1>2, <1>3

LEMMA SoundIsWritable ==
  ASSUME NEW e, Sound(e)
  PROVE  Writable(e)
<1> SUFFICES ASSUME NEW n \in Numbers PROVE Occurrences(e, n) \in Seq(Seq(Atoms))
  BY DEF Writable
<1>1. << >> \in Seq(Seq(Atoms))
  BY EmptySeq
<1>2. CASE Occurrences(e, n) = << >>
  BY <1>1, <1>2
<1>3. CASE n \in Known /\ Occurrences(e, n) # << >>
  <2> DEFINE v == e[n].value
  <2>1. v \in Seq(Atoms) /\ (Occurrences(e, n) = <<v>> \/ Occurrences(e, n) = Apart(v))
    BY <1>3, KnownOccurrences DEF ValuesOf
  <2> HIDE DEF v
  <2>2. <<v>> \in Seq(Seq(Atoms))
    BY <2>1
  <2>3. Apart(v) \in Seq(Seq(Atoms))
    <3>1. Len(v) \in Nat /\ DOMAIN v = 1..Len(v) /\ \A i \in 1..Len(v) : <<v[i]>> \in Seq(Atoms)
      BY <2>1, LenProperties
    <3>2. Apart(v) \in [1..Len(v) -> Seq(Atoms)]
      BY <3>1 DEF Apart
    <3> QED BY <3>1, <3>2, FunctionIsSeq
  <2> QED BY <2>1, <2>2, <2>3
<1>4. CASE n \notin Known /\ Occurrences(e, n) # << >>
  BY <1>4, OtherOccurrences
<1> QED BY <1>2, <1>3, <1>4

\* What a reader that knows the numbers "known" has of e, when the numbers in S
\* have been read.
After(e, S, known) ==
  [m \in Numbers |-> IF m \notin S \/ Occurrences(e, m) = << >> THEN Absent
                     ELSE IF m \in known THEN ValueEntry(e[m].value)
                     ELSE UnknownEntry(Occurrences(e, m))]

LEMMA AfterIsMessage ==
  ASSUME NEW e, Sound(e), NEW S, NEW known \in SUBSET Known
  PROVE  After(e, S, known) \in Messages
<1> SUFFICES ASSUME NEW m \in Numbers, Occurrences(e, m) # << >>
             PROVE  /\ m \in known => ValueEntry(e[m].value) \in Entry
                    /\ m \notin known => UnknownEntry(Occurrences(e, m)) \in Entry
  <2>1. Absent \in Entry
    BY EmptySeq DEF Absent, Entry, Tags
  <2> QED BY <2>1 DEF After, Messages
<1>1. Occurrences(e, m) \in Seq(Seq(Atoms))
  BY SoundIsWritable DEF Writable
<1>2. UnknownEntry(Occurrences(e, m)) \in Entry
  BY <1>1, EmptySeq DEF UnknownEntry, Entry, Tags
<1>3. m \in known => e[m].value \in Seq(Atoms)
  BY KnownOccurrences DEF ValuesOf
<1>4. m \in known => ValueEntry(e[m].value) \in Entry
  BY <1>3, EmptySeq DEF ValueEntry, Entry, Tags
<1> QED BY <1>2, <1>4

\* The occurrences of one more number take the reader one number on: a rival of
\* its oneof has no occurrences.
LEMMA ReadNumber ==
  ASSUME NEW e, Sound(e), NEW known \in SUBSET Known, NEW w \in Wire,
         NEW S, NEW n \in Numbers \ S, Decode(w, known) = After(e, S, known)
  PROVE  Decode(w \o Tagged(n, Occurrences(e, n)), known) = After(e, S \cup {n}, known)
<1> DEFINE r == After(e, S, known)
           os == Occurrences(e, n)
<1>1. r \in Messages /\ r[n] = Absent
  <2>1. r[n] = Absent
    BY DEF After
  <2> QED BY <2>1, AfterIsMessage
<1>2. os \in Seq(Seq(Atoms))
  BY SoundIsWritable DEF Writable
<1>3. ASSUME os # << >>,
             NEW x, x = IF n \in known THEN ValueEntry(e[n].value) ELSE UnknownEntry(os)
      PROVE  [r EXCEPT ![n] = x] = After(e, S \cup {n}, known)
  BY <1>3 DEF After
<1>4. CASE os = << >>
  <2>1. Decode(w \o Tagged(n, os), known) = r
    <3>1. Tagged(n, os) = << >>
      BY <1>4 DEF Tagged
    <3>2. w \o << >> = w
      BY ConcatEmptySeq DEF Wire
    <3> QED BY <3>1, <3>2
  <2>2. After(e, S \cup {n}, known) = r
    BY <1>4 DEF After
  <2> QED BY <2>1, <2>2
<1>5. CASE os # << >> /\ n \notin known
  <2>1. Decode(w \o Tagged(n, os), known) = [r EXCEPT ![n] = UnknownEntry(os)]
    <3> HIDE DEF r, os
    <3>1. r = Decode(w, known)
      BY DEF r
    <3> QED BY <1>1, <1>2, <1>5, <3>1, ReadUnknown
  <2> QED BY <1>3, <1>5, <2>1
<1>6. CASE os # << >> /\ n \in known
  <2> DEFINE v == e[n].value
  <2>1. n \in Known /\ Has(e, n) /\ v \in ValuesOf(n)
    BY <1>6, KnownOccurrences
  <2>2. ASSUME NEW m \in Rivals(n) \cap known PROVE r[m] = Absent
    <3>1. PICK O \in Oneofs : n \in O /\ m \in O
      BY DEF Rivals
    <3>2. m # n /\ m \in Known /\ m \in Numbers
      BY DescriptorAssumption DEF Rivals
    <3>3. e[m].tag # "value"
      BY <2>1, <3>1, <3>2 DEF Sound, Has
    <3>4. Occurrences(e, m) = << >>
      BY <3>2, <3>3, KnownOccurrences DEF Has
    <3> QED BY <3>2, <3>4 DEF After
  <2>3. Decode(w \o Tagged(n, os), known) = [r EXCEPT ![n] = ValueEntry(v)]
    <3>0. r = Decode(w, known) /\ n \in Numbers /\ n \in known
      BY <1>6
    <3>1. CASE n \in Unpacked
      <4>1. os = Apart(v) /\ n \notin Scalar /\ v # << >> /\ v \in Seq(Atoms)
        BY <1>6, <2>1, <3>1, KnownOccurrences DEF ValuesOf
      <4> HIDE DEF r, os, v
      <4> QED BY <1>1, <2>2, <3>0, <4>1, ReadElements
    <3>2. CASE n \notin Unpacked
      <4>1. os = <<v>>
        BY <1>6, <2>1, <3>2, KnownOccurrences
      <4> HIDE DEF r, os, v
      <4> QED BY <1>1, <2>1, <2>2, <3>0, <4>1, ReadWhole
    <3> QED BY <3>1, <3>2
  <2> QED BY <1>3, <1>6, <2>3
<1> QED BY <1>4, <1>5, <1>6
LEMMA RoundTrip ==
  ASSUME NEW e, Sound(e), NEW known \in SUBSET Known
  PROVE  Decode(Encode(e), known) = After(e, Numbers, known)
<1> DEFINE L == Cardinality(Numbers)
           Done(k) == { InOrder[i] : i \in 1..k }
           At(w, k) == w[k] \in Wire /\ Decode(w[k], known) = After(e, Done(k), known)
<1>1. Writable(e)
  BY SoundIsWritable
<1>2. PICK w : EncodeWalk(w, e)
  BY <1>1, EncodeSteps
<1>3. /\ L \in Nat /\ \A k \in 1..L : InOrder[k] \in Numbers
      /\ \A i, j \in 1..L : i < j => InOrder[i] < InOrder[j]
      /\ \A n \in Numbers : \E i \in 1..L : InOrder[i] = n
  BY InOrderEnumerates
<1>4. /\ w[0] = << >> /\ w[L] = Encode(e)
      /\ \A k \in 1..L : w[k] = w[k - 1] \o Tagged(InOrder[k], Occurrences(e, InOrder[k]))
  BY <1>2 DEF EncodeWalk
<1> DEFINE S == { k \in Nat : k <= L => At(w, k) }
<1> HIDE DEF L
<1>5. 0 \in S
  <2>1. Done(0) = {}
    <3>1. 1..0 = {}
      OBVIOUS
    <3> QED BY <3>1
  <2>2. After(e, {}, known) = Empty
    BY DEF After, Empty
  <2>3. << >> \in Wire /\ Decode(<< >>, known) = Empty
    BY DecodeEmpty, EmptySeq DEF Wire
  <2> QED BY <1>4, <2>1, <2>2, <2>3
<1>6. ASSUME NEW k \in Nat, k \in S PROVE k + 1 \in S
  <2> SUFFICES ASSUME k + 1 <= L PROVE At(w, k + 1)
    OBVIOUS
  <2> DEFINE n == InOrder[k + 1]
  <2>1. k + 1 \in 1..L /\ (k + 1) - 1 = k /\ k <= L
    BY <1>3
  <2>2. At(w, k)
    BY <1>6, <2>1
  <2>3. n \in Numbers /\ n \in Nat
    BY <1>3, <2>1, DescriptorAssumption
  <2>4. n \notin Done(k)
    <3> SUFFICES ASSUME NEW i \in 1..k PROVE InOrder[i] # n
      OBVIOUS
    <3>1. i \in 1..L /\ i < k + 1
      BY <1>3, <2>1
    <3>2. InOrder[i] < n /\ InOrder[i] \in Nat
      BY <1>3, <2>1, <3>1, DescriptorAssumption
    <3> QED BY <2>3, <3>2
  <2>5. Done(k + 1) = Done(k) \cup {n}
    <3>1. 1..k + 1 = (1..k) \cup {k + 1}
      OBVIOUS
    <3> QED BY <3>1
  <2>6. w[k + 1] = w[k] \o Tagged(n, Occurrences(e, n))
    BY <1>4, <2>1
  <2>7. Tagged(n, Occurrences(e, n)) \in Wire
    BY <1>1, <2>3, TaggedOnWire DEF Writable
  <2>8. w[k] \in Wire /\ Decode(w[k], known) = After(e, Done(k), known)
    BY <2>2
  <2>9. w[k + 1] \in Wire
    BY <2>6, <2>7, <2>8, ConcatProperties DEF Wire
  <2>10. Decode(w[k + 1], known) = After(e, Done(k + 1), known)
    <3> HIDE DEF Done, n
    <3>1. Decode(w[k] \o Tagged(n, Occurrences(e, n)), known) = After(e, Done(k) \cup {n}, known)
      BY <2>3, <2>4, <2>8, ReadNumber
    <3> QED BY <2>5, <2>6, <3>1
  <2> QED BY <2>9, <2>10
<1>7. L \in S
  <2> HIDE DEF S
  <2> QED BY <1>3, <1>5, <1>6, SetInduction
<1>8. Decode(w[L], known) = After(e, Done(L), known)
  BY <1>3, <1>7
<1>9. Done(L) = Numbers
  BY <1>3
<1> QED BY <1>4, <1>8, <1>9

\* What an old reader passes on is what the first writer wrote, occurrence by
\* occurrence.
LEMMA SameOccurrences ==
  ASSUME NEW e, Sound(e), NEW known \in SUBSET Known, NEW n \in Numbers
  PROVE  Occurrences(After(e, Numbers, known), n) = Occurrences(e, n)
<1> DEFINE f == After(e, Numbers, known)
<1>1. CASE Occurrences(e, n) = << >>
  <2>1. f[n] = Absent
    BY <1>1 DEF After
  <2> HIDE DEF f
  <2>2. Occurrences(f, n) = << >>
    BY <2>1 DEF Occurrences, Has, Absent
  <2> QED BY <1>1, <2>2 DEF f
<1>2. CASE Occurrences(e, n) # << >> /\ n \in known
  <2>1. Has(e, n) /\ e[n] = ValueEntry(e[n].value)
    BY <1>2, KnownOccurrences
  <2>2. f[n] = e[n]
    BY <1>2, <2>1 DEF After
  <2> HIDE DEF f
  <2>3. Occurrences(f, n) = Occurrences(e, n)
    BY <2>2 DEF Occurrences, Has
  <2> QED BY <2>3 DEF f
<1>3. CASE Occurrences(e, n) # << >> /\ n \notin known
  <2>1. f[n] = UnknownEntry(Occurrences(e, n))
    BY <1>3 DEF After
  <2> HIDE DEF f
  <2>2. Occurrences(f, n) = Occurrences(e, n)
    BY <2>1 DEF Occurrences, Has, UnknownEntry
  <2> QED BY <2>2 DEF f
<1> QED BY <1>1, <1>2, <1>3

\* A reader of the full type sees the message that was written.
LEMMA SameView ==
  ASSUME NEW e, Sound(e)
  PROVE  View(After(e, Numbers, Known)) = View(e)
<1> DEFINE f == After(e, Numbers, Known)
<1> SUFFICES ASSUME NEW n \in Numbers
             PROVE  (IF Has(f, n) \/ f[n].tag = "unknown" THEN f[n] ELSE Absent)
                    = (IF Has(e, n) \/ e[n].tag = "unknown" THEN e[n] ELSE Absent)
  BY DEF View
<1>1. CASE Occurrences(e, n) = << >>
  <2>1. f[n] = Absent
    BY <1>1 DEF After
  <2>2. ~Has(e, n)
    <3>1. ASSUME Has(e, n) PROVE FALSE
      <4>1. n \in Known /\ e[n].tag = "value"
        BY <3>1 DEF Has, Sound
      <4>2. e[n] \in EntriesOf(n)
        BY DEF Sound, Typed
      <4>3. PICK v \in ValuesOf(n) : e[n] = ValueEntry(v)
        BY <4>1, <4>2 DEF EntriesOf, Absent, Taken, UnknownEntry
      <4>4. v \in Seq(Atoms) /\ e[n].value = v
        BY <4>3 DEF ValueEntry, ValuesOf
      <4>5. CASE n \in Unpacked
        <5>1. Apart(v) = << >>
          <6>1. Occurrences(e, n) = Apart(e[n].value)
            BY <3>1, <4>5 DEF Occurrences, Has, Apart
          <6> QED BY <1>1, <4>4, <6>1
        <5>2. DOMAIN v = {}
          BY <5>1 DEF Apart
        <5>3. v = << >>
          BY <4>4, <5>2, EmptySeq, LenProperties
        <5>4. n \notin Scalar /\ n \notin Presence
          BY <4>5, DescriptorAssumption
        <5>5. ~Shows(n, v)
          BY <5>3, <5>4 DEF Shows, Default
        <5> QED BY <3>1, <4>4, <5>5 DEF Has
      <4>6. CASE n \notin Unpacked
        BY <1>1, <3>1, <4>6 DEF Occurrences, Has
      <4> QED BY <4>5, <4>6
    <3> QED BY <3>1
  <2>3. e[n].tag # "unknown"
    BY <1>1, OtherOccurrences DEF Sound
  <2> HIDE DEF f
  <2> QED BY <2>1, <2>2, <2>3 DEF Absent, Has
<1>2. CASE Occurrences(e, n) # << >> /\ n \in Known
  <2>1. Has(e, n) /\ e[n] = ValueEntry(e[n].value)
    BY <1>2, KnownOccurrences
  <2>2. f[n] = e[n]
    BY <1>2, <2>1 DEF After
  <2> HIDE DEF f
  <2> QED BY <2>2 DEF Has
<1>3. CASE Occurrences(e, n) # << >> /\ n \notin Known
  <2>1. e[n].tag = "unknown" /\ e[n] = UnknownEntry(Occurrences(e, n))
    BY <1>3, OtherOccurrences
  <2>2. f[n] = e[n]
    BY <1>3, <2>1 DEF After
  <2> HIDE DEF f
  <2> QED BY <2>2 DEF Has
<1> QED BY <1>1, <1>2, <1>3

\* OldReadersPreserve, for entries that the invariants allow.
LEMMA SoundPreserved ==
  ASSUME NEW e, Sound(e), NEW known \in SUBSET Known
  PROVE  View(Decode(Encode(Decode(Encode(e), known)), Known)) = View(e)
<1> DEFINE f == After(e, Numbers, known)
<1>1. Decode(Encode(e), known) = f
  BY RoundTrip
<1>2. Encode(f) = Encode(e)
  <2>1. \A n \in Numbers : Occurrences(f, n) = Occurrences(e, n)
    BY SameOccurrences
  <2> HIDE DEF f
  <2> QED BY <2>1, SoundIsWritable, SameOccurrencesSameWire
<1>3. Decode(Encode(e), Known) = After(e, Numbers, Known)
  BY RoundTrip
<1> QED BY <1>1, <1>2, <1>3, SameView

\* "Unknown fields are preserved when decoding and re-encoding a message": whatever
\* operations built the message and whichever of its fields the reader in between
\* knows, the bytes it writes give a reader of the full type the message of the
\* first writer (encode_raw, merge_field, add_unknown), as long as the message is
\* reached through descriptors of its own pool only.
THEOREM OldReadersKeepFields ==
  ASSUME Late = {}
  PROVE  Spec => []OldReadersPreserve
<1>1. TypedInv /\ OneofExclusive /\ ValuesAreKnown => OldReadersPreserve
  <2> SUFFICES ASSUME TypedInv, OneofExclusive, ValuesAreKnown, NEW known \in SUBSET Known
               PROVE  View(Decode(Encode(Decode(Encode(entry), known)), Known)) = View(entry)
    BY DEF OldReadersPreserve
  <2>1. Sound(entry)
    BY DEF Sound, TypedInv, OneofExclusive, ValuesAreKnown
  <2> QED BY <2>1, SoundPreserved
<1>2. Init => TypedInv /\ OneofExclusive /\ ValuesAreKnown
  BY TypedInit, OneofInit DEF TypedInv, Init, Empty, Absent, ValuesAreKnown
<1>3. /\ TypedInv /\ OneofExclusive /\ ValuesAreKnown /\ [Next]_vars
      => TypedInv' /\ OneofExclusive' /\ ValuesAreKnown'
  BY TypedStep, OneofStep, KnownStep DEF TypedInv
<1> QED BY <1>1, <1>2, <1>3, PTL DEF Spec
=============================================================================
