--------------------------- MODULE DeclarationsProofs ---------------------------
(***************************************************************************)
(* Theorems about Declarations, for every set of files: lookups lead where *)
(* they should, the values of an enum stay sorted, a file is accepted      *)
(* exactly when it keeps the rules, and the two readers of quoted bytes    *)
(* agree.                                                                  *)
(*                                                                         *)
(* The second half is about the readers: each is a function of positions   *)
(* that takes its value from later positions, so it is the one solution of *)
(* its equation, and the two are compared step by step from the end.       *)
(***************************************************************************)
EXTENDS Declarations, FoldTheorems

\* What is appended to a sequence is at its end, and nothing else moves.
LEMMA AppendFacts ==
  ASSUME NEW s, NEW x, s \in Seq(Range(s))
  PROVE  /\ Append(s, x) \in Seq(Range(Append(s, x)))
         /\ Len(s) \in Nat /\ DOMAIN s = 1..Len(s)
         /\ Len(Append(s, x)) = Len(s) + 1
         /\ DOMAIN Append(s, x) = 1..(Len(s) + 1)
         /\ \A i \in 1..Len(s) : Append(s, x)[i] = s[i]
         /\ Append(s, x)[Len(s) + 1] = x
<1> DEFINE T == Range(s) \cup {x}
<1>1. s \in Seq(T)
  <2>1. \A i \in 1..Len(s) : s[i] \in T
    BY DEF Range
  <2> QED BY <2>1
<1>2. Append(s, x) \in Seq(T) /\ Len(Append(s, x)) = Len(s) + 1
      /\ \A i \in 1..Len(s) : Append(s, x)[i] = s[i]
  BY <1>1
<1>3. Append(s, x)[Len(s) + 1] = x
  BY <1>1
<1>4. DOMAIN Append(s, x) = 1..(Len(s) + 1) /\ DOMAIN s = 1..Len(s) /\ Len(s) \in Nat
  BY <1>1, <1>2
<1>5. \A i \in 1..(Len(s) + 1) : Append(s, x)[i] \in Range(Append(s, x))
  BY <1>4 DEF Range
<1> QED BY <1>2, <1>3, <1>4, <1>5

\* The same for indices in ascending order.
LEMMA AppendIndex ==
  ASSUME NEW n \in Nat, NEW s \in Seq(1..n)
  PROVE  /\ s \in Seq(1..(n + 1)) /\ Append(s, n + 1) \in Seq(1..(n + 1))
         /\ Range(Append(s, n + 1)) = Range(s) \cup {n + 1}
         /\ (\A j, k \in DOMAIN s : j < k => s[j] < s[k]) =>
              \A j, k \in DOMAIN Append(s, n + 1) : j < k => Append(s, n + 1)[j] < Append(s, n + 1)[k]
<1> DEFINE t == Append(s, n + 1)
<1>1. Len(s) \in Nat /\ DOMAIN s = 1..Len(s) /\ \A j \in 1..Len(s) : s[j] \in 1..n
  OBVIOUS
<1>2. s \in Seq(1..(n + 1))
  BY <1>1
<1>3. t \in Seq(1..(n + 1)) /\ DOMAIN t = 1..(Len(s) + 1)
      /\ (\A j \in 1..Len(s) : t[j] = s[j]) /\ t[Len(s) + 1] = n + 1
  BY <1>1, <1>2
<1> HIDE DEF t
<1>4. Range(t) = Range(s) \cup {n + 1}
  <2>1. ASSUME NEW j \in DOMAIN t
        PROVE  t[j] \in Range(s) \cup {n + 1}
    <3>1. j \in 1..Len(s) \/ j = Len(s) + 1
      BY <1>1, <1>3
    <3>2. CASE j \in 1..Len(s)
      <4>1. t[j] = s[j] /\ j \in DOMAIN s
        BY <1>1, <1>3, <3>2
      <4> QED BY <4>1 DEF Range
    <3>3. CASE j = Len(s) + 1
      BY <1>3, <3>3
    <3> QED BY <3>1, <3>2, <3>3
  <2>2. \A j \in DOMAIN s : s[j] \in Range(t)
    <3> SUFFICES ASSUME NEW j \in DOMAIN s PROVE s[j] \in Range(t)
      OBVIOUS
    <3>1. j \in DOMAIN t /\ t[j] = s[j]
      BY <1>1, <1>3
    <3> QED BY <3>1 DEF Range
  <2>3. n + 1 \in Range(t)
    <3>1. Len(s) + 1 \in DOMAIN t
      BY <1>1, <1>3
    <3> QED BY <1>3, <3>1 DEF Range
  <2> HIDE DEF t
  <2> QED BY ONLY <2>1, <2>2, <2>3 DEF Range
<1>5. (\A j, k \in DOMAIN s : j < k => s[j] < s[k]) => \A j, k \in DOMAIN t : j < k => t[j] < t[k]
  <2> SUFFICES ASSUME \A j, k \in DOMAIN s : j < k => s[j] < s[k],
                      NEW j \in DOMAIN t, NEW k \in DOMAIN t, j < k
               PROVE  t[j] < t[k]
    OBVIOUS
  <2>1. CASE k = Len(s) + 1
    <3>1. j \in 1..Len(s) /\ t[j] = s[j] /\ s[j] \in 1..n
      BY <1>1, <1>3, <2>1
    <3>2. t[k] = n + 1
      BY <1>3, <2>1
    <3> QED BY <3>1, <3>2
  <2>2. CASE k # Len(s) + 1
    <3>1. j \in DOMAIN s /\ k \in DOMAIN s
      BY SMTT(60), <1>1, <1>3, <2>2
    <3> QED BY <1>1, <1>3, <3>1
  <2> QED BY <2>1, <2>2
<1> QED BY <1>2, <1>3, <1>4, <1>5 DEF t

\* A map into which the next index is put still leads to indices.
LEMMA PutRange ==
  ASSUME NEW n \in Nat, NEW map, NEW k, Range(map) \subseteq 1..n
  PROVE  Range(Put(map, k, n + 1)) \subseteq 1..(n + 1)
<1>1. \A x \in DOMAIN map : map[x] \in 1..n
  BY DEF Range
<1>2. \A x \in DOMAIN Put(map, k, n + 1) : Put(map, k, n + 1)[x] \in 1..(n + 1)
  BY <1>1 DEF Put
<1> QED BY <1>2 DEF Range

-----------------------------------------------------------------------------
(* The invariant.                                                          *)

\* The shape of the state, the bound that every index respects, and what the
\* first phase leaves alone.
Shape ==
  /\ proto \in Protos
  /\ message = [fields |-> message.fields, numbers |-> message.numbers, names |-> message.names,
                jsonNames |-> message.jsonNames, oneofs |-> message.oneofs,
                extensions |-> message.extensions]
  /\ enum = [numbers |-> enum.numbers, names |-> enum.names]
  /\ DOMAIN message.oneofs \subseteq Int
  /\ exts \in Seq(Range(exts))
  /\ phase = "names" => errors = {}

\* The inductive invariant of the tables.
IInv == TypeOK /\ Shape /\ FieldsFound /\ ValuesFound

\* Nothing is declared yet, so nothing is wrong with the tables.
LEMMA InitInv == Init => IInv
<1> SUFFICES ASSUME Init PROVE IInv
  OBVIOUS
<1>1. TypeOK
  BY DEF Init, TypeOK, Empty, IsMap, Range, Visited, ProtosAssumption
<1>2. Shape
  BY DEF Init, Shape, Range
<1>3. FieldsFound
  BY DEF Init, FieldsFound, Finds, Numbers, NamesOf, JsonNames, Members, Range, Empty
<1>4. ValuesFound
  BY DEF Init, ValuesFound
<1> QED BY <1>1, <1>2, <1>3, <1>4 DEF IInv

\* The first phase changes none of the tables.
LEMMA NamesStep == IInv /\ DeclareNames => IInv'
<1> SUFFICES ASSUME IInv, DeclareNames PROVE IInv'
  OBVIOUS
<1> USE DEF IInv
<1>1. TypeOK'
  BY DEF DeclareNames, TypeOK, Visited
<1>2. Shape'
  BY DEF DeclareNames, Shape
<1>3. FieldsFound' /\ ValuesFound'
  BY DEF DeclareNames, Shape, FieldsFound, ValuesFound, Members
<1> QED BY <1>1, <1>2, <1>3

\* The end of the second phase, and a default that panics, leave the tables alone.
LEMMA EndStep == IInv /\ EndResolve => IInv'
<1> SUFFICES ASSUME IInv, EndResolve PROVE IInv'
  OBVIOUS
<1> USE DEF IInv
<1>1. TypeOK' /\ Shape'
  BY DEF EndResolve, TypeOK, Visited, Shape
<1>2. FieldsFound' /\ ValuesFound'
  BY DEF EndResolve, FieldsFound, ValuesFound, Members
<1> QED BY <1>1, <1>2

LEMMA PanicStep == \A f : IInv /\ phase = "resolve" /\ DefaultPanics(f) => IInv'
<1> SUFFICES ASSUME NEW f, IInv, phase = "resolve", DefaultPanics(f) PROVE IInv'
  OBVIOUS
<1> USE DEF IInv
<1>1. TypeOK' /\ Shape'
  BY DEF DefaultPanics, TypeOK, Visited, Shape
<1>2. FieldsFound' /\ ValuesFound'
  BY DEF DefaultPanics, FieldsFound, ValuesFound, Members
<1> QED BY <1>1, <1>2

\* A field that is entered without a new error has keys no other field has.
LEMMA FieldStep ==
  ASSUME NEW f, IInv, phase = "resolve", f.number \in Int, Visited < Len(proto.fields),
         EnterField(f), UNCHANGED <<proto, phase, exts, enum>>
  PROVE  IInv'
<1> DEFINE n == Visited  i == n + 1  x == Field(proto, f)
<1> USE DEF IInv
<1>1. /\ message.fields \in Seq(Range(message.fields)) /\ n \in Nat /\ DOMAIN message.fields = 1..n
      /\ message'.fields = Append(message.fields, x)
      /\ message'.numbers = Put(message.numbers, f.number, i)
      /\ message'.names = Put(message.names, f.name, i)
      /\ message'.jsonNames = Put(message.jsonNames, JsonName(f), i)
      /\ message'.oneofs = [o \in DOMAIN message.oneofs |->
                              IF o = f.oneof THEN Append(message.oneofs[o], i) ELSE message.oneofs[o]]
      /\ message'.extensions = message.extensions
      /\ message' = [fields |-> message'.fields, numbers |-> message'.numbers, names |-> message'.names,
                     jsonNames |-> message'.jsonNames, oneofs |-> message'.oneofs,
                     extensions |-> message'.extensions]
  <2>1. message.fields \in Seq(Range(message.fields)) /\ n \in Nat /\ DOMAIN message.fields = 1..n
    BY DEF TypeOK, Visited
  <2>2. DOMAIN message = {"fields", "numbers", "names", "jsonNames", "oneofs", "extensions"}
    BY DEF Shape
  <2>3. message' = [message EXCEPT
                      !.fields = Append(@, x), !.numbers = Put(@, f.number, i), !.names = Put(@, f.name, i),
                      !.jsonNames = Put(@, JsonName(f), i),
                      !.oneofs = [o \in DOMAIN @ |-> IF o = f.oneof THEN Append(@[o], i) ELSE @[o]]]
    BY DEF EnterField, FieldIndex
  <2> QED BY <2>1, <2>2, <2>3
<1>2. /\ message'.fields \in Seq(Range(message'.fields)) /\ DOMAIN message'.fields = 1..i
      /\ Len(message'.fields) = i
      /\ \A j \in 1..n : message'.fields[j] = message.fields[j]
      /\ message'.fields[i] = x
  BY <1>1, AppendFacts DEF Visited
<1>3. x.number = f.number /\ x.name = f.name /\ x.json = JsonName(f)
      /\ x.oneof = IF f.oneof \in DOMAIN message.oneofs THEN f.oneof ELSE None
  BY DEF Field
<1>4. \A o \in DOMAIN message.oneofs :
         /\ message.oneofs[o] \in Seq(1..n)
         /\ message'.oneofs[o] = IF o = f.oneof THEN Append(message.oneofs[o], i) ELSE message.oneofs[o]
  BY <1>1 DEF TypeOK
<1>5. TypeOK'
  <2>1. IsMap(message'.numbers, Int)
    BY <1>1 DEF IsMap, Put, TypeOK
  <2>2. Range(message'.numbers) \subseteq 1..i /\ Range(message'.names) \subseteq 1..i
        /\ Range(message'.jsonNames) \subseteq 1..i
    <3>1. Range(message.numbers) \subseteq 1..n /\ Range(message.names) \subseteq 1..n
          /\ Range(message.jsonNames) \subseteq 1..n
      BY <1>1 DEF TypeOK
    <3> QED BY <1>1, <3>1, PutRange
  <2>3. \A o \in DOMAIN message'.oneofs : message'.oneofs[o] \in Seq(1..i)
    <3>1. \A o \in DOMAIN message.oneofs :
            message.oneofs[o] \in Seq(1..i) /\ Append(message.oneofs[o], i) \in Seq(1..i)
      BY <1>1, <1>4, AppendIndex
    <3> QED BY <1>1, <1>4, <3>1
  <2>4. /\ phase' \in {"names", "resolve", "accepted", "refused", "panicked"}
        /\ enum'.numbers \in Seq([number : Int, value : 1..Len(enum'.numbers)])
        /\ message'.extensions = [e \in DOMAIN exts' |-> e]
    BY <1>1 DEF TypeOK
  <2>5. Visited' <= Len(proto'.fields)
    BY <1>1, <1>2 DEF Visited
  <2> QED BY <1>2, <2>1, <2>2, <2>3, <2>4, <2>5 DEF TypeOK
<1>6. Shape'
  BY <1>1 DEF Shape
<1>7. FieldsFound'
  <2> SUFFICES ASSUME errors' = {} PROVE FieldsFound'
    BY DEF FieldsFound
  <2>1. errors = {} /\ f.number \notin DOMAIN message.numbers /\ f.name \notin DOMAIN message.names
        /\ JsonName(f) \notin DOMAIN message.jsonNames
    BY DEF EnterField, Replaces, ErrorIf
  <2>2. FieldsFound /\ Range(message.numbers) \subseteq 1..n /\ Range(message.names) \subseteq 1..n
        /\ Range(message.jsonNames) \subseteq 1..n
    BY <1>1 DEF TypeOK
  <2>3. Finds(message'.numbers, Numbers(message'.fields))
    <3>1. Finds(message.numbers, Numbers(message.fields))
      BY <2>1, <2>2 DEF FieldsFound
    <3>2. DOMAIN Numbers(message.fields) = 1..n /\ DOMAIN Numbers(message'.fields) = 1..(n + 1)
          /\ (\A j \in 1..n : Numbers(message'.fields)[j] = Numbers(message.fields)[j])
          /\ Numbers(message'.fields)[n + 1] = f.number
      BY <1>1, <1>2, <1>3 DEF Numbers
    <3>3. \A k \in DOMAIN message.numbers : message.numbers[k] \in 1..n
      BY <2>2 DEF Range
    <3>4. Finds(Put(message.numbers, f.number, n + 1), Numbers(message'.fields))
      <4> DEFINE keys == Numbers(message.fields)  more == Numbers(message'.fields)
                 map == message.numbers  key == f.number
      <4>1. /\ n \in Nat /\ key \notin DOMAIN map /\ Finds(map, keys) /\ DOMAIN keys = 1..n
            /\ \A k \in DOMAIN map : map[k] \in 1..n
            /\ DOMAIN more = 1..(n + 1) /\ more[n + 1] = key
            /\ \A j \in 1..n : more[j] = keys[j]
        BY <1>1, <2>1, <3>1, <3>2, <3>3
      <4> HIDE DEF keys, more, map, key, n
      <4>2. Finds(Put(map, key, n + 1), more)
        BY ONLY <4>1 DEF Finds, Put
      <4> QED BY <4>2 DEF keys, more, map, key
    <3> QED BY <1>1, <3>4
  <2>4. Finds(message'.names, NamesOf(message'.fields))
    <3>1. Finds(message.names, NamesOf(message.fields))
      BY <2>1, <2>2 DEF FieldsFound
    <3>2. DOMAIN NamesOf(message.fields) = 1..n /\ DOMAIN NamesOf(message'.fields) = 1..(n + 1)
          /\ (\A j \in 1..n : NamesOf(message'.fields)[j] = NamesOf(message.fields)[j])
          /\ NamesOf(message'.fields)[n + 1] = f.name
      BY <1>1, <1>2, <1>3 DEF NamesOf
    <3>3. \A k \in DOMAIN message.names : message.names[k] \in 1..n
      BY <2>2 DEF Range
    <3>4. Finds(Put(message.names, f.name, n + 1), NamesOf(message'.fields))
      <4> DEFINE keys == NamesOf(message.fields)  more == NamesOf(message'.fields)
                 map == message.names  key == f.name
      <4>1. /\ n \in Nat /\ key \notin DOMAIN map /\ Finds(map, keys) /\ DOMAIN keys = 1..n
            /\ \A k \in DOMAIN map : map[k] \in 1..n
            /\ DOMAIN more = 1..(n + 1) /\ more[n + 1] = key
            /\ \A j \in 1..n : more[j] = keys[j]
        BY <1>1, <2>1, <3>1, <3>2, <3>3
      <4> HIDE DEF keys, more, map, key, n
      <4>2. Finds(Put(map, key, n + 1), more)
        BY ONLY <4>1 DEF Finds, Put
      <4> QED BY <4>2 DEF keys, more, map, key
    <3> QED BY <1>1, <3>4
  <2>5. Finds(message'.jsonNames, JsonNames(message'.fields))
    <3>1. Finds(message.jsonNames, JsonNames(message.fields))
      BY <2>1, <2>2 DEF FieldsFound
    <3>2. DOMAIN JsonNames(message.fields) = 1..n /\ DOMAIN JsonNames(message'.fields) = 1..(n + 1)
          /\ (\A j \in 1..n : JsonNames(message'.fields)[j] = JsonNames(message.fields)[j])
          /\ JsonNames(message'.fields)[n + 1] = JsonName(f)
      BY <1>1, <1>2, <1>3 DEF JsonNames
    <3>3. \A k \in DOMAIN message.jsonNames : message.jsonNames[k] \in 1..n
      BY <2>2 DEF Range
    <3>4. Finds(Put(message.jsonNames, JsonName(f), n + 1), JsonNames(message'.fields))
      <4> DEFINE keys == JsonNames(message.fields)  more == JsonNames(message'.fields)
                 map == message.jsonNames  key == JsonName(f)
      <4>1. /\ n \in Nat /\ key \notin DOMAIN map /\ Finds(map, keys) /\ DOMAIN keys = 1..n
            /\ \A k \in DOMAIN map : map[k] \in 1..n
            /\ DOMAIN more = 1..(n + 1) /\ more[n + 1] = key
            /\ \A j \in 1..n : more[j] = keys[j]
        BY <1>1, <2>1, <3>1, <3>2, <3>3
      <4> HIDE DEF keys, more, map, key, n
      <4>2. Finds(Put(map, key, n + 1), more)
        BY ONLY <4>1 DEF Finds, Put
      <4> QED BY <4>2 DEF keys, more, map, key
    <3> QED BY <1>1, <3>4
  <2>6. ASSUME NEW o \in DOMAIN message'.oneofs
        PROVE  /\ Range(message'.oneofs[o]) = Members(o)'
               /\ \A j, k \in DOMAIN message'.oneofs[o] :
                    j < k => message'.oneofs[o][j] < message'.oneofs[o][k]
    <3>1. o \in DOMAIN message.oneofs /\ o \in Int /\ o # None
      BY <1>1, NoneAssumption DEF Shape
    <3>2. Range(message.oneofs[o]) = Members(o)
          /\ \A j, k \in DOMAIN message.oneofs[o] : j < k => message.oneofs[o][j] < message.oneofs[o][k]
      BY <2>1, <2>2, <3>1 DEF FieldsFound
    <3>3. Members(o)' = IF o = f.oneof THEN Members(o) \cup {i} ELSE Members(o)
      BY <1>1, <1>2, <1>3, <3>1 DEF Members
    <3>4. CASE o = f.oneof
      <4>1. message.oneofs[o] \in Seq(1..n) /\ message'.oneofs[o] = Append(message.oneofs[o], i)
        BY <1>4, <3>1, <3>4
      <4>2. Range(message'.oneofs[o]) = Range(message.oneofs[o]) \cup {i}
        BY <1>1, <4>1, AppendIndex
      <4>3. \A j, k \in DOMAIN message'.oneofs[o] : j < k => message'.oneofs[o][j] < message'.oneofs[o][k]
        BY <1>1, <3>2, <4>1, AppendIndex
      <4> QED BY <3>2, <3>3, <3>4, <4>2, <4>3
    <3>5. CASE o # f.oneof
      BY <1>4, <3>1, <3>2, <3>3, <3>5
    <3> QED BY <3>4, <3>5
  <2> QED BY <2>3, <2>4, <2>5, <2>6 DEF FieldsFound
<1>8. ValuesFound'
  <2>1. errors' = {} => errors = {}
    BY DEF EnterField
  <2> QED BY <2>1 DEF ValuesFound
<1> QED BY <1>5, <1>6, <1>7, <1>8

\* Numbers in ascending order, of different values.
InOrder(s) == \A j, k \in DOMAIN s : j < k => s[j].number <= s[k].number /\ s[j].value # s[k].value

\* A table of n values into which the number of the next one is inserted, at a
\* place the binary search may give, and what then holds of the new table.
Insertion(n, s, number, at, x, t) ==
  /\ n \in Nat /\ s \in Seq([number : Int, value : 1..n]) /\ Len(s) = n /\ number \in Int
  /\ InOrder(s) /\ at \in Places(s, number)
  /\ x = [number |-> number, value |-> n + 1] /\ t = Inserted(s, at, x)

\* The new table has the old elements and the new one, and is in order.
StillInOrder(n, s, number, x, t) ==
  /\ t \in Seq([number : Int, value : 1..(n + 1)]) /\ Len(t) = n + 1
  /\ \A j \in DOMAIN t : t[j] = x \/ \E i \in DOMAIN s : t[j] = s[i]
  /\ InOrder(t)
  /\ (\A i \in DOMAIN s : s[i].number # number) =>
       ((\A j, k \in DOMAIN s : j < k => s[j].number < s[k].number) =>
          \A j, k \in DOMAIN t : j < k => t[j].number < t[k].number)

\* What is inserted where the binary search says leaves a table sorted.
LEMMA InsertedFacts ==
  \A n, s, number, at, x, t : Insertion(n, s, number, at, x, t) => StillInOrder(n, s, number, x, t)
<1> SUFFICES ASSUME NEW n \in Nat, NEW s \in Seq([number : Int, value : 1..n]), Len(s) = n, NEW number \in Int,
                    InOrder(s), NEW at \in Places(s, number),
                    NEW x, x = [number |-> number, value |-> n + 1], NEW t, t = Inserted(s, at, x)
             PROVE  StillInOrder(n, s, number, x, t)
  BY DEF Insertion
<1>0. number \in Int
  OBVIOUS
<1> USE DEF InOrder
<1>1. DOMAIN s = 1..n /\ \A j \in 1..n : s[j] \in [number : Int, value : 1..n]
  <2> DEFINE T == [number : Int, value : 1..n]
  <2>1. n \in Nat /\ s \in Seq(T) /\ Len(s) = n
    OBVIOUS
  <2> HIDE DEF T
  <2>2. DOMAIN s = 1..n /\ \A j \in 1..n : s[j] \in T
    BY ONLY <2>1
  <2> QED BY <2>2 DEF T
<1>2. \A j \in 1..n : s[j].number \in Int /\ s[j].value \in 1..n
  BY <1>1
<1>3. at \in 1..(n + 1) /\ \A j \in 1..n : IF j < at THEN s[j].number <= number
                                         ELSE s[j].number >= number
  <2>1. CASE \E i \in 1..n : s[i].number = number
    <3>1. at \in 1..n /\ s[at].number = number
      BY <1>1, <2>1 DEF Places
    <3>2. ASSUME NEW j \in 1..n
          PROVE  IF j < at THEN s[j].number <= number ELSE s[j].number >= number
      <4>1. (j < at => s[j].number <= s[at].number) /\ (at < j => s[at].number <= s[j].number)
        BY <1>1, <3>1
      <4> QED BY <1>2, <3>1, <4>1
    <3> QED BY <3>1, <3>2
  <2>2. CASE ~\E i \in 1..n : s[i].number = number
    <3>1. at \in 1..(n + 1) /\ \A j \in 1..n : IF j < at THEN s[j].number < number ELSE s[j].number > number
      BY <1>1, <2>2 DEF Places
    <3> QED BY <1>2, <3>1
  <2> QED BY <2>1, <2>2
<1>4. t = [j \in 1..(n + 1) |-> IF j < at THEN s[j] ELSE IF j = at THEN x ELSE s[j - 1]]
  BY DEF Inserted
<1>5. x.number = number /\ x.value = n + 1 /\ x \in [number : Int, value : 1..(n + 1)]
  OBVIOUS
<1>6. \A j \in 1..(n + 1) :
        /\ j < at => j \in 1..n /\ t[j] = s[j]
        /\ j = at => t[j] = x
        /\ j > at => j - 1 \in 1..n /\ j - 1 >= at /\ t[j] = s[j - 1]
  BY <1>3, <1>4
<1>7. \A j \in 1..n : s[j] \in [number : Int, value : 1..(n + 1)]
  BY <1>1
<1>8. t \in Seq([number : Int, value : 1..(n + 1)]) /\ Len(t) = n + 1 /\ DOMAIN t = 1..(n + 1)
  <2> DEFINE T == [number : Int, value : 1..(n + 1)]  m == n + 1
  <2>1. x \in T /\ \A j \in 1..n : s[j] \in T
    BY <1>5, <1>7
  <2>2. m \in Nat /\ DOMAIN t = 1..m
    BY <1>4
  <2> HIDE DEF T
  <2>3. \A j \in 1..m : t[j] \in T
    <3> SUFFICES ASSUME NEW j \in 1..(n + 1) PROVE t[j] \in T
      OBVIOUS
    <3>1. j < at \/ j = at \/ j > at
      BY <1>3
    <3> QED BY <1>6, <2>1, <3>1
  <2>4. t \in [1..m -> T]
    BY <1>4, <2>3
  <2> HIDE DEF m
  <2>5. t \in Seq(T) /\ Len(t) = m /\ DOMAIN t = 1..m
    BY ONLY <2>2, <2>4
  <2> QED BY <2>5 DEF T, m
<1>9. DOMAIN t = 1..(n + 1)
  BY <1>8
<1>10. \A j \in DOMAIN t : t[j] = x \/ \E i \in DOMAIN s : t[j] = s[i]
  <2>1. ASSUME NEW j \in 1..(n + 1) PROVE t[j] = x \/ \E i \in 1..n : t[j] = s[i]
    <3>1. j < at \/ j = at \/ j > at
      BY <1>3
    <3> QED BY <1>6, <3>1
  <2> QED BY ONLY <1>1, <1>9, <2>1
<1>11. ASSUME NEW j \in DOMAIN t, NEW k \in DOMAIN t, j < k
       PROVE  /\ t[j].number <= t[k].number /\ t[j].value # t[k].value
              /\ (\A i \in DOMAIN s : s[i].number # number) =>
                   ((\A a, b \in DOMAIN s : a < b => s[a].number < s[b].number) =>
                      t[j].number < t[k].number)
  <2>1. j \in 1..(n + 1) /\ k \in 1..(n + 1)
    BY ONLY <1>9, <1>11
  <2>2. ASSUME NEW a \in 1..n, NEW b \in 1..n, a < b
        PROVE  /\ s[a].number <= s[b].number /\ s[a].value # s[b].value
               /\ (\A c, d \in DOMAIN s : c < d => s[c].number < s[d].number) => s[a].number < s[b].number
    BY <1>1, <2>2
  <2>3. ASSUME NEW a \in 1..n
        PROVE  /\ s[a].value # x.value
               /\ a < at => /\ s[a].number <= x.number
                            /\ (\A i \in DOMAIN s : s[i].number # number) => s[a].number < x.number
               /\ ~(a < at) => /\ x.number <= s[a].number
                               /\ (\A i \in DOMAIN s : s[i].number # number) => x.number < s[a].number
    <3>1. s[a].number \in Int /\ s[a].value # x.value
      BY <1>2, <1>5
    <3>2. (\A i \in DOMAIN s : s[i].number # number) => s[a].number # x.number
      BY <1>1, <1>5
    <3>3. (a < at => s[a].number <= x.number) /\ (~(a < at) => x.number <= s[a].number)
      BY <1>3, <1>5
    <3> QED BY ONLY <1>5, <3>1, <3>2, <3>3, <1>0
  <2>4. CASE k = at
    <3>1. t[k] = x /\ j \in 1..n /\ j < at /\ t[j] = s[j]
      BY <1>6, <1>11, <2>1, <2>4
    <3> QED BY <2>3, <3>1
  <2>5. CASE j = at
    <3>1. t[j] = x /\ k - 1 \in 1..n /\ ~(k - 1 < at) /\ t[k] = s[k - 1]
      <4>1. k > at
        BY ONLY <1>11, <2>5
      <4> QED BY <1>3, <1>6, <2>1, <2>5, <4>1
    <3> QED BY <2>3, <3>1
  <2>6. CASE j < at /\ k > at
    <3>1. j \in 1..n /\ k - 1 \in 1..n /\ t[j] = s[j] /\ t[k] = s[k - 1]
      BY <1>6, <2>1, <2>6
    <3>2. j < k - 1
      BY <1>3, <2>1, <2>6
    <3> QED BY <2>2, <3>1, <3>2
  <2>7. CASE j < at /\ k < at
    <3>1. j \in 1..n /\ k \in 1..n /\ t[j] = s[j] /\ t[k] = s[k]
      BY <1>6, <2>1, <2>7
    <3> QED BY <1>11, <2>2, <3>1
  <2>8. CASE j > at /\ k > at
    <3>1. j - 1 \in 1..n /\ k - 1 \in 1..n /\ t[j] = s[j - 1] /\ t[k] = s[k - 1]
      BY <1>6, <2>1, <2>8
    <3>2. j - 1 < k - 1
      BY <1>11, <2>1
    <3> QED BY <2>2, <3>1, <3>2
  <2>9. k = at \/ j = at \/ (j < at /\ k > at) \/ (j < at /\ k < at) \/ (j > at /\ k > at)
    BY <1>3, <1>11, <2>1
  <2> QED BY ONLY <2>4, <2>5, <2>6, <2>7, <2>8, <2>9
<1> QED BY ONLY <1>8, <1>10, <1>11 DEF StillInOrder, InOrder

\* A value is inserted in order, and maps to itself under its name.
LEMMA ValueStep == IInv /\ VisitEnumValue => IInv'
<1> SUFFICES ASSUME IInv, VisitEnumValue PROVE IInv'
  OBVIOUS
<1> USE DEF IInv
<1> DEFINE s == enum.numbers  n == Len(s)  v == proto.values[n + 1]  t == enum'.numbers
           x == [number |-> v.number, value |-> n + 1]
<1>1. PICK at \in Places(s, v.number) :
        enum' = [numbers |-> Inserted(s, at, x), names |-> Put(enum.names, v.name, n + 1)]
  BY DEF VisitEnumValue
<1>2. s \in Seq([number : Int, value : 1..n]) /\ n \in Nat /\ DOMAIN s = 1..n
  BY DEF TypeOK
<1>3. v.number \in Int
  <2>1. proto.values \in Seq(Range(proto.values)) /\ \A i \in DOMAIN proto.values : proto.values[i].number \in Int
    BY ProtosAssumption DEF Shape
  <2>2. n + 1 \in DOMAIN proto.values
    BY <1>2, <2>1 DEF VisitEnumValue
  <2> QED BY <2>1, <2>2
<1>4. /\ InOrder(s)
      /\ \A j \in DOMAIN s : s[j].number = proto.values[s[j].value].number
      /\ errors = {} /\ ~proto.allowAlias => \A j, k \in DOMAIN s : j < k => s[j].number < s[k].number
  BY DEF ValuesFound, InOrder
<1>5. t = Inserted(s, at, x) /\ enum' = [numbers |-> t, names |-> enum'.names]
  BY <1>1
<1>6. x.number = v.number /\ x.value = n + 1
  OBVIOUS
<1>7. /\ t \in Seq([number : Int, value : 1..(n + 1)]) /\ Len(t) = n + 1
      /\ \A j \in DOMAIN t : t[j] = x \/ \E i \in DOMAIN s : t[j] = s[i]
      /\ InOrder(t)
      /\ (\A i \in DOMAIN s : s[i].number # v.number) =>
           ((\A j, k \in DOMAIN s : j < k => s[j].number < s[k].number) =>
              \A j, k \in DOMAIN t : j < k => t[j].number < t[k].number)
  <2> DEFINE m == v.number
  <2>1. Insertion(n, s, m, at, x, t)
    BY <1>1, <1>2, <1>3, <1>4 DEF Insertion
  <2> HIDE DEF n, s, m, t, x
  <2>2. StillInOrder(n, s, m, x, t)
    BY ONLY <2>1, InsertedFacts
  <2>3. StillInOrder(n, s, v.number, x, t)
    BY <2>2 DEF m
  <2> QED BY <2>3 DEF StillInOrder
<1>8. proto' = proto /\ phase' = phase /\ phase # "names" /\ message' = message /\ exts' = exts
      /\ (errors' = {} => errors = {} /\ (~proto.allowAlias => \A i \in DOMAIN s : s[i].number # v.number))
  BY DEF VisitEnumValue, ErrorIf
<1>9. TypeOK'
  BY <1>7, <1>8 DEF TypeOK, Visited
<1>10. Shape'
  BY <1>5, <1>8 DEF Shape
<1>11. FieldsFound'
  BY <1>8 DEF FieldsFound, Members
<1>12. ValuesFound'
  <2>1. \A j \in DOMAIN t : t[j].number = proto'.values[t[j].value].number
    <3>1. x.number = proto.values[x.value].number
      BY <1>6
    <3>2. \A j \in DOMAIN t : t[j] = x \/ \E i \in DOMAIN s : t[j] = s[i]
      BY <1>7
    <3>3. \A i \in DOMAIN s : s[i].number = proto.values[s[i].value].number
      BY <1>4
    <3> HIDE DEF t, x, s, IInv
    <3> QED BY <1>8, <3>1, <3>2, <3>3
  <2>2. errors' = {} /\ ~proto'.allowAlias => \A j, k \in DOMAIN t : j < k => t[j].number < t[k].number
    BY <1>4, <1>7, <1>8
  <2> HIDE DEF t
  <2> QED BY <1>7, <2>1, <2>2 DEF ValuesFound, t, InOrder
<1> QED BY <1>9, <1>10, <1>11, <1>12

\* An extension changes none of the tables of fields and values.
LEMMA ExtensionStep == IInv /\ VisitExtension => IInv'
<1> SUFFICES ASSUME IInv, VisitExtension PROVE IInv'
  OBVIOUS
<1> DEFINE f == proto.extensions[Len(exts) + 1]
<1>1. CASE DefaultPanics(f)
  BY <1>1, PanicStep DEF VisitExtension
<1>2. CASE ~DefaultPanics(f)
  <2> USE DEF IInv
  <2>1. /\ exts' = Append(exts, Extension(proto, f)) /\ errors \subseteq errors'
        /\ message' = [message EXCEPT !.extensions = Append(@, Len(exts) + 1)]
        /\ UNCHANGED <<proto, phase, enum>>
    BY <1>2 DEF VisitExtension
  <2>2. /\ exts' \in Seq(Range(exts')) /\ Len(exts) \in Nat /\ DOMAIN exts = 1..Len(exts)
        /\ DOMAIN exts' = 1..(Len(exts) + 1)
    BY <2>1, AppendFacts DEF Shape
  <2>3. /\ message'.fields = message.fields /\ message'.numbers = message.numbers /\ message'.names = message.names
        /\ message'.jsonNames = message.jsonNames /\ message'.oneofs = message.oneofs
        /\ message'.extensions = Append(message.extensions, Len(exts) + 1)
        /\ message' = [fields |-> message'.fields, numbers |-> message'.numbers, names |-> message'.names,
                       jsonNames |-> message'.jsonNames, oneofs |-> message'.oneofs,
                       extensions |-> message'.extensions]
    <3>1. DOMAIN message = {"fields", "numbers", "names", "jsonNames", "oneofs", "extensions"}
      BY DEF Shape
    <3> QED BY <2>1, <3>1
  <2>4. message'.extensions = [i \in DOMAIN exts' |-> i]
    <3>1. message.extensions = [i \in 1..Len(exts) |-> i]
      BY <2>2 DEF TypeOK
    <3>2. message.extensions \in Seq(Nat) /\ Len(message.extensions) = Len(exts)
      BY <2>2, <3>1
    <3> QED BY <2>2, <2>3, <3>1, <3>2
  <2>5. TypeOK'
    BY <2>1, <2>3, <2>4 DEF TypeOK, Visited
  <2>6. Shape'
    BY <2>1, <2>2, <2>3 DEF Shape, VisitExtension
  <2>7. FieldsFound' /\ ValuesFound'
    BY <2>1, <2>3 DEF FieldsFound, ValuesFound, Members
  <2> QED BY <2>5, <2>6, <2>7
<1> QED BY <1>1, <1>2

\* Every step keeps the tables.
LEMMA NextInv == IInv /\ [Next]_vars => IInv'
<1> SUFFICES ASSUME IInv, [Next]_vars PROVE IInv'
  OBVIOUS
<1>1. CASE VisitField
  <2> DEFINE f == proto.fields[Visited + 1]
  <2>1. CASE DefaultPanics(f)
    BY <1>1, <2>1, PanicStep DEF VisitField
  <2>2. CASE ~DefaultPanics(f)
    <3>1. Visited + 1 \in DOMAIN proto.fields
      <4>1. proto.fields \in Seq(Range(proto.fields))
        BY ProtosAssumption DEF IInv, Shape
      <4>2. Visited \in Nat
        BY DEF IInv, TypeOK, Visited
      <4> QED BY <1>1, <4>1, <4>2 DEF VisitField
    <3>2. f.number \in Int
      BY <3>1, ProtosAssumption DEF IInv, Shape, FieldProto
    <3> QED BY <1>1, <2>2, <3>2, FieldStep DEF VisitField
  <2> QED BY <2>1, <2>2
<1>2. CASE UNCHANGED vars
  <2>1. TypeOK' /\ Shape'
    BY <1>2 DEF IInv, vars, TypeOK, Shape, Visited
  <2>2. FieldsFound' /\ ValuesFound'
    BY <1>2 DEF IInv, vars, FieldsFound, ValuesFound, Members
  <2> QED BY <2>1, <2>2 DEF IInv
<1> QED BY <1>1, <1>2, NamesStep, ValueStep, ExtensionStep, EndStep DEF Next

-----------------------------------------------------------------------------
(* Theorems.                                                               *)

\* So they are right in every reachable state.
LEMMA Invariant == Spec => []IInv
<1> QED BY InitInv, NextInv, PTL DEF Spec

\* Every index in the tables of a message and an enum is one of an element that
\* is there, whatever is wrong with the file: the labels of the errors index with them.
THEOREM TypeCorrect == Spec => []TypeOK
<1>1. IInv => TypeOK
  BY DEF IInv
<1> QED BY <1>1, Invariant, PTL

\* Lookups by number, by name and by JSON name lead to each field of a message
\* that has no error, and oneofs to their members, for every file.
THEOREM LookupsExact == Spec => []FieldsFound
<1>1. IInv => FieldsFound
  BY DEF IInv
<1> QED BY <1>1, Invariant, PTL

\* The binary searches for the number of an enum value meet a sorted table,
\* with aliases or without, whichever place an earlier search has found.
THEOREM ValuesSorted == Spec => []ValuesFound
<1>1. IInv => ValuesFound
  BY DEF IInv
<1> QED BY <1>1, Invariant, PTL

-----------------------------------------------------------------------------
(* Reading quoted bytes.                                                   *)

\* Induction from the last of n positions down to the first.
LEMMA DownwardInduction ==
  ASSUME NEW n \in Nat, NEW S, n \in S, \A p \in 1..n : p + 1 <= n /\ p + 1 \in S => p \in S
  PROVE  1..n \subseteq S
<1> DEFINE T == { k \in Nat : \A p \in 1..n : p + k = n => p \in S }
<1>1. 0 \in T
  OBVIOUS
<1>2. ASSUME NEW k \in Nat, k \in T PROVE k + 1 \in T
  <2> SUFFICES ASSUME NEW p \in 1..n, p + (k + 1) = n PROVE p \in S
    OBVIOUS
  <2>1. p + 1 \in 1..n /\ (p + 1) + k = n
    OBVIOUS
  <2>2. p + 1 \in S
    BY <1>2, <2>1
  <2> QED BY <2>1, <2>2
<1>3. Nat \subseteq T
  <2> HIDE DEF T
  <2> QED BY <1>1, <1>2, SetInduction
<1>4. ASSUME NEW p \in 1..n PROVE p \in S
  <2>1. n - p \in Nat /\ p + (n - p) = n
    OBVIOUS
  <2>2. n - p \in T
    <3> HIDE DEF T
    <3> QED BY <1>3, <2>1
  <2> QED BY <2>1, <2>2
<1> QED BY <1>4

\* A set of numbers up to m that is not empty has a largest.
LEMMA LargestExists ==
  ASSUME NEW m \in Nat, NEW S \in SUBSET (0..m), S # {}
  PROVE  \E x \in S : \A y \in S : y <= x
<1> DEFINE T == { k \in Nat : \A s \in SUBSET (0..k) : s # {} => \E x \in s : \A y \in s : y <= x }
<1>1. 0 \in T
  <2> SUFFICES ASSUME NEW s \in SUBSET (0..0), s # {} PROVE \E x \in s : \A y \in s : y <= x
    OBVIOUS
  <2>1. \A x \in s : x = 0
    OBVIOUS
  <2>2. 0 \in s
    BY <2>1
  <2>3. \A y \in s : y <= 0
    BY <2>1
  <2> QED BY <2>2, <2>3
<1>2. ASSUME NEW k \in Nat, k \in T PROVE k + 1 \in T
  <2> SUFFICES ASSUME NEW s \in SUBSET (0..k + 1), s # {} PROVE \E x \in s : \A y \in s : y <= x
    OBVIOUS
  <2>1. CASE k + 1 \in s
    BY <2>1
  <2>2. CASE k + 1 \notin s
    <3>1. s \in SUBSET (0..k)
      BY <2>2
    <3> QED BY <1>2, <3>1
  <2> QED BY <2>1, <2>2
<1>3. m \in T
  <2> HIDE DEF T
  <2> QED BY <1>1, <1>2, SetInduction
<1> QED BY <1>3

\* The lengths of the runs of digits from a position, and the longest.
Runs(text, p, base, most) ==
  { k \in 0..most : p + k <= Len(text) + 1 /\ \A i \in p..(p + k - 1) : text[i] \in Digits(base) }
IsLongest(text, p, base, most, k) ==
  k \in Runs(text, p, base, most) /\ \A j \in Runs(text, p, base, most) : j <= k

\* The digits that are read at a position are the longest run there.
LEMMA LongestRun ==
  ASSUME NEW text \in Seq(Int), NEW p \in 1..Len(text) + 1, NEW base, NEW most \in Nat
  PROVE  \E k \in 0..most :
           /\ IsLongest(text, p, base, most, k)
           /\ DigitsAt(text, p, base, most) = SubSeq(text, p, p + k - 1)
<1> DEFINE runs == Runs(text, p, base, most)
           longest == CHOOSE k \in runs : \A j \in runs : j <= k
<1>1. runs \in SUBSET (0..most) /\ 0 \in runs
  BY DEF Runs
<1>2. DigitsAt(text, p, base, most) = SubSeq(text, p, p + longest - 1)
  BY DEF DigitsAt, Runs
<1> HIDE DEF runs
<1>3. \E k \in runs : \A j \in runs : j <= k
  BY <1>1, LargestExists
<1>4. longest \in runs /\ \A j \in runs : j <= longest
  BY <1>3
<1> HIDE DEF longest
<1>5. longest \in 0..most /\ IsLongest(text, p, base, most, longest)
  BY <1>1, <1>4 DEF IsLongest, runs
<1> QED BY <1>2, <1>5

\* One longest run.
LEMMA LongestIsOne ==
  ASSUME NEW text, NEW p, NEW base, NEW most \in Nat, NEW k, NEW l,
         IsLongest(text, p, base, most, k), IsLongest(text, p, base, most, l)
  PROVE  k = l
BY DEF IsLongest, Runs

\* t is the text with its quote, as the lexer has it.
IsQuoted(t, text) ==
  /\ t \in Seq(Int) /\ Len(t) = Len(text) + 1 /\ t[Len(text) + 1] = Quote
  /\ \A i \in 1..Len(text) : t[i] = text[i]

\* The literal a text format would read: the text and a quote.
LEMMA QuotedText == ASSUME NEW text \in Seq(Int) PROVE IsQuoted(Append(text, Quote), text)
BY DEF IsQuoted, Quote

\* The quote that ends a literal is no digit.
LEMMA RunsBeforeQuote ==
  ASSUME NEW text \in Seq(Int), NEW t, IsQuoted(t, text),
         NEW p \in 1..Len(text) + 1, NEW base \in {8, 16}, NEW most \in Nat
  PROVE  Runs(t, p, base, most) = Runs(text, p, base, most)
<1> DEFINE n == Len(text)
<1>1. n \in Nat /\ t \in Seq(Int) /\ Len(t) = n + 1 /\ t[n + 1] = 34 /\ \A i \in 1..n : t[i] = text[i]
  BY DEF Quote, IsQuoted
<1>2. 34 \notin Digits(base)
  BY DEF Digits
<1> HIDE DEF n
<1>3. ASSUME NEW k \in 0..most
      PROVE  (p + k <= n + 2 /\ \A i \in p..(p + k - 1) : t[i] \in Digits(base))
             <=> (p + k <= n + 1 /\ \A i \in p..(p + k - 1) : text[i] \in Digits(base))
  <2>1. CASE p + k <= n + 1
    <3>1. ASSUME NEW i \in p..(p + k - 1) PROVE t[i] = text[i]
      <4>1. i \in 1..n
        BY <1>1, <2>1
      <4> QED BY <1>1, <4>1
    <3>2. p + k <= n + 2
      BY <1>1, <2>1
    <3> QED BY <2>1, <3>1, <3>2
  <2>2. CASE p + k = n + 2
    <3>1. n + 1 \in p..(p + k - 1)
      BY <1>1, <2>2 DEF n
    <3> QED BY <1>1, <1>2, <2>2, <3>1
  <2>3. CASE p + k > n + 2
    BY <1>1, <2>3
  <2> QED BY <1>1, <2>1, <2>2, <2>3
<1>4. Len(t) + 1 = n + 2
  BY <1>1
<1> QED BY <1>3, <1>4 DEF Runs, n

\* Slices of sequences that agree on their positions.
LEMMA SlicesEqual ==
  ASSUME NEW s \in Seq(Int), NEW t \in Seq(Int), NEW i \in Nat \ {0}, NEW k \in Nat, i + k <= Len(s) + 1,
         i + k <= Len(t) + 1, \A j \in i..i + k - 1 : t[j] = s[j]
  PROVE  SubSeq(t, i, i + k - 1) = SubSeq(s, i, i + k - 1)
<1> DEFINE a == SubSeq(s, i, i + k - 1)
           b == SubSeq(t, i, i + k - 1)
<1>1. \A j \in i..i + k - 1 : s[j] \in Int /\ t[j] \in Int
  OBVIOUS
<1>2. /\ a \in Seq(Int) /\ Len(a) = k /\ \A j \in 1..k : a[j] = s[i + j - 1]
      /\ b \in Seq(Int) /\ Len(b) = k /\ \A j \in 1..k : b[j] = t[i + j - 1]
  BY <1>1
<1>3. \A j \in 1..k : i + j - 1 \in i..i + k - 1
  OBVIOUS
<1> HIDE DEF a, b
<1>4. \A j \in 1..k : a[j] = b[j]
  BY <1>2, <1>3
<1>5. a = b
  BY <1>2, <1>4
<1> QED BY <1>5 DEF a, b

\* The lexer finds the digits that the reader of default values finds.
LEMMA DigitsBeforeQuote ==
  ASSUME NEW text \in Seq(Int), NEW t, IsQuoted(t, text),
         NEW at \in 1..Len(text) + 1, NEW base \in {8, 16}, NEW most \in Nat
  PROVE  DigitsAt(t, at, base, most) = DigitsAt(text, at, base, most)
<1>1. /\ Len(text) \in Nat /\ t \in Seq(Int) /\ Len(t) = Len(text) + 1
      /\ \A i \in 1..Len(text) : t[i] = text[i]
  BY DEF IsQuoted
<1>2. PICK k \in 0..most : /\ IsLongest(text, at, base, most, k)
                           /\ DigitsAt(text, at, base, most) = SubSeq(text, at, at + k - 1)
  BY LongestRun
<1>3. at \in 1..Len(t) + 1
  BY <1>1
<1>4. PICK j \in 0..most : /\ IsLongest(t, at, base, most, j)
                           /\ DigitsAt(t, at, base, most) = SubSeq(t, at, at + j - 1)
  BY ZenonT(60), <1>1, <1>3, LongestRun
<1>5. Runs(t, at, base, most) = Runs(text, at, base, most)
  BY RunsBeforeQuote
<1>6. IsLongest(text, at, base, most, j)
  BY <1>4, <1>5 DEF IsLongest
<1>7. j = k
  BY <1>2, <1>6, LongestIsOne
<1>8. at + k <= Len(text) + 1
  BY <1>2 DEF IsLongest, Runs
<1>9. SubSeq(t, at, at + k - 1) = SubSeq(text, at, at + k - 1)
  <2>1. at \in Nat \ {0} /\ k \in Nat /\ at + k <= Len(t) + 1
    BY <1>1, <1>8
  <2>2. \A i \in at..at + k - 1 : i \in 1..Len(text)
    BY <1>1, <1>8
  <2>3. \A i \in at..at + k - 1 : t[i] = text[i]
    BY <1>1, <2>2
  <2> QED BY <1>1, <1>8, <2>1, <2>3, SlicesEqual
<1> QED BY <1>2, <1>4, <1>7, <1>9

\* Two hexadecimal digits are read as two, and none where the first byte is no digit.
LEMMA HexDigitsAt ==
  ASSUME NEW text \in Seq(Int), NEW at \in 1..Len(text), at + 1 <= Len(text), text[at + 1] \in Digits(16)
  PROVE  /\ text[at] \in Digits(16) => DigitsAt(text, at, 16, 2) = SubSeq(text, at, at + 1)
         /\ text[at] \notin Digits(16) => DigitsAt(text, at, 16, 2) = << >>
<1>1. 16 \in {8, 16} /\ 2 \in Nat /\ at \in 1..Len(text) + 1 /\ Len(text) \in Nat
  OBVIOUS
<1>2. PICK k \in 0..2 : /\ IsLongest(text, at, 16, 2, k)
                        /\ DigitsAt(text, at, 16, 2) = SubSeq(text, at, at + k - 1)
  BY <1>1, LongestRun
<1>3. ASSUME text[at] \in Digits(16) PROVE DigitsAt(text, at, 16, 2) = SubSeq(text, at, at + 1)
  <2>1. \A i \in at..(at + 2 - 1) : i = at \/ i = at + 1
    OBVIOUS
  <2>2. at + 2 <= Len(text) + 1 /\ 2 \in 0..2
    BY <1>1
  <2>3. 2 \in Runs(text, at, 16, 2)
    BY <1>3, <2>1, <2>2 DEF Runs
  <2>4. k = 2
    BY <1>2, <2>3 DEF IsLongest
  <2>5. at + k - 1 = at + 1
    BY <2>4
  <2> QED BY <1>2, <2>5
<1>4. ASSUME text[at] \notin Digits(16) PROVE DigitsAt(text, at, 16, 2) = << >>
  <2>1. k # 0 => at \in at..(at + k - 1)
    OBVIOUS
  <2>2. k = 0
    BY <1>2, <1>4, <2>1 DEF IsLongest, Runs
  <2>3. at + k - 1 = at - 1
    BY <2>2
  <2>4. SubSeq(text, at, at - 1) = << >>
    BY <1>1
  <2> QED BY <1>2, <2>3, <2>4
<1> QED BY <1>3, <1>4

\* What a run of digits is made of, and where it ends.
LEMMA DigitsRead ==
  ASSUME NEW text \in Seq(Int), NEW p \in 1..Len(text) + 1, NEW base \in {8, 16}, NEW most \in Nat
  PROVE  LET digits == DigitsAt(text, p, base, most)
         IN /\ digits \in Seq(Int) /\ Len(digits) \in 0..most /\ p + Len(digits) <= Len(text) + 1
            /\ \A i \in 1..Len(digits) : digits[i] = text[p + i - 1] /\ digits[i] \in Digits(base)
<1> DEFINE n == Len(text)
<1>1. PICK k \in 0..most : IsLongest(text, p, base, most, k)
                           /\ DigitsAt(text, p, base, most) = SubSeq(text, p, p + k - 1)
  BY LongestRun
<1>2. n \in Nat /\ p + k <= n + 1 /\ \A i \in p..(p + k - 1) : text[i] \in Digits(base)
  BY <1>1 DEF IsLongest, Runs
<1> DEFINE digits == SubSeq(text, p, p + k - 1)
<1>3. \A i \in p..(p + k - 1) : text[i] \in Int
  BY <1>2
<1>4. digits \in Seq(Int) /\ Len(digits) = k /\ \A i \in 1..k : digits[i] = text[p + i - 1]
  BY <1>2, <1>3
<1>5. \A i \in 1..k : p + i - 1 \in p..(p + k - 1)
  BY <1>2
<1> HIDE DEF digits
<1> QED BY <1>1, <1>2, <1>4, <1>5 DEF digits
\* The value of digits is a number.
LEMMA ValueIsNat ==
  ASSUME NEW base \in {8, 16}, NEW digits \in Seq(Int), \A i \in 1..Len(digits) : digits[i] \in Digits(base)
  PROVE  Value(digits, base) \in Nat
<1> DEFINE L == Len(digits)
           step(v, c) == base * v + Digit(c)
           op == [q \in Nat \X (1..L) |-> step(q[1], digits[q[2]])]
           iter == CHOOSE d : d = [s \in SUBSET (DOMAIN digits) |->
                     IF s = {} THEN 0 ELSE step(d[s \ {Max(s)}], digits[Max(s)])]
<1>1. L \in Nat /\ DOMAIN digits = 1..L
  OBVIOUS
<1>2. Value(digits, base) = iter[DOMAIN digits]
  BY DEF Value, FoldLeft, MapThenFoldSet
<1>3. ASSUME NEW v \in Nat, NEW i \in 1..L PROVE step(v, digits[i]) \in Nat
  <2> DEFINE c == digits[i]
  <2>1. c \in Digits(base)
    OBVIOUS
  <2> HIDE DEF c
  <2>2. Digit(c) \in Nat
    BY <2>1 DEF Digits, Digit, Upcase, IsLower
  <2>3. base * v \in Nat
    OBVIOUS
  <2> QED BY <2>2, <2>3 DEF c
<1> HIDE DEF L
<1>4. op \in [Nat \X (1..L) -> Nat]
  <2> HIDE DEF step
  <2> QED BY <1>3
<1>5. \A v \in Nat, i \in 1..L : op[<<v, i>>] = step(v, digits[i])
  <2> HIDE DEF step
  <2> QED OBVIOUS
<1>6. PICK d : IsFold(d, L, Nat, op, 0)
  <2> HIDE DEF op, iter
  <2> QED BY <1>1, <1>4, FoldExists
<1> HIDE DEF op, step
<1>7. ASSUME NEW s \in SUBSET (1..L), s # {}
      PROVE  d[s] = step(d[s \ {Max(s)}], digits[Max(s)])
  <2>1. Max(s) \in 1..L /\ s \ {Max(s)} \in SUBSET (1..L)
    BY <1>1, <1>7, LastIsIn
  <2>2. d[s \ {Max(s)}] \in Nat
    BY <1>6, <2>1 DEF IsFold
  <2>3. d[s] = op[<<d[s \ {Max(s)}], Max(s)>>]
    BY <1>6, <1>7 DEF IsFold
  <2> QED BY <1>5, <2>1, <2>2, <2>3
<1>8. d = [s \in SUBSET (DOMAIN digits) |->
             IF s = {} THEN 0 ELSE step(d[s \ {Max(s)}], digits[Max(s)])]
  BY <1>1, <1>6, <1>7 DEF IsFold
<1>9. iter = [s \in SUBSET (DOMAIN digits) |->
                IF s = {} THEN 0 ELSE step(iter[s \ {Max(s)}], digits[Max(s)])]
  BY <1>8, Zenon
<1> HIDE DEF iter
<1>10. ASSUME NEW s \in SUBSET (1..L)
       PROVE  iter[s] = IF s = {} THEN 0
                        ELSE IF iter[s \ {Max(s)}] \in Nat
                             THEN op[<<iter[s \ {Max(s)}], Max(s)>>] ELSE iter[s]
  <2>1. CASE s = {}
    BY <1>1, <1>9, <2>1
  <2>2. CASE s # {}
    <3>1. Max(s) \in 1..L
      BY <1>1, <2>2, LastIsIn
    <3>2. iter[s] = step(iter[s \ {Max(s)}], digits[Max(s)])
      BY <1>1, <1>9, <2>2
    <3> QED BY <1>5, <2>2, <3>1, <3>2
  <2> QED BY <2>1, <2>2
<1>11. iter[1..L] \in Nat
  BY <1>1, <1>4, <1>10, FoldStays
<1> QED BY <1>1, <1>2, <1>11
\* What a reader gives: an error, a panic, or bytes.
Reading == {Refused, Panics} \cup { Read(data) : data \in Seq(Int) }

\* A function of positions that takes its values from those at later positions exists.
IsDownward(B, n, V) ==
  /\ B \in [1..n -> [[1..n -> V] -> V]]
  /\ \A p \in 1..n, f, g \in [1..n -> V] :
        (\A q \in 1..n : q > p => f[q] = g[q]) => B[p][f] = B[p][g]
\* One function of positions keeps every equation.
HasSolution(B, n, V) == \E f \in [1..n -> V] : \A p \in 1..n : f[p] = B[p][f]

\* By extending it from the last position down to the first.
LEMMA DownwardExists ==
  ASSUME NEW n \in Nat, NEW V, NEW v0 \in V, NEW B, IsDownward(B, n, V)
  PROVE  HasSolution(B, n, V)
<1> USE DEF IsDownward
<1> DEFINE Upto(k, f) == \A p \in 1..n : p + k > n => f[p] = B[p][f]
           S == { k \in Nat : \E f \in [1..n -> V] : Upto(k, f) }
<1>1. 0 \in S
  <2>1. [p \in 1..n |-> v0] \in [1..n -> V] /\ \A p \in 1..n : ~(p + 0 > n)
    OBVIOUS
  <2> QED BY <2>1
<1>2. ASSUME NEW k \in Nat, k \in S PROVE k + 1 \in S
  <2>1. PICK f \in [1..n -> V] : Upto(k, f)
    BY <1>2
  <2>2. CASE n - k \in 1..n
    <3> DEFINE m == n - k
               g == [f EXCEPT ![m] = B[m][f]]
    <3>1. m \in 1..n /\ g \in [1..n -> V] /\ g[m] = B[m][f] /\ \A q \in 1..n : q # m => g[q] = f[q]
      BY <2>2
    <3>2. \A p \in 1..n : p > m => p + k > n
      BY <2>2
    <3>3. \A p \in 1..n : p + (k + 1) > n => p = m \/ p > m
      BY <2>2
    <3> HIDE DEF g, m
    <3>4. ASSUME NEW p \in 1..n, p = m \/ p > m PROVE g[p] = B[p][g]
      <4>1. \A q \in 1..n : q > p => g[q] = f[q]
        BY <3>1, <3>4
      <4>2. B[p][g] = B[p][f]
        BY <3>1, <4>1
      <4>3. CASE p = m
        BY <3>1, <4>2, <4>3
      <4>4. CASE p > m
        <5>1. g[p] = f[p]
          BY <3>1, <4>4
        <5> QED BY <2>1, <3>2, <4>2, <4>4, <5>1
      <4> QED BY <3>4, <4>3, <4>4
    <3>5. Upto(k + 1, g)
      BY <3>3, <3>4
    <3> QED BY <3>1, <3>5
  <2>3. CASE n - k \notin 1..n
    <3>1. \A p \in 1..n : p + (k + 1) > n => p + k > n
      BY <2>3
    <3>2. Upto(k + 1, f)
      BY <2>1, <3>1
    <3> QED BY <3>2
  <2> QED BY <2>2, <2>3
<1>3. n \in S
  <2> HIDE DEF S
  <2> QED BY <1>1, <1>2, SetInduction
<1>4. PICK f \in [1..n -> V] : Upto(n, f)
  BY <1>3
<1>5. \A p \in 1..n : p + n > n
  OBVIOUS
<1> QED BY <1>4, <1>5 DEF HasSolution

\* A reading may be empty.
LEMMA EmptyRead == << >> \in Seq(Int) /\ Read(<< >>) \in Reading
<1>1. << >> \in Seq(Int)
  OBVIOUS
<1> QED BY <1>1 DEF Reading

\* A byte before a reading gives a reading, of bytes where the rest is one.
LEMMA PushReads ==
  ASSUME NEW b \in Int, NEW r \in Reading
  PROVE  /\ Push(b, r) \in Reading
         /\ Push(b, r).is = "bytes" <=> r.is = "bytes"
         /\ r = Panics => Push(b, r) = Panics
<1>1. CASE r \in {Refused, Panics}
  BY <1>1 DEF Reading, Push, Refused, Panics
<1>2. ASSUME NEW data \in Seq(Int), r = Read(data) PROVE Push(b, r) = Read(<<b>> \o data) /\ <<b>> \o data \in Seq(Int)
  BY <1>2 DEF Push, Read
<1>3. r \in {Refused, Panics} \/ \E data \in Seq(Int) : r = Read(data)
  BY DEF Reading
<1>4. \A data \in Seq(Int) : Read(data).is = "bytes" /\ Read(data) # Panics
  BY DEF Read, Panics
<1>5. CASE \E data \in Seq(Int) : r = Read(data)
  <2>1. PICK data \in Seq(Int) : r = Read(data)
    BY <1>5
  <2>2. Push(b, r) = Read(<<b>> \o data) /\ <<b>> \o data \in Seq(Int)
    BY <1>2, <2>1
  <2> QED BY <1>4, <2>1, <2>2 DEF Reading
<1> QED BY <1>1, <1>3, <1>5

\* The escapes of one letter; none of them is a digit or an x.
Letters == {97, 98, 102, 110, 114, 116, 118, 63, 92, 39, 34}

\* What is known of the letters without looking at the escapes again.
LEMMA LettersAre ==
  /\ DOMAIN Escape = Letters /\ \A c \in Letters : Escape[c] \in Int
  /\ Digits(8) = 48..55
  /\ \A c : ~(c \in Letters /\ c \in Digits(8)) /\ ~(c \in Letters /\ c \in {88, 120})
            /\ ~(c \in Digits(8) /\ c \in {88, 120})
<1>1. DOMAIN Escape = Letters /\ Digits(8) = 48..55
  BY DEF Escape, Letters, Digits
<1>2. \A c \in Letters : Escape[c] \in Int
  BY DEF Escape, Letters
<1>3. \A c \in Letters : c \notin 48..55 /\ c \notin {88, 120}
  BY DEF Letters
<1> QED BY <1>1, <1>2, <1>3

\* The number of an octal escape, and of a hexadecimal one.
OctalValue(text, p) == Value(OctalDigits(text, p + 1), 8)
Hex(text, p) == SubSeq(text, p + 2, p + 3)
HexRead(text, p) ==
  /\ p + 3 <= Len(text)
  /\ Hex(text, p)[2] \in Digits(16) /\ Hex(text, p)[1] \in Digits(16) \cup {43}
HexValue(text, p) ==
  Value(IF Hex(text, p)[1] = 43 THEN <<Hex(text, p)[2]>> ELSE Hex(text, p), 16)
HexPanics(text, p) ==
  p + 3 <= Len(text) /\ (InsideChar(text, p + 2) \/ InsideChar(text, p + 4))

\* An escape: a backslash that is not the last byte.
Escapes(text, p) == p < Len(text) /\ text[p] = Backslash

\* The cases of the reader of default values.
UnescapedAs(text, checked, f, p) ==
  /\ p = Len(text) + 1 => Unescaped(text, checked, f, p) = Read(<< >>)
  /\ p <= Len(text) /\ text[p] # Backslash =>
       Unescaped(text, checked, f, p) = Push(text[p], f[p + 1])
  /\ p = Len(text) /\ text[p] = Backslash => Unescaped(text, checked, f, p) = Refused
  /\ Escapes(text, p) /\ text[p + 1] \in Letters =>
       Unescaped(text, checked, f, p) = Push(Escape[text[p + 1]], f[p + 2])
  /\ Escapes(text, p) /\ text[p + 1] \in Digits(8) =>
       Unescaped(text, checked, f, p) =
         IF OctalValue(text, p) > 255 /\ checked THEN Panics
         ELSE Push(OctalValue(text, p) % 256, f[p + 1 + Len(OctalDigits(text, p + 1))])
  /\ Escapes(text, p) /\ text[p + 1] \in {88, 120} =>
       Unescaped(text, checked, f, p) =
         IF HexPanics(text, p) THEN Panics
         ELSE IF HexRead(text, p) THEN Push(HexValue(text, p), f[p + 4]) ELSE Refused
  /\ Escapes(text, p) /\ text[p + 1] \notin Letters \cup Digits(8) \cup {88, 120} =>
       Unescaped(text, checked, f, p) = Refused

\* The cases are those of the definition.
LEMMA UnescapedCases ==
  ASSUME NEW text \in Seq(Int), NEW checked, NEW f, NEW p \in 1..Len(text) + 1
  PROVE  UnescapedAs(text, checked, f, p)
<1> DEFINE n == Len(text)
<1>1. n \in Nat
  OBVIOUS
<1> HIDE DEF n
<1> USE <1>1, LettersAre
<1>2. p = n + 1 => Unescaped(text, checked, f, p) = Read(<< >>)
  BY DEF Unescaped, n
<1>3. p <= n /\ text[p] # Backslash => Unescaped(text, checked, f, p) = Push(text[p], f[p + 1])
  BY DEF Unescaped, n
<1>4. p = n /\ text[p] = Backslash => Unescaped(text, checked, f, p) = Refused
  BY DEF Unescaped, n
<1>5. Escapes(text, p) => /\ ~(p = n + 1) /\ ~(p <= n /\ text[p] # Backslash) /\ p # n
                          /\ p < n /\ text[p] = Backslash
  BY DEF n, Escapes
<1>6. Escapes(text, p) => Unescaped(text, checked, f, p) =
        CASE text[p + 1] \in DOMAIN Escape -> Push(Escape[text[p + 1]], f[p + 2])
          [] text[p + 1] \in Digits(8) ->
               IF OctalValue(text, p) > 255 /\ checked THEN Panics
               ELSE Push(OctalValue(text, p) % 256, f[p + 1 + Len(OctalDigits(text, p + 1))])
          [] text[p + 1] \in {88, 120} ->
               IF p + 3 > n THEN Refused
               ELSE IF InsideChar(text, p + 2) \/ InsideChar(text, p + 4) THEN Panics
               ELSE IF Hex(text, p)[2] \in Digits(16) /\ Hex(text, p)[1] \in Digits(16) \cup {43}
               THEN Push(HexValue(text, p), f[p + 4]) ELSE Refused
          [] OTHER -> Refused
  BY <1>5 DEF Unescaped, n, OctalValue, Hex, HexValue
<1>7. Escapes(text, p) /\ text[p + 1] \in Letters =>
        Unescaped(text, checked, f, p) = Push(Escape[text[p + 1]], f[p + 2])
  BY <1>6
<1>8. Escapes(text, p) /\ text[p + 1] \in Digits(8) =>
        Unescaped(text, checked, f, p) =
          IF OctalValue(text, p) > 255 /\ checked THEN Panics
          ELSE Push(OctalValue(text, p) % 256, f[p + 1 + Len(OctalDigits(text, p + 1))])
  BY <1>6
<1>9. Escapes(text, p) /\ text[p + 1] \in {88, 120} =>
        Unescaped(text, checked, f, p) =
          IF HexPanics(text, p) THEN Panics
          ELSE IF HexRead(text, p) THEN Push(HexValue(text, p), f[p + 4]) ELSE Refused
  <2> SUFFICES ASSUME Escapes(text, p), text[p + 1] \in {88, 120}
               PROVE  Unescaped(text, checked, f, p) =
                        IF HexPanics(text, p) THEN Panics
                        ELSE IF HexRead(text, p) THEN Push(HexValue(text, p), f[p + 4]) ELSE Refused
    OBVIOUS
  <2>1. Unescaped(text, checked, f, p) =
          IF p + 3 > n THEN Refused
          ELSE IF InsideChar(text, p + 2) \/ InsideChar(text, p + 4) THEN Panics
          ELSE IF Hex(text, p)[2] \in Digits(16) /\ Hex(text, p)[1] \in Digits(16) \cup {43}
          THEN Push(HexValue(text, p), f[p + 4]) ELSE Refused
    BY <1>6
  <2>2. ~(p + 3 > n) <=> p + 3 <= n
    OBVIOUS
  <2> QED BY <2>1, <2>2 DEF HexRead, HexPanics, n
<1>10. Escapes(text, p) /\ text[p + 1] \notin Letters \cup Digits(8) \cup {88, 120} =>
        Unescaped(text, checked, f, p) = Refused
  BY <1>6
<1> QED BY <1>2, <1>3, <1>4, <1>7, <1>8, <1>9, <1>10 DEF n, UnescapedAs

\* The cases of the lexer's string.
LexedAs(text, quote, f, p) ==
  /\ p = Len(text) + 1 => Lexed(text, quote, f, p) = Refused
  /\ p <= Len(text) /\ text[p] \in {0, 10} => Lexed(text, quote, f, p) = Refused
  /\ p <= Len(text) /\ text[p] = quote =>
       Lexed(text, quote, f, p) = IF p = Len(text) THEN Read(<< >>) ELSE Refused
  /\ p <= Len(text) /\ text[p] \notin {0, 10, quote, Backslash} =>
       Lexed(text, quote, f, p) = Push(text[p], f[p + 1])
  /\ p = Len(text) /\ text[p] = Backslash => Lexed(text, quote, f, p) = Refused
  /\ Escapes(text, p) /\ text[p + 1] \in Letters =>
       Lexed(text, quote, f, p) = Push(Escape[text[p + 1]], f[p + 2])
  /\ Escapes(text, p) /\ text[p + 1] \in Digits(8) =>
       Lexed(text, quote, f, p) = LexNumber(text, f, p + 1, 8, 3)
  /\ Escapes(text, p) /\ text[p + 1] \in {88, 120} =>
       Lexed(text, quote, f, p) = LexNumber(text, f, p + 2, 16, 2)
  /\ Escapes(text, p) /\ text[p + 1] \notin Letters \cup Digits(8) \cup {88, 120} =>
       Lexed(text, quote, f, p) = Refused

\* The cases are those of the definition.
LEMMA LexedCases ==
  ASSUME NEW text \in Seq(Int), NEW quote, quote \notin {0, 10, Backslash}, NEW f, NEW p \in 1..Len(text) + 1
  PROVE  LexedAs(text, quote, f, p)
<1> DEFINE n == Len(text)
<1>1. n \in Nat /\ Backslash \notin {0, 10}
  BY DEF Backslash
<1> HIDE DEF n
<1> USE <1>1, LettersAre
<1>2. p = n + 1 => Lexed(text, quote, f, p) = Refused
  BY DEF Lexed, n
<1>3. /\ p <= n /\ text[p] \in {0, 10} => Lexed(text, quote, f, p) = Refused
      /\ p <= n /\ text[p] = quote =>
           Lexed(text, quote, f, p) = IF p = n THEN Read(<< >>) ELSE Refused
      /\ p <= n /\ text[p] \notin {0, 10, quote, Backslash} =>
           Lexed(text, quote, f, p) = Push(text[p], f[p + 1])
  <2>1. p <= n /\ text[p] \in {0, 10} => Lexed(text, quote, f, p) = Refused
    BY DEF Lexed, n
  <2>2. p <= n /\ text[p] = quote =>
          Lexed(text, quote, f, p) = IF p = n THEN Read(<< >>) ELSE Refused
    BY DEF Lexed, n
  <2>3. p <= n /\ text[p] \notin {0, 10, quote, Backslash} =>
          Lexed(text, quote, f, p) = Push(text[p], f[p + 1])
    BY DEF Lexed, n
  <2> QED BY <2>1, <2>2, <2>3
<1>4. p = n /\ text[p] = Backslash => Lexed(text, quote, f, p) = Refused
  BY DEF Lexed, n
<1>5. Escapes(text, p) => /\ ~(p = n + 1) /\ ~(p <= n /\ text[p] \in {0, 10})
                          /\ ~(p <= n /\ text[p] = quote) /\ p # n
                          /\ ~(p <= n /\ text[p] \notin {0, 10, quote, Backslash})
  BY DEF n, Escapes
<1>6. Escapes(text, p) => Lexed(text, quote, f, p) =
        CASE text[p + 1] \in DOMAIN Escape -> Push(Escape[text[p + 1]], f[p + 2])
          [] text[p + 1] \in Digits(8) -> LexNumber(text, f, p + 1, 8, 3)
          [] text[p + 1] \in {88, 120} -> LexNumber(text, f, p + 2, 16, 2)
          [] OTHER -> Refused
  BY <1>5 DEF Lexed, n, Escapes
<1>7. Escapes(text, p) /\ text[p + 1] \in Letters =>
        Lexed(text, quote, f, p) = Push(Escape[text[p + 1]], f[p + 2])
  BY <1>6
<1>8. Escapes(text, p) /\ text[p + 1] \in Digits(8) =>
        Lexed(text, quote, f, p) = LexNumber(text, f, p + 1, 8, 3)
  BY <1>6
<1>9. Escapes(text, p) /\ text[p + 1] \in {88, 120} =>
        Lexed(text, quote, f, p) = LexNumber(text, f, p + 2, 16, 2)
  BY <1>6
<1>10. Escapes(text, p) /\ text[p + 1] \notin Letters \cup Digits(8) \cup {88, 120} =>
        Lexed(text, quote, f, p) = Refused
  BY <1>6
<1> QED BY <1>2, <1>3, <1>4, <1>7, <1>8, <1>9, <1>10 DEF n, LexedAs
\* What an escape counts is a number, and the reading goes on behind it.
LEMMA OctalRead ==
  ASSUME NEW text \in Seq(Int), NEW p \in 1..Len(text) + 1, Escapes(text, p)
  PROVE  /\ OctalValue(text, p) \in Nat
         /\ p + 1 + Len(OctalDigits(text, p + 1)) \in p + 1..Len(text) + 1
<1>1. p + 1 \in 1..Len(text) + 1 /\ Len(text) \in Nat
  BY DEF Escapes
<1> DEFINE digits == OctalDigits(text, p + 1)
<1>2. /\ digits \in Seq(Int) /\ Len(digits) \in 0..3 /\ p + 1 + Len(digits) <= Len(text) + 1
      /\ \A i \in 1..Len(digits) : digits[i] \in Digits(8)
  <2>1. digits = DigitsAt(text, p + 1, 8, 3)
    BY DEF OctalDigits
  <2> DEFINE at == p + 1
             run == DigitsAt(text, at, 8, 3)
  <2>2. at \in 1..Len(text) + 1 /\ 3 \in Nat /\ 8 \in {8, 16}
    BY <1>1
  <2> HIDE DEF at, digits
  <2>3. /\ run \in Seq(Int) /\ Len(run) \in 0..3 /\ at + Len(run) <= Len(text) + 1
        /\ \A i \in 1..Len(run) : run[i] = text[at + i - 1] /\ run[i] \in Digits(8)
    BY <2>2, DigitsRead
  <2> QED BY <2>1, <2>3 DEF at
<1> HIDE DEF digits
<1>3. Value(digits, 8) \in Nat
  BY <1>2, ValueIsNat
<1> QED BY <1>1, <1>2, <1>3 DEF digits, OctalValue

\* The number of a hexadecimal escape that is read.
LEMMA HexIsNat ==
  ASSUME NEW text \in Seq(Int), NEW p \in 1..Len(text) + 1, HexRead(text, p)
  PROVE  /\ HexValue(text, p) \in Nat /\ p + 4 \in p + 1..Len(text) + 1
         /\ Hex(text, p) \in Seq(Int) /\ Len(Hex(text, p)) = 2
         /\ Hex(text, p)[1] = text[p + 2] /\ Hex(text, p)[2] = text[p + 3]
<1> DEFINE n == Len(text)
           hex == SubSeq(text, p + 2, p + 3)
           digits == IF hex[1] = 43 THEN <<hex[2]>> ELSE hex
<1>1. n \in Nat /\ p + 3 <= n
  BY DEF HexRead
<1>2. text[p + 2] \in Int /\ text[p + 3] \in Int
  BY <1>1
<1>3. \A i \in p + 2..p + 3 : text[i] \in Int
  BY <1>1
<1>4. hex \in Seq(Int) /\ Len(hex) = 2 /\ hex[1] = text[p + 2] /\ hex[2] = text[p + 3]
  BY <1>1, <1>3
<1>5. hex[2] \in Digits(16) /\ hex[1] \in Digits(16) \cup {43}
  BY DEF HexRead, Hex
<1> HIDE DEF hex
<1>6. digits \in Seq(Int) /\ \A i \in 1..Len(digits) : digits[i] \in Digits(16)
  <2>1. CASE hex[1] = 43
    <3>1. digits = <<hex[2]>> /\ Len(digits) = 1 /\ digits[1] = hex[2] /\ hex[2] \in Int
      BY <1>2, <1>4, <2>1
    <3>2. \A i \in 1..1 : i = 1
      OBVIOUS
    <3> HIDE DEF digits
    <3> QED BY <1>5, <3>1, <3>2
  <2>2. CASE hex[1] # 43
    <3>1. digits = hex /\ hex[1] \in Digits(16) /\ hex[2] \in Digits(16)
      BY <1>5, <2>2
    <3>2. \A i \in 1..2 : i = 1 \/ i = 2
      OBVIOUS
    <3> HIDE DEF digits
    <3> QED BY <1>4, <3>1, <3>2
  <2> QED BY <2>1, <2>2
<1>7. Value(digits, 16) \in Nat
  <2> HIDE DEF digits
  <2> QED BY <1>6, ValueIsNat
<1>8. HexValue(text, p) = Value(digits, 16)
  BY DEF HexValue, Hex, hex
<1> QED BY <1>1, <1>4, <1>7, <1>8 DEF hex, Hex

\* A step of a reader ends it, or pushes a byte before what a later position gives.
StepsAt(n, p) ==
  [is : {"ends"}, value : Reading] \cup [is : {"pushes"}, byte : Int, next : p + 1..n]
StepGives(s, f) == IF s.is = "ends" THEN s.value ELSE Push(s.byte, f[s.next])
IsSteps(steps, n) == DOMAIN steps = 1..n /\ \A p \in 1..n : steps[p] \in StepsAt(n, p)
IsReader(f, steps, n) == f \in [1..n -> Reading] /\ \A p \in 1..n : f[p] = StepGives(steps[p], f)

\* A step is of one of the two kinds, and each has a step.
LEMMA EndsOrPushes ==
  ASSUME NEW n \in Nat, NEW p \in 1..n, NEW s \in StepsAt(n, p)
  PROVE  \/ s.value \in Reading /\ \A f : StepGives(s, f) = s.value
         \/ s.byte \in Int /\ s.next \in p + 1..n /\ \A f : StepGives(s, f) = Push(s.byte, f[s.next])
BY DEF StepsAt, StepGives

LEMMA EndStepIs ==
  ASSUME NEW n \in Nat, NEW p \in 1..n, NEW c \in Reading
  PROVE  \E s \in StepsAt(n, p) : \A f : StepGives(s, f) = c
<1> DEFINE s == [is |-> "ends", value |-> c]
<1>1. s \in StepsAt(n, p)
  BY DEF StepsAt
<1>2. \A f : StepGives(s, f) = c
  BY DEF StepGives
<1> HIDE DEF s
<1> QED BY <1>1, <1>2

LEMMA PushStepIs ==
  ASSUME NEW n \in Nat, NEW p \in 1..n, NEW b \in Int, NEW q \in p + 1..n
  PROVE  \E s \in StepsAt(n, p) : \A f : StepGives(s, f) = Push(b, f[q])
<1> DEFINE s == [is |-> "pushes", byte |-> b, next |-> q]
<1>1. s \in StepsAt(n, p)
  BY DEF StepsAt
<1>2. \A f : StepGives(s, f) = Push(b, f[q])
  BY DEF StepGives
<1> HIDE DEF s
<1> QED BY <1>1, <1>2

\* A step of each of the two readers.
UnescapesBy(text, checked, p, s) == \A f : Unescaped(text, checked, f, p) = StepGives(s, f)
LexesBy(text, quote, p, s) == \A f : Lexed(text, quote, f, p) = StepGives(s, f)
UnescapeSteps(text, checked, p) == \E s \in StepsAt(Len(text) + 1, p) : UnescapesBy(text, checked, p, s)
LexSteps(text, quote, p) == \E s \in StepsAt(Len(text) + 1, p) : LexesBy(text, quote, p, s)

\* Reading from the end backwards gives a reader.
LEMMA ReaderExists ==
  ASSUME NEW n \in Nat, NEW steps, IsSteps(steps, n)
  PROVE  \E f : IsReader(f, steps, n)
<1> DEFINE V == [1..n -> Reading]
           B == [p \in 1..n |-> [f \in V |-> StepGives(steps[p], f)]]
<1>1. ASSUME NEW p \in 1..n
      PROVE  \/ steps[p].value \in Reading /\ \A f : StepGives(steps[p], f) = steps[p].value
             \/ /\ steps[p].byte \in Int /\ steps[p].next \in p + 1..n
                /\ \A f : StepGives(steps[p], f) = Push(steps[p].byte, f[steps[p].next])
  BY EndsOrPushes DEF IsSteps
<1>2. \A p \in 1..n : \A q \in p + 1..n : q \in 1..n /\ q > p
  OBVIOUS
<1>3. ASSUME NEW p \in 1..n, NEW f \in V PROVE StepGives(steps[p], f) \in Reading
  <2>1. CASE steps[p].value \in Reading /\ \A g : StepGives(steps[p], g) = steps[p].value
    BY <2>1
  <2>2. CASE /\ steps[p].byte \in Int /\ steps[p].next \in p + 1..n
             /\ \A g : StepGives(steps[p], g) = Push(steps[p].byte, g[steps[p].next])
    <3>1. f[steps[p].next] \in Reading
      BY <1>2, <2>2
    <3> QED BY <2>2, <3>1, PushReads
  <2> QED BY <1>1, <2>1, <2>2
<1>4. ASSUME NEW p \in 1..n, NEW f \in V, NEW g \in V, \A q \in 1..n : q > p => f[q] = g[q]
      PROVE  StepGives(steps[p], f) = StepGives(steps[p], g)
  <2>1. CASE steps[p].value \in Reading /\ \A h : StepGives(steps[p], h) = steps[p].value
    BY <2>1
  <2>2. CASE /\ steps[p].byte \in Int /\ steps[p].next \in p + 1..n
             /\ \A h : StepGives(steps[p], h) = Push(steps[p].byte, h[steps[p].next])
    <3>1. f[steps[p].next] = g[steps[p].next]
      BY <1>2, <1>4, <2>2
    <3> QED BY <2>2, <3>1
  <2> QED BY <1>1, <2>1, <2>2
<1>5. B \in [1..n -> [V -> Reading]]
  BY <1>3
<1>6. \A p \in 1..n, f \in V : B[p][f] = StepGives(steps[p], f)
  OBVIOUS
<1> HIDE DEF B
<1>7. ASSUME NEW p \in 1..n, NEW f \in V, NEW g \in V, \A q \in 1..n : q > p => f[q] = g[q]
      PROVE  B[p][f] = B[p][g]
  <2>1. StepGives(steps[p], f) = StepGives(steps[p], g)
    BY <1>4, <1>7
  <2> HIDE DEF V
  <2> QED BY <1>6, <2>1
<1>8. Read(<< >>) \in Reading
  BY EmptyRead
<1>9. IsDownward(B, n, Reading)
  <2>1. B \in [1..n -> [[1..n -> Reading] -> Reading]]
    BY <1>5
  <2>2. \A p \in 1..n, f, g \in [1..n -> Reading] :
           (\A q \in 1..n : q > p => f[q] = g[q]) => B[p][f] = B[p][g]
    <3> SUFFICES ASSUME NEW p \in 1..n, NEW f \in V, NEW g \in V, \A q \in 1..n : q > p => f[q] = g[q]
                 PROVE  B[p][f] = B[p][g]
      OBVIOUS
    <3> HIDE DEF V
    <3> QED BY <1>7
  <2> QED BY <2>1, <2>2 DEF IsDownward
<1>10. HasSolution(B, n, Reading)
  BY <1>8, <1>9, DownwardExists
<1>11. PICK f \in V : \A p \in 1..n : f[p] = B[p][f]
  BY <1>10 DEF HasSolution
<1>12. IsReader(f, steps, n)
  BY <1>6, <1>11 DEF IsReader
<1> QED BY <1>12

\* Whatever takes these steps is a reader.
LEMMA ReaderReads ==
  ASSUME NEW n \in Nat, NEW steps, IsSteps(steps, n), NEW f,
         f = [p \in 1..n |-> StepGives(steps[p], f)]
  PROVE  IsReader(f, steps, n)
<1> DEFINE T == { p \in 1..n : \A q \in p..n : f[q] \in Reading }
<1>1. ASSUME NEW p \in 1..n, \A q \in p + 1..n : f[q] \in Reading PROVE f[p] \in Reading
  <2>1. \/ steps[p].value \in Reading /\ \A g : StepGives(steps[p], g) = steps[p].value
        \/ /\ steps[p].byte \in Int /\ steps[p].next \in p + 1..n
           /\ \A g : StepGives(steps[p], g) = Push(steps[p].byte, g[steps[p].next])
    BY EndsOrPushes DEF IsSteps
  <2>2. f[p] = StepGives(steps[p], f)
    OBVIOUS
  <2> QED BY <1>1, <2>1, <2>2, PushReads
<1>2. n >= 1 => n \in T
  <2> SUFFICES ASSUME n >= 1 PROVE n \in T
    OBVIOUS
  <2>1. n \in 1..n /\ n + 1..n = {} /\ \A q \in n..n : q = n
    OBVIOUS
  <2>2. f[n] \in Reading
    BY <1>1, <2>1
  <2> QED BY <2>1, <2>2
<1>3. ASSUME NEW p \in 1..n, p + 1 <= n, p + 1 \in T PROVE p \in T
  <2>1. f[p] \in Reading
    BY <1>1, <1>3
  <2>2. \A q \in p..n : q = p \/ q \in p + 1..n
    OBVIOUS
  <2> QED BY <1>3, <2>1, <2>2
<1>4. n >= 1 => 1..n \subseteq T
  <2> HIDE DEF T
  <2> QED BY <1>2, <1>3, DownwardInduction
<1>5. \A p \in 1..n : n >= 1 /\ p \in p..n
  OBVIOUS
<1>6. \A p \in 1..n : f[p] \in Reading
  BY <1>4, <1>5
<1> QED BY <1>6 DEF IsReader

\* A step of the reader of default values.
LEMMA UnescapedEndsOrPushes ==
  ASSUME NEW text \in Seq(Int), NEW checked, NEW p \in 1..Len(text) + 1
  PROVE  \/ \E c \in Reading : \A f : Unescaped(text, checked, f, p) = c
         \/ \E b \in Int, q \in p + 1..Len(text) + 1 :
              \A f : Unescaped(text, checked, f, p) = Push(b, f[q])
<1> DEFINE n == Len(text)
           Ends == \E c \in Reading : \A f : Unescaped(text, checked, f, p) = c
           Pushes == \E b \in Int, q \in p + 1..n + 1 :
                       \A f : Unescaped(text, checked, f, p) = Push(b, f[q])
<1>1. n \in Nat /\ p \in 1..n + 1 /\ \A i \in 1..n : text[i] \in Int
  OBVIOUS
<1>2. Refused \in Reading /\ Panics \in Reading /\ Read(<< >>) \in Reading
  BY EmptyRead DEF Reading
<1>3. CASE p = n + 1
  <2>1. \A f : Unescaped(text, checked, f, p) = Read(<< >>)
    BY <1>3, UnescapedCases DEF UnescapedAs
  <2> QED BY <1>2, <2>1
<1>4. CASE p <= n /\ text[p] # Backslash
  <2>1. \A f : Unescaped(text, checked, f, p) = Push(text[p], f[p + 1])
    BY <1>4, UnescapedCases DEF UnescapedAs
  <2>2. text[p] \in Int /\ p + 1 \in p + 1..n + 1
    BY <1>1, <1>4
  <2> QED BY <2>1, <2>2
<1>5. CASE p = n /\ text[p] = Backslash
  <2>1. \A f : Unescaped(text, checked, f, p) = Refused
    BY <1>5, UnescapedCases DEF UnescapedAs
  <2> QED BY <1>2, <2>1
<1>6. CASE Escapes(text, p)
  <2>1. p + 2 \in p + 1..n + 1
    BY <1>1, <1>6 DEF Escapes
  <2>2. CASE text[p + 1] \in Letters
    <3>1. \A f : Unescaped(text, checked, f, p) = Push(Escape[text[p + 1]], f[p + 2])
      BY <1>6, <2>2, UnescapedCases DEF UnescapedAs
    <3>2. Escape[text[p + 1]] \in Int
      BY <2>2, LettersAre
    <3> QED BY <2>1, <3>1, <3>2
  <2>3. CASE text[p + 1] \in Digits(8)
    <3> DEFINE v == OctalValue(text, p)
               q == p + 1 + Len(OctalDigits(text, p + 1))
    <3>1. \A f : Unescaped(text, checked, f, p) =
                   IF v > 255 /\ checked THEN Panics ELSE Push(v % 256, f[q])
      BY <1>6, <2>3, UnescapedCases DEF UnescapedAs
    <3>2. v \in Nat /\ q \in p + 1..n + 1
      BY <1>6, OctalRead
    <3> HIDE DEF v, q
    <3>3. v % 256 \in Int
      BY <3>2
    <3>4. CASE v > 255 /\ checked
      BY <1>2, <3>1, <3>4
    <3>5. CASE ~(v > 255 /\ checked)
      <4>1. \A f : Unescaped(text, checked, f, p) = Push(v % 256, f[q])
        BY <3>1, <3>5
      <4> QED BY <3>2, <3>3, <4>1
    <3> QED BY <3>4, <3>5
  <2>4. CASE text[p + 1] \in {88, 120}
    <3>1. \A f : Unescaped(text, checked, f, p) =
                   IF HexPanics(text, p) THEN Panics
                   ELSE IF HexRead(text, p) THEN Push(HexValue(text, p), f[p + 4]) ELSE Refused
      BY <1>6, <2>4, UnescapedCases DEF UnescapedAs
    <3>2. CASE HexPanics(text, p) \/ ~HexRead(text, p)
      BY <1>2, <3>1, <3>2
    <3>3. CASE ~HexPanics(text, p) /\ HexRead(text, p)
      <4>1. \A f : Unescaped(text, checked, f, p) = Push(HexValue(text, p), f[p + 4])
        BY <3>1, <3>3
      <4>2. HexValue(text, p) \in Int /\ p + 4 \in p + 1..n + 1
        BY <3>3, HexIsNat
      <4> QED BY <4>1, <4>2
    <3> QED BY <3>2, <3>3
  <2>5. CASE text[p + 1] \notin Letters \cup Digits(8) \cup {88, 120}
    <3>1. \A f : Unescaped(text, checked, f, p) = Refused
      BY <1>6, <2>5, UnescapedCases DEF UnescapedAs
    <3> QED BY <1>2, <3>1
  <2> HIDE DEF Ends, Pushes
  <2> QED BY <2>2, <2>3, <2>4, <2>5
<1>7. p = n + 1 \/ (p <= n /\ text[p] # Backslash) \/ (p = n /\ text[p] = Backslash) \/ Escapes(text, p)
  BY <1>1 DEF Escapes
<1> QED BY <1>3, <1>4, <1>5, <1>6, <1>7

\* Unescaping takes a step at every position.
LEMMA UnescapedStep ==
  ASSUME NEW text \in Seq(Int), NEW checked, NEW p \in 1..Len(text) + 1
  PROVE  UnescapeSteps(text, checked, p)
<1> DEFINE n == Len(text) + 1
<1>1. n \in Nat /\ p \in 1..n
  OBVIOUS
<1>2. CASE \E c \in Reading : \A f : Unescaped(text, checked, f, p) = c
  <2>1. PICK c \in Reading : \A f : Unescaped(text, checked, f, p) = c
    BY <1>2
  <2> QED BY <1>1, <2>1, EndStepIs DEF n, UnescapeSteps, UnescapesBy
<1>3. CASE \E b \in Int, q \in p + 1..n : \A f : Unescaped(text, checked, f, p) = Push(b, f[q])
  <2>1. PICK b \in Int, q \in p + 1..n : \A f : Unescaped(text, checked, f, p) = Push(b, f[q])
    BY <1>3
  <2> QED BY <1>1, <2>1, PushStepIs DEF n, UnescapeSteps, UnescapesBy
<1> QED BY <1>2, <1>3, UnescapedEndsOrPushes

\* The reader of default values is the function that its definition asks for.
LEMMA UnescapeCIs ==
  ASSUME NEW text \in Seq(Int), NEW checked
  PROVE  \E f : /\ f \in [1..Len(text) + 1 -> Reading] /\ UnescapeC(text, checked) = f[1]
                /\ \A p \in 1..Len(text) + 1 : f[p] = Unescaped(text, checked, f, p)
<1> DEFINE n == Len(text) + 1
           from == CHOOSE f : f = [p \in 1..n |-> Unescaped(text, checked, f, p)]
           steps == [p \in 1..n |-> CHOOSE s \in StepsAt(n, p) : UnescapesBy(text, checked, p, s)]
<1>1. n \in Nat
  OBVIOUS
<1>2. ASSUME NEW p \in 1..n
      PROVE  steps[p] \in StepsAt(n, p) /\ \A f : Unescaped(text, checked, f, p) = StepGives(steps[p], f)
  <2>1. UnescapeSteps(text, checked, p)
    BY UnescapedStep
  <2>2. steps[p] = CHOOSE s \in StepsAt(n, p) : UnescapesBy(text, checked, p, s)
    OBVIOUS
  <2>3. \E s \in StepsAt(n, p) : UnescapesBy(text, checked, p, s)
    BY <2>1 DEF UnescapeSteps
  <2> HIDE DEF n, steps
  <2>4. steps[p] \in StepsAt(n, p) /\ UnescapesBy(text, checked, p, steps[p])
    BY <2>2, <2>3
  <2> QED BY <2>4 DEF UnescapesBy
<1>3. UnescapeC(text, checked) = from[1]
  BY DEF UnescapeC
<1>4. DOMAIN steps = 1..n
  OBVIOUS
<1> HIDE DEF n, from, steps
<1>5. IsSteps(steps, n)
  BY <1>2, <1>4 DEF IsSteps
<1>6. PICK f : IsReader(f, steps, n)
  BY <1>1, <1>5, ReaderExists
<1>7. f = [p \in 1..n |-> Unescaped(text, checked, f, p)]
  BY <1>2, <1>6 DEF IsReader
<1>8. from = [p \in 1..n |-> Unescaped(text, checked, from, p)]
  BY <1>7, Zenon DEF from
<1>9. from = [p \in 1..n |-> StepGives(steps[p], from)]
  <2>1. \A p \in 1..n : Unescaped(text, checked, from, p) = StepGives(steps[p], from)
    BY <1>2
  <2> QED BY <1>8, <2>1, Zenon
<1>10. IsReader(from, steps, n)
  BY <1>1, <1>5, <1>9, ReaderReads
<1>11. \A p \in 1..n : from[p] = Unescaped(text, checked, from, p)
  BY <1>8, Zenon
<1> QED BY <1>3, <1>10, <1>11 DEF IsReader, n

\* A number that the lexer reads, or refuses.
NumberAt(text, at, base, most) == Value(DigitsAt(text, at, base, most), base)
AfterNumber(text, at, base, most) == at + Len(DigitsAt(text, at, base, most))
NoByteAt(text, at, base, most) ==
  DigitsAt(text, at, base, most) = << >> \/ NumberAt(text, at, base, most) > 255

\* What the lexer does with it.
NumberRead(text, at, base, most) ==
  /\ NoByteAt(text, at, base, most) =>
       \A f : LexNumber(text, f, at, base, most) = Refused
  /\ ~NoByteAt(text, at, base, most) =>
       /\ NumberAt(text, at, base, most) \in 0..255
       /\ AfterNumber(text, at, base, most) \in at + 1..Len(text) + 1
       /\ \A f : LexNumber(text, f, at, base, most)
                 = Push(NumberAt(text, at, base, most), f[AfterNumber(text, at, base, most)])

\* It is a byte when it has digits and fits one.
LEMMA LexNumberStep ==
  ASSUME NEW text \in Seq(Int), NEW at \in 1..Len(text) + 1, NEW base \in {8, 16}, NEW most \in Nat
  PROVE  NumberRead(text, at, base, most)
<1> DEFINE digits == DigitsAt(text, at, base, most)
           n == Len(text)
<1>1. /\ digits \in Seq(Int) /\ Len(digits) \in 0..most /\ at + Len(digits) <= n + 1
      /\ \A i \in 1..Len(digits) : digits[i] \in Digits(base)
  BY DigitsRead
<1>2. n \in Nat /\ at \in 1..n + 1
  OBVIOUS
<1>3. /\ digits = << >> \/ Value(digits, base) > 255 =>
           \A f : LexNumber(text, f, at, base, most) = Refused
      /\ ~(digits = << >> \/ Value(digits, base) > 255) =>
           \A f : LexNumber(text, f, at, base, most) = Push(Value(digits, base), f[at + Len(digits)])
  BY DEF LexNumber
<1> HIDE DEF digits, n
<1>4. Value(digits, base) \in Nat
  BY <1>1, ValueIsNat
<1>5. digits # << >> => Len(digits) >= 1
  BY <1>1
<1>6. digits # << >> => at + Len(digits) \in at + 1..n + 1
  BY <1>1, <1>2, <1>5
<1>7. ~(Value(digits, base) > 255) => Value(digits, base) \in 0..255
  <2> DEFINE v == Value(digits, base)
  <2>1. v \in Nat
    BY <1>4
  <2> HIDE DEF v
  <2>2. ~(v > 255) => v \in 0..255
    BY <2>1
  <2> QED BY <2>2 DEF v
<1> QED BY <1>3, <1>6, <1>7 DEF digits, n, NumberAt, AfterNumber, NoByteAt, NumberRead

\* At every position the lexer ends or pushes a byte.
LEMMA LexedEndsOrPushes ==
  ASSUME NEW text \in Seq(Int), NEW quote, quote \notin {0, 10, Backslash}, NEW p \in 1..Len(text) + 1
  PROVE  \/ \E c \in Reading : \A f : Lexed(text, quote, f, p) = c
         \/ \E b \in Int, q \in p + 1..Len(text) + 1 :
              \A f : Lexed(text, quote, f, p) = Push(b, f[q])
<1> DEFINE n == Len(text)
           Ends == \E c \in Reading : \A f : Lexed(text, quote, f, p) = c
           Pushes == \E b \in Int, q \in p + 1..n + 1 : \A f : Lexed(text, quote, f, p) = Push(b, f[q])
<1>1. n \in Nat /\ p \in 1..n + 1 /\ \A i \in 1..n : text[i] \in Int
  OBVIOUS
<1>2. Refused \in Reading /\ Read(<< >>) \in Reading
  BY EmptyRead DEF Reading
<1>3. CASE p = n + 1
  <2>1. \A f : Lexed(text, quote, f, p) = Refused
    BY <1>3, LexedCases DEF LexedAs
  <2> QED BY <1>2, <2>1
<1>4. CASE p <= n /\ text[p] \in {0, 10}
  <2>1. \A f : Lexed(text, quote, f, p) = Refused
    BY <1>4, LexedCases DEF LexedAs
  <2> QED BY <1>2, <2>1
<1>5. CASE p <= n /\ text[p] = quote
  <2>1. \A f : Lexed(text, quote, f, p) = IF p = n THEN Read(<< >>) ELSE Refused
    BY <1>5, LexedCases DEF LexedAs
  <2> QED BY <1>2, <2>1
<1>6. CASE p <= n /\ text[p] \notin {0, 10, quote, Backslash}
  <2>1. \A f : Lexed(text, quote, f, p) = Push(text[p], f[p + 1])
    BY <1>6, LexedCases DEF LexedAs
  <2>2. text[p] \in Int /\ p + 1 \in p + 1..n + 1
    BY <1>1, <1>6
  <2> QED BY <2>1, <2>2
<1>7. CASE p = n /\ text[p] = Backslash
  <2>1. \A f : Lexed(text, quote, f, p) = Refused
    BY <1>7, LexedCases DEF LexedAs
  <2> QED BY <1>2, <2>1
<1>8. CASE Escapes(text, p)
  <2>1. p + 1 \in 1..n + 1 /\ p + 2 \in 1..n + 1 /\ p + 2 \in p + 1..n + 1
    BY <1>1, <1>8 DEF Escapes
  <2>2. CASE text[p + 1] \in Letters
    <3>1. \A f : Lexed(text, quote, f, p) = Push(Escape[text[p + 1]], f[p + 2])
      BY <1>8, <2>2, LexedCases DEF LexedAs
    <3>2. Escape[text[p + 1]] \in Int
      BY <2>2, LettersAre
    <3> QED BY <2>1, <3>1, <3>2
  <2>3. ASSUME NEW at \in p + 1..n + 1, NEW base \in {8, 16}, NEW most \in Nat,
               \A f : Lexed(text, quote, f, p) = LexNumber(text, f, at, base, most)
        PROVE  Ends \/ Pushes
    <3> DEFINE q == AfterNumber(text, at, base, most)
               v == NumberAt(text, at, base, most)
    <3>1. NumberRead(text, at, base, most)
      <4>1. at \in 1..Len(text) + 1
        BY <1>1
      <4> QED BY <4>1, LexNumberStep
    <3>2. CASE NoByteAt(text, at, base, most)
      <4>1. \A f : LexNumber(text, f, at, base, most) = Refused
        BY <3>1, <3>2 DEF NumberRead
      <4> QED BY <1>2, <2>3, <4>1
    <3>3. CASE ~NoByteAt(text, at, base, most)
      <4>1. /\ v \in 0..255 /\ q \in at + 1..n + 1
            /\ \A f : LexNumber(text, f, at, base, most) = Push(v, f[q])
        BY <3>1, <3>3 DEF NumberRead
      <4> HIDE DEF q, v
      <4>2. q \in p + 1..n + 1 /\ v \in Int
        BY <1>1, <4>1
      <4>3. \A f : Lexed(text, quote, f, p) = Push(v, f[q])
        BY <2>3, <4>1
      <4> QED BY <4>2, <4>3
    <3> QED BY <3>2, <3>3
  <2>4. CASE text[p + 1] \in Digits(8)
    <3>1. \A f : Lexed(text, quote, f, p) = LexNumber(text, f, p + 1, 8, 3)
      BY <1>8, <2>4, LexedCases DEF LexedAs
    <3>2. p + 1 \in p + 1..n + 1
      BY <2>1
    <3> QED BY <2>3, <3>1, <3>2
  <2>5. CASE text[p + 1] \in {88, 120}
    <3>1. \A f : Lexed(text, quote, f, p) = LexNumber(text, f, p + 2, 16, 2)
      BY <1>8, <2>5, LexedCases DEF LexedAs
    <3> QED BY <2>1, <2>3, <3>1
  <2>6. CASE text[p + 1] \notin Letters \cup Digits(8) \cup {88, 120}
    <3>1. \A f : Lexed(text, quote, f, p) = Refused
      BY <1>8, <2>6, LexedCases DEF LexedAs
    <3> QED BY <1>2, <3>1
  <2> HIDE DEF Ends, Pushes
  <2> QED BY <2>2, <2>4, <2>5, <2>6
<1>9. \/ p = n + 1 \/ (p <= n /\ text[p] \in {0, 10}) \/ (p <= n /\ text[p] = quote)
      \/ (p <= n /\ text[p] \notin {0, 10, quote, Backslash}) \/ (p = n /\ text[p] = Backslash)
      \/ Escapes(text, p)
  BY <1>1 DEF Escapes
<1> QED BY <1>3, <1>4, <1>5, <1>6, <1>7, <1>8, <1>9

\* So it takes a step at every position.
LEMMA LexedStep ==
  ASSUME NEW text \in Seq(Int), NEW quote, quote \notin {0, 10, Backslash}, NEW p \in 1..Len(text) + 1
  PROVE  LexSteps(text, quote, p)
<1> DEFINE n == Len(text) + 1
<1>1. n \in Nat /\ p \in 1..n
  OBVIOUS
<1>2. CASE \E c \in Reading : \A f : Lexed(text, quote, f, p) = c
  <2>1. PICK c \in Reading : \A f : Lexed(text, quote, f, p) = c
    BY <1>2
  <2> QED BY <1>1, <2>1, EndStepIs DEF n, LexSteps, LexesBy
<1>3. CASE \E b \in Int, q \in p + 1..n : \A f : Lexed(text, quote, f, p) = Push(b, f[q])
  <2>1. PICK b \in Int, q \in p + 1..n : \A f : Lexed(text, quote, f, p) = Push(b, f[q])
    BY <1>3
  <2> QED BY <1>1, <2>1, PushStepIs DEF n, LexSteps, LexesBy
<1> QED BY <1>2, <1>3, LexedEndsOrPushes

\* The lexer's string is the function that its definition asks for.
LEMMA LexStringIs ==
  ASSUME NEW text \in Seq(Int), NEW quote, quote \notin {0, 10, Backslash}
  PROVE  \E f : /\ f \in [1..Len(text) + 1 -> Reading] /\ LexString(text, quote) = f[1]
                /\ \A p \in 1..Len(text) + 1 : f[p] = Lexed(text, quote, f, p)
<1> DEFINE n == Len(text) + 1
           from == CHOOSE f : f = [p \in 1..n |-> Lexed(text, quote, f, p)]
           steps == [p \in 1..n |-> CHOOSE s \in StepsAt(n, p) : LexesBy(text, quote, p, s)]
<1>1. n \in Nat
  OBVIOUS
<1>2. ASSUME NEW p \in 1..n
      PROVE  steps[p] \in StepsAt(n, p) /\ \A f : Lexed(text, quote, f, p) = StepGives(steps[p], f)
  <2>1. LexSteps(text, quote, p)
    BY LexedStep
  <2>2. steps[p] = CHOOSE s \in StepsAt(n, p) : LexesBy(text, quote, p, s)
    OBVIOUS
  <2>3. \E s \in StepsAt(n, p) : LexesBy(text, quote, p, s)
    BY <2>1 DEF LexSteps
  <2> HIDE DEF n, steps
  <2>4. steps[p] \in StepsAt(n, p) /\ LexesBy(text, quote, p, steps[p])
    BY <2>2, <2>3
  <2> QED BY <2>4 DEF LexesBy
<1>3. LexString(text, quote) = from[1]
  BY DEF LexString
<1>4. DOMAIN steps = 1..n
  OBVIOUS
<1> HIDE DEF n, from, steps
<1>5. IsSteps(steps, n)
  BY <1>2, <1>4 DEF IsSteps
<1>6. PICK f : IsReader(f, steps, n)
  BY <1>1, <1>5, ReaderExists
<1>7. f = [p \in 1..n |-> Lexed(text, quote, f, p)]
  BY <1>2, <1>6 DEF IsReader
<1>8. from = [p \in 1..n |-> Lexed(text, quote, from, p)]
  BY <1>7, Zenon DEF from
<1>9. from = [p \in 1..n |-> StepGives(steps[p], from)]
  <2>1. \A p \in 1..n : Lexed(text, quote, from, p) = StepGives(steps[p], from)
    BY <1>2
  <2> QED BY <1>8, <2>1, Zenon
<1>10. IsReader(from, steps, n)
  BY <1>1, <1>5, <1>9, ReaderReads
<1>11. \A p \in 1..n : from[p] = Lexed(text, quote, from, p)
  BY <1>8, Zenon
<1> QED BY <1>3, <1>10, <1>11 DEF IsReader, n
\* Both readers take the same byte from a position, and go on from the same one.
BothPush(u, l, f, g, n, p) ==
  \E b \in Int, q \in p + 1..n + 1 : u = Push(b, f[q]) /\ l = Push(b, g[q])

\* A step of both readers over one literal, which the lexer reads with its quote: each
\* that does not refuse takes what the other does.
LEMMA StepsAgree ==
  ASSUME NEW text \in Seq(Int), NEW checked, NEW f, NEW g, NEW p \in 1..Len(text) + 1,
         NEW t, IsQuoted(t, text),
         NEW u, u = Unescaped(text, checked, f, p), NEW l, l = Lexed(t, Quote, g, p),
         u \notin {Refused, Panics}, l # Refused
  PROVE  (u = Read(<< >>) /\ l = Read(<< >>)) \/ BothPush(u, l, f, g, Len(text), p)
<1> DEFINE n == Len(text)
<1>1. /\ n \in Nat /\ t \in Seq(Int) /\ Len(t) = n + 1 /\ t[n + 1] = Quote
      /\ \A i \in 1..n : t[i] = text[i] /\ text[i] \in Int
  BY DEF IsQuoted
<1>2. Quote \notin {0, 10, Backslash} /\ p \in 1..n + 1 /\ p \in 1..Len(t) + 1
  BY <1>1 DEF Quote, Backslash
<1>3. CASE p = n + 1
  <2>1. u = Read(<< >>)
    BY <1>3, UnescapedCases DEF UnescapedAs
  <2>2. p <= Len(t) /\ t[p] = Quote /\ p = Len(t)
    BY <1>1, <1>3
  <2>3. l = Read(<< >>)
    BY SMTT(60), <1>1, <1>2, <2>2, LexedCases DEF LexedAs
  <2> QED BY <2>1, <2>3
<1>4. CASE p <= n /\ text[p] # Backslash
  <2>1. u = Push(text[p], f[p + 1])
    BY <1>4, UnescapedCases DEF UnescapedAs
  <2>2. p <= Len(t) /\ p # Len(t) /\ t[p] = text[p] /\ text[p] \in Int /\ p + 1 \in p + 1..n + 1
    BY <1>1, <1>2, <1>4
  <2>3. l = Lexed(t, Quote, g, p) /\ LexedAs(t, Quote, g, p)
    BY <1>1, <1>2, LexedCases
  <2>4. t[p] \notin {0, 10}
    BY <2>2, <2>3 DEF LexedAs
  <2>5. t[p] # Quote
    BY <2>2, <2>3 DEF LexedAs
  <2>6. l = Push(text[p], g[p + 1])
    BY <1>4, <2>2, <2>3, <2>4, <2>5 DEF LexedAs
  <2> QED BY <2>1, <2>2, <2>6 DEF BothPush
<1>5. CASE p = n /\ text[p] = Backslash
  BY <1>5, UnescapedCases DEF UnescapedAs
<1>6. CASE Escapes(text, p)
  <2>1. /\ Escapes(t, p) /\ t[p + 1] = text[p + 1] /\ p + 1 \in 1..n
        /\ p + 1 \in 1..n + 1 /\ p + 2 \in 1..n + 1 /\ p + 2 \in p + 1..n + 1
    <3>1. p \in 1..n /\ p < n /\ text[p] = Backslash
      BY <1>1, <1>2, <1>6 DEF Escapes
    <3> HIDE DEF n
    <3>2. p + 1 \in 1..n /\ p < n + 1
      BY <1>1, <3>1
    <3>3. p + 1 \in 1..n + 1 /\ p + 2 \in 1..n + 1 /\ p + 2 \in p + 1..n + 1
      BY <1>1, <3>1
    <3> QED BY <1>1, <3>1, <3>2, <3>3 DEF Escapes
  <2>2. l = Lexed(t, Quote, g, p)
    OBVIOUS
  <2>3. LexedAs(t, Quote, g, p)
    BY <1>1, <1>2, LexedCases
  <2>4. CASE text[p + 1] \in Letters
    <3>1. u = Push(Escape[text[p + 1]], f[p + 2])
      BY <1>6, <2>4, UnescapedCases DEF UnescapedAs
    <3>2. l = Push(Escape[text[p + 1]], g[p + 2])
      BY <2>1, <2>2, <2>4, <2>3 DEF LexedAs
    <3>3. Escape[text[p + 1]] \in Int
      BY <2>4, LettersAre
    <3> QED BY <2>1, <3>1, <3>2, <3>3 DEF BothPush
  <2>5. CASE text[p + 1] \in Digits(8)
    <3> DEFINE v == OctalValue(text, p)
               q == p + 1 + Len(OctalDigits(text, p + 1))
    <3>1. u = Push(v % 256, f[q])
      BY <1>6, <2>5, UnescapedCases DEF UnescapedAs
    <3>2. v \in Nat /\ q \in p + 1..n + 1
      BY <1>6, OctalRead
    <3>3. NumberRead(t, p + 1, 8, 3)
      <4>1. p + 1 \in 1..Len(t) + 1
        BY <1>1, <2>1
      <4> QED BY <1>1, <4>1, LexNumberStep
    <3>4. l = LexNumber(t, g, p + 1, 8, 3)
      BY <2>1, <2>2, <2>3, <2>5 DEF LexedAs
    <3>5. ~NoByteAt(t, p + 1, 8, 3)
      BY <3>3, <3>4 DEF NumberRead
    <3>6. DigitsAt(t, p + 1, 8, 3) = OctalDigits(text, p + 1)
      BY SMTT(60), <2>1, DigitsBeforeQuote DEF OctalDigits
    <3>7. NumberAt(t, p + 1, 8, 3) = v /\ AfterNumber(t, p + 1, 8, 3) = q
      BY <3>6 DEF NumberAt, AfterNumber, OctalValue
    <3>8. v \in 0..255 /\ l = Push(v, g[q])
      BY <3>3, <3>4, <3>5, <3>7 DEF NumberRead
    <3> HIDE DEF v, q
    <3>9. v % 256 = v
      <4>1. \A b \in 0..255 : b % 256 = b
        OBVIOUS
      <4> QED BY <3>8, <4>1
    <3>10. v \in Int
      BY <3>2
    <3> QED BY <3>1, <3>2, <3>8, <3>9, <3>10 DEF BothPush
  <2>6. CASE text[p + 1] \in {88, 120}
    <3>1. ~HexPanics(text, p) /\ HexRead(text, p) /\ u = Push(HexValue(text, p), f[p + 4])
      BY <1>6, <2>6, UnescapedCases DEF UnescapedAs
    <3>2. NumberRead(t, p + 2, 16, 2)
      <4>1. p + 2 \in 1..Len(t) + 1
        BY <1>1, <2>1
      <4> QED BY <1>1, <4>1, LexNumberStep
    <3>3. l = LexNumber(t, g, p + 2, 16, 2)
      BY <2>1, <2>2, <2>3, <2>6 DEF LexedAs
    <3>4. ~NoByteAt(t, p + 2, 16, 2)
      BY <3>2, <3>3 DEF NumberRead
    <3>5. DigitsAt(t, p + 2, 16, 2) = DigitsAt(text, p + 2, 16, 2)
      BY <2>1, DigitsBeforeQuote
    <3>6. DigitsAt(text, p + 2, 16, 2) = Hex(text, p) /\ Hex(text, p)[1] # 43
      <4> DEFINE at == p + 2
      <4>1. /\ Hex(text, p)[1] = text[at] /\ Hex(text, p)[2] = text[at + 1] /\ at \in 1..n /\ at + 1 <= n
            /\ at + 1 = p + 3
        <5>1. Hex(text, p)[1] = text[p + 2] /\ Hex(text, p)[2] = text[p + 3] /\ p + 3 <= n
          BY <3>1, HexIsNat DEF HexRead
        <5>2. at + 1 = p + 3 /\ at \in 1..n
          BY <1>1, <1>2, <5>1
        <5> QED BY <5>1, <5>2
      <4>2. text[at + 1] \in Digits(16)
        BY <3>1, <4>1 DEF HexRead
      <4> HIDE DEF at
      <4>3. /\ text[at] \in Digits(16) => DigitsAt(text, at, 16, 2) = SubSeq(text, at, at + 1)
            /\ text[at] \notin Digits(16) => DigitsAt(text, at, 16, 2) = << >>
        BY <4>1, <4>2, HexDigitsAt
      <4>4. DigitsAt(text, at, 16, 2) # << >>
        BY <3>4, <3>5 DEF NoByteAt, at
      <4>5. 43 \notin Digits(16)
        BY DEF Digits
      <4>6. text[at] \in Digits(16) /\ Hex(text, p)[1] # 43
        BY <4>1, <4>3, <4>4, <4>5
      <4>7. DigitsAt(text, at, 16, 2) = SubSeq(text, at, p + 3)
        BY <4>1, <4>3, <4>6
      <4> QED BY <4>6, <4>7 DEF at, Hex
    <3>7. /\ HexValue(text, p) \in Nat /\ p + 4 \in p + 1..n + 1 /\ Len(Hex(text, p)) = 2
      BY <3>1, HexIsNat
    <3>8. NumberAt(t, p + 2, 16, 2) = HexValue(text, p) /\ AfterNumber(t, p + 2, 16, 2) = p + 4
      <4>1. NumberAt(t, p + 2, 16, 2) = HexValue(text, p)
        BY <3>5, <3>6 DEF NumberAt, HexValue
      <4>2. AfterNumber(t, p + 2, 16, 2) = p + 2 + 2
        BY <3>5, <3>6, <3>7 DEF AfterNumber
      <4> QED BY <1>2, <4>1, <4>2
    <3>9. l = Push(HexValue(text, p), g[p + 4])
      BY <3>2, <3>3, <3>4, <3>8 DEF NumberRead
    <3>10. HexValue(text, p) \in Int
      BY <3>7
    <3> QED BY <3>1, <3>7, <3>9, <3>10 DEF BothPush
  <2>7. CASE text[p + 1] \notin Letters \cup Digits(8) \cup {88, 120}
    BY <1>6, <2>7, UnescapedCases DEF UnescapedAs
  <2> QED BY <2>4, <2>5, <2>6, <2>7
<1>7. p = n + 1 \/ (p <= n /\ text[p] # Backslash) \/ (p = n /\ text[p] = Backslash) \/ Escapes(text, p)
  BY <1>1 DEF Escapes
<1> QED BY <1>3, <1>4, <1>5, <1>6, <1>7
\* What the reader of default values and the lexer make of a literal is the same, where
\* both read it.
LEMMA ReadersAgree ==
  ASSUME NEW text \in Seq(Int), NEW checked, UnescapeC(text, checked).is = "bytes",
         LexString(Append(text, Quote), Quote).is = "bytes"
  PROVE  UnescapeC(text, checked) = LexString(Append(text, Quote), Quote)
<1> DEFINE n == Len(text)
           t == Append(text, Quote)
<1>1. IsQuoted(t, text) /\ n \in Nat
  BY QuotedText
<1>2. t \in Seq(Int) /\ Len(t) = n + 1 /\ Quote \notin {0, 10, Backslash}
  BY <1>1 DEF IsQuoted, Quote, Backslash
<1>3. PICK f : /\ f \in [1..n + 1 -> Reading] /\ UnescapeC(text, checked) = f[1]
               /\ \A p \in 1..n + 1 : f[p] = Unescaped(text, checked, f, p)
  BY UnescapeCIs
<1> HIDE DEF t
<1>4. PICK g : /\ g \in [1..Len(t) + 1 -> Reading] /\ LexString(t, Quote) = g[1]
               /\ \A p \in 1..Len(t) + 1 : g[p] = Lexed(t, Quote, g, p)
  BY <1>2, LexStringIs
<1> DEFINE Agree(p) == f[p].is = "bytes" /\ g[p].is = "bytes" => f[p] = g[p]
           S == { p \in 1..n + 1 : \A q \in p..n + 1 : Agree(q) }
<1>5. ASSUME NEW p \in 1..n + 1, \A q \in p + 1..n + 1 : Agree(q) PROVE Agree(p)
  <2> SUFFICES ASSUME f[p].is = "bytes", g[p].is = "bytes" PROVE f[p] = g[p]
    OBVIOUS
  <2>1. f[p] = Unescaped(text, checked, f, p) /\ g[p] = Lexed(t, Quote, g, p)
    BY <1>1, <1>2, <1>3, <1>4
  <2>2. f[p] \notin {Refused, Panics} /\ g[p] # Refused
    BY DEF Refused, Panics
  <2> DEFINE u == f[p]
             l == g[p]
  <2>3. u = Unescaped(text, checked, f, p) /\ l = Lexed(t, Quote, g, p)
        /\ u \notin {Refused, Panics} /\ l # Refused /\ p \in 1..Len(text) + 1
    BY <2>1, <2>2
  <2> HIDE DEF u, l, Agree
  <2>4. (u = Read(<< >>) /\ l = Read(<< >>)) \/ BothPush(u, l, f, g, Len(text), p)
    BY <1>1, <2>3, StepsAgree
  <2>5. CASE u = Read(<< >>) /\ l = Read(<< >>)
    BY <2>5 DEF u, l
  <2>6. CASE BothPush(u, l, f, g, Len(text), p)
    <3>1. PICK b \in Int, q \in p + 1..n + 1 : u = Push(b, f[q]) /\ l = Push(b, g[q])
      BY <2>6 DEF BothPush
    <3>2. q \in 1..n + 1 /\ q \in 1..Len(t) + 1
      BY <1>1, <1>2
    <3>3. f[q] \in Reading /\ g[q] \in Reading
      BY <1>3, <1>4, <3>2
    <3>4. f[q].is = "bytes" /\ g[q].is = "bytes"
      BY <3>1, <3>3, PushReads DEF u, l
    <3>5. f[q] = g[q]
      BY <1>5, <3>4 DEF Agree
    <3> QED BY <3>1, <3>5 DEF u, l
  <2> QED BY <2>4, <2>5, <2>6
<1> HIDE DEF Agree, n
<1>6. n + 1 \in S
  <2>1. \A q \in n + 1..n + 1 : q = n + 1
    BY <1>1
  <2>2. n + 1 \in 1..n + 1 /\ (n + 1) + 1..n + 1 = {}
    BY <1>1
  <2>3. Agree(n + 1)
    BY <1>5, <2>2
  <2> QED BY <2>1, <2>2, <2>3
<1>7. ASSUME NEW p \in 1..n + 1, p + 1 <= n + 1, p + 1 \in S PROVE p \in S
  <2>1. Agree(p)
    BY <1>5, <1>7
  <2>2. \A q \in p..n + 1 : q = p \/ q \in p + 1..n + 1
    BY <1>1
  <2> QED BY <1>7, <2>1, <2>2
<1>8. 1..n + 1 \subseteq S
  <2> HIDE DEF S
  <2> DEFINE m == n + 1
  <2>1. m \in Nat /\ m \in S /\ \A p \in 1..m : p + 1 <= m /\ p + 1 \in S => p \in S
    BY <1>1, <1>6, <1>7
  <2> HIDE DEF m
  <2>2. 1..m \subseteq S
    BY <2>1, DownwardInduction
  <2> QED BY <2>2 DEF m
<1>9. Agree(1)
  <2>1. 1 \in 1..n + 1
    BY <1>1
  <2> QED BY <1>8, <2>1
<1> QED BY <1>3, <1>4, <1>9 DEF Agree, t

\* Where the arithmetic is checked, reading panics or gives what it gives without.
LEMMA CheckedOrNot ==
  ASSUME NEW text \in Seq(Int), NEW checked
  PROVE  /\ UnescapeC(text, checked) \in Reading /\ UnescapeC(text, FALSE) \in Reading
         /\ UnescapeC(text, checked) = Panics \/ UnescapeC(text, checked) = UnescapeC(text, FALSE)
<1> DEFINE n == Len(text)
<1>1. n \in Nat
  OBVIOUS
<1>2. PICK f : /\ f \in [1..n + 1 -> Reading] /\ UnescapeC(text, checked) = f[1]
               /\ \A p \in 1..n + 1 : f[p] = Unescaped(text, checked, f, p)
  BY UnescapeCIs
<1>3. PICK g : /\ g \in [1..n + 1 -> Reading] /\ UnescapeC(text, FALSE) = g[1]
               /\ \A p \in 1..n + 1 : g[p] = Unescaped(text, FALSE, g, p)
  BY UnescapeCIs
<1> DEFINE Agree(p) == f[p] = Panics \/ f[p] = g[p]
           S == { p \in 1..n + 1 : \A q \in p..n + 1 : Agree(q) }
<1>4. ASSUME NEW p \in 1..n + 1, \A q \in p + 1..n + 1 : Agree(q) PROVE Agree(p)
  <2> DEFINE u == f[p]
             v == g[p]
  <2>1. u = Unescaped(text, checked, f, p) /\ v = Unescaped(text, FALSE, g, p)
    BY <1>2, <1>3
  <2>2. UnescapedAs(text, checked, f, p) /\ UnescapedAs(text, FALSE, g, p)
    BY UnescapedCases
  <2> SUFFICES u = Panics \/ u = v
    BY DEF u, v, Agree
  <2> HIDE DEF u, v, Agree
  <2>3. ASSUME NEW b \in Int, NEW q \in p + 1..n + 1, u = Push(b, f[q]), v = Push(b, g[q])
        PROVE  u = Panics \/ u = v
    <3>1. Agree(q)
      BY <1>4
    <3>2. q \in 1..n + 1
      BY <1>1
    <3>3. f[q] \in Reading
      BY <1>2, <3>2
    <3> QED BY <2>3, <3>1, <3>3, PushReads DEF Agree
  <2>4. CASE p = n + 1
    BY <2>1, <2>2, <2>4 DEF UnescapedAs
  <2>5. CASE p <= n /\ text[p] # Backslash
    <3>1. u = Push(text[p], f[p + 1]) /\ v = Push(text[p], g[p + 1])
      BY <2>1, <2>2, <2>5 DEF UnescapedAs
    <3>2. text[p] \in Int /\ p + 1 \in p + 1..n + 1
      BY <1>1, <2>5
    <3> QED BY <2>3, <3>1, <3>2
  <2>6. CASE p = n /\ text[p] = Backslash
    BY <2>1, <2>2, <2>6 DEF UnescapedAs
  <2>7. CASE Escapes(text, p)
    <3>1. p + 2 \in p + 1..n + 1
      BY <1>1, <2>7 DEF Escapes
    <3>2. CASE text[p + 1] \in Letters
      <4>1. u = Push(Escape[text[p + 1]], f[p + 2]) /\ v = Push(Escape[text[p + 1]], g[p + 2])
        BY <2>1, <2>2, <2>7, <3>2 DEF UnescapedAs
      <4>2. Escape[text[p + 1]] \in Int
        BY <3>2, LettersAre
      <4> QED BY <2>3, <3>1, <4>1, <4>2
    <3>3. CASE text[p + 1] \in Digits(8)
      <4> DEFINE o == OctalValue(text, p)
                 q == p + 1 + Len(OctalDigits(text, p + 1))
      <4>1. /\ u = IF o > 255 /\ checked THEN Panics ELSE Push(o % 256, f[q])
            /\ v = Push(o % 256, g[q])
        BY <2>1, <2>2, <2>7, <3>3 DEF UnescapedAs
      <4>2. o \in Nat /\ q \in p + 1..n + 1
        BY <2>7, OctalRead
      <4> HIDE DEF o, q
      <4>3. o % 256 \in Int
        BY <4>2
      <4>4. CASE o > 255 /\ checked
        BY <4>1, <4>4
      <4>5. CASE ~(o > 255 /\ checked)
        <5>1. u = Push(o % 256, f[q])
          BY <4>1, <4>5
        <5> QED BY <2>3, <4>1, <4>2, <4>3, <5>1
      <4> QED BY <4>4, <4>5
    <3>4. CASE text[p + 1] \in {88, 120}
      <4>1. /\ u = IF HexPanics(text, p) THEN Panics
                   ELSE IF HexRead(text, p) THEN Push(HexValue(text, p), f[p + 4]) ELSE Refused
            /\ v = IF HexPanics(text, p) THEN Panics
                   ELSE IF HexRead(text, p) THEN Push(HexValue(text, p), g[p + 4]) ELSE Refused
        BY <2>1, <2>2, <2>7, <3>4 DEF UnescapedAs
      <4>2. CASE HexPanics(text, p) \/ ~HexRead(text, p)
        BY <4>1, <4>2
      <4>3. CASE ~HexPanics(text, p) /\ HexRead(text, p)
        <5>1. u = Push(HexValue(text, p), f[p + 4]) /\ v = Push(HexValue(text, p), g[p + 4])
          BY <4>1, <4>3
        <5>2. p \in 1..Len(text) + 1
          OBVIOUS
        <5>3. HexValue(text, p) \in Nat /\ p + 4 \in p + 1..Len(text) + 1
          BY <4>3, <5>2, HexIsNat
        <5>4. HexValue(text, p) \in Int /\ p + 4 \in p + 1..n + 1
          BY <5>3
        <5> QED BY <2>3, <5>1, <5>4
      <4> QED BY <4>2, <4>3
    <3>5. CASE text[p + 1] \notin Letters \cup Digits(8) \cup {88, 120}
      BY <2>1, <2>2, <2>7, <3>5 DEF UnescapedAs
    <3> QED BY <3>2, <3>3, <3>4, <3>5
  <2>8. p = n + 1 \/ (p <= n /\ text[p] # Backslash) \/ (p = n /\ text[p] = Backslash) \/ Escapes(text, p)
    BY <1>1 DEF Escapes
  <2> QED BY <2>4, <2>5, <2>6, <2>7, <2>8
<1> HIDE DEF Agree, n
<1>5. n + 1 \in S
  <2>1. \A q \in n + 1..n + 1 : q = n + 1
    BY <1>1
  <2>2. n + 1 \in 1..n + 1 /\ (n + 1) + 1..n + 1 = {}
    BY <1>1
  <2>3. Agree(n + 1)
    BY <1>4, <2>2
  <2> QED BY <2>1, <2>2, <2>3
<1>6. ASSUME NEW p \in 1..n + 1, p + 1 <= n + 1, p + 1 \in S PROVE p \in S
  <2>1. Agree(p)
    BY <1>4, <1>6
  <2>2. \A q \in p..n + 1 : q = p \/ q \in p + 1..n + 1
    BY <1>1
  <2> QED BY <1>6, <2>1, <2>2
<1>7. 1..n + 1 \subseteq S
  <2> HIDE DEF S
  <2> DEFINE m == n + 1
  <2>1. m \in Nat /\ m \in S /\ \A p \in 1..m : p + 1 <= m /\ p + 1 \in S => p \in S
    BY <1>1, <1>5, <1>6
  <2> HIDE DEF m
  <2>2. 1..m \subseteq S
    BY <2>1, DownwardInduction
  <2> QED BY <2>2 DEF m
<1>8. 1 \in 1..n + 1
  BY <1>1
<1>9. Agree(1)
  BY <1>7, <1>8
<1> QED BY <1>2, <1>3, <1>8, <1>9 DEF Agree, n

-----------------------------------------------------------------------------
(* Verdicts.                                                               *)

\* The tables and what they were made from: each field and each value that was visited,
\* and where the maps lead from their keys.
Traced ==
  /\ DOMAIN message.oneofs = 0..(proto.oneofs - 1)
  /\ \A i \in DOMAIN message.fields :
       LET f == proto.fields[i] x == message.fields[i]
       IN /\ x.number = f.number /\ x.name = f.name /\ x.json = JsonName(f)
          /\ x.default \in {NoDefault, ParseDefault(proto, f)}
  /\ \A k \in DOMAIN message.numbers : proto.fields[message.numbers[k]].number = k
  /\ \A k \in DOMAIN message.names : proto.fields[message.names[k]].name = k
  /\ \A k \in DOMAIN message.jsonNames : JsonName(proto.fields[message.jsonNames[k]]) = k
  /\ \A k \in DOMAIN enum.names : /\ enum.names[k] \in DOMAIN enum.numbers
                                  /\ proto.values[enum.names[k]].name = k
  /\ \A i \in DOMAIN enum.numbers : \E j \in DOMAIN enum.numbers : enum.numbers[j].value = i
  /\ Len(exts) <= Len(proto.extensions) /\ Len(enum.numbers) <= Len(proto.values)
  /\ phase = "names" => DOMAIN message.fields \cup DOMAIN exts \cup DOMAIN enum.numbers = {}

\* What is asked of one field or extension.
Passes(p, f, extends) ==
  /\ NumberErrors(p, f.number, extends) = {} /\ TypeErrors(f) = {}
  /\ ParseDefault(p, f) \notin {Refused, Panics}
  /\ ~extends /\ f.oneof # None => f.oneof \in 0..(p.oneofs - 1)

\* No error so far: what was visited passes.
Passed ==
  errors = {} /\ phase # "names" =>
    /\ NameErrors(proto) = {}
    /\ \A i \in DOMAIN message.fields : Passes(proto, proto.fields[i], FALSE)
    /\ \A i \in DOMAIN exts : Passes(proto, proto.extensions[i], TRUE)
    /\ \A i \in DOMAIN enum.numbers : ~ReservedValue(proto, proto.values[i].number)

\* An error so far: the file breaks a rule.
Blamed == errors # {} => ~Valid(proto)

\* How the build ends says whether there was an error.
Ends ==
  /\ phase = "accepted" => errors = {} /\ AllVisited
  /\ phase = "refused" => errors # {}

\* The numbers a field may have at all.
Usable(n) == n \in 1..Greatest /\ n \notin 19000..19999

\* What the rules of the language ask of one field or extension.
Keeps(p, f, extends) ==
  /\ Usable(f.number) /\ f.number \notin UnionOf(p.reserved)
  /\ extends <=> f.number \in UnionOf(p.extensionRanges)
  /\ Kind(f) # "unknown" /\ Fits(p, f)
  /\ ~extends /\ f.oneof # None => f.oneof \in 0..(p.oneofs - 1)

\* What they ask of the names and of the values.
KeepsNames(p) ==
  /\ ~Twice(NamesOf(p.fields)) /\ ~Twice(NamesOf(p.values) \o NamesOf(p.extensions))
  /\ p.syntax # "proto2" => ~Twice(Folded(p.fields))
  /\ p.values # << >> /\ (p.syntax # "proto2" => p.values[1].number = 0)
\* What they ask of the numbers of fields and values and of JSON names.
KeepsKeys(p) ==
  /\ ~Twice(Numbers(p.fields)) /\ ~Twice([i \in DOMAIN p.fields |-> JsonName(p.fields[i])])
  /\ ~p.allowAlias => ~Twice(Numbers(p.values))
\* What they ask of reserved values.
KeepsValues(p) == \A i \in DOMAIN p.values : ~ReservedValue(p, p.values[i].number)

\* What is known of a file.
LEMMA ProtoTyped ==
  ASSUME NEW p \in Protos
  PROVE  /\ p.fields \in Seq(Range(p.fields)) /\ p.extensions \in Seq(Range(p.extensions))
         /\ p.values \in Seq(Range(p.values)) /\ p.oneofs \in Nat
         /\ DOMAIN p.fields = 1..Len(p.fields) /\ DOMAIN p.extensions = 1..Len(p.extensions)
         /\ DOMAIN p.values = 1..Len(p.values)
         /\ Len(p.fields) \in Nat /\ Len(p.extensions) \in Nat /\ Len(p.values) \in Nat
         /\ \A i \in DOMAIN p.fields : FieldProto(p.fields[i])
         /\ \A i \in DOMAIN p.extensions : FieldProto(p.extensions[i])
         /\ \A i \in DOMAIN p.values : p.values[i].number \in Int
         /\ p.reserved \in Seq(Int \X Int) /\ p.extensionRanges \in Seq(Int \X Int)
         /\ p.enumReserved \in Seq(Int \X Int) /\ p.allowAlias \in BOOLEAN
<1>1. /\ p.fields \in Seq(Range(p.fields)) /\ p.extensions \in Seq(Range(p.extensions))
      /\ p.values \in Seq(Range(p.values))
  BY ProtosAssumption
<1>2. /\ DOMAIN p.fields = 1..Len(p.fields) /\ DOMAIN p.extensions = 1..Len(p.extensions)
      /\ DOMAIN p.values = 1..Len(p.values)
      /\ Len(p.fields) \in Nat /\ Len(p.extensions) \in Nat /\ Len(p.values) \in Nat
  BY <1>1
<1> QED BY <1>1, <1>2, ProtosAssumption

\* The union of ranges has the numbers that are in one of them.
LEMMA UnionIs ==
  ASSUME NEW ranges \in Seq(Int \X Int), NEW n \in Int
  PROVE  n \in UnionOf(ranges) <=> \E i \in DOMAIN ranges : InRange(n, ranges[i])
<1>1. \A i \in DOMAIN ranges : ranges[i][1] \in Int /\ ranges[i][2] \in Int
  OBVIOUS
<1>2. \A i \in DOMAIN ranges : n \in ranges[i][1]..(ranges[i][2] - 1) <=> InRange(n, ranges[i])
  BY <1>1 DEF InRange
<1> QED BY <1>2 DEF UnionOf

\* The checks of a number are the rules for numbers.
LEMMA NumberRules ==
  ASSUME NEW p \in Protos, NEW n \in Int, NEW extends \in BOOLEAN
  PROVE  NumberErrors(p, n, extends) = {} <=>
           /\ Usable(n) /\ n \notin UnionOf(p.reserved)
           /\ extends <=> n \in UnionOf(p.extensionRanges)
<1>1. /\ n \in UnionOf(p.reserved) <=> \E i \in DOMAIN p.reserved : InRange(n, p.reserved[i])
      /\ n \in UnionOf(p.extensionRanges) <=>
           \E i \in DOMAIN p.extensionRanges : InRange(n, p.extensionRanges[i])
  BY ProtoTyped, UnionIs
<1>2. InRange(n, ValidNumbers) /\ ~InRange(n, ReservedNumbers) <=> Usable(n)
  <2>1. /\ Greatest \in Int /\ ValidNumbers[1] = 1 /\ ValidNumbers[2] = Greatest + 1
        /\ ReservedNumbers[1] = 19000 /\ ReservedNumbers[2] = 20000
    BY SMT DEF ValidNumbers, ReservedNumbers, Greatest
  <2>2. InRange(n, ValidNumbers) <=> n \in 1..Greatest
    BY <2>1, SMT DEF InRange
  <2>3. InRange(n, ReservedNumbers) <=> n \in 19000..19999
    BY <2>1, SMT DEF InRange
  <2> QED BY <2>2, <2>3, SMT DEF Usable
<1> QED BY <1>1, <1>2 DEF NumberErrors, ErrorIf

\* A default that is accepted is one that fits the type.
LEMMA DefaultRules ==
  ASSUME NEW p \in Protos, NEW f, FieldProto(f), Kind(f) # "unknown", ParseDefault(p, f) # Panics
  PROVE  ParseDefault(p, f) # Refused <=> Fits(p, f)
<1> DEFINE d == f.default
           kind == Kind(f)
           named == { i \in DOMAIN p.values : f.default = Name(p.values[i].name) }
           first == CHOOSE i \in named : \A j \in named : i <= j
<1>1. /\ d.is = "none" \/ (d.is = "int" /\ d = [is |-> "int", value |-> d.value])
         \/ (d.is = "text" /\ d.text \in Seq(Int))
  BY DEF FieldProto, IsLiteral, Name
<1>2. NoDefault # Refused /\ \A n : Number(n) # Refused
  BY DEF NoDefault, Refused, Number
<1>3. ParseDefault(p, f) =
        CASE d.is = "none" \/ kind = "unknown" -> NoDefault
          [] d.is = "text" /\ kind = "bytes" -> UnescapeC(d.text, Checked)
          [] d.is = "int" /\ kind = "int32" -> d
          [] d.is = "text" /\ kind = "enum" /\ named # {} -> Number(p.values[first].number)
          [] OTHER -> Refused
  BY DEF ParseDefault
<1> HIDE DEF d, kind, first
<1>4. CASE d.is = "none"
  <2>1. ParseDefault(p, f) = NoDefault
    BY <1>3, <1>4
  <2> QED BY <1>2, <1>4, <2>1 DEF Fits, d
<1>5. CASE d.is = "int"
  <2>1. CASE kind = "int32"
    <3>1. ParseDefault(p, f) = d
      BY <1>3, <1>5, <2>1
    <3>2. d # Refused
      BY <1>5 DEF Refused
    <3> QED BY <1>5, <2>1, <3>1, <3>2 DEF Fits, d, kind
  <2>2. CASE kind # "int32"
    <3>1. ParseDefault(p, f) = Refused
      BY <1>3, <1>5, <2>2 DEF kind
    <3>2. \A x : d # Name(x)
      BY <1>5 DEF Name
    <3> QED BY <1>5, <2>2, <3>1, <3>2 DEF Fits, d, kind
  <2> QED BY <2>1, <2>2
<1>6. CASE d.is = "text" /\ d.text \in Seq(Int)
  <2>1. CASE kind = "bytes"
    <3>1. ParseDefault(p, f) = UnescapeC(d.text, Checked)
      BY <1>3, <1>6, <2>1
    <3>2. /\ UnescapeC(d.text, Checked) = UnescapeC(d.text, FALSE)
          /\ UnescapeC(d.text, FALSE) \in Reading
      BY <1>6, <3>1, CheckedOrNot
    <3>3. UnescapeC(d.text, FALSE) # Refused <=> UnescapeC(d.text, FALSE).is = "bytes"
      <4>1. UnescapeC(d.text, FALSE) # Panics
        BY <3>1, <3>2
      <4>2. \A r \in Reading : r # Panics => (r # Refused <=> r.is = "bytes")
        BY DEF Reading, Panics, Refused, Read
      <4> QED BY <3>2, <4>1, <4>2
    <3> QED BY <1>6, <2>1, <3>1, <3>2, <3>3 DEF Fits, d, kind
  <2>2. CASE kind = "enum"
    <3>1. ParseDefault(p, f) = IF named # {} THEN Number(p.values[first].number) ELSE Refused
      BY <1>3, <1>6, <2>2
    <3>2. ParseDefault(p, f) # Refused <=> named # {}
      BY <1>2, <3>1
    <3>3. named # {} <=> \E i \in DOMAIN p.values : f.default = Name(p.values[i].name)
      OBVIOUS
    <3> QED BY <1>6, <2>2, <3>2, <3>3 DEF Fits, d, kind
  <2>3. CASE kind \notin {"bytes", "enum"}
    <3>1. ParseDefault(p, f) = Refused
      BY <1>3, <1>6, <2>3 DEF kind
    <3> QED BY <1>6, <2>3, <3>1 DEF Fits, d, kind
  <2> QED BY <2>1, <2>2, <2>3
<1> QED BY <1>1, <1>4, <1>5, <1>6

\* The checks of a field are the rules for fields.
LEMMA FieldRules ==
  ASSUME NEW p \in Protos, NEW f, FieldProto(f), NEW extends \in BOOLEAN, ParseDefault(p, f) # Panics
  PROVE  Passes(p, f, extends) <=> Keeps(p, f, extends)
<1>1. f.number \in Int
  BY DEF FieldProto
<1>2. TypeErrors(f) = {} <=> Kind(f) # "unknown"
  BY DEF TypeErrors, ErrorIf
<1>3. CASE Kind(f) = "unknown"
  BY <1>2, <1>3 DEF Passes, Keeps
<1>4. CASE Kind(f) # "unknown"
  <2>1. ParseDefault(p, f) # Refused <=> Fits(p, f)
    BY <1>4, DefaultRules
  <2> QED BY <1>1, <1>2, <1>4, <2>1, NumberRules DEF Passes, Keeps
<1> QED BY <1>3, <1>4

\* The checks of the first phase are the rules for names.
LEMMA NameRules ==
  ASSUME NEW p \in Protos
  PROVE  NameErrors(p) = {} <=> KeepsNames(p)
BY DEF NameErrors, KeepsNames, ErrorIf

\* The rules, element by element.
LEMMA ValidIs ==
  ASSUME NEW p \in Protos
  PROVE  Valid(p) <=> /\ KeepsNames(p) /\ KeepsKeys(p) /\ KeepsValues(p)
                      /\ \A i \in DOMAIN p.fields : Keeps(p, p.fields[i], FALSE)
                      /\ \A i \in DOMAIN p.extensions : Keeps(p, p.extensions[i], TRUE)
<1> DEFINE KeepsAll ==
             /\ \A f \in Range(p.fields) \cup Range(p.extensions) :
                  /\ Usable(f.number) /\ f.number \notin UnionOf(p.reserved) /\ Kind(f) # "unknown" /\ Fits(p, f)
             /\ \A f \in Range(p.fields) : /\ f.number \notin UnionOf(p.extensionRanges)
                                           /\ f.oneof # None => f.oneof \in 0..(p.oneofs - 1)
             /\ \A f \in Range(p.extensions) : f.number \in UnionOf(p.extensionRanges)
           KeepsInts == \A n \in Range(Numbers(p.values)) : \A i \in DOMAIN p.enumReserved :
                          n \notin p.enumReserved[i][1]..p.enumReserved[i][2]
           First == /\ Numbers(p.values) # << >>
                    /\ p.syntax # "proto2" => Numbers(p.values)[1] = 0
<1>1. Valid(p) <=> /\ ~Twice(Numbers(p.fields)) /\ ~Twice(NamesOf(p.fields))
                   /\ ~Twice([i \in DOMAIN p.fields |-> JsonName(p.fields[i])])
                   /\ p.syntax # "proto2" => ~Twice(Folded(p.fields))
                   /\ KeepsAll
                   /\ ~Twice(NamesOf(p.values) \o NamesOf(p.extensions))
                   /\ First
                   /\ ~p.allowAlias => ~Twice(Numbers(p.values))
                   /\ KeepsInts
  <2>1. KeepsAll <=>
             /\ \A f \in Range(p.fields) \cup Range(p.extensions) :
                  /\ f.number \in 1..Greatest /\ f.number \notin 19000..19999
                  /\ f.number \notin UnionOf(p.reserved) /\ Kind(f) # "unknown" /\ Fits(p, f)
             /\ \A f \in Range(p.fields) : /\ f.number \notin UnionOf(p.extensionRanges)
                                           /\ f.oneof # None => f.oneof \in 0..(p.oneofs - 1)
             /\ \A f \in Range(p.extensions) : f.number \in UnionOf(p.extensionRanges)
    BY DEF Usable
  <2> HIDE DEF KeepsAll
  <2>2. Valid(p) <=> /\ ~Twice(Numbers(p.fields)) /\ ~Twice(NamesOf(p.fields))
                     /\ ~Twice([i \in DOMAIN p.fields |-> JsonName(p.fields[i])])
                     /\ p.syntax # "proto2" => ~Twice(Folded(p.fields))
                     /\ KeepsAll
                     /\ ~Twice(NamesOf(p.values) \o NamesOf(p.extensions))
                     /\ First
                     /\ ~p.allowAlias => ~Twice(Numbers(p.values))
                     /\ KeepsInts
    BY <2>1 DEF Valid
  <2> QED BY <2>2
<1>2. KeepsAll <=> /\ \A i \in DOMAIN p.fields : Keeps(p, p.fields[i], FALSE)
                   /\ \A i \in DOMAIN p.extensions : Keeps(p, p.extensions[i], TRUE)
  <2>1. KeepsAll <=> /\ \A f \in Range(p.fields) : Keeps(p, f, FALSE)
                     /\ \A f \in Range(p.extensions) : Keeps(p, f, TRUE)
    BY DEF Keeps
  <2>2. /\ (\A f \in Range(p.fields) : Keeps(p, f, FALSE)) <=> \A i \in DOMAIN p.fields : Keeps(p, p.fields[i], FALSE)
        /\ (\A f \in Range(p.extensions) : Keeps(p, f, TRUE))
             <=> \A i \in DOMAIN p.extensions : Keeps(p, p.extensions[i], TRUE)
    BY DEF Range
  <2> HIDE DEF KeepsAll
  <2> QED BY <2>1, <2>2
<1>3. KeepsInts <=> KeepsValues(p)
  <2>1. \A i \in DOMAIN p.enumReserved : p.enumReserved[i][1] \in Int /\ p.enumReserved[i][2] \in Int
    BY ProtoTyped
  <2>2. \A i \in DOMAIN p.values : p.values[i].number \in Int
    BY ProtoTyped
  <2>3. \A n \in Int : ReservedValue(p, n) <=>
          \E i \in DOMAIN p.enumReserved : n \in p.enumReserved[i][1]..p.enumReserved[i][2]
    BY <2>1 DEF ReservedValue
  <2>4. KeepsInts <=> \A j \in DOMAIN p.values : \A i \in DOMAIN p.enumReserved :
                        p.values[j].number \notin p.enumReserved[i][1]..p.enumReserved[i][2]
    BY DEF Range, Numbers
  <2> HIDE DEF KeepsInts
  <2> QED BY <2>2, <2>3, <2>4 DEF KeepsValues
<1>4. First <=> p.values # << >> /\ (p.syntax # "proto2" => p.values[1].number = 0)
  <2>1. p.values \in Seq(Range(p.values)) /\ DOMAIN p.values = 1..Len(p.values) /\ Len(p.values) \in Nat
    BY ProtoTyped
  <2>2. CASE p.values = << >>
    <3>1. Numbers(p.values) = << >>
      BY <2>2 DEF Numbers
    <3> QED BY <2>2, <3>1
  <2>3. CASE p.values # << >>
    <3>1. 1 \in DOMAIN p.values
      BY <2>1, <2>3
    <3>2. Numbers(p.values)[1] = p.values[1].number /\ 1 \in DOMAIN Numbers(p.values)
      BY <3>1 DEF Numbers
    <3>3. Numbers(p.values) # << >>
      BY <3>2
    <3> QED BY <2>3, <3>2, <3>3
  <2> QED BY <2>2, <2>3
<1> HIDE DEF KeepsAll, KeepsInts, First
<1> QED BY <1>1, <1>2, <1>3, <1>4 DEF KeepsNames, KeepsKeys

-----------------------------------------------------------------------------
(* The stronger invariant, action by action.                               *)

\* The invariant: the tables, where they came from, and who is to blame.
VInv == IInv /\ Traced /\ Passed /\ Blamed /\ Ends

\* What entering a field leaves behind.
EnteredAs(f) ==
  /\ Visited \in Nat /\ DOMAIN message.fields = 1..Visited
  /\ DOMAIN message'.fields = 1..(Visited + 1) /\ DOMAIN message'.oneofs = DOMAIN message.oneofs
  /\ \A j \in 1..Visited : message'.fields[j] = message.fields[j]
  /\ message'.fields[Visited + 1] = Field(proto, f)
  /\ message'.numbers = Put(message.numbers, f.number, Visited + 1)
  /\ message'.names = Put(message.names, f.name, Visited + 1)
  /\ message'.jsonNames = Put(message.jsonNames, JsonName(f), Visited + 1)

\* Entering a field does what is said.
LEMMA FieldEntered == ASSUME NEW f, IInv, EnterField(f) PROVE EnteredAs(f)
<1> DEFINE n == Visited  i == n + 1  x == Field(proto, f)
<1>1. message.fields \in Seq(Range(message.fields)) /\ n \in Nat /\ DOMAIN message.fields = 1..n
  BY DEF IInv, TypeOK, Visited
<1>2. DOMAIN message = {"fields", "numbers", "names", "jsonNames", "oneofs", "extensions"}
  BY DEF IInv, Shape
<1>3. message' = [message EXCEPT
                    !.fields = Append(@, x), !.numbers = Put(@, f.number, i), !.names = Put(@, f.name, i),
                    !.jsonNames = Put(@, JsonName(f), i),
                    !.oneofs = [o \in DOMAIN @ |-> IF o = f.oneof THEN Append(@[o], i) ELSE @[o]]]
  BY DEF EnterField, FieldIndex
<1>4. /\ message'.fields = Append(message.fields, x)
      /\ message'.numbers = Put(message.numbers, f.number, i)
      /\ message'.names = Put(message.names, f.name, i)
      /\ message'.jsonNames = Put(message.jsonNames, JsonName(f), i)
      /\ DOMAIN message'.oneofs = DOMAIN message.oneofs
  BY <1>2, <1>3
<1>5. /\ DOMAIN message'.fields = 1..i /\ message'.fields[i] = x
      /\ \A j \in 1..n : message'.fields[j] = message.fields[j]
  BY <1>1, <1>4, AppendFacts DEF Visited
<1> QED BY <1>1, <1>4, <1>5 DEF EnteredAs

\* Where a map leads from its keys once another key was put into it.
LEMMA PutLeads ==
  ASSUME NEW map, NEW k, NEW i
  PROVE  \A x \in DOMAIN Put(map, k, i) :
           \/ x = k /\ Put(map, k, i)[x] = i
           \/ x \in DOMAIN map /\ Put(map, k, i)[x] = map[x]
BY DEF Put

\* At first nothing is visited and nobody blamed.
LEMMA InitVerdict == Init => VInv
<1> SUFFICES ASSUME Init PROVE VInv
  OBVIOUS
<1>1. Traced
  <2>1. proto.oneofs \in Nat /\ Len(proto.extensions) \in Nat /\ Len(proto.values) \in Nat
    BY ProtoTyped DEF Init
  <2>2. /\ DOMAIN message.oneofs = 0..(proto.oneofs - 1) /\ DOMAIN message.fields = {}
        /\ DOMAIN message.numbers = {} /\ DOMAIN message.names = {} /\ DOMAIN message.jsonNames = {}
        /\ DOMAIN enum.names = {} /\ DOMAIN enum.numbers = {} /\ DOMAIN exts = {}
        /\ Len(exts) = 0 /\ Len(enum.numbers) = 0
    BY DEF Init, Empty
  <2> QED BY <2>1, <2>2 DEF Traced
<1>2. Passed /\ Blamed /\ Ends
  BY DEF Init, Passed, Blamed, Ends
<1> QED BY <1>1, <1>2, InitInv DEF VInv

\* The names that are refused break a rule, and when none is nothing is left to ask of them.
LEMMA NamesVerdict == ASSUME VInv, DeclareNames PROVE (Traced /\ Passed /\ Blamed /\ Ends)'
<1>1. proto \in Protos /\ phase = "names" /\ errors' = NameErrors(proto)
      /\ UNCHANGED <<proto, message, exts, enum>> /\ phase' = IF errors' = {} THEN "resolve" ELSE "refused"
  BY DEF VInv, IInv, Shape, DeclareNames
<1>2. Traced'
  BY <1>1 DEF VInv, Traced
<1>3. Passed'
  BY <1>1 DEF VInv, Traced, Passed
<1>4. Blamed'
  BY <1>1, NameRules, ValidIs DEF Blamed
<1>5. Ends'
  BY <1>1 DEF Ends
<1> QED BY <1>2, <1>3, <1>4, <1>5

\* A panic ends the build without a verdict.
LEMMA PanicVerdict ==
  ASSUME VInv, NEW f, phase = "resolve", DefaultPanics(f)
  PROVE (Traced /\ Passed /\ Blamed /\ Ends)'
<1>1. phase' = "panicked" /\ UNCHANGED <<proto, errors, message, exts, enum>> /\ phase = "resolve"
  BY DEF DefaultPanics
<1>2. Traced' /\ Passed' /\ Blamed' /\ Ends'
  BY <1>1 DEF VInv, Traced, Passed, Blamed, Ends
<1> QED BY <1>2

\* Two elements with one key.
LEMMA TwiceBy ==
  ASSUME NEW s, NEW i \in DOMAIN s, NEW j \in DOMAIN s, i # j, s[i] = s[j]
  PROVE  Twice(s)
BY DEF Twice

\* A field is blamed for what breaks a rule, and one without a new error passes.
LEMMA FieldVerdict ==
  ASSUME VInv, NEW f, phase = "resolve", Visited < Len(proto.fields), f = proto.fields[Visited + 1],
         ParseDefault(proto, f) # Panics, EnterField(f), UNCHANGED <<proto, phase, exts, enum>>
  PROVE  (Traced /\ Passed /\ Blamed /\ Ends)'
<1> DEFINE n == Visited  i == n + 1
<1>1. EnteredAs(f)
  BY FieldEntered DEF VInv
<1>2. proto \in Protos /\ DOMAIN proto.fields = 1..Len(proto.fields) /\ Len(proto.fields) \in Nat
  BY ProtoTyped DEF VInv, IInv, Shape
<1>3. n \in Nat /\ i \in DOMAIN proto.fields /\ FieldProto(f)
  BY <1>1, <1>2, ProtoTyped DEF EnteredAs
<1>4. Traced'
  <2>1. DOMAIN message'.oneofs = 0..(proto'.oneofs - 1)
    BY <1>1 DEF VInv, Traced, EnteredAs
  <2>2. ASSUME NEW j \in DOMAIN message'.fields
        PROVE  LET pf == proto'.fields[j] x == message'.fields[j]
               IN /\ x.number = pf.number /\ x.name = pf.name /\ x.json = JsonName(pf)
                  /\ x.default \in {NoDefault, ParseDefault(proto', pf)}
    <3>1. CASE j = i
      <4>1. message'.fields[j] = Field(proto, f) /\ proto'.fields[j] = f
        BY <1>1, <3>1 DEF EnteredAs
      <4>2. Field(proto, f).default \in {NoDefault, ParseDefault(proto, f)}
        BY DEF Field
      <4>3. /\ Field(proto, f).number = f.number /\ Field(proto, f).name = f.name
            /\ Field(proto, f).json = JsonName(f)
        BY DEF Field
      <4> QED BY <4>1, <4>2, <4>3
    <3>2. CASE j # i
      <4>1. j \in DOMAIN message.fields /\ message'.fields[j] = message.fields[j]
        BY <1>1, <3>2 DEF EnteredAs
      <4> QED BY <4>1 DEF VInv, Traced
    <3> QED BY <3>1, <3>2
  <2>3. \A k \in DOMAIN message'.numbers : proto'.fields[message'.numbers[k]].number = k
    <3>1. \A k \in DOMAIN message.numbers : proto.fields[message.numbers[k]].number = k
      BY DEF VInv, Traced
    <3> QED BY <1>1, <3>1, PutLeads DEF EnteredAs
  <2>4. \A k \in DOMAIN message'.names : proto'.fields[message'.names[k]].name = k
    <3>1. \A k \in DOMAIN message.names : proto.fields[message.names[k]].name = k
      BY DEF VInv, Traced
    <3> QED BY <1>1, <3>1, PutLeads DEF EnteredAs
  <2>5. \A k \in DOMAIN message'.jsonNames : JsonName(proto'.fields[message'.jsonNames[k]]) = k
    <3>1. \A k \in DOMAIN message.jsonNames : JsonName(proto.fields[message.jsonNames[k]]) = k
      BY DEF VInv, Traced
    <3> QED BY <1>1, <3>1, PutLeads DEF EnteredAs
  <2> QED BY <2>1, <2>2, <2>3, <2>4, <2>5 DEF VInv, Traced
<1>5. Passed'
  <2> SUFFICES ASSUME errors' = {} PROVE Passed'
    BY DEF Passed
  <2>1. /\ errors = {} /\ NumberErrors(proto, f.number, FALSE) = {} /\ TypeErrors(f) = {}
        /\ ErrorIf(ParseDefault(proto, f) = Refused, "InvalidFieldDefault") = {}
        /\ ErrorIf(f.oneof # None /\ f.oneof \notin DOMAIN message.oneofs, "InvalidOneofIndex") = {}
    BY DEF EnterField
  <2>2. Passes(proto, f, FALSE)
    BY <2>1 DEF Passes, ErrorIf, VInv, Traced
  <2>3. /\ NameErrors(proto) = {}
        /\ \A j \in DOMAIN message.fields : Passes(proto, proto.fields[j], FALSE)
        /\ \A j \in DOMAIN exts : Passes(proto, proto.extensions[j], TRUE)
        /\ \A j \in DOMAIN enum.numbers : ~ReservedValue(proto, proto.values[j].number)
    BY <2>1 DEF VInv, Passed
  <2>4. \A j \in DOMAIN message'.fields : j \in DOMAIN message.fields \/ j = i
    BY <1>1 DEF EnteredAs
  <2> QED BY <2>2, <2>3, <2>4 DEF Passed
<1>6. Blamed'
  <2> SUFFICES ASSUME errors' # {}, errors = {} PROVE ~Valid(proto)
    BY DEF VInv, Blamed
  <2>1. CASE ~Passes(proto, f, FALSE)
    <3>1. ~Keeps(proto, f, FALSE)
      BY <1>2, <1>3, <2>1, FieldRules
    <3> QED BY <1>2, <1>3, <3>1, ValidIs
  <2>2. ASSUME NEW j \in 1..n
        PROVE  j \in DOMAIN proto.fields /\ j # i
    BY <1>2, <1>3
  <2>3. CASE f.number \in DOMAIN message.numbers
    <3> DEFINE j == message.numbers[f.number]  s == Numbers(proto.fields)
    <3>1. j \in 1..n
      BY <1>1, <2>3 DEF VInv, IInv, TypeOK, Range, EnteredAs
    <3>2. proto.fields[j].number = f.number
      BY SMTT(60), <2>3 DEF VInv, Traced
    <3>3. j \in DOMAIN s /\ i \in DOMAIN s /\ j # i /\ s[j] = s[i]
      BY <1>3, <2>2, <3>1, <3>2 DEF Numbers
    <3>4. Twice(s)
      BY <3>3, TwiceBy
    <3> QED BY <1>2, <3>4, ValidIs DEF KeepsKeys
  <2>4. CASE f.name \in DOMAIN message.names
    <3> DEFINE j == message.names[f.name]  s == NamesOf(proto.fields)
    <3>1. j \in 1..n
      BY <1>1, <2>4 DEF VInv, IInv, TypeOK, Range, EnteredAs
    <3>2. proto.fields[j].name = f.name
      BY SMTT(60), <2>4 DEF VInv, Traced
    <3>3. j \in DOMAIN s /\ i \in DOMAIN s /\ j # i /\ s[j] = s[i]
      BY <1>3, <2>2, <3>1, <3>2 DEF NamesOf
    <3>4. Twice(s)
      BY <3>3, TwiceBy
    <3> QED BY <1>2, <3>4, ValidIs DEF KeepsNames
  <2>5. CASE JsonName(f) \in DOMAIN message.jsonNames
    <3> DEFINE j == message.jsonNames[JsonName(f)]
               s == [m \in DOMAIN proto.fields |-> JsonName(proto.fields[m])]
    <3>1. j \in 1..n
      BY <1>1, <2>5 DEF VInv, IInv, TypeOK, Range, EnteredAs
    <3>2. JsonName(proto.fields[j]) = JsonName(f)
      BY <2>5 DEF VInv, Traced
    <3>3. j \in DOMAIN s /\ i \in DOMAIN s /\ j # i /\ s[j] = s[i]
      BY <1>3, <2>2, <3>1, <3>2
    <3>4. Twice(s)
      BY <3>3, TwiceBy
    <3> QED BY <1>2, <3>4, ValidIs DEF KeepsKeys
  <2>6. CASE /\ Passes(proto, f, FALSE) /\ f.number \notin DOMAIN message.numbers
             /\ f.name \notin DOMAIN message.names /\ JsonName(f) \notin DOMAIN message.jsonNames
    <3>1. /\ NumberErrors(proto, f.number, FALSE) = {} /\ TypeErrors(f) = {}
          /\ ErrorIf(ParseDefault(proto, f) = Refused, "InvalidFieldDefault") = {}
          /\ ErrorIf(f.oneof # None /\ f.oneof \notin DOMAIN message.oneofs, "InvalidOneofIndex") = {}
      BY <2>6 DEF Passes, ErrorIf, VInv, Traced
    <3>2. /\ ErrorIf(Replaces(message.numbers, f.number), "DuplicateFieldNumber") = {}
          /\ ErrorIf(Replaces(message.names, f.name), "DuplicateName") = {}
          /\ ErrorIf(Replaces(message.jsonNames, JsonName(f)), "DuplicateFieldJsonName") = {}
      BY <2>6 DEF ErrorIf, Replaces
    <3>3. errors' = {}
      BY <3>1, <3>2 DEF EnterField
    <3> QED BY <3>3
  <2> QED BY <2>1, <2>3, <2>4, <2>5, <2>6
<1>7. Ends'
  BY DEF Ends
<1> QED BY <1>4, <1>5, <1>6, <1>7
\* What is inserted among n values is at its place, and what was there still is.
InsertedAt(s, n, at, x, t) ==
  /\ DOMAIN t = 1..(n + 1) /\ t[at] = x
  /\ \A j \in 1..n : \E k \in 1..(n + 1) : t[k] = s[j]

\* Inserting does what is said.
LEMMA InsertedKeeps ==
  ASSUME NEW s, NEW n \in Nat, Len(s) = n, NEW at \in 1..(n + 1), NEW x, NEW t, t = Inserted(s, at, x)
  PROVE  InsertedAt(s, n, at, x, t)
<1>1. t = [j \in 1..(n + 1) |-> IF j < at THEN s[j] ELSE IF j = at THEN x ELSE s[j - 1]]
  BY DEF Inserted
<1>2. ASSUME NEW j \in 1..n PROVE \E k \in 1..(n + 1) : t[k] = s[j]
  <2>1. CASE j < at
    <3>1. j \in 1..(n + 1) /\ t[j] = s[j]
      BY <1>1, <2>1
    <3> QED BY <3>1
  <2>2. CASE ~(j < at)
    <3>1. j + 1 \in 1..(n + 1) /\ ~(j + 1 < at) /\ j + 1 # at /\ (j + 1) - 1 = j
      BY <2>2
    <3>2. t[j + 1] = s[(j + 1) - 1]
      BY <1>1, <3>1
    <3> QED BY <3>1, <3>2
  <2> QED BY <2>1, <2>2
<1> QED BY <1>1, <1>2 DEF InsertedAt

\* A place is between the elements or at one.
LEMMA PlacesAre ==
  ASSUME NEW s, NEW n \in Nat, Len(s) = n, DOMAIN s = 1..n, NEW number, NEW at \in Places(s, number)
  PROVE  at \in 1..(n + 1)
BY DEF Places

\* A name in the first of two sequences is in both of them, at its place.
LEMMA FirstOfTwo ==
  ASSUME NEW a, NEW b, NEW j \in 1..Len(a), a \in Seq(Range(a)), b \in Seq(Range(b))
  PROVE  j \in DOMAIN (a \o b) /\ (a \o b)[j] = a[j]
<1> DEFINE T == Range(a) \cup Range(b)
<1>1. a \in Seq(T) /\ b \in Seq(T)
  <2>1. (\A i \in 1..Len(a) : a[i] \in T) /\ (\A i \in 1..Len(b) : b[i] \in T)
    BY SMTT(60) DEF Range
  <2> QED BY <2>1
<1> HIDE DEF T
<1> QED BY <1>1

\* The names of elements are in their order.
LEMMA NamesAreSeq ==
  ASSUME NEW s, s \in Seq(Range(s))
  PROVE  NamesOf(s) \in Seq(Range(NamesOf(s))) /\ Len(NamesOf(s)) = Len(s)
         /\ DOMAIN NamesOf(s) = 1..Len(s)
<1>1. Len(s) \in Nat /\ DOMAIN s = 1..Len(s)
  OBVIOUS
<1>2. NamesOf(s) \in [1..Len(s) -> Range(NamesOf(s))]
  BY <1>1 DEF NamesOf, Range
<1> HIDE DEF NamesOf
<1> QED BY <1>1, <1>2

\* What the elements of a table of numbers are.
LEMMA TableTyped ==
  ASSUME NEW s, s \in Seq([number : Int, value : 1..Len(s)])
  PROVE  /\ Len(s) \in Nat /\ DOMAIN s = 1..Len(s)
         /\ \A j \in 1..Len(s) : s[j].number \in Int /\ s[j].value \in 1..Len(s)
<1> DEFINE T == [number : Int, value : 1..Len(s)]
<1>1. \A x \in T : x.number \in Int /\ x.value \in 1..Len(s)
  OBVIOUS
<1>2. s \in Seq(T)
  OBVIOUS
<1> HIDE DEF T
<1>3. Len(s) \in Nat /\ DOMAIN s = 1..Len(s) /\ \A j \in 1..Len(s) : s[j] \in T
  BY ONLY <1>2
<1> QED BY <1>1, <1>3

\* A value is blamed for what breaks a rule, and one without a new error passes.
LEMMA ValueVerdict == ASSUME VInv, VisitEnumValue PROVE (Traced /\ Passed /\ Blamed /\ Ends)'
<1> DEFINE s == enum.numbers  n == Len(s)  v == proto.values[n + 1]  t == enum'.numbers
           x == [number |-> v.number, value |-> n + 1]
<1>1. PICK at \in Places(s, v.number) :
        enum' = [numbers |-> Inserted(s, at, x), names |-> Put(enum.names, v.name, n + 1)]
  BY DEF VisitEnumValue
<1>2. /\ phase = "resolve" /\ n < Len(proto.values) /\ UNCHANGED <<proto, phase, message, exts>>
      /\ errors' = errors \cup ErrorIf(ReservedValue(proto, v.number), "EnumNumberInReservedRange")
                   \cup ErrorIf(~proto.allowAlias /\ \E i \in DOMAIN s : s[i].number = v.number,
                                "DuplicateEnumNumber")
                   \cup ErrorIf(Replaces(enum.names, v.name), "DuplicateName")
  BY DEF VisitEnumValue
<1>3. /\ s \in Seq([number : Int, value : 1..n]) /\ n \in Nat /\ DOMAIN s = 1..n
      /\ \A j \in 1..n : s[j].value \in 1..n
  <2>1. s \in Seq([number : Int, value : 1..Len(s)])
    BY DEF VInv, IInv, TypeOK
  <2> HIDE DEF s
  <2> QED BY <2>1, TableTyped
<1>4. proto \in Protos /\ DOMAIN proto.values = 1..Len(proto.values) /\ Len(proto.values) \in Nat
  BY ProtoTyped DEF VInv, IInv, Shape
<1>5. n + 1 \in DOMAIN proto.values /\ 1..n \subseteq DOMAIN proto.values
  <2> HIDE DEF s, n
  <2> QED BY <1>2, <1>3, <1>4
<1>6. /\ at \in 1..(n + 1) /\ t = Inserted(s, at, x) /\ enum'.names = Put(enum.names, v.name, n + 1)
      /\ x.value = n + 1
  BY <1>1, <1>3, PlacesAre
<1>7. DOMAIN t = 1..(n + 1) /\ t[at] = x /\ \A j \in 1..n : \E k \in 1..(n + 1) : t[k] = s[j]
  <2>1. Len(s) = n
    OBVIOUS
  <2> HIDE DEF x, s, n, t
  <2>2. InsertedAt(s, n, at, x, t)
    BY <1>3, <1>6, <2>1, InsertedKeeps
  <2> QED BY <2>2 DEF InsertedAt
<1>8. Len(t) = n + 1
  <2>1. t = [j \in 1..(n + 1) |-> IF j < at THEN s[j] ELSE IF j = at THEN x ELSE s[j - 1]]
    BY <1>6 DEF Inserted
  <2> HIDE DEF s, n, x, t
  <2> QED BY <1>3, <2>1
<1> HIDE DEF x
<1>9. Traced'
  <2>1. \A k \in DOMAIN enum'.names : /\ enum'.names[k] \in DOMAIN t
                                      /\ proto'.values[enum'.names[k]].name = k
    <3>1. \A k \in DOMAIN enum.names : /\ enum.names[k] \in 1..n
                                       /\ proto.values[enum.names[k]].name = k
      BY <1>3 DEF VInv, Traced
    <3>2. \A k \in DOMAIN enum'.names : \/ k = v.name /\ enum'.names[k] = n + 1
                                        \/ k \in DOMAIN enum.names /\ enum'.names[k] = enum.names[k]
      BY <1>6, PutLeads
    <3> HIDE DEF t, n, s
    <3>3. n + 1 \in 1..(n + 1) /\ 1..n \subseteq 1..(n + 1)
      BY <1>3
    <3> QED BY <1>2, <1>7, <3>1, <3>2, <3>3
  <2>2. \A i \in DOMAIN t : \E j \in DOMAIN t : t[j].value = i
    <3> SUFFICES ASSUME NEW i \in 1..(n + 1) PROVE \E j \in 1..(n + 1) : t[j].value = i
      BY <1>7
    <3>1. CASE i = n + 1
      BY <1>6, <1>7, <3>1
    <3>2. CASE i \in 1..n
      <4>1. PICK j \in 1..n : s[j].value = i
        BY <1>3, <3>2 DEF VInv, Traced
      <4>2. PICK k \in 1..(n + 1) : t[k] = s[j]
        BY <1>7
      <4> QED BY <4>1, <4>2
    <3> QED BY <1>3, <3>1, <3>2
  <2>3. Len(t) <= Len(proto'.values)
    BY <1>2, <1>3, <1>4, <1>8
  <2> HIDE DEF t
  <2> QED BY <1>2, <2>1, <2>2, <2>3 DEF VInv, Traced, t
<1>10. Passed'
  <2> SUFFICES ASSUME errors' = {} PROVE Passed'
    BY DEF Passed
  <2>1. errors = {} /\ ~ReservedValue(proto, v.number)
    BY <1>2 DEF ErrorIf
  <2>2. /\ NameErrors(proto) = {}
        /\ \A j \in DOMAIN message.fields : Passes(proto, proto.fields[j], FALSE)
        /\ \A j \in DOMAIN exts : Passes(proto, proto.extensions[j], TRUE)
        /\ \A j \in 1..n : ~ReservedValue(proto, proto.values[j].number)
    BY <1>2, <1>3, <2>1 DEF VInv, Passed
  <2>3. \A j \in DOMAIN t : j \in 1..n \/ j = n + 1
    BY <1>3, <1>7
  <2>4. \A j \in DOMAIN t : ~ReservedValue(proto, proto.values[j].number)
    BY <2>1, <2>2, <2>3
  <2> QED BY <1>2, <2>2, <2>4 DEF Passed
<1>11. Blamed'
  <2> SUFFICES ASSUME errors' # {}, errors = {} PROVE ~Valid(proto)
    BY <1>2 DEF VInv, Blamed
  <2>1. CASE ReservedValue(proto, v.number)
    <3>1. ~KeepsValues(proto)
      BY <1>5, <2>1 DEF KeepsValues
    <3> QED BY <1>4, <3>1, ValidIs
  <2>2. CASE ~proto.allowAlias /\ \E i \in DOMAIN s : s[i].number = v.number
    <3> DEFINE numbers == Numbers(proto.values)
    <3>1. PICK i \in DOMAIN s : s[i].number = v.number
      BY <2>2
    <3>2. s[i].value \in 1..n /\ s[i].number = proto.values[s[i].value].number
      BY <1>3 DEF VInv, IInv, ValuesFound
    <3>3. /\ s[i].value \in DOMAIN numbers /\ n + 1 \in DOMAIN numbers /\ s[i].value # n + 1
          /\ numbers[s[i].value] = numbers[n + 1]
      <4>1. s[i].value \in 1..n /\ s[i].value # n + 1
        BY <1>3, <3>2
      <4>2. s[i].value \in DOMAIN proto.values /\ n + 1 \in DOMAIN proto.values
        BY <1>5, <4>1
      <4>3. proto.values[s[i].value].number = proto.values[n + 1].number
        BY <3>1, <3>2
      <4> HIDE DEF s, n
      <4> QED BY <4>1, <4>2, <4>3 DEF Numbers
    <3>4. Twice(numbers)
      BY <3>3, TwiceBy
    <3> QED BY <1>4, <2>2, <3>4, ValidIs DEF KeepsKeys
  <2>3. CASE v.name \in DOMAIN enum.names
    <3> DEFINE j == enum.names[v.name]  a == NamesOf(proto.values)  b == NamesOf(proto.extensions)
    <3>1. j \in 1..n /\ proto.values[j].name = v.name
      BY <1>3, <2>3 DEF VInv, Traced
    <3>2. /\ a \in Seq(Range(a)) /\ b \in Seq(Range(b)) /\ Len(a) = Len(proto.values)
      BY <1>4, NamesAreSeq, ProtoTyped
    <3>3. /\ j \in 1..Len(a) /\ n + 1 \in 1..Len(a) /\ j # n + 1 /\ a[j] = a[n + 1]
      <4>1. j \in DOMAIN proto.values /\ n + 1 \in DOMAIN proto.values /\ j # n + 1
        BY <1>3, <1>5, <3>1
      <4>2. proto.values[j].name = proto.values[n + 1].name
        BY <3>1
      <4> HIDE DEF j, n
      <4>3. a[j] = a[n + 1]
        BY <4>1, <4>2 DEF NamesOf
      <4> QED BY SMTT(60), <1>4, <3>2, <4>1, <4>3
    <3> HIDE DEF a, b, j
    <3>4. /\ j \in DOMAIN (a \o b) /\ n + 1 \in DOMAIN (a \o b) /\ (a \o b)[j] = (a \o b)[n + 1]
      BY <3>2, <3>3, FirstOfTwo
    <3>5. Twice(a \o b)
      BY <3>3, <3>4, TwiceBy
    <3> QED BY <1>4, <3>5, ValidIs DEF KeepsNames, a, b
  <2>4. CASE /\ ~ReservedValue(proto, v.number) /\ v.name \notin DOMAIN enum.names
             /\ ~(~proto.allowAlias /\ \E i \in DOMAIN s : s[i].number = v.number)
    <3>1. errors' = {}
      BY <1>2, <2>4 DEF ErrorIf, Replaces
    <3> QED BY <3>1
  <2> QED BY <2>1, <2>2, <2>3, <2>4
<1>12. Ends'
  BY <1>2 DEF Ends
<1> QED BY <1>9, <1>10, <1>11, <1>12

\* The same for an extension.
LEMMA ExtensionVerdict == ASSUME VInv, VisitExtension PROVE (Traced /\ Passed /\ Blamed /\ Ends)'
<1> DEFINE n == Len(exts)  i == n + 1  f == proto.extensions[i]
<1>1. phase = "resolve" /\ n < Len(proto.extensions)
  BY DEF VisitExtension
<1>2. CASE DefaultPanics(f)
  BY <1>1, <1>2, PanicVerdict
<1>3. CASE ~DefaultPanics(f)
  <2>1. /\ ParseDefault(proto, f) # Panics /\ exts' = Append(exts, Extension(proto, f))
        /\ message' = [message EXCEPT !.extensions = Append(@, i)]
        /\ errors' = errors \cup NumberErrors(proto, f.number, TRUE) \cup TypeErrors(f)
                     \cup ErrorIf(ParseDefault(proto, f) = Refused, "InvalidFieldDefault")
        /\ UNCHANGED <<proto, phase, enum>>
    BY <1>3 DEF VisitExtension
  <2>2. /\ message'.fields = message.fields /\ message'.numbers = message.numbers
        /\ message'.names = message.names /\ message'.jsonNames = message.jsonNames
        /\ message'.oneofs = message.oneofs
    BY <2>1 DEF VInv, IInv, Shape
  <2>3. n \in Nat /\ DOMAIN exts = 1..n /\ DOMAIN exts' = 1..(n + 1) /\ Len(exts') = n + 1
    BY <2>1, AppendFacts DEF VInv, IInv, Shape
  <2>4. proto \in Protos /\ DOMAIN proto.extensions = 1..Len(proto.extensions)
        /\ Len(proto.extensions) \in Nat
    BY ProtoTyped DEF VInv, IInv, Shape
  <2>5. i \in DOMAIN proto.extensions /\ FieldProto(f)
    BY <1>1, <2>3, <2>4, ProtoTyped
  <2>6. Traced'
    <3>1. Len(exts') <= Len(proto'.extensions)
      BY <1>1, <2>1, <2>3, <2>4
    <3> QED BY <1>1, <2>1, <2>2, <3>1 DEF VInv, Traced
  <2>7. Passed'
    <3> SUFFICES ASSUME errors' = {} PROVE Passed'
      BY DEF Passed
    <3>1. /\ errors = {} /\ NumberErrors(proto, f.number, TRUE) = {} /\ TypeErrors(f) = {}
          /\ ErrorIf(ParseDefault(proto, f) = Refused, "InvalidFieldDefault") = {}
      BY <2>1
    <3>2. Passes(proto, f, TRUE)
      BY <2>1, <3>1 DEF Passes, ErrorIf
    <3>3. /\ NameErrors(proto) = {}
          /\ \A j \in DOMAIN message.fields : Passes(proto, proto.fields[j], FALSE)
          /\ \A j \in DOMAIN exts : Passes(proto, proto.extensions[j], TRUE)
          /\ \A j \in DOMAIN enum.numbers : ~ReservedValue(proto, proto.values[j].number)
      BY <1>1, <3>1 DEF VInv, Passed
    <3>4. \A j \in DOMAIN exts' : j \in DOMAIN exts \/ j = i
      BY <2>3
    <3> QED BY <2>1, <2>2, <3>2, <3>3, <3>4 DEF Passed
  <2>8. Blamed'
    <3> SUFFICES ASSUME errors' # {}, errors = {} PROVE ~Valid(proto)
      BY <2>1 DEF VInv, Blamed
    <3>1. ~Passes(proto, f, TRUE)
      BY <2>1 DEF Passes, ErrorIf
    <3>2. ~Keeps(proto, f, TRUE)
      BY <2>1, <2>4, <2>5, <3>1, FieldRules
    <3> QED BY <2>4, <2>5, <3>2, ValidIs
  <2>9. Ends'
    BY <1>1, <2>1 DEF Ends
  <2> QED BY <2>6, <2>7, <2>8, <2>9
<1> QED BY <1>2, <1>3

\* The file is refused when there is an error.
LEMMA EndVerdict == ASSUME VInv, EndResolve PROVE (Traced /\ Passed /\ Blamed /\ Ends)'
<1>1. Traced' /\ Passed' /\ Blamed'
  BY DEF VInv, EndResolve, Traced, Passed, Blamed
<1>2. Ends'
  BY DEF EndResolve, Ends, AllVisited, Visited
<1> QED BY <1>1, <1>2

\* Every step keeps the invariant.
LEMMA NextVerdict == VInv /\ [Next]_vars => VInv'
<1> SUFFICES ASSUME VInv, [Next]_vars PROVE VInv'
  OBVIOUS
<1>1. IInv'
  BY NextInv DEF VInv
<1>2. CASE VisitField
  <2> DEFINE f == proto.fields[Visited + 1]
  <2>1. CASE DefaultPanics(f)
    BY <1>1, <1>2, <2>1, PanicVerdict DEF VisitField, VInv
  <2>2. CASE ~DefaultPanics(f)
    BY <1>1, <1>2, <2>2, FieldVerdict DEF VisitField, VInv
  <2> QED BY <2>1, <2>2
<1>3. CASE UNCHANGED vars
  <2>1. Traced' /\ Passed' /\ Blamed' /\ Ends'
    BY <1>3 DEF VInv, vars, Traced, Passed, Blamed, Ends, AllVisited, Visited
  <2> QED BY <1>1, <2>1 DEF VInv
<1> QED BY <1>1, <1>2, <1>3, NamesVerdict, ValueVerdict, ExtensionVerdict, EndVerdict DEF Next, VInv

-----------------------------------------------------------------------------

\* What was accepted has no key twice: two elements would share where a map leads.
LEMMA AcceptedKeys == ASSUME VInv, phase = "accepted" PROVE KeepsKeys(proto)
<1>1. errors = {} /\ AllVisited
  BY DEF VInv, Ends
<1>2. proto \in Protos /\ DOMAIN proto.fields = 1..Len(proto.fields)
      /\ DOMAIN proto.values = 1..Len(proto.values) /\ Len(proto.values) \in Nat
      /\ \A i \in DOMAIN proto.values : proto.values[i].number \in Int
  BY ProtoTyped DEF VInv, IInv, Shape
<1>3. DOMAIN message.fields = DOMAIN proto.fields
  <2>1. message.fields \in Seq(Range(message.fields))
    BY DEF VInv, IInv, TypeOK
  <2>2. DOMAIN message.fields = 1..Len(message.fields)
    BY <2>1
  <2> QED BY <1>1, <1>2, <2>2 DEF AllVisited, Visited
<1>4. ~Twice(Numbers(proto.fields))
  <2>1. /\ Numbers(message.fields) = Numbers(proto.fields)
        /\ Finds(message.numbers, Numbers(message.fields))
    BY <1>1, <1>3 DEF VInv, IInv, FieldsFound, Traced, Numbers
  <2> QED BY <2>1 DEF Finds, Twice
<1>5. ~Twice([i \in DOMAIN proto.fields |-> JsonName(proto.fields[i])])
  <2>1. /\ JsonNames(message.fields) = [i \in DOMAIN proto.fields |-> JsonName(proto.fields[i])]
        /\ Finds(message.jsonNames, JsonNames(message.fields))
    BY <1>1, <1>3 DEF VInv, IInv, FieldsFound, Traced, JsonNames
  <2> QED BY <2>1 DEF Finds, Twice
<1>6. ASSUME ~proto.allowAlias PROVE ~Twice(Numbers(proto.values))
  <2> DEFINE s == enum.numbers
  <2>1. /\ DOMAIN s = DOMAIN proto.values /\ s \in Seq([number : Int, value : 1..Len(s)])
        /\ \A j \in DOMAIN s : s[j].number \in Int
    <3>1. s \in Seq([number : Int, value : 1..Len(s)]) /\ Len(s) = Len(proto.values)
      BY <1>1 DEF VInv, IInv, TypeOK, AllVisited
    <3> HIDE DEF s
    <3> QED BY <1>2, <3>1, TableTyped
  <2>2. /\ \A j, k \in DOMAIN s : j < k => s[j].number < s[k].number
        /\ \A j \in DOMAIN s : s[j].number = proto.values[s[j].value].number
        /\ \A i \in DOMAIN s : \E j \in DOMAIN s : s[j].value = i
    BY <1>1, <1>6 DEF VInv, IInv, ValuesFound, Traced
  <2>3. ASSUME NEW i \in DOMAIN proto.values, NEW j \in DOMAIN proto.values, i # j
        PROVE  proto.values[i].number # proto.values[j].number
    <3>1. PICK a \in DOMAIN s : s[a].value = i
      BY <2>1, <2>2
    <3>2. PICK b \in DOMAIN s : s[b].value = j
      BY <2>1, <2>2
    <3>3. a # b /\ a \in Int /\ b \in Int
      <4>1. DOMAIN s = 1..Len(proto.values) /\ Len(proto.values) \in Nat
        BY <1>2, <2>1
      <4> HIDE DEF s
      <4> QED BY <2>3, <3>1, <3>2, <4>1
    <3>4. s[a].number < s[b].number \/ s[b].number < s[a].number
      BY SMTT(60), <2>2, <3>3
    <3>5. s[a].number # s[b].number
      <4>1. s[a].number \in Int /\ s[b].number \in Int
        BY <2>1
      <4> HIDE DEF s
      <4> QED BY <3>4, <4>1
    <3> QED BY <2>2, <3>1, <3>2, <3>5
  <2> QED BY <2>3 DEF Twice, Numbers
<1> QED BY <1>4, <1>5, <1>6 DEF KeepsKeys

\* What was accepted keeps every rule.
LEMMA AcceptedValid == ASSUME VInv, phase = "accepted" PROVE Valid(proto)
<1>1. errors = {} /\ AllVisited
  BY DEF VInv, Ends
<1>2. proto \in Protos
  BY DEF VInv, IInv, Shape
<1>3. /\ DOMAIN message.fields = DOMAIN proto.fields /\ DOMAIN exts = DOMAIN proto.extensions
      /\ DOMAIN enum.numbers = DOMAIN proto.values
  <2>1. message.fields \in Seq(Range(message.fields)) /\ exts \in Seq(Range(exts))
        /\ enum.numbers \in Seq([number : Int, value : 1..Len(enum.numbers)])
    BY DEF VInv, IInv, TypeOK, Shape
  <2>2. /\ DOMAIN message.fields = 1..Len(message.fields) /\ DOMAIN exts = 1..Len(exts)
        /\ DOMAIN enum.numbers = 1..Len(enum.numbers)
    BY <2>1
  <2> QED BY <1>1, <1>2, <2>2, ProtoTyped DEF AllVisited, Visited
<1>4. /\ NameErrors(proto) = {}
      /\ \A i \in DOMAIN proto.fields : Passes(proto, proto.fields[i], FALSE)
      /\ \A i \in DOMAIN proto.extensions : Passes(proto, proto.extensions[i], TRUE)
      /\ \A i \in DOMAIN proto.values : ~ReservedValue(proto, proto.values[i].number)
  BY <1>1, <1>3 DEF VInv, Passed
<1>5. \A i \in DOMAIN proto.fields : Keeps(proto, proto.fields[i], FALSE)
  <2> SUFFICES ASSUME NEW i \in DOMAIN proto.fields PROVE Keeps(proto, proto.fields[i], FALSE)
    OBVIOUS
  <2>1. FieldProto(proto.fields[i]) /\ Passes(proto, proto.fields[i], FALSE)
    BY <1>2, <1>4, ProtoTyped
  <2>2. ParseDefault(proto, proto.fields[i]) # Panics
    BY <2>1 DEF Passes
  <2> QED BY <1>2, <2>1, <2>2, FieldRules
<1>6. \A i \in DOMAIN proto.extensions : Keeps(proto, proto.extensions[i], TRUE)
  <2> SUFFICES ASSUME NEW i \in DOMAIN proto.extensions PROVE Keeps(proto, proto.extensions[i], TRUE)
    OBVIOUS
  <2>1. FieldProto(proto.extensions[i]) /\ Passes(proto, proto.extensions[i], TRUE)
    BY <1>2, <1>4, ProtoTyped
  <2>2. ParseDefault(proto, proto.extensions[i]) # Panics
    BY <2>1 DEF Passes
  <2> QED BY <1>2, <2>1, <2>2, FieldRules
<1> QED BY <1>2, <1>4, <1>5, <1>6, AcceptedKeys, NameRules, ValidIs DEF KeepsValues

\* What a default of type bytes holds is what unescaping its literal gives.
LEMMA DefaultIsRead ==
  ASSUME NEW p \in Protos, NEW f, FieldProto(f), ParseDefault(p, f).is = "bytes"
  PROVE  f.default.text \in Seq(Int) /\ ParseDefault(p, f) = UnescapeC(f.default.text, Checked)
<1> DEFINE d == f.default
           kind == Kind(f)
           named == { i \in DOMAIN p.values : f.default = Name(p.values[i].name) }
           first == CHOOSE i \in named : \A j \in named : i <= j
<1>1. /\ d.is = "none" \/ d.is = "int" \/ (d.is = "text" /\ d.text \in Seq(Int))
  BY DEF FieldProto, IsLiteral, Name
<1>2. ParseDefault(p, f) =
        CASE d.is = "none" \/ kind = "unknown" -> NoDefault
          [] d.is = "text" /\ kind = "bytes" -> UnescapeC(d.text, Checked)
          [] d.is = "int" /\ kind = "int32" -> d
          [] d.is = "text" /\ kind = "enum" /\ named # {} -> Number(p.values[first].number)
          [] OTHER -> Refused
  BY DEF ParseDefault
<1>3. NoDefault.is # "bytes" /\ Refused.is # "bytes" /\ \A m : Number(m).is # "bytes"
  BY DEF NoDefault, Refused, Number
<1> HIDE DEF d, kind, first, named
<1>4. d.is = "text" /\ kind = "bytes" /\ kind # "unknown"
  BY <1>1, <1>2, <1>3
<1>5. ParseDefault(p, f) = UnescapeC(d.text, Checked)
  BY <1>2, <1>4
<1> QED BY <1>1, <1>4, <1>5 DEF d

\* So blame is right in every reachable state.
LEMMA VerdictInvariant == Spec => []VInv
<1> QED BY InitVerdict, NextVerdict, PTL DEF Spec

\* A file is accepted exactly when it keeps the rules of the language, whatever
\* the order in which the errors are found and wherever the visit of an earlier
\* element left its keys.
THEOREM VerdictsRight == Spec => []VerdictIsRight
<1>1. VInv => VerdictIsRight
  BY AcceptedValid DEF VInv, VerdictIsRight, Ends, Blamed
<1> QED BY <1>1, VerdictInvariant, PTL

\* The two readers of quoted bytes, that of default values and that of the text
\* format, agree on every literal that both accept.
THEOREM DefaultsReadAlike == Spec => []DefaultsAgree
<1>1. VInv => DefaultsAgree
  <2> SUFFICES ASSUME VInv, NEW i \in DOMAIN message.fields,
                      message.fields[i].default.is = "bytes",
                      LexString(Append(proto.fields[i].default.text, Quote), Quote).is = "bytes"
               PROVE  message.fields[i].default = LexString(Append(proto.fields[i].default.text, Quote), Quote)
    BY DEF DefaultsAgree
  <2> DEFINE f == proto.fields[i]
  <2>1. proto \in Protos /\ i \in DOMAIN proto.fields
    <3>1. message.fields \in Seq(Range(message.fields)) /\ Visited <= Len(proto.fields) /\ proto \in Protos
      BY DEF VInv, IInv, TypeOK, Shape
    <3>2. DOMAIN message.fields = 1..Visited /\ Visited \in Nat
      BY <3>1 DEF Visited
    <3>3. DOMAIN proto.fields = 1..Len(proto.fields) /\ Len(proto.fields) \in Nat
      BY <3>1, ProtoTyped
    <3> QED BY <3>1, <3>2, <3>3
  <2>2. FieldProto(f)
    BY <2>1, ProtoTyped
  <2>3. message.fields[i].default = ParseDefault(proto, f)
    <3>1. message.fields[i].default \in {NoDefault, ParseDefault(proto, f)}
      BY DEF VInv, Traced
    <3>2. NoDefault.is # "bytes"
      BY DEF NoDefault
    <3> QED BY <3>1, <3>2
  <2>4. f.default.text \in Seq(Int) /\ ParseDefault(proto, f) = UnescapeC(f.default.text, Checked)
    BY <2>1, <2>2, <2>3, DefaultIsRead
  <2> DEFINE text == f.default.text
  <2>5. /\ text \in Seq(Int) /\ UnescapeC(text, Checked).is = "bytes"
        /\ LexString(Append(text, Quote), Quote).is = "bytes"
    BY <2>3, <2>4
  <2> HIDE DEF text
  <2>6. UnescapeC(text, Checked) = LexString(Append(text, Quote), Quote)
    BY <2>5, ReadersAgree
  <2> QED BY <2>3, <2>4, <2>6 DEF text
<1> QED BY <1>1, VerdictInvariant, PTL
=============================================================================
