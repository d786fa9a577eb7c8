----------------------------- MODULE OptionsProofs -----------------------------
(***************************************************************************)
(* Theorems about Options, for every file and all options messages: no     *)
(* oneof ever has two fields, each source location in an option moves      *)
(* once, with that option, a file is refused exactly when an option of it  *)
(* is wrong, and in one that is accepted each option is where its location *)
(* says.                                                                   *)
(*                                                                         *)
(* The second one rests on where values are put: the path of a value is    *)
(* never that of an option still to be moved, as the list of uninterpreted *)
(* options keeps its length, and on paths of options that begin no other.  *)
(*                                                                         *)
(* The third one rests on an account of what shows in the options message: *)
(* the slots that do are those that the options before have given it and   *)
(* none since has removed, and the messages the cursor has come through,   *)
(* whose fields are the chain of the name.                                 *)
(*                                                                         *)
(* The fourth one rests on an account of values: what an option gave a     *)
(* slot is still in it, or at the beginning of the list it has become,     *)
(* unless an option since has removed the slot, and where the location of  *)
(* the option leads.  No option is set twice, so none is overwritten.      *)
(***************************************************************************)
EXTENDS Options, FoldTheorems, TLAPS

\* What get_field_mut leaves of a message, and that the field is in it.
LEMMA GetMutFacts ==
  ASSUME Message(slots), NEW at \in Seq(Int), NEW f \in Fields
  PROVE  /\ Message(GetMut(at, f)) /\ <<at, f.number>> \in DOMAIN GetMut(at, f)
<1> DEFINE m == GetMut(at, f)  own == <<at, f.number>>
           kept == { s \in DOMAIN slots : \A g \in Rivals(f) : ~Within(s, at, g.number) }
<1>1. m = [s \in kept \cup {own} |-> IF s \in kept THEN slots[s] ELSE [field |-> f, value |-> Default(f)]]
  BY DEF GetMut
<1>2. own = <<own[1], own[2]>> /\ own[1] = at /\ own[2] = f.number
  OBVIOUS
<1> HIDE DEF m, kept, own
<1>3. DOMAIN m = kept \cup {own} /\ kept \subseteq DOMAIN slots
  BY <1>1 DEF kept
<1>4. \A s \in kept : m[s] = slots[s]
  BY <1>1
<1>5. own \notin kept => m[own] = [field |-> f, value |-> Default(f)]
  BY <1>1
<1>6. ASSUME NEW s \in DOMAIN m
      PROVE  /\ s = <<s[1], s[2]>> /\ s[1] \in Seq(Int) /\ m[s] = [field |-> m[s].field, value |-> m[s].value]
             /\ m[s].field \in Fields /\ m[s].field.number = s[2]
  <2>1. CASE s \in kept
    BY <1>3, <1>4, <2>1 DEF Message
  <2>2. CASE s \notin kept
    BY <1>2, <1>3, <1>5, <2>2
  <2> QED BY <2>1, <2>2
\* A slot that stays next to that of f is no rival of f.
<1>7. ASSUME NEW s \in kept, s[1] = at, own \notin kept, slots[s].field.oneof = f.oneof, f.oneof # None
      PROVE  FALSE
  <2> DEFINE g == slots[s].field
  <2>1. g \in Fields /\ s = <<at, g.number>> /\ s \in DOMAIN slots
    BY <1>3, <1>7 DEF Message
  <2>2. g.number # f.number
    BY <1>7, <2>1 DEF own
  <2>3. g \in Rivals(f)
    BY <1>7, <2>1, <2>2 DEF Rivals
  <2>4. Within(s, at, g.number)
    BY <2>1 DEF Within
  <2> QED BY <2>3, <2>4 DEF kept
<1>8. Exclusive(m)
  <2> SUFFICES ASSUME NEW s \in DOMAIN m, NEW t \in DOMAIN m, s[1] = t[1],
                      m[s].field.oneof = m[t].field.oneof, m[s].field.oneof # None
               PROVE  s = t
    BY DEF Exclusive
  <2>1. CASE s \in kept /\ t \in kept
    BY <1>3, <1>4, <2>1 DEF Message, Exclusive
  <2>2. CASE s \notin kept /\ t \in kept
    <3>1. s = own /\ m[s].field = f /\ m[t] = slots[t]
      BY <1>3, <1>4, <1>5, <2>2
    <3> QED BY <1>2, <1>7, <2>2, <3>1
  <2>3. CASE s \in kept /\ t \notin kept
    <3>1. t = own /\ m[t].field = f /\ m[s] = slots[s]
      BY <1>3, <1>4, <1>5, <2>3
    <3> QED BY <1>2, <1>7, <2>3, <3>1
  <2>4. CASE s \notin kept /\ t \notin kept
    BY <1>3, <2>4
  <2> QED BY <2>1, <2>2, <2>3, <2>4
<1>9. Message(m)
  BY <1>6, <1>8 DEF Message
<1> QED BY <1>3, <1>9 DEF m, own

\* Replacing a value leaves the fields of a message alone.
LEMMA PutFacts ==
  ASSUME NEW m, Message(m), NEW s \in DOMAIN m, NEW y
  PROVE  Message([m EXCEPT ![s].value = y])
<1> DEFINE n == [m EXCEPT ![s].value = y]
<1>1. m[s] = [field |-> m[s].field, value |-> m[s].value]
  BY DEF Message
<1>2. DOMAIN n = DOMAIN m /\ n[s] = [field |-> m[s].field, value |-> y]
      /\ \A t \in DOMAIN m : t # s => n[t] = m[t]
  BY <1>1
<1> HIDE DEF n
<1>3. \A t \in DOMAIN m : n[t].field = m[t].field /\ n[t] = [field |-> n[t].field, value |-> n[t].value]
  <2> SUFFICES ASSUME NEW t \in DOMAIN m
               PROVE  n[t].field = m[t].field /\ n[t] = [field |-> n[t].field, value |-> n[t].value]
    OBVIOUS
  <2>1. CASE t = s
    BY <1>2, <2>1
  <2>2. CASE t # s
    BY <1>2, <2>2 DEF Message
  <2> QED BY <2>1, <2>2
<1>4. Message(n)
  BY <1>2, <1>3 DEF Message, Exclusive
<1> QED BY <1>4 DEF n

\* A path is found again behind what it was put after.
LEMMA Behind ==
  ASSUME NEW base \in Seq(Int), NEW p \in Seq(Int)
  PROVE  /\ base \o p \in Seq(Int) /\ IsPrefix(base, base \o p)
         /\ SubSeq(base \o p, Len(base) + 1, Len(base \o p)) = p
<1>1. base \o p \in Seq(Int) /\ Len(base \o p) = Len(base) + Len(p)
  OBVIOUS
<1>2. SubSeq(base \o p, Len(base) + 1, Len(base \o p)) = p
  OBVIOUS
<1>3. IsPrefix(base, base \o p)
  BY <1>1 DEF IsPrefix
<1> QED BY <1>1, <1>2, <1>3

\* A message literal takes the place of what was in the field.
LEMMA GraftedFacts ==
  ASSUME Message(slots), NEW at \in Seq(Int), NEW f \in Fields, NEW literal, Message(literal)
  PROVE  Message(Grafted(at, f, literal))
<1> DEFINE base == Append(at, f.number)  m == GetMut(at, f)  n == Grafted(at, f, literal)
           kept == { s \in DOMAIN m : ~IsPrefix(base, s[1]) }
           new == { <<base \o s[1], s[2]>> : s \in DOMAIN literal }
           of(s) == <<SubSeq(s[1], Len(base) + 1, Len(s[1])), s[2]>>
<1>1. Message(m) /\ base \in Seq(Int)
  <2>1. f.number \in Int
    BY FilesAssumption
  <2>2. Message(m)
    BY GetMutFacts
  <2>3. base \in Seq(Int)
    BY <2>1
  <2> QED BY <2>2, <2>3
<1>2. n = [s \in kept \cup new |-> IF s \in kept THEN m[s] ELSE literal[of(s)]]
  BY DEF Grafted
<1> HIDE DEF base, m, n
<1>3. ASSUME NEW s \in new
      PROVE  /\ s = <<s[1], s[2]>> /\ s[1] \in Seq(Int) /\ IsPrefix(base, s[1])
             /\ of(s) \in DOMAIN literal /\ s = <<base \o of(s)[1], of(s)[2]>>
  <2>1. PICK r \in DOMAIN literal : s = <<base \o r[1], r[2]>>
    OBVIOUS
  <2>2. r = <<r[1], r[2]>> /\ r[1] \in Seq(Int)
    BY DEF Message
  <2>3. s[1] = base \o r[1] /\ s[2] = r[2]
    BY <2>1
  <2>4. of(s) = r
    BY <1>1, <2>2, <2>3, Behind
  <2> QED BY <1>1, <2>1, <2>2, <2>3, <2>4, Behind
<1>4. DOMAIN n = kept \cup new /\ kept \subseteq DOMAIN m /\ \A s \in kept : n[s] = m[s] /\ ~IsPrefix(base, s[1])
  BY <1>2
<1>5. \A s \in new : s \notin kept /\ n[s] = literal[of(s)]
  BY <1>2, <1>3
<1> HIDE DEF kept, new, of
<1>6. ASSUME NEW s \in DOMAIN n
      PROVE  /\ s = <<s[1], s[2]>> /\ s[1] \in Seq(Int) /\ n[s] = [field |-> n[s].field, value |-> n[s].value]
             /\ n[s].field \in Fields /\ n[s].field.number = s[2]
  <2>1. CASE s \in kept
    BY <1>1, <1>4, <2>1 DEF Message
  <2>2. CASE s \in new
    <3>1. s[2] = of(s)[2]
      BY <2>2 DEF of
    <3> QED BY <1>3, <1>5, <2>2, <3>1 DEF Message
  <2> QED BY <1>4, <2>1, <2>2
<1>7. ASSUME NEW s \in DOMAIN n, NEW t \in DOMAIN n, s[1] = t[1],
             n[s].field.oneof = n[t].field.oneof, n[s].field.oneof # None
      PROVE  s = t
  <2>1. CASE s \in kept /\ t \in kept
    BY <1>1, <1>4, <1>7, <2>1 DEF Message, Exclusive
  <2>2. CASE s \in new /\ t \in new
    <3>1. of(s)[1] = of(t)[1]
      BY <1>7 DEF of
    <3>2. of(s) = of(t)
      BY <1>3, <1>5, <1>7, <2>2, <3>1 DEF Message, Exclusive
    <3> QED BY <1>3, <2>2, <3>2
  <2>3. CASE ~(s \in kept <=> t \in kept)
    BY <1>3, <1>4, <1>5, <1>7, <2>3
  <2> QED BY <1>4, <1>5, <2>1, <2>2, <2>3
<1>8. Message(n)
  BY <1>6, <1>7 DEF Message, Exclusive
<1> QED BY <1>8 DEF n

-----------------------------------------------------------------------------
(* The invariant: where the cursor may be while options are interpreted,   *)
(* and that the options message is one.                                    *)

IInv ==
  /\ file \in Files /\ options \in Seq(Range(options))
  /\ Len(options) <= Len(file.nodes)
  /\ phase = "option" => Len(options) < Len(file.nodes)
  /\ cursor \in [option : Nat \ {0}, part : Nat \ {0}, at : Seq(Int), type : {cursor.type}]
  /\ Message(slots)

LEMMA EmptyMessage == Message(NoSlots)
BY DEF Message, Exclusive, NoSlots

LEMMA Counted ==
  ASSUME NEW s, s \in Seq(Range(s)), NEW x
  PROVE  Len(s) \in Nat /\ Append(s, x) \in Seq(Range(Append(s, x))) /\ Len(Append(s, x)) = Len(s) + 1
<1> DEFINE T == Range(s) \cup {x}
<1>1. s \in Seq(T) /\ Len(s) \in Nat
  <2>1. \A i \in 1..Len(s) : s[i] \in T
    BY DEF Range
  <2> QED BY <2>1
<1>2. Append(s, x) \in Seq(T) /\ Len(Append(s, x)) = Len(s) + 1
  BY <1>1
<1>3. \A i \in 1..(Len(s) + 1) : Append(s, x)[i] \in Range(Append(s, x))
  BY <1>2 DEF Range
<1> QED BY <1>1, <1>2, <1>3

LEMMA InitInv == Init => IInv
BY EmptyMessage DEF Init, IInv, NoSlots, Range, FilesAssumption

\* The node of an option, and what is known of its literals.
LEMMA NodeFacts ==
  ASSUME IInv, Len(options) < Len(file.nodes)
  PROVE  /\ Message(Node.encoded)
         /\ \A i \in 1..Len(Node.uninterpreted) : \A f \in Fields :
              LET v == Node.uninterpreted[i].value
              IN f.kind = "message" /\ v.is = "aggregate" /\ v.type = f.type => Message(v.value)
<1>1. Len(options) \in Nat /\ file \in Files /\ file.nodes \in Seq(Range(file.nodes))
  BY FilesAssumption DEF IInv
<1>2. Len(options) + 1 \in DOMAIN file.nodes
  BY <1>1
<1>3. Node.uninterpreted \in Seq(Range(Node.uninterpreted))
  BY <1>1, <1>2, FilesAssumption DEF Node
<1>4. DOMAIN Node.uninterpreted = 1..Len(Node.uninterpreted)
  BY <1>3
<1> QED BY <1>1, <1>2, <1>4, FilesAssumption DEF Node

\* An option that fails leaves the message it has changed a message.
LEMMA FailsStep ==
  \A kind, message : IInv /\ Fails(kind, message) /\ Message(message) => IInv'
BY DEF IInv, Fails, visited, AtRoot

LEMMA InterpretedStep ==
  \A rest : IInv /\ Interpreted(rest) /\ Message(slots') => IInv'
BY DEF IInv, Interpreted, visited, AtRoot

\* Whatever the kind of the field, a value leaves the message a message.
LEMMA ValueFacts ==
  ASSUME Message(slots), NEW at \in Seq(Int), NEW f \in Fields, NEW v, NEW x \in Converted(f, v),
         f.kind = "message" /\ v.is = "aggregate" /\ v.type = f.type => Message(v.value)
  PROVE  Message(WithValue(at, f, x))
<1>1. Message(GetMut(at, f)) /\ <<at, f.number>> \in DOMAIN GetMut(at, f)
  BY GetMutFacts
<1>2. \A y : Message([GetMut(at, f) EXCEPT ![<<at, f.number>>].value = y])
  BY <1>1, PutFacts
<1>3. CASE f.kind = "message"
  <2>1. Message(x)
    BY <1>3 DEF Converted, Integral
  <2>2. Message(Grafted(at, f, x))
    BY <2>1, GraftedFacts
  <2> QED BY <1>2, <2>2 DEF WithValue
<1>4. CASE f.kind # "message"
  BY <1>2, <1>4 DEF WithValue
<1> QED BY <1>3, <1>4

LEMMA DescendStep == IInv /\ Descend => IInv'
<1> SUFFICES ASSUME IInv, Descend PROVE IInv'
  OBVIOUS
<1>1. PICK f \in Named :
       \/ /\ f.kind = "message" /\ f.card = "singular"
          /\ slots' = GetMut(cursor.at, f)
          /\ cursor' = [cursor EXCEPT !.part = @ + 1, !.at = Append(@, f.number), !.type = f.type]
          /\ UNCHANGED <<visited, phase, errors, options, locations>>
       \/ /\ f.kind # "message" \/ f.card # "singular"
          /\ Fails("InvalidOptionType", GetMut(cursor.at, f))
  BY DEF Descend
<1>2. f \in Fields /\ f.number \in Int /\ cursor.at \in Seq(Int)
  BY FilesAssumption DEF Named, Candidates, IInv
<1>3. Message(GetMut(cursor.at, f))
  BY <1>2, GetMutFacts DEF IInv
<1>4. CASE Fails("InvalidOptionType", GetMut(cursor.at, f))
  BY <1>3, <1>4, FailsStep
<1>5. CASE ~Fails("InvalidOptionType", GetMut(cursor.at, f))
  <2>1. cursor' \in [option : Nat \ {0}, part : Nat \ {0}, at : Seq(Int), type : {cursor'.type}]
    <3>1. Append(cursor.at, f.number) \in Seq(Int)
      BY <1>2
    <3>2. cursor = [option |-> cursor.option, part |-> cursor.part, at |-> cursor.at, type |-> cursor.type]
          /\ cursor.option \in Nat \ {0} /\ cursor.part \in Nat \ {0}
      BY DEF IInv
    <3>3. cursor' = [cursor EXCEPT !.part = @ + 1, !.at = Append(@, f.number), !.type = f.type]
      BY <1>1, <1>5
    <3>4. cursor' = [option |-> cursor.option, part |-> cursor.part + 1,
                     at |-> Append(cursor.at, f.number), type |-> f.type]
      BY ONLY <3>2, <3>3
    <3> QED BY ONLY <3>1, <3>2, <3>4
  <2> QED BY <1>1, <1>3, <1>5, <2>1 DEF IInv, visited
<1> QED BY <1>4, <1>5

LEMMA SetValueStep == IInv /\ SetValue => IInv'
<1> SUFFICES ASSUME IInv, SetValue PROVE IInv'
  OBVIOUS
<1> DEFINE at == cursor.at
<1>1. PICK f \in Named :
       \/ Fails("DuplicateOption", slots)
       \/ Fails("InvalidOptionType", GetMut(at, f))
       \/ /\ \E x \in Converted(f, Option.value) : slots' = WithValue(at, f, x)
          /\ Interpreted(ValuePath(at, f))
  BY DEF SetValue
<1>2. f \in Fields /\ at \in Seq(Int) /\ Message(slots)
  BY DEF Named, Candidates, IInv
<1>3. CASE Fails("DuplicateOption", slots)
  BY <1>2, <1>3, FailsStep
<1>4. CASE Fails("InvalidOptionType", GetMut(at, f))
  BY <1>2, <1>4, GetMutFacts, FailsStep
<1>5. ASSUME NEW x \in Converted(f, Option.value), slots' = WithValue(at, f, x), Interpreted(ValuePath(at, f))
      PROVE  IInv'
  <2>1. Len(options) < Len(file.nodes) /\ cursor.option \in 1..Len(Node.uninterpreted)
    <3>1. file.nodes \in Seq(Range(file.nodes)) /\ Len(options) + 1 \in DOMAIN file.nodes
      BY FilesAssumption DEF SetValue, AtPart, IInv
    <3>2. Node.uninterpreted \in Seq(Range(Node.uninterpreted))
      BY <3>1, FilesAssumption DEF Node, IInv
    <3> QED BY <3>2 DEF SetValue, AtPart, IInv
  <2>2. LET v == Option.value IN f.kind = "message" /\ v.is = "aggregate" /\ v.type = f.type => Message(v.value)
    BY <1>2, <2>1, NodeFacts DEF Option
  <2>3. Message(WithValue(at, f, x))
    BY <1>2, <2>2, ValueFacts
  <2> QED BY <1>5, <2>3, InterpretedStep
<1> QED BY <1>1, <1>3, <1>4, <1>5

LEMMA NextInv == IInv /\ [Next]_vars => IInv'
<1> SUFFICES ASSUME IInv, [Next]_vars PROVE IInv'
  OBVIOUS
<1>1. CASE StartNode
  <2>1. \A x : Append(options, x) \in Seq(Range(Append(options, x))) /\ Len(Append(options, x)) = Len(options) + 1
    BY Counted DEF IInv
  <2>2. Message(Node.encoded)
    BY <1>1, NodeFacts DEF StartNode
  <2>3. Len(options) \in Nat /\ Len(file.nodes) \in Nat
    BY FilesAssumption DEF IInv
  <2>4. << >> \in Seq(Int) /\ 1 \in Nat \ {0}
    OBVIOUS
  <2>5. AtRoot(1) \in [option : Nat \ {0}, part : Nat \ {0}, at : Seq(Int), type : {AtRoot(1).type}]
    BY ONLY <2>4 DEF AtRoot
  <2>6. CASE Node.decodes
    <3>1. phase' = "option" /\ cursor' = AtRoot(1) /\ slots' = Node.encoded
          /\ UNCHANGED <<errors, options, file, info, stored, applied, locations>>
      BY <1>1, <2>6 DEF StartNode, visited
    <3> QED BY <1>1, <2>2, <2>5, <3>1 DEF StartNode, IInv
  <2>7. CASE ~Node.decodes
    <3>1. options' = Append(options, [path |-> OptionsPath(Node), slots |-> NoSlots])
          /\ UNCHANGED <<phase, cursor, slots, file, info, stored, applied, locations>>
      BY <1>1, <2>7 DEF StartNode, visited
    <3> QED BY <1>1, <2>1, <2>3, <3>1 DEF StartNode, IInv
  <2> QED BY <2>6, <2>7
<1>2. CASE NotFound
  BY <1>2, FailsStep DEF NotFound, IInv
<1>3. CASE NoName
  BY <1>3, InterpretedStep DEF NoName, IInv
<1>4. CASE EndNode
  <2>1. \A x : Append(options, x) \in Seq(Range(Append(options, x))) /\ Len(Append(options, x)) = Len(options) + 1
    BY Counted DEF IInv
  <2>2. Len(options) \in Nat /\ Len(file.nodes) \in Nat
    BY FilesAssumption DEF IInv
  <2> QED BY <1>4, <2>1, <2>2 DEF EndNode, IInv, visited
<1>5. CASE EndVisit
  BY <1>5 DEF EndVisit, IInv, visited
<1>6. CASE StoreOptions \/ StoreFails
  BY <1>6 DEF StoreOptions, StoreFails, visited, IInv
<1>7. CASE ApplyLocations
  BY <1>7 DEF ApplyLocations, IInv
<1>8. CASE Accept
  BY <1>8 DEF Accept, IInv, visited
<1>9. CASE UNCHANGED vars
  BY <1>9 DEF vars, IInv
<1> QED BY <1>1, <1>2, <1>3, <1>4, <1>5, <1>6, <1>7, <1>8, <1>9, DescendStep, SetValueStep DEF Next

\* Options that name members of a oneof in any order, pass through them or fail
\* on the way never leave two of them in the message that is stored as the
\* options of an element.
THEOREM OneofsNeverMeet == Spec => []OneofsExclusive
<1>1. IInv => OneofsExclusive
  BY DEF IInv, Message, OneofsExclusive
<1> QED BY <1>1, InitInv, NextInv, PTL DEF Spec

-----------------------------------------------------------------------------
(* Paths.                                                                  *)

\* A prefix, element by element.
LEMMA PrefixIs ==
  ASSUME NEW S, NEW s \in Seq(S), NEW t \in Seq(S)
  PROVE  IsPrefix(s, t) <=> Len(s) <= Len(t) /\ \A i \in 1..Len(s) : s[i] = t[i]
<1>1. Len(s) \in Nat /\ Len(t) \in Nat /\ SubSeq(s, 1, Len(s)) = s
  OBVIOUS
<1>2. CASE Len(s) <= Len(t)
  <2> DEFINE u == SubSeq(t, 1, Len(s))
  <2>1. u \in Seq(S) /\ Len(u) = Len(s) /\ \A i \in 1..Len(s) : u[i] = t[i]
    BY <1>1, <1>2
  <2> HIDE DEF u
  <2>2. s = u <=> \A i \in 1..Len(s) : s[i] = u[i]
    BY <2>1
  <2>3. IsPrefix(s, t) <=> s = u
    BY <1>1, <1>2 DEF IsPrefix, u
  <2> QED BY <1>2, <2>1, <2>2, <2>3
<1>3. CASE ~(Len(s) <= Len(t))
  BY <1>3 DEF IsPrefix
<1> QED BY <1>2, <1>3

\* Two sequences, one behind the other.
LEMMA Joined ==
  ASSUME NEW S, NEW s \in Seq(S), NEW t \in Seq(S)
  PROVE  /\ s \o t \in Seq(S) /\ Len(s \o t) = Len(s) + Len(t)
         /\ \A i \in 1..Len(s) : (s \o t)[i] = s[i]
         /\ \A i \in 1..Len(t) : (s \o t)[Len(s) + i] = t[i]
OBVIOUS

\* Three sequences, one behind the other.
LEMMA ThreeJoined ==
  ASSUME NEW S, NEW s \in Seq(S), NEW t \in Seq(S), NEW u \in Seq(S)
  PROVE  /\ (s \o t) \o u \in Seq(S) /\ Len((s \o t) \o u) = Len(s) + Len(t) + Len(u)
         /\ \A i \in 1..Len(s) : ((s \o t) \o u)[i] = s[i]
         /\ \A i \in 1..Len(t) : ((s \o t) \o u)[Len(s) + i] = t[i]
         /\ \A i \in 1..Len(u) : ((s \o t) \o u)[Len(s) + Len(t) + i] = u[i]
<1> DEFINE v == s \o t
<1>1. /\ v \in Seq(S) /\ Len(v) = Len(s) + Len(t)
      /\ \A i \in 1..Len(s) : v[i] = s[i]
      /\ \A i \in 1..Len(t) : v[Len(s) + i] = t[i]
  BY Joined
<1> HIDE DEF v
<1>2. /\ v \o u \in Seq(S) /\ Len(v \o u) = Len(v) + Len(u)
      /\ \A i \in 1..Len(v) : (v \o u)[i] = v[i]
      /\ \A i \in 1..Len(u) : (v \o u)[Len(v) + i] = u[i]
  <2>1. v \in Seq(S)
    BY <1>1
  <2> QED BY ONLY <2>1, u \in Seq(S), Joined
<1>3. Len(s) \in Nat /\ Len(t) \in Nat /\ Len(u) \in Nat
  OBVIOUS
<1>4. /\ \A i \in 1..Len(s) : (v \o u)[i] = s[i]
      /\ \A i \in 1..Len(t) : (v \o u)[Len(s) + i] = t[i]
  <2>1. \A i \in 1..Len(s) : i \in 1..Len(v)
    BY <1>1, <1>3
  <2>2. \A i \in 1..Len(t) : Len(s) + i \in 1..Len(v)
    BY <1>1, <1>3
  <2> QED BY <1>1, <1>2, <2>1, <2>2
<1> QED BY <1>1, <1>2, <1>4 DEF v

\* What is left of a sequence behind its first n elements.
LEMMA Rest ==
  ASSUME NEW S, NEW s \in Seq(S), NEW n \in 0..Len(s)
  PROVE  /\ SubSeq(s, n + 1, Len(s)) \in Seq(S) /\ Len(SubSeq(s, n + 1, Len(s))) = Len(s) - n
         /\ \A i \in 1..(Len(s) - n) : SubSeq(s, n + 1, Len(s))[i] = s[n + i]
OBVIOUS

\* The same for paths.
LEMMA PathPrefixIs ==
  ASSUME NEW s \in Seq(Int), NEW t \in Seq(Int)
  PROVE  IsPrefix(s, t) <=> Len(s) <= Len(t) /\ \A i \in 1..Len(s) : s[i] = t[i]
<1>1. \A S : \A x, y \in Seq(S) : IsPrefix(x, y) <=> Len(x) <= Len(y) /\ \A i \in 1..Len(x) : x[i] = y[i]
  BY PrefixIs
<1>2. \A x, y \in Seq(Int) : IsPrefix(x, y) <=> Len(x) <= Len(y) /\ \A i \in 1..Len(x) : x[i] = y[i]
  BY ONLY <1>1, Zenon
<1> QED BY ONLY <1>2, Zenon

\* One path behind another.
LEMMA PathsJoined ==
  ASSUME NEW s \in Seq(Int), NEW t \in Seq(Int)
  PROVE  /\ s \o t \in Seq(Int) /\ Len(s \o t) = Len(s) + Len(t)
         /\ \A i \in 1..Len(s) : (s \o t)[i] = s[i]
         /\ \A i \in 1..Len(t) : (s \o t)[Len(s) + i] = t[i]
OBVIOUS

\* A sequence is one of any set that has its elements.
LEMMA Wider ==
  ASSUME NEW S, NEW T, NEW s \in Seq(S), \A i \in 1..Len(s) : s[i] \in T
  PROVE  s \in Seq(T)
OBVIOUS

\* The path of the uninterpreted option j of an element.
From(node, j) == OptionsPath(node) \o <<UninterpretedOption, j>>

\* A path in an options message that is not that of an uninterpreted option.
Clear(node, rest) ==
  /\ rest \in Seq(Range(rest))
  /\ rest = << >> \/ rest[1] # UninterpretedOption
     \/ (Len(rest) >= 2 /\ rest[2] \notin 0..(Len(node.uninterpreted) - 1))

\* What is recorded of an option that is interpreted.
RecordedAs(l, node, j, rest) ==
  /\ node \in Range(file.nodes) /\ j \in 0..(Len(node.uninterpreted) - 1)
  /\ l.from = From(node, j) /\ l.to = OptionsPath(node) \o rest /\ Clear(node, rest)
Recorded(l) == \E node, j, rest : RecordedAs(l, node, j, rest)

\* What the paths of options are.
LEMMA PathFacts ==
  ASSUME file \in Files, NEW node \in Range(file.nodes)
  PROVE  /\ OptionsPath(node) \in Seq(Int) /\ Len(OptionsPath(node)) \in Nat
         /\ Len(node.uninterpreted) \in Nat /\ OptionsTag(node.kind) \in Int
<1>1. PICK n \in DOMAIN file.nodes : node = file.nodes[n]
  BY DEF Range
<1>2. node.path \in Seq(Int)
  BY <1>1, PathsAssumption
<1>3. node.uninterpreted \in Seq(Range(node.uninterpreted))
  BY <1>1, FilesAssumption
<1>4. OptionsTag(node.kind) \in Int
  BY DEF OptionsTag
<1>5. Len(node.uninterpreted) \in Nat
  BY <1>3
<1> QED BY <1>2, <1>4, <1>5 DEF OptionsPath

\* No other path of options begins with one.
LEMMA PathsApart ==
  ASSUME file \in Files, NEW a \in Range(file.nodes), NEW b \in Range(file.nodes),
         IsPrefix(OptionsPath(a), OptionsPath(b))
  PROVE  a = b
BY PathsAssumption DEF Range

\* It is the path of the options message, and two numbers.
LEMMA FromIs ==
  ASSUME file \in Files, NEW node \in Range(file.nodes), NEW j \in Int
  PROVE  /\ From(node, j) \in Seq(Int) /\ Len(From(node, j)) = Len(OptionsPath(node)) + 2
         /\ \A i \in 1..Len(OptionsPath(node)) : From(node, j)[i] = OptionsPath(node)[i]
         /\ From(node, j)[Len(OptionsPath(node)) + 1] = UninterpretedOption
         /\ From(node, j)[Len(OptionsPath(node)) + 2] = j
<1> DEFINE own == OptionsPath(node)  two == <<UninterpretedOption, j>>
<1>1. own \in Seq(Int) /\ Len(own) \in Nat
  BY PathFacts
<1>2. two \in Seq(Int) /\ Len(two) = 2 /\ two[1] = UninterpretedOption /\ two[2] = j
  BY DEF UninterpretedOption
<1>3. From(node, j) = own \o two
  BY DEF From
<1> HIDE DEF own, two
<1>4. /\ own \o two \in Seq(Int) /\ Len(own \o two) = Len(own) + 2
      /\ \A i \in 1..Len(own) : (own \o two)[i] = own[i]
      /\ \A i \in 1..2 : (own \o two)[Len(own) + i] = two[i]
  <2>1. /\ own \o two \in Seq(Int) /\ Len(own \o two) = Len(own) + Len(two)
        /\ \A i \in 1..Len(own) : (own \o two)[i] = own[i]
        /\ \A i \in 1..Len(two) : (own \o two)[Len(own) + i] = two[i]
    BY ONLY <1>1, <1>2, PathsJoined
  <2> QED BY <1>2, <2>1
<1>5. (own \o two)[Len(own) + 1] = two[1] /\ (own \o two)[Len(own) + 2] = two[2]
  BY <1>4
<1> QED BY <1>2, <1>3, <1>4, <1>5 DEF own

\* What follows the path of an option in a location.
Behinds(p, node, j) == SubSeq(p, Len(From(node, j)) + 1, Len(p))

\* A location that has moved with an option is in none that moves later.
LEMMA StaysMoved ==
  ASSUME file \in Files, NEW a \in Range(file.nodes), NEW b \in Range(file.nodes),
         NEW j \in 0..(Len(a.uninterpreted) - 1), NEW k \in 0..(Len(b.uninterpreted) - 1),
         NEW rest, Clear(a, rest), NEW p \in Range(file.info), IsPrefix(From(a, j), p)
  PROVE  ~IsPrefix(From(b, k), (OptionsPath(a) \o rest) \o Behinds(p, a, j))
<1> DEFINE own == OptionsPath(a)  other == OptionsPath(b)  tail == Behinds(p, a, j)
           T == Int \cup Range(rest)  t == (own \o rest) \o tail
           n == Len(own)  m == Len(other)
<1>1. own \in Seq(Int) /\ n \in Nat /\ other \in Seq(Int) /\ m \in Nat /\ p \in Seq(Int)
      /\ j \in Int /\ k \in Int
  <2>1. p \in Seq(Int)
    BY PathsAssumption DEF Range
  <2>2. Len(a.uninterpreted) \in Nat /\ Len(b.uninterpreted) \in Nat
    BY PathFacts
  <2> QED BY <2>1, <2>2, PathFacts
<1>2. /\ From(a, j) \in Seq(Int) /\ Len(From(a, j)) = n + 2
      /\ \A i \in 1..n : From(a, j)[i] = own[i]
      /\ From(a, j)[n + 1] = UninterpretedOption /\ From(a, j)[n + 2] = j
  BY <1>1, FromIs
<1>3. /\ From(b, k) \in Seq(Int) /\ Len(From(b, k)) = m + 2
      /\ \A i \in 1..m : From(b, k)[i] = other[i]
      /\ From(b, k)[m + 1] = UninterpretedOption /\ From(b, k)[m + 2] = k
  BY <1>1, FromIs
<1>4. /\ Len(p) \in Nat /\ n + 2 <= Len(p) /\ \A i \in 1..n : p[i] = own[i]
      /\ p[n + 1] = UninterpretedOption
  <2> DEFINE from == From(a, j)
  <2>1. IsPrefix(from, p) /\ from \in Seq(Int) /\ Len(from) = n + 2
    BY <1>2
  <2> HIDE DEF own, n, from
  <2>2. Len(from) <= Len(p) /\ \A i \in 1..Len(from) : from[i] = p[i]
    BY <1>1, <2>1, PathPrefixIs
  <2>3. n + 1 \in 1..(n + 2) /\ 1..n \subseteq 1..(n + 2) /\ Len(p) \in Nat
    BY <1>1
  <2>4. (\A i \in 1..n : from[i] = own[i]) /\ from[n + 1] = UninterpretedOption
    BY <1>2 DEF from
  <2> QED BY <2>1, <2>2, <2>3, <2>4
<1>5. /\ tail \in Seq(Int) /\ Len(tail) = Len(p) - (n + 2)
      /\ \A i \in 1..Len(tail) : tail[i] = p[n + 2 + i]
  <2>1. tail = SubSeq(p, n + 2 + 1, Len(p))
    BY <1>2 DEF Behinds
  <2> HIDE DEF own, n, tail
  <2>2. n + 2 \in 0..Len(p)
    BY <1>1, <1>4
  <2>3. /\ SubSeq(p, n + 2 + 1, Len(p)) \in Seq(Int) /\ Len(SubSeq(p, n + 2 + 1, Len(p))) = Len(p) - (n + 2)
        /\ \A i \in 1..(Len(p) - (n + 2)) : SubSeq(p, n + 2 + 1, Len(p))[i] = p[n + 2 + i]
    BY <1>1, <2>2, Rest
  <2> QED BY <2>1, <2>3
<1>6. rest \in Seq(Range(rest)) /\ Len(rest) \in Nat
  BY DEF Clear
<1>7. /\ t \in Seq(T) /\ Len(t) = n + Len(rest) + Len(tail)
      /\ \A i \in 1..n : t[i] = own[i]
      /\ \A i \in 1..Len(rest) : t[n + i] = rest[i]
      /\ \A i \in 1..Len(tail) : t[n + Len(rest) + i] = tail[i]
  <2>1. own \in Seq(T) /\ rest \in Seq(T) /\ tail \in Seq(T)
    <3>1. \A i \in 1..Len(rest) : rest[i] \in T
      BY <1>6
    <3>2. \A s \in Seq(Int) : \A i \in 1..Len(s) : s[i] \in T
      OBVIOUS
    <3> HIDE DEF T, own, tail
    <3>3. \A s \in Seq(Int) : s \in Seq(T)
      BY <3>2, Wider
    <3>4. rest \in Seq(T)
      BY <1>6, <3>1, Wider
    <3> QED BY <1>1, <1>5, <3>3, <3>4
  <2> HIDE DEF T, tail, own
  <2> QED BY ONLY <2>1, ThreeJoined DEF t, n
<1> SUFFICES ASSUME IsPrefix(From(b, k), t) PROVE FALSE
  OBVIOUS
<1>8. /\ m + 2 <= Len(t) /\ \A i \in 1..m : t[i] = other[i]
      /\ t[m + 1] = UninterpretedOption /\ t[m + 2] = k
  <2>1. From(b, k) \in Seq(T)
    BY <1>3
  <2> HIDE DEF t, T, m, n, own, other
  <2>2. Len(From(b, k)) <= Len(t) /\ \A i \in 1..Len(From(b, k)) : From(b, k)[i] = t[i]
    BY <1>7, <2>1, PrefixIs
  <2>3. m + 1 \in 1..(m + 2) /\ m + 2 \in 1..(m + 2) /\ 1..m \subseteq 1..(m + 2)
    BY <1>1
  <2> QED BY <1>3, <2>2, <2>3
<1> HIDE DEF t, T, tail
\* One of the two paths begins with the other, so they are one.
<1>9. a = b
  <2>1. CASE n <= m
    <3>1. \A i \in 1..n : own[i] = other[i]
      BY <1>1, <1>7, <1>8, <2>1
    <3>2. IsPrefix(own, other)
      BY <1>1, <2>1, <3>1, PathPrefixIs
    <3> QED BY <3>2, PathsApart
  <2>2. CASE m <= n
    <3>1. \A i \in 1..m : other[i] = own[i]
      BY <1>1, <1>7, <1>8, <2>2
    <3>2. IsPrefix(other, own)
      BY <1>1, <2>2, <3>1, PathPrefixIs
    <3> QED BY <3>2, PathsApart
  <2> QED BY <1>1, <2>1, <2>2
<1>10. m = n
  BY <1>9
<1> HIDE DEF own, other, n, m
<1>11. CASE rest = << >>
  <2>1. Len(rest) = 0 /\ Len(tail) >= 2 /\ Len(p) > n + 2
    BY <1>1, <1>4, <1>5, <1>7, <1>8, <1>10, <1>11
  <2>2. t[n + 1] = tail[1] /\ tail[1] = p[n + 3]
    <3>1. 1 \in 1..Len(tail) /\ Len(tail) \in Nat
      BY <1>1, <1>4, <1>5, <2>1
    <3>2. t[n + Len(rest) + 1] = tail[1] /\ tail[1] = p[n + 2 + 1]
      BY <1>5, <1>7, <3>1
    <3>3. n + Len(rest) + 1 = n + 1 /\ n + 2 + 1 = n + 3
      BY <1>1, <2>1
    <3> QED BY <3>2, <3>3
  <2>3. p[n + 3] = UninterpretedOption
    BY <1>8, <1>10, <2>2
  <2> DEFINE within == Append(own, UninterpretedOption)
  <2>4. /\ within \in Seq(Int) /\ Len(within) = n + 1
        /\ (\A i \in 1..n : within[i] = own[i]) /\ within[n + 1] = UninterpretedOption
    <3>1. UninterpretedOption \in Int
      BY DEF UninterpretedOption
    <3> QED BY <1>1, <3>1 DEF n
  <2>5. IsPrefix(within, p)
    <3> HIDE DEF within
    <3>1. \A i \in 1..Len(within) : within[i] = p[i]
      <4>1. \A i \in 1..(n + 1) : i \in 1..n \/ i = n + 1
        BY <1>1
      <4> QED BY <1>4, <2>4, <4>1
    <3>2. Len(within) <= Len(p)
      BY <1>1, <2>1, <2>4
    <3> QED BY <1>1, <2>4, <3>1, <3>2, PathPrefixIs
  <2>6. Len(p) > Len(within) + 1 /\ Len(within) + 2 = n + 3
    BY <1>1, <2>1, <2>4
  <2>7. p[Len(within) + 2] # UninterpretedOption
    <3>1. PICK x \in DOMAIN file.nodes : a = file.nodes[x]
      BY DEF Range
    <3>2. PICK i \in DOMAIN file.info : p = file.info[i]
      BY DEF Range
    <3> QED BY <2>5, <2>6, <3>1, <3>2, PathsAssumption DEF own
  <2> QED BY <2>3, <2>6, <2>7
<1>12. CASE rest # << >>
  <2>1. Len(rest) >= 1 /\ t[n + 1] = rest[1]
    <3>1. Len(rest) >= 1
      BY <1>6, <1>12
    <3>2. 1 \in 1..Len(rest)
      BY <1>6, <3>1
    <3> QED BY <1>7, <3>1, <3>2
  <2>2. rest[1] = UninterpretedOption
    BY <1>8, <1>10, <2>1
  <2>3. Len(rest) >= 2 /\ rest[2] \notin 0..(Len(a.uninterpreted) - 1)
    BY <1>12, <2>2 DEF Clear
  <2>4. t[n + 2] = rest[2]
    <3>1. 2 \in 1..Len(rest)
      BY <1>6, <2>3
    <3> QED BY <1>7, <3>1
  <2> QED BY <1>8, <1>9, <1>10, <2>3, <2>4
<1> QED BY <1>11, <1>12
-----------------------------------------------------------------------------
(* Where options are recorded to be.                                       *)

\* The list of the uninterpreted options, in the message it is a field of.
List == << << >>, UninterpretedOption>>

\* Options are set behind those that the message came with: its list of
\* uninterpreted options never gets shorter than the options of the element.
ListKept(node, message) ==
  node.uninterpreted # << >>
  /\ (\E f \in Fields : f.parent = OptionsType(node.kind) /\ f.number = UninterpretedOption)
    => /\ List \in DOMAIN message /\ message[List].value \in Seq(Range(message[List].value))
       /\ Len(message[List].value) >= Len(node.uninterpreted)

\* A field of the message that the cursor is in.
AtField(f) ==
  /\ f \in Fields /\ f.parent = cursor.type
  /\ cursor.at = << >> => cursor.type = OptionsType(Node.kind)

\* The list is in no oneof, so no rival of a field takes it away.
LEMMA ListOfGetMut ==
  ASSUME IInv, Len(options) < Len(file.nodes), ListKept(Node, slots), NEW f, AtField(f)
  PROVE  ListKept(Node, GetMut(cursor.at, f))
<1> DEFINE at == cursor.at  m == GetMut(at, f)
           kept == { s \in DOMAIN slots : \A g \in Rivals(f) : ~Within(s, at, g.number) }
<1> SUFFICES ASSUME Node.uninterpreted # << >>,
                    \E g \in Fields : g.parent = OptionsType(Node.kind) /\ g.number = UninterpretedOption
             PROVE  List \in kept
  <2>1. m = [s \in kept \cup {<<at, f.number>>} |->
               IF s \in kept THEN slots[s] ELSE [field |-> f, value |-> Default(f)]]
    BY DEF GetMut
  <2>2. List \in kept => List \in DOMAIN m /\ m[List] = slots[List]
    BY <2>1
  <2> HIDE DEF m, kept
  <2> QED BY <2>2 DEF ListKept, m
<1>1. List \in DOMAIN slots
  BY DEF ListKept
<1>2. PICK n \in DOMAIN file.nodes : Node = file.nodes[n] /\ file \in Files
  <2>1. file \in Files /\ file.nodes \in Seq(Range(file.nodes)) /\ Len(options) \in Nat
    BY FilesAssumption DEF IInv
  <2>2. Len(options) + 1 \in DOMAIN file.nodes
    BY <2>1
  <2> QED BY <2>1, <2>2 DEF Node
<1>3. ASSUME NEW g \in Rivals(f), Within(List, at, g.number)
      PROVE  FALSE
  <2>1. g \in Fields /\ g.oneof = f.oneof /\ f.oneof # None /\ g.number \in Int /\ at \in Seq(Int)
    BY <1>3, FilesAssumption DEF Rivals, IInv
  <2>2. g.parent = f.parent
    BY <2>1, PathsAssumption DEF AtField
  <2>3. ~IsPrefix(Append(at, g.number), << >>)
    <3>1. Len(Append(at, g.number)) = Len(at) + 1 /\ Len(at) \in Nat
      BY <2>1
    <3> QED BY <3>1 DEF IsPrefix
  <2>4. at = << >> /\ g.number = UninterpretedOption
    BY <1>3, <2>3 DEF Within, List
  <2>5. g.parent = OptionsType(Node.kind)
    BY <2>2, <2>4 DEF AtField
  <2>6. g.oneof = None
    BY <1>2, <2>1, <2>4, <2>5, PathsAssumption
  <2> QED BY <2>1, <2>6
<1> QED BY <1>1, <1>3

\* A value put elsewhere leaves the list, one put there is behind it.
LEMMA ListOfWithValue ==
  ASSUME IInv, Len(options) < Len(file.nodes), ListKept(Node, slots), NEW f, AtField(f), NEW x
  PROVE  ListKept(Node, WithValue(cursor.at, f, x))
<1> DEFINE at == cursor.at  m == GetMut(at, f)  own == <<at, f.number>>
           put(y) == [m EXCEPT ![own].value = y]
<1>1. ListKept(Node, m)
  BY ListOfGetMut
<1>2. Message(m) /\ own \in DOMAIN m /\ at \in Seq(Int) /\ f.number \in Int
  BY GetMutFacts, FilesAssumption DEF IInv, AtField
<1> SUFFICES ASSUME Node.uninterpreted # << >>,
                    \E g \in Fields : g.parent = OptionsType(Node.kind) /\ g.number = UninterpretedOption
             PROVE  ListKept(Node, WithValue(at, f, x))
  BY DEF ListKept
<1>3. /\ List \in DOMAIN m /\ m[List].value \in Seq(Range(m[List].value))
      /\ Len(m[List].value) >= Len(Node.uninterpreted)
  BY <1>1 DEF ListKept
<1>4. PICK n \in DOMAIN file.nodes : Node = file.nodes[n] /\ file \in Files
  <2>1. file \in Files /\ file.nodes \in Seq(Range(file.nodes)) /\ Len(options) \in Nat
    BY FilesAssumption DEF IInv
  <2>2. Len(options) + 1 \in DOMAIN file.nodes
    BY <2>1
  <2> QED BY <2>1, <2>2 DEF Node
<1> HIDE DEF m
<1>5. CASE own = List
  <2>1. at = << >> /\ f.number = UninterpretedOption
    BY <1>5 DEF List
  <2>2. f.card = "repeated"
    BY <1>4, <2>1, PathsAssumption DEF AtField
  <2> DEFINE old == m[List].value  n2 == put(Append(old, x))
  <2>3. WithValue(at, f, x) = n2
    BY <1>5, <2>2 DEF WithValue, m
  <2>4. m[List] = [field |-> m[List].field, value |-> m[List].value]
    BY <1>2, <1>3 DEF Message
  <2>5. List \in DOMAIN n2 /\ n2[List].value = Append(old, x)
    BY <1>3, <1>5, <2>4
  <2> HIDE DEF n2, old
  <2>6. Len(old) \in Nat /\ Append(old, x) \in Seq(Range(Append(old, x))) /\ Len(Append(old, x)) = Len(old) + 1
    BY <1>3, Counted DEF old
  <2>7. Len(Node.uninterpreted) \in Nat
    BY <1>4, FilesAssumption
  <2>8. Len(Append(old, x)) >= Len(Node.uninterpreted)
    BY <1>3, <2>6, <2>7 DEF old
  <2> QED BY <2>3, <2>5, <2>6, <2>8 DEF ListKept
<1>6. CASE own # List
  <2>1. \A y : List \in DOMAIN put(y) /\ put(y)[List] = m[List]
    BY <1>3, <1>6
  <2>2. \A y : ListKept(Node, put(y))
    BY <1>3, <2>1 DEF ListKept
  <2>3. ListKept(Node, Grafted(at, f, x))
    <3> DEFINE base == Append(at, f.number)  g == Grafted(at, f, x)
               kept == { s \in DOMAIN m : ~IsPrefix(base, s[1]) }
               new == { <<base \o s[1], s[2]>> : s \in DOMAIN x }
    <3>1. g = [s \in kept \cup new |-> IF s \in kept THEN m[s]
                 ELSE x[<<SubSeq(s[1], Len(base) + 1, Len(s[1])), s[2]>>]]
      BY DEF Grafted, m
    <3>2. ~IsPrefix(base, << >>)
      <4>1. Len(base) = Len(at) + 1 /\ Len(at) \in Nat
        BY <1>2
      <4> QED BY <4>1 DEF IsPrefix
    <3>3. List \in kept
      BY <1>3, <3>2 DEF List
    <3>4. List \in DOMAIN g /\ g[List] = m[List]
      BY <3>1, <3>3
    <3> HIDE DEF g
    <3>5. ListKept(Node, g)
      BY <1>3, <3>4 DEF ListKept
    <3> QED BY <3>5 DEF g
  <2> QED BY <2>2, <2>3 DEF WithValue, m
<1> QED BY <1>5, <1>6
-----------------------------------------------------------------------------
(* The invariant.                                                          *)

\* How many locations are applied.
Done == IF applied > Len(options) THEN applied - Len(options) ELSE 0

\* Location i of the file is where it was and in none of the first k options that
\* were recorded, or it has moved once, with the one of them it is in.
Stays(i, k) ==
  info[i] = file.info[i] /\ \A a \in 1..k : ~IsPrefix(locations[a].from, file.info[i])
MovedWith(i, a) ==
  /\ IsPrefix(locations[a].from, file.info[i])
  /\ info[i] = locations[a].to \o SubSeq(file.info[i], Len(locations[a].from) + 1, Len(file.info[i]))
FollowsUpTo(i, k) == Stays(i, k) \/ \E a \in 1..k : MovedWith(i, a)

\* What is recorded is of an option of the file.
Records ==
  /\ locations \in Seq(Range(locations))
  /\ \A a \in DOMAIN locations : Recorded(locations[a])

\* Where the cursor is in the options message, and that the list is there.
Cursors ==
  phase = "option" =>
    /\ cursor.at = << >> => cursor.type = OptionsType(Node.kind)
    /\ cursor.at # << >> => cursor.at[1] # UninterpretedOption
    /\ ListKept(Node, slots)

\* Nothing is applied before the visit ends, and all is once it is accepted.
Counts ==
  /\ applied \in Nat
  /\ phase \in {"visit", "option"} => applied = 0
  /\ phase = "accepted" => applied = Len(options) + Len(locations)

Follows == DOMAIN info = DOMAIN file.info /\ \A i \in DOMAIN info : FollowsUpTo(i, Done)

LInv == IInv /\ Records /\ Cursors /\ Counts /\ Follows

\* The path of a value is that of no uninterpreted option: it is in another
\* field, or it is put behind them all.
LEMMA ValuePathClear ==
  ASSUME LInv, AtPart, NEW f \in Named
  PROVE  Clear(Node, ValuePath(cursor.at, f))
<1> DEFINE at == cursor.at  base == Append(at, f.number)  old == GetMut(at, f)[<<at, f.number>>].value
           tail == IF f.card = "repeated" THEN <<Len(old)>> ELSE << >>
           T == Int \cup {Len(old)}
<1>1. /\ at \in Seq(Int) /\ f \in Fields /\ f.number \in Int /\ AtField(f) /\ phase = "option"
      /\ Len(options) < Len(file.nodes)
      /\ at # << >> => at[1] # UninterpretedOption
  BY FilesAssumption DEF LInv, IInv, Named, Candidates, AtField, AtPart, Cursors
<1>2. PICK n \in DOMAIN file.nodes : Node = file.nodes[n] /\ file \in Files
  <2>1. file \in Files /\ file.nodes \in Seq(Range(file.nodes)) /\ Len(options) \in Nat
    BY FilesAssumption DEF LInv, IInv
  <2>2. Len(options) + 1 \in DOMAIN file.nodes
    BY <1>1, <2>1
  <2> QED BY <2>1, <2>2 DEF Node
<1>3. Len(Node.uninterpreted) \in Nat /\ Node.uninterpreted # << >>
  <2>1. Node.uninterpreted \in Seq(Range(Node.uninterpreted))
    BY <1>2, FilesAssumption
  <2>2. cursor.option \in Nat \ {0} /\ cursor.option <= Len(Node.uninterpreted)
    BY DEF AtPart, LInv, IInv
  <2> QED BY <2>1, <2>2
<1>4. base \in Seq(T) /\ tail \in Seq(T) /\ Len(base) = Len(at) + 1 /\ Len(at) \in Nat
      /\ (\A i \in 1..Len(at) : base[i] = at[i]) /\ base[Len(at) + 1] = f.number
  <2>1. base \in Seq(Int) /\ Len(base) = Len(at) + 1 /\ Len(at) \in Nat
        /\ (\A i \in 1..Len(at) : base[i] = at[i]) /\ base[Len(at) + 1] = f.number
    BY <1>1
  <2> DEFINE z == Len(old)  U == Int \cup {z}
  <2> HIDE DEF z
  <2>2. <<z>> \in Seq(U) /\ << >> \in Seq(U)
    OBVIOUS
  <2>3. tail \in Seq(T)
    BY <2>2 DEF z
  <2>4. \A i \in 1..Len(base) : base[i] \in T
    BY <2>1
  <2> HIDE DEF T, tail, base
  <2>5. base \in Seq(T)
    BY <2>1, <2>4, Wider
  <2> QED BY <2>1, <2>3, <2>5
<1> DEFINE rest == base \o tail
<1>5. ValuePath(at, f) = rest
  BY DEF ValuePath
<1>6. rest \in Seq(T) /\ Len(rest) = Len(base) + Len(tail)
      /\ (\A i \in 1..Len(base) : rest[i] = base[i])
      /\ \A i \in 1..Len(tail) : rest[Len(base) + i] = tail[i]
  <2>1. base \in Seq(T)
    BY <1>4
  <2>2. tail \in Seq(T)
    BY <1>4
  <2> HIDE DEF base, tail, T
  <2> QED BY ONLY <2>1, <2>2, Joined
<1>7. rest \in Seq(Range(rest))
  <2> HIDE DEF rest, T, base, tail
  <2>1. \A i \in 1..Len(rest) : rest[i] \in Range(rest)
    <3>1. DOMAIN rest = 1..Len(rest)
      BY <1>6
    <3> QED BY <3>1 DEF Range
  <2> QED BY <1>6, <2>1, Wider
<1>8. rest[1] = base[1]
  <2> HIDE DEF rest, base, tail
  <2> QED BY <1>4, <1>6
<1>9. CASE at # << >>
  <2>1. base[1] = at[1]
    <3>1. 1 \in 1..Len(at)
      BY <1>1, <1>9
    <3> HIDE DEF base
    <3> QED BY <1>4, <3>1
  <2>2. rest[1] # UninterpretedOption
    BY <1>1, <1>8, <1>9, <2>1
  <2> QED BY <1>5, <1>7, <2>2 DEF Clear
<1>10. CASE at = << >> /\ f.number # UninterpretedOption
  <2>1. base[1] = f.number
    BY <1>10
  <2>2. rest[1] # UninterpretedOption
    BY <1>8, <1>10, <2>1
  <2> QED BY <1>5, <1>7, <2>2 DEF Clear
<1>11. CASE at = << >> /\ f.number = UninterpretedOption
  <2>1. f.parent = OptionsType(Node.kind)
    BY <1>1, <1>11 DEF AtField
  <2>2. f.card = "repeated"
    BY <1>1, <1>2, <1>11, <2>1, PathsAssumption
  <2>3. ListKept(Node, GetMut(at, f))
    BY <1>1, ListOfGetMut DEF LInv, Cursors
  <2>4. old = GetMut(at, f)[List].value
    BY <1>11 DEF List
  <2>5. Len(old) >= Len(Node.uninterpreted) /\ Len(old) \in Nat
    BY <1>1, <1>3, <1>11, <2>1, <2>3, <2>4 DEF ListKept
  <2>6. Len(base) = 1 /\ Len(tail) = 1 /\ tail[1] = Len(old)
    <3> DEFINE z == Len(old)
    <3> HIDE DEF z
    <3>1. tail = <<z>>
      BY <2>2 DEF z
    <3>2. Len(<<z>>) = 1 /\ <<z>>[1] = z
      OBVIOUS
    <3> QED BY <1>4, <1>11, <3>1, <3>2 DEF z
  <2> HIDE DEF rest, base, tail, old
  <2>7. Len(rest) = 2 /\ rest[2] = Len(old)
    BY <1>6, <2>6
  <2>8. Len(rest) >= 2 /\ rest[2] \notin 0..(Len(Node.uninterpreted) - 1)
    BY <1>3, <2>5, <2>7
  <2> QED BY <1>5, <1>7, <2>8 DEF Clear
<1> QED BY <1>9, <1>10, <1>11
\* Nothing is recorded at first.
LEMMA InitLocations == Init => LInv
<1> SUFFICES ASSUME Init PROVE LInv
  OBVIOUS
<1>1. IInv
  BY InitInv
<1>2. Records
  <2>1. locations = << >>
    BY DEF Init
  <2> QED BY <2>1 DEF Records, Range
<1>3. Cursors /\ Counts
  BY DEF Init, Cursors, Counts
<1>4. Follows
  <2>1. Done = 0
    BY DEF Init, Done
  <2>2. info = file.info
    BY DEF Init
  <2>3. \A i \in DOMAIN info : Stays(i, 0)
    BY <2>2 DEF Stays
  <2> QED BY <2>1, <2>2, <2>3 DEF Follows, FollowsUpTo
<1> QED BY <1>1, <1>2, <1>3, <1>4 DEF LInv

\* Before any location is applied they are all where they were.
LEMMA Unmoved ==
  ASSUME LInv, applied = 0, info' = info, file' = file, applied' = 0, options' \in Seq(Range(options'))
  PROVE  Follows'
<1>1. Done = 0 /\ Done' = 0
  <2>1. Len(options) \in Nat /\ Len(options') \in Nat
    BY DEF LInv, IInv
  <2> QED BY <2>1 DEF Done
<1>2. \A i \in DOMAIN info : Stays(i, 0)
  BY <1>1 DEF LInv, Follows, FollowsUpTo
<1>3. \A i \in DOMAIN info : Stays(i, 0)'
  BY <1>2 DEF Stays
<1> QED BY <1>1, <1>3 DEF LInv, Follows, FollowsUpTo

\* An option that fails leaves what is recorded, and the cursor begins the next.
LEMMA FailsLocations ==
  ASSUME LInv, phase = "option", NEW kind, NEW message, Fails(kind, message), IInv', ListKept(Node, message)
  PROVE  LInv'
<1>1. UNCHANGED <<file, info, stored, applied, phase, options, locations>> /\ slots' = message
      /\ cursor' = AtRoot(cursor.option + 1)
  BY DEF Fails, visited
<1>2. Node' = Node
  BY <1>1 DEF Node
<1>3. Records' /\ Counts'
  BY <1>1 DEF LInv, Records, Counts, Recorded, RecordedAs
<1>4. Cursors'
  BY <1>1, <1>2 DEF Cursors, AtRoot, ListKept
<1>5. Follows'
  BY <1>1, Unmoved DEF LInv, IInv, Counts
<1> QED BY <1>3, <1>4, <1>5 DEF LInv

\* An option that is interpreted adds its location.
LEMMA InterpretedLocations ==
  ASSUME LInv, phase = "option", cursor.option <= Len(Node.uninterpreted), NEW rest, Interpreted(rest), IInv',
         Clear(Node, rest), ListKept(Node, slots')
  PROVE  LInv'
<1> DEFINE l == [from |-> OptionsPath(Node) \o <<UninterpretedOption, cursor.option - 1>>,
                 to |-> OptionsPath(Node) \o rest]
<1>1. UNCHANGED <<file, info, stored, applied, phase, options>>
      /\ locations' = Append(locations, l) /\ cursor' = AtRoot(cursor.option + 1)
  BY DEF Interpreted, visited
<1>2. Node' = Node
  BY <1>1 DEF Node
<1>3. Node \in Range(file.nodes) /\ Len(Node.uninterpreted) \in Nat
  <2>1. file \in Files /\ file.nodes \in Seq(Range(file.nodes)) /\ Len(options) \in Nat /\ Len(options) < Len(file.nodes)
    BY FilesAssumption DEF LInv, IInv
  <2>2. Len(options) + 1 \in DOMAIN file.nodes
    BY <2>1
  <2>3. Node.uninterpreted \in Seq(Range(Node.uninterpreted))
    BY <2>1, <2>2, FilesAssumption DEF Node
  <2> QED BY <2>2, <2>3 DEF Node, Range
<1>4. Recorded(l)
  <2> DEFINE j == cursor.option - 1
  <2>1. j \in 0..(Len(Node.uninterpreted) - 1)
    BY SMTT(60), <1>3 DEF LInv, IInv
  <2>2. l.from = From(Node, j) /\ l.to = OptionsPath(Node) \o rest
    BY DEF From
  <2> HIDE DEF j, l
  <2>3. RecordedAs(l, Node, j, rest)
    BY <1>3, <2>1, <2>2 DEF RecordedAs
  <2> QED BY <2>3 DEF Recorded
<1> HIDE DEF l
<1>5. Records'
  <2>1. locations \in Seq(Range(locations)) /\ \A a \in DOMAIN locations : Recorded(locations[a])
    BY DEF LInv, Records
  <2> DEFINE T == Range(locations) \cup {l}
  <2>2. locations' \in Seq(Range(locations'))
    BY <1>1, <2>1, Counted
  <2>3. locations \in Seq(T)
    <3>1. \A i \in 1..Len(locations) : locations[i] \in T
      BY <2>1 DEF Range
    <3> HIDE DEF T
    <3> QED BY <2>1, <3>1, Wider
  <2>4. \A a \in DOMAIN locations' : Recorded(locations'[a])
    <3> HIDE DEF T
    <3>1. l \in T
      BY DEF T
    <3>2. DOMAIN Append(locations, l) = 1..(Len(locations) + 1) /\ Len(locations) \in Nat
          /\ Append(locations, l)[Len(locations) + 1] = l
          /\ \A a \in 1..Len(locations) : Append(locations, l)[a] = locations[a]
      BY <2>3, <3>1
    <3>3. \A a \in 1..(Len(locations) + 1) : a \in 1..Len(locations) \/ a = Len(locations) + 1
      BY <3>2
    <3>4. DOMAIN locations = 1..Len(locations)
      BY <2>1
    <3> QED BY <1>1, <1>4, <2>1, <3>2, <3>3, <3>4
  <2> HIDE DEF T
  <2> QED BY <1>1, <2>2, <2>4 DEF Records, Recorded, RecordedAs
<1>6. Cursors'
  BY <1>1, <1>2 DEF Cursors, AtRoot, ListKept
<1>7. Counts'
  BY <1>1 DEF LInv, Counts
<1>8. Follows'
  BY <1>1, Unmoved DEF LInv, IInv, Counts
<1> QED BY <1>5, <1>6, <1>7, <1>8 DEF LInv

\* The cursor leaves the list behind: it is repeated, so no part of a name leads in.
LEMMA DescendLocations == LInv /\ Descend => LInv'
<1> SUFFICES ASSUME LInv, Descend PROVE LInv'
  OBVIOUS
<1>1. PICK f \in Named :
       \/ /\ f.kind = "message" /\ f.card = "singular"
          /\ slots' = GetMut(cursor.at, f)
          /\ cursor' = [cursor EXCEPT !.part = @ + 1, !.at = Append(@, f.number), !.type = f.type]
          /\ UNCHANGED <<visited, phase, errors, options, locations>>
       \/ /\ f.kind # "message" \/ f.card # "singular"
          /\ Fails("InvalidOptionType", GetMut(cursor.at, f))
  BY DEF Descend
<1>2. IInv' /\ phase = "option" /\ Len(options) < Len(file.nodes)
  BY DescendStep DEF LInv, Descend, AtPart, IInv
<1>3. AtField(f) /\ f.number \in Int /\ cursor.at \in Seq(Int)
  BY <1>2, FilesAssumption DEF Named, Candidates, LInv, IInv, AtField, Cursors
<1>4. ListKept(Node, GetMut(cursor.at, f))
  BY <1>2, <1>3, ListOfGetMut DEF LInv, Cursors
<1>5. CASE Fails("InvalidOptionType", GetMut(cursor.at, f))
  BY <1>2, <1>4, <1>5, FailsLocations
<1>6. CASE ~Fails("InvalidOptionType", GetMut(cursor.at, f))
  <2>1. UNCHANGED <<file, info, stored, applied, phase, options, locations>>
        /\ slots' = GetMut(cursor.at, f) /\ f.card = "singular"
        /\ cursor' = [cursor EXCEPT !.part = @ + 1, !.at = Append(@, f.number), !.type = f.type]
    BY <1>1, <1>6 DEF visited
  <2>2. Node' = Node
    BY <2>1 DEF Node
  <2>3. cursor'.at = Append(cursor.at, f.number)
    BY <2>1 DEF LInv, IInv
  <2>4. cursor'.at # << >> /\ cursor'.at[1] # UninterpretedOption
    <3>1. CASE cursor.at = << >>
      <4>1. f.parent = OptionsType(Node.kind)
        BY <1>3, <3>1 DEF AtField
      <4>2. PICK n \in DOMAIN file.nodes : Node = file.nodes[n] /\ file \in Files
        <5>1. file \in Files /\ file.nodes \in Seq(Range(file.nodes)) /\ Len(options) \in Nat
          BY FilesAssumption DEF LInv, IInv
        <5>2. Len(options) + 1 \in DOMAIN file.nodes
          BY <1>2, <5>1
        <5> QED BY <5>1, <5>2 DEF Node
      <4>3. f.number # UninterpretedOption
        BY <1>3, <2>1, <4>1, <4>2, PathsAssumption DEF AtField
      <4> QED BY <1>3, <2>3, <3>1, <4>3
    <3>2. CASE cursor.at # << >>
      <4>1. cursor.at[1] # UninterpretedOption
        BY <1>2, <3>2 DEF LInv, Cursors
      <4>2. Append(cursor.at, f.number)[1] = cursor.at[1] /\ Append(cursor.at, f.number) # << >>
        BY <1>3, <3>2
      <4> QED BY <2>3, <4>1, <4>2
    <3> QED BY <3>1, <3>2
  <2>5. Cursors'
    BY <1>4, <2>1, <2>2, <2>4 DEF Cursors, ListKept
  <2>6. Records' /\ Counts'
    BY <2>1 DEF LInv, Records, Counts, Recorded, RecordedAs
  <2>7. Follows'
    BY <1>2, <2>1, Unmoved DEF LInv, IInv, Counts
  <2> QED BY <1>2, <2>5, <2>6, <2>7 DEF LInv
<1> QED BY <1>5, <1>6

\* A value is put in its field, and recorded there.
LEMMA SetValueLocations == LInv /\ SetValue => LInv'
<1> SUFFICES ASSUME LInv, SetValue PROVE LInv'
  OBVIOUS
<1> DEFINE at == cursor.at
<1>1. PICK f \in Named :
       \/ Fails("DuplicateOption", slots)
       \/ Fails("InvalidOptionType", GetMut(at, f))
       \/ /\ \E x \in Converted(f, Option.value) : slots' = WithValue(at, f, x)
          /\ Interpreted(ValuePath(at, f))
  BY DEF SetValue
<1>2. IInv' /\ phase = "option" /\ AtPart /\ cursor.option <= Len(Node.uninterpreted) /\ Len(options) < Len(file.nodes)
  BY SetValueStep DEF LInv, SetValue, AtPart, IInv
<1>3. AtField(f) /\ ListKept(Node, slots)
  BY <1>2 DEF Named, Candidates, LInv, AtField, Cursors
<1>4. CASE Fails("DuplicateOption", slots)
  BY <1>2, <1>3, <1>4, FailsLocations
<1>5. CASE Fails("InvalidOptionType", GetMut(at, f))
  <2>1. ListKept(Node, GetMut(at, f))
    BY <1>2, <1>3, ListOfGetMut DEF LInv
  <2> QED BY <1>2, <1>5, <2>1, FailsLocations
<1>6. ASSUME NEW x, slots' = WithValue(at, f, x), Interpreted(ValuePath(at, f))
      PROVE  LInv'
  <2>1. ListKept(Node, WithValue(at, f, x))
    BY <1>2, <1>3, ListOfWithValue DEF LInv
  <2>2. Clear(Node, ValuePath(at, f))
    BY <1>2, ValuePathClear
  <2>3. ListKept(Node, slots')
    BY <1>6, <2>1
  <2> QED BY <1>2, <1>6, <2>2, <2>3, InterpretedLocations
<1> QED BY <1>1, <1>4, <1>5, <1>6
\* A location that is applied moves those that are in its option, which no
\* other has moved; those that have moved are in it no more.
LEMMA ApplyLocationsStep == LInv /\ ApplyLocations => LInv'
<1> SUFFICES ASSUME LInv, ApplyLocations PROVE LInv'
  OBVIOUS
<1> DEFINE next == locations[applied - Len(options) + 1]
<1>1. /\ info' = [i \in DOMAIN info |-> Moved(info[i], next.from, next.to)] /\ applied' = applied + 1
      /\ phase = "apply" /\ Len(options) <= applied /\ applied < Len(options) + Len(locations)
      /\ UNCHANGED <<file, phase, cursor, slots, errors, options, locations, stored>>
  BY DEF ApplyLocations
<1>2. IInv'
  BY <1>1 DEF LInv, IInv
<1>3. Records' /\ Cursors'
  BY <1>1 DEF LInv, Records, Cursors, Recorded, RecordedAs
<1>4. applied \in Nat /\ Len(options) \in Nat /\ Len(locations) \in Nat /\ DOMAIN locations = 1..Len(locations)
  <2>1. locations \in Seq(Range(locations)) /\ options \in Seq(Range(options)) /\ applied \in Nat
    BY DEF LInv, IInv, Records, Counts
  <2> QED BY <2>1
<1>5. Counts'
  BY <1>1, <1>4 DEF Counts
<1>6. PICK k \in Nat : /\ k = applied - Len(options) /\ Done = k /\ Done' = k + 1
                       /\ k + 1 \in DOMAIN locations /\ 1..(k + 1) \subseteq DOMAIN locations
  <2> DEFINE k == applied - Len(options)
  <2>1. /\ k \in Nat /\ Done = k /\ Done' = k + 1
        /\ k + 1 \in DOMAIN locations /\ 1..(k + 1) \subseteq DOMAIN locations
    BY <1>1, <1>4 DEF Done
  <2> QED BY <2>1
<1>7. DOMAIN info' = DOMAIN info /\ DOMAIN info = DOMAIN file.info
  BY <1>1 DEF LInv, Follows
<1> DEFINE l == locations[k + 1]
<1>8. ASSUME NEW i \in DOMAIN info
      PROVE  FollowsUpTo(i, k + 1)'
  <2>1. info'[i] = Moved(info[i], l.from, l.to)
    BY <1>1, <1>6, <1>8
  <2>2. FollowsUpTo(i, k)
    BY <1>6, <1>8 DEF LInv, Follows
  <2>3. CASE Stays(i, k)
    <3>1. CASE IsPrefix(l.from, info[i])
      <4>1. MovedWith(i, k + 1)'
        BY <1>1, <2>1, <2>3, <3>1 DEF Moved, MovedWith, Stays
      <4>2. k + 1 \in 1..(k + 1)
        BY <1>6
      <4> QED BY SMTT(60), <4>1, <4>2 DEF FollowsUpTo
    <3>2. CASE ~IsPrefix(l.from, info[i])
      <4>1. \A a \in 1..(k + 1) : a \in 1..k \/ a = k + 1
        BY <1>6
      <4>2. Stays(i, k + 1)'
        BY <1>1, <2>1, <2>3, <3>2, <4>1 DEF Moved, Stays
      <4> QED BY <4>2 DEF FollowsUpTo
    <3> QED BY <3>1, <3>2
  <2>4. ASSUME NEW a \in 1..k, MovedWith(i, a)
        PROVE  FollowsUpTo(i, k + 1)'
    <3> DEFINE p == file.info[i]
    <3>1. a \in DOMAIN locations /\ a \in 1..(k + 1)
      BY <1>6, <2>4
    <3>2. PICK node, j, rest : RecordedAs(locations[a], node, j, rest)
      BY <3>1 DEF LInv, Records, Recorded
    <3>3. Recorded(l)
      BY <1>6 DEF LInv, Records
    <3>4. PICK other, m, away : RecordedAs(l, other, m, away)
      BY <3>3 DEF Recorded
    <3>5. p \in Range(file.info)
      BY <1>7, <1>8 DEF Range
    <3>6. /\ file \in Files /\ node \in Range(file.nodes) /\ other \in Range(file.nodes)
          /\ j \in 0..(Len(node.uninterpreted) - 1) /\ m \in 0..(Len(other.uninterpreted) - 1)
          /\ Clear(node, rest) /\ IsPrefix(From(node, j), p)
          /\ l.from = From(other, m)
          /\ info[i] = (OptionsPath(node) \o rest) \o Behinds(p, node, j)
      BY <2>4, <3>2, <3>4 DEF RecordedAs, MovedWith, Behinds, LInv, IInv
    <3> HIDE DEF l, p
    <3>7. ~IsPrefix(From(other, m), (OptionsPath(node) \o rest) \o Behinds(p, node, j))
      BY <3>5, <3>6, StaysMoved
    <3>8. info'[i] = info[i]
      BY SMTT(60), <2>1, <3>6, <3>7 DEF Moved
    <3>9. MovedWith(i, a)'
      BY <1>1, <2>4, <3>8 DEF MovedWith
    <3> QED BY <3>1, <3>9 DEF FollowsUpTo
  <2> QED BY <2>2, <2>3, <2>4 DEF FollowsUpTo
<1>9. Follows'
  <2>1. \A i \in DOMAIN info' : FollowsUpTo(i, k + 1)'
    BY <1>7, <1>8
  <2>2. DOMAIN file'.info = DOMAIN info'
    BY <1>1, <1>7
  <2> QED BY <1>6, <2>1, <2>2 DEF Follows
<1> QED BY <1>2, <1>3, <1>5, <1>9 DEF LInv

\* Every step keeps the invariant.
LEMMA NextLocations == LInv /\ [Next]_vars => LInv'
<1> SUFFICES ASSUME LInv, [Next]_vars PROVE LInv'
  OBVIOUS
<1>0. IInv' /\ Len(options) \in Nat /\ Len(locations) \in Nat /\ file.nodes \in Seq(Range(file.nodes))
  BY NextInv, FilesAssumption DEF LInv, IInv, Records
<1>1. CASE StartNode
  <2>1. /\ UNCHANGED <<file, info, stored, applied, locations>> /\ phase = "visit" /\ phase' \in {"visit", "option"}
        /\ applied = 0
    BY <1>1 DEF StartNode, visited, LInv, Counts
  <2>2. Records' /\ Counts'
    BY <2>1 DEF LInv, Records, Counts, Recorded, RecordedAs
  <2>3. Follows'
    BY <1>0, <2>1, Unmoved DEF IInv
  <2>4. CASE Node.decodes
    <3>1. phase' = "option" /\ cursor' = AtRoot(1) /\ slots' = Node.encoded /\ options' = options
      BY <1>1, <2>4 DEF StartNode
    <3>2. Node' = Node
      BY <2>1, <3>1 DEF Node
    <3>3. ListKept(Node, Node.encoded)
      <4>1. PICK n \in DOMAIN file.nodes : Node = file.nodes[n] /\ file \in Files
        <5>1. Len(options) + 1 \in DOMAIN file.nodes
          BY <1>0, <1>1 DEF StartNode
        <5> QED BY <5>1 DEF Node, LInv, IInv
      <4>2. Node.uninterpreted \in Seq(Range(Node.uninterpreted))
        BY <4>1, FilesAssumption
      <4>3. Len(Node.uninterpreted) \in Nat
        BY <4>2
      <4> QED BY <4>1, <4>3, PathsAssumption DEF ListKept, List
    <3>4. Cursors'
      BY <3>1, <3>2, <3>3 DEF Cursors, AtRoot, ListKept
    <3> QED BY <1>0, <2>2, <2>3, <3>4 DEF LInv
  <2>5. CASE ~Node.decodes
    <3>1. phase' = "visit"
      BY <1>1, <2>5 DEF StartNode
    <3> QED BY <1>0, <2>2, <2>3, <3>1 DEF LInv, Cursors
  <2> QED BY <2>4, <2>5
<1>2. CASE NotFound
  <2>1. phase = "option" /\ ListKept(Node, slots)
    BY <1>2 DEF NotFound, AtPart, LInv, Cursors
  <2>2. \E kind : Fails(kind, slots)
    BY <1>2 DEF NotFound
  <2> QED BY <1>0, <2>1, <2>2, FailsLocations
<1>3. CASE NoName
  <2>1. /\ phase = "option" /\ cursor.option <= Len(Node.uninterpreted)
        /\ Interpreted(<< >>) /\ slots' = slots /\ ListKept(Node, slots)
    BY <1>3 DEF NoName, LInv, Cursors
  <2>2. Clear(Node, << >>)
    BY DEF Clear, Range
  <2> QED BY <1>0, <2>1, <2>2, InterpretedLocations
<1>4. CASE EndNode
  <2>1. UNCHANGED <<file, info, stored, applied, locations>> /\ phase = "option" /\ phase' = "visit" /\ applied = 0
    BY <1>4 DEF EndNode, visited, LInv, Counts
  <2>2. Records' /\ Counts' /\ Cursors'
    BY <2>1 DEF LInv, Records, Counts, Cursors, Recorded, RecordedAs
  <2>3. Follows'
    BY <1>0, <2>1, Unmoved DEF IInv
  <2> QED BY <1>0, <2>2, <2>3 DEF LInv
<1>5. CASE EndVisit
  <2>1. UNCHANGED <<file, info, stored, applied, locations, options>> /\ phase = "visit"
        /\ phase' \in {"apply", "refused"} /\ applied = 0
    BY <1>5 DEF EndVisit, visited, LInv, Counts
  <2>2. Records' /\ Counts' /\ Cursors'
    BY <2>1 DEF LInv, Records, Counts, Cursors, Recorded, RecordedAs
  <2>3. Follows'
    BY <1>0, <2>1, Unmoved DEF IInv
  <2> QED BY <1>0, <2>2, <2>3 DEF LInv
<1>6. CASE StoreOptions \/ StoreFails
  <2>1. UNCHANGED <<file, info, cursor, slots, options, locations>> /\ phase = "apply"
        /\ phase' \in {"apply", "panicked"} /\ applied' \in {applied, applied + 1} /\ applied < Len(options)
    BY <1>6 DEF StoreOptions, StoreFails, visited
  <2>2. Records' /\ Counts' /\ Cursors'
    <3>1. Records' /\ Cursors'
      BY <2>1 DEF LInv, Records, Cursors, Recorded, RecordedAs
    <3>2. Counts'
      BY <2>1 DEF LInv, Counts
    <3> QED BY <3>1, <3>2
  <2>3. Done = 0 /\ Done' = 0
    BY <1>0, <2>1 DEF Done, LInv, Counts
  <2>4. Follows'
    BY <2>1, <2>3 DEF LInv, Follows, FollowsUpTo, Stays, MovedWith
  <2> QED BY <1>0, <2>2, <2>4 DEF LInv
<1>7. CASE Accept
  <2>1. UNCHANGED <<file, info, stored, applied, locations, options>> /\ phase' = "accepted"
        /\ applied = Len(options) + Len(locations)
    BY <1>7 DEF Accept, visited
  <2>2. Records' /\ Counts' /\ Cursors'
    BY <2>1 DEF LInv, Records, Counts, Cursors, Recorded, RecordedAs
  <2>3. Done' = Done
    BY <2>1 DEF Done
  <2>4. Follows'
    BY <2>1, <2>3 DEF LInv, Follows, FollowsUpTo, Stays, MovedWith
  <2> QED BY <1>0, <2>2, <2>4 DEF LInv
<1>8. CASE UNCHANGED vars
  <2>1. Node' = Node /\ Done' = Done
    BY <1>8 DEF vars, Node, Done
  <2> QED BY <1>0, <1>8, <2>1 DEF vars, LInv, Records, Counts, Cursors, Recorded, RecordedAs, ListKept,
                                  Follows, FollowsUpTo, Stays, MovedWith
<1> QED BY <1>1, <1>2, <1>3, <1>4, <1>5, <1>6, <1>7, <1>8, DescendLocations, SetValueLocations,
      ApplyLocationsStep
        DEF Next

\* In an accepted file, each source location in an option has moved once, with that
\* option, and the others are where they were: however many options there are, no
\* location moves a second time with an option that is applied later, not even when
\* the first has moved it into the list of uninterpreted options.
THEOREM LocationsMoveOnce == Spec => []LocationsFollow
<1>1. LInv => LocationsFollow
  <2> SUFFICES ASSUME LInv, phase = "accepted", NEW i \in DOMAIN info
               PROVE  LET into == { l \in Range(locations) : IsPrefix(l.from, file.info[i]) }
                      IN IF into = {} THEN info[i] = file.info[i]
                         ELSE \E l \in into :
                                info[i] = l.to \o SubSeq(file.info[i], Len(l.from) + 1, Len(file.info[i]))
    BY DEF LocationsFollow
  <2> DEFINE into == { l \in Range(locations) : IsPrefix(l.from, file.info[i]) }
  <2>1. /\ options \in Seq(Range(options)) /\ locations \in Seq(Range(locations))
        /\ applied = Len(options) + Len(locations)
    BY DEF LInv, IInv, Records, Counts
  <2>2. Done = Len(locations) /\ DOMAIN locations = 1..Len(locations)
    BY <2>1 DEF Done
  <2>3. FollowsUpTo(i, Len(locations))
    BY <2>2 DEF LInv, Follows
  <2>4. CASE Stays(i, Len(locations))
    <3>1. info[i] = file.info[i] /\ \A a \in DOMAIN locations : ~IsPrefix(locations[a].from, file.info[i])
      BY <2>2, <2>4 DEF Stays
    <3>2. into = {}
      BY SMTT(60), <3>1 DEF Range
    <3> QED BY <3>1, <3>2
  <2>5. ASSUME NEW a \in 1..Len(locations), MovedWith(i, a)
        PROVE  /\ into # {}
               /\ \E l \in into : info[i] = l.to \o SubSeq(file.info[i], Len(l.from) + 1, Len(file.info[i]))
    <3>1. locations[a] \in into
      BY <2>2, <2>5 DEF MovedWith, Range
    <3> QED BY <2>5, <3>1 DEF MovedWith
  <2> QED BY <2>3, <2>4, <2>5 DEF FollowsUpTo
<1> QED BY <1>1, InitLocations, NextLocations, PTL DEF Spec

-----------------------------------------------------------------------------
(* What shows, and the verdict on a file.                                  *)

PathSlots == Seq(Int) \X Int

\* The slots that show.
Shown(message) == { s \in DOMAIN message : Shows(message[s].field, message[s].value) }

\* Fields that the first parts of a name lead through, one by one.
Numbers(c) == [k \in 1..Len(c) |-> c[k].number]
Walk(node, name, c) ==
  /\ c \in Seq(Fields)
  /\ \A k \in 1..Len(c) : /\ c[k].name = name[k].name /\ c[k].ext = name[k].ext
                          /\ c[k].parent = IF k = 1 THEN OptionsType(node.kind) ELSE c[k - 1].type
                          /\ k < Len(name) => c[k].kind = "message" /\ c[k].card = "singular"

RemovedBy(c, slot) ==
  \E k \in 1..Len(c) : \E g \in Rivals(c[k]) : Within(slot, SlotAt(c, k)[1], g.number)

\* Where the cursor has come to.
Walked(c) ==
  /\ Walk(Node, Option.name, c) /\ Len(c) = cursor.part - 1 /\ cursor.at = Numbers(c)
  /\ cursor.type = IF c = << >> THEN OptionsType(Node.kind) ELSE c[Len(c)].type

\* What shows is what showed already, and the messages on the way to the cursor.
Account(c) ==
  \A slot \in PathSlots :
    slot \in Shown(slots) <=> \/ \E k \in 1..Len(c) : slot = SlotAt(c, k)
                              \/ Already(Node, cursor.option, slot) /\ ~RemovedBy(c, slot)

Bounded ==
  /\ cursor.option <= Len(Node.uninterpreted) + 1
  /\ cursor.part > 1 => cursor.option <= Len(Node.uninterpreted) /\ cursor.part <= Len(Option.name)
Typed ==
  LET root == OptionsType(Node.kind)
  IN WellTyped(slots, root) /\ HasType(slots, root, cursor.at, cursor.type)

Walks == phase = "option" => Bounded /\ Typed /\ (errors = {} => \E c \in Seq(Fields) : Walked(c) /\ Account(c))

ValidSoFar ==
  /\ \A n \in 1..Len(options) : Valid(file.nodes[n])
  /\ phase = "option" => Node.decodes /\ \A i \in 1..(cursor.option - 1) : ValidOption(Node, i)
Valids ==
  /\ errors = {} => ValidSoFar
  /\ errors # {} => \E n \in DOMAIN file.nodes : ~Valid(file.nodes[n])
  /\ phase \in {"apply", "accepted"} => errors = {} /\ Len(options) = Len(file.nodes)
  /\ phase = "refused" => errors # {}

\* The fields of an options message are those of its type.
OwnFields(message, type) == \A f \in Outermost(message) : f \in Fields /\ f.parent = type
Disagrees == \E f \in Fields, n \in DOMAIN file.nodes : f.parent = OptionsType(file.nodes[n].kind) /\ MayClash(f)

OptionsMatch ==
  /\ phase = "panicked" => Disagrees
  /\ \A n \in 1..Len(options) : /\ options[n].path = OptionsPath(file.nodes[n])
                                 /\ OwnFields(options[n].slots, OptionsType(file.nodes[n].kind))

FitsIn(message) == \A s \in DOMAIN message : ValueFits(message[s].field, message[s].value) \/ Given(message[s])
Fits == FitsIn(slots)

Verdicts == Walks /\ Valids /\ OptionsMatch /\ Fits
VInv == IInv /\ applied \in Nat /\ Verdicts

\* Steps that leave the file and what is to be stored in it, and the step that adds to it.
LEMMA OptionsStillMatch ==
  ASSUME OptionsMatch, file' = file, options' = options, phase' = phase \/ phase' # "panicked"
  PROVE  OptionsMatch'
<1>1. Disagrees => Disagrees'
  BY DEF Disagrees
<1> QED BY <1>1 DEF OptionsMatch, OptionsPath

LEMMA OptionsMatchOneMore ==
  ASSUME OptionsMatch, file' = file, phase' = phase \/ phase' # "panicked", Len(options) \in Nat,
         options \in Seq(Range(options)), NEW entry, options' = Append(options, entry),
         entry.path = OptionsPath(Node), OwnFields(entry.slots, OptionsType(Node.kind))
  PROVE  OptionsMatch'
<1>1. Disagrees => Disagrees'
  BY DEF Disagrees
<1>2. Len(options') = Len(options) + 1 /\ options'[Len(options) + 1] = entry
      /\ \A n \in 1..Len(options) : options'[n] = options[n]
  OBVIOUS
<1>3. \A n \in 1..Len(options') : n \in 1..Len(options) \/ n = Len(options) + 1
  BY <1>2
<1>4. \A n : OptionsPath(file.nodes[n])' = OptionsPath(file.nodes[n])
  BY DEF OptionsPath
<1>5. \A n \in 1..Len(options') :
        /\ options'[n].path = OptionsPath(file.nodes[n])
        /\ OwnFields(options'[n].slots, OptionsType(file.nodes[n].kind))
  BY <1>2, <1>3 DEF OptionsMatch, Node
<1> QED BY <1>1, <1>4, <1>5 DEF OptionsMatch
-----------------------------------------------------------------------------
(* Slots and what is in them.                                              *)

\* Fields are of three kinds, and a message has presence.
LEMMA Cards ==
  ASSUME NEW f \in Fields
  PROVE  /\ f.card \in {"singular", "repeated", "map"}
         /\ f.kind = "message" /\ f.card = "singular" => f.presence
<1>1. \A g \in Fields : g.card \in {"singular", "repeated", "map"}
  BY TypesAssumption
<1>2. \A g \in Fields : g.kind = "message" /\ g.card = "singular" => g.presence
  BY TypesAssumption, Zenon
<1> QED BY ONLY <1>1, <1>2, f \in Fields, Zenon

\* A slot is the path to a message, and a number.
LEMMA SlotFacts ==
  ASSUME NEW s \in PathSlots
  PROVE  s = <<s[1], s[2]>> /\ s[1] \in Seq(Int) /\ s[2] \in Int /\ Len(s[1]) \in Nat
BY DEF PathSlots

\* Paths are the same when they have the same numbers.
LEMMA SamePath ==
  ASSUME NEW p \in Seq(Int), NEW q \in Seq(Int), Len(p) = Len(q), \A i \in 1..Len(p) : p[i] = q[i]
  PROVE  p = q
<1>1. \A S : \A x, y \in Seq(S) : Len(x) = Len(y) /\ (\A i \in 1..Len(x) : x[i] = y[i]) => x = y
  OBVIOUS
<1>2. \A x, y \in Seq(Int) : Len(x) = Len(y) /\ (\A i \in 1..Len(x) : x[i] = y[i]) => x = y
  BY ONLY <1>1, Zenon
<1> QED BY ONLY <1>2, p \in Seq(Int), q \in Seq(Int), Len(p) = Len(q), \A i \in 1..Len(p) : p[i] = q[i], Zenon

LEMMA PathAppended ==
  ASSUME NEW p \in Seq(Int), NEW n \in Int
  PROVE  /\ Append(p, n) \in Seq(Int) /\ Len(Append(p, n)) = Len(p) + 1 /\ Len(p) \in Nat
         /\ (\A i \in 1..Len(p) : Append(p, n)[i] = p[i]) /\ Append(p, n)[Len(p) + 1] = n
OBVIOUS

\* A slot is within a field when the path to it leads through the field.
LEMMA WithinIs ==
  ASSUME NEW s \in PathSlots, NEW at \in Seq(Int), NEW n \in Int
  PROVE  Within(s, at, n) <=>
           /\ Len(at) <= Len(s[1]) /\ \A i \in 1..Len(at) : s[1][i] = at[i]
           /\ \/ Len(at) = Len(s[1]) /\ s[2] = n
              \/ Len(at) < Len(s[1]) /\ s[1][Len(at) + 1] = n
<1> DEFINE base == Append(at, n)
<1>1. s = <<s[1], s[2]>> /\ s[1] \in Seq(Int) /\ s[2] \in Int /\ Len(s[1]) \in Nat
  BY SlotFacts
<1>2. /\ base \in Seq(Int) /\ Len(base) = Len(at) + 1 /\ Len(at) \in Nat
      /\ (\A i \in 1..Len(at) : base[i] = at[i]) /\ base[Len(at) + 1] = n
  BY PathAppended
<1>3. Within(s, at, n) <=> s = <<at, n>> \/ IsPrefix(base, s[1])
  BY DEF Within
<1>4. s = <<at, n>> <=> s[1] = at /\ s[2] = n
  BY <1>1
<1>5. s[1] = at <=> Len(at) = Len(s[1]) /\ \A i \in 1..Len(at) : s[1][i] = at[i]
  BY <1>1, SamePath
<1> HIDE DEF base
<1>6. IsPrefix(base, s[1]) <=> Len(base) <= Len(s[1]) /\ \A i \in 1..Len(base) : base[i] = s[1][i]
  BY <1>1, <1>2, PathPrefixIs
<1>7. IsPrefix(base, s[1]) <=> /\ Len(at) < Len(s[1]) /\ \A i \in 1..Len(at) : s[1][i] = at[i]
                               /\ s[1][Len(at) + 1] = n
  <2>1. 1..Len(base) = 1..Len(at) \cup {Len(at) + 1}
    BY <1>2
  <2>2. (\A i \in 1..Len(base) : base[i] = s[1][i]) <=>
          (\A i \in 1..Len(at) : s[1][i] = at[i]) /\ s[1][Len(at) + 1] = n
    BY <1>2, <2>1
  <2>3. Len(base) <= Len(s[1]) <=> Len(at) < Len(s[1])
    BY <1>1, <1>2
  <2> QED BY <1>6, <2>2, <2>3
<1> QED BY <1>1, <1>2, <1>3, <1>4, <1>5, <1>7

\* The numbers of fields are a path.
LEMMA NumbersAre ==
  ASSUME NEW c \in Seq(Fields)
  PROVE  Numbers(c) \in Seq(Int) /\ Len(Numbers(c)) = Len(c) /\ \A k \in 1..Len(c) : Numbers(c)[k] = c[k].number
<1>1. Len(c) \in Nat /\ \A k \in 1..Len(c) : c[k] \in Fields
  OBVIOUS
<1>2. \A k \in 1..Len(c) : c[k].number \in Int
  BY <1>1, FilesAssumption
<1> QED BY <1>1, <1>2 DEF Numbers

LEMMA SlotAtIs ==
  ASSUME NEW c \in Seq(Fields), NEW k \in 1..Len(c)
  PROVE  /\ SlotAt(c, k) \in PathSlots /\ SlotAt(c, k)[2] = c[k].number /\ Len(SlotAt(c, k)[1]) = k - 1
         /\ \A i \in 1..(k - 1) : SlotAt(c, k)[1][i] = c[i].number
<1> DEFINE p == [i \in 1..(k - 1) |-> c[i].number]
<1>1. Len(c) \in Nat /\ \A i \in 1..Len(c) : c[i] \in Fields /\ c[i].number \in Int
  BY FilesAssumption
<1>2. k - 1 \in Nat /\ \A i \in 1..(k - 1) : c[i].number \in Int
  BY <1>1
<1>3. p \in Seq(Int) /\ Len(p) = k - 1 /\ \A i \in 1..(k - 1) : p[i] = c[i].number
  BY <1>2
<1>4. SlotAt(c, k) = <<p, c[k].number>>
  BY DEF SlotAt
<1> HIDE DEF p
<1> QED BY <1>1, <1>3, <1>4 DEF PathSlots
\* No rival of a field takes away what is behind the field.
LEMMA BehindStays ==
  ASSUME NEW c \in Seq(Fields), NEW k \in 1..Len(c), NEW g \in Rivals(c[k]), NEW s \in PathSlots,
         k <= Len(s[1]) => s[1][k] = c[k].number, Len(s[1]) = k - 1 => s[2] = c[k].number
  PROVE  ~Within(s, SlotAt(c, k)[1], g.number)
<1> DEFINE at == SlotAt(c, k)[1]
<1>1. at \in Seq(Int) /\ Len(at) = k - 1 /\ k \in Nat \ {0}
  BY SMTT(60), SlotAtIs DEF PathSlots
<1>2. g \in Fields /\ g.number \in Int /\ g.number # c[k].number
  BY FilesAssumption DEF Rivals
<1>3. s[1] \in Seq(Int) /\ Len(s[1]) \in Nat
  BY SlotFacts
<1> HIDE DEF at
<1> SUFFICES ASSUME Within(s, at, g.number) PROVE FALSE
  BY DEF at
<1>4. \/ Len(at) = Len(s[1]) /\ s[2] = g.number
      \/ Len(at) < Len(s[1]) /\ s[1][Len(at) + 1] = g.number
  BY <1>1, <1>2, WithinIs
<1> QED BY <1>1, <1>2, <1>3, <1>4

\* No rival of a field of a chain takes away a message the chain leads through.
LEMMA ChainStays ==
  ASSUME NEW c \in Seq(Fields), NEW j \in 1..Len(c), NEW k \in 1..Len(c), NEW g \in Rivals(c[k])
  PROVE  ~Within(SlotAt(c, j), SlotAt(c, k)[1], g.number)
<1> DEFINE s == SlotAt(c, j)
<1>1. s \in PathSlots /\ s[2] = c[j].number /\ Len(s[1]) = j - 1 /\ (\A i \in 1..(j - 1) : s[1][i] = c[i].number)
      /\ j \in Nat /\ k \in Nat \ {0}
  BY SlotAtIs
<1> HIDE DEF s
<1>2. k <= Len(s[1]) => s[1][k] = c[k].number
  BY <1>1
<1>3. Len(s[1]) = k - 1 => s[2] = c[k].number
  BY <1>1
<1>4. ~Within(s, SlotAt(c, k)[1], g.number)
  BY <1>1, <1>2, <1>3, BehindStays
<1> QED BY <1>4 DEF s

-----------------------------------------------------------------------------
(* Names and the fields they lead through.                                 *)

\* A name leads through the same fields however far they are followed.
LEMMA WalksAgree ==
  ASSUME NEW node, NEW name, NEW c, NEW d, Walk(node, name, c), Walk(node, name, d), Len(c) <= Len(d)
  PROVE  \A k \in 1..Len(c) : c[k] = d[k]
<1>1. c \in Seq(Fields) /\ d \in Seq(Fields) /\ Len(c) \in Nat /\ Len(d) \in Nat
  BY DEF Walk
<1> DEFINE S == { n \in Nat : n <= Len(c) => \A k \in 1..n : c[k] = d[k] }
<1>2. 0 \in S
  OBVIOUS
<1>3. ASSUME NEW n \in Nat, n \in S PROVE n + 1 \in S
  <2> SUFFICES ASSUME n + 1 <= Len(c) PROVE \A k \in 1..(n + 1) : c[k] = d[k]
    OBVIOUS
  <2>1. \A k \in 1..n : c[k] = d[k]
    BY <1>1, <1>3
  <2>2. n + 1 \in 1..Len(c) /\ n + 1 \in 1..Len(d)
    BY <1>1
  <2>3. c[n + 1] \in Fields /\ d[n + 1] \in Fields
    BY <1>1, <2>2
  <2>4. c[n + 1].name = d[n + 1].name /\ c[n + 1].ext = d[n + 1].ext
    BY <2>2 DEF Walk
  <2>5. c[n + 1].parent = d[n + 1].parent
    <3>1. CASE n = 0
      <4>1. c[n + 1].parent = OptionsType(node.kind) /\ d[n + 1].parent = OptionsType(node.kind)
        BY <2>2, <3>1 DEF Walk
      <4> QED BY <4>1
    <3>2. CASE n # 0
      <4>1. n + 1 # 1 /\ (n + 1) - 1 = n /\ n \in 1..n
        BY <3>2
      <4>2. c[n + 1].parent = c[(n + 1) - 1].type /\ d[n + 1].parent = d[(n + 1) - 1].type
        BY <2>2, <4>1 DEF Walk
      <4> QED BY <2>1, <4>1, <4>2
    <3> QED BY <3>1, <3>2
  <2>6. c[n + 1] = d[n + 1]
    BY <2>3, <2>4, <2>5, TypesAssumption
  <2> QED BY <2>1, <2>6
<1>4. Len(c) \in S
  <2> HIDE DEF S
  <2> QED BY <1>1, <1>2, <1>3, SetInduction
<1> QED BY <1>1, <1>4

\* The chains of a name are the walks to its end.
LEMMA ChainsAre ==
  ASSUME NEW node, NEW name, name \in Seq(Range(name)), NEW c
  PROVE  c \in Chains(node, name) <=> Walk(node, name, c) /\ Len(c) = Len(name)
<1> DEFINE F == { f \in Fields : \E i \in DOMAIN name : f.name = name[i].name }
<1>1. DOMAIN name = 1..Len(name) /\ Len(name) \in Nat
  OBVIOUS
<1>2. ASSUME c \in Chains(node, name) PROVE Walk(node, name, c) /\ Len(c) = Len(name)
  <2>1. c \in [1..Len(name) -> F]
    BY <1>1, <1>2 DEF Chains
  <2>2. c \in Seq(Fields) /\ Len(c) = Len(name)
    BY <1>1, <2>1
  <2> QED BY <1>1, <1>2, <2>2 DEF Chains, Walk
<1>3. ASSUME Walk(node, name, c), Len(c) = Len(name) PROVE c \in Chains(node, name)
  <2>1. c \in Seq(Fields) /\ DOMAIN c = DOMAIN name
    BY <1>1, <1>3 DEF Walk
  <2>2. \A i \in DOMAIN name : c[i] \in F
    BY <1>1, <1>3, <2>1 DEF Walk
  <2>3. c \in [DOMAIN name -> F]
    BY <2>1, <2>2
  <2> QED BY <1>1, <1>3, <2>3 DEF Chains, Walk
<1> QED BY <1>2, <1>3

LEMMA ChainOfIs ==
  ASSUME NEW node, NEW i, node.uninterpreted[i].name \in Seq(Range(node.uninterpreted[i].name)),
         NEW c, Walk(node, node.uninterpreted[i].name, c), Len(c) = Len(node.uninterpreted[i].name)
  PROVE  /\ ChainOf(node, i) = c
         /\ \A d \in Chains(node, node.uninterpreted[i].name) : d = c
<1> DEFINE name == node.uninterpreted[i].name
<1>1. ASSUME NEW d \in Chains(node, name) PROVE d = c
  <2>1. Walk(node, name, d) /\ Len(d) = Len(name)
    BY ChainsAre
  <2>3. c \in Seq(Fields) /\ d \in Seq(Fields) /\ Len(c) = Len(d) /\ Len(c) \in Nat
    BY <2>1 DEF Walk
  <2>4. Walk(node, name, c) /\ Len(c) <= Len(d)
    BY <2>3
  <2> HIDE DEF name
  <2>2. \A k \in 1..Len(c) : c[k] = d[k]
    BY <2>1, <2>4, WalksAgree
  <2> QED BY <2>2, <2>3
<1>2. c \in Chains(node, name)
  BY ChainsAre
<1> QED BY <1>1, <1>2 DEF ChainOf

\* A literal has one value, if it has any.
LEMMA OneConverted ==
  ASSUME NEW f, NEW v, NEW x \in Converted(f, v), NEW y \in Converted(f, v)
  PROVE  x = y
BY DEF Converted

\* What shows at the next option.
LEMMA AlreadyNext ==
  ASSUME NEW node, NEW i \in Nat \ {0}, NEW slot
  PROVE  Already(node, i + 1, slot) <=> (Already(node, i, slot) /\ ~Removes(node, i, slot)) \/ Gives(node, i, slot)
<1>1. 1..((i + 1) - 1) = 1..(i - 1) \cup {i} /\ i \notin 1..(i - 1)
  OBVIOUS
<1>2. \A j \in 1..(i - 1) : (j + 1)..((i + 1) - 1) = (j + 1)..(i - 1) \cup {i}
  OBVIOUS
<1>3. (i + 1)..((i + 1) - 1) = {}
  OBVIOUS
<1> DEFINE R(j) == Removes(node, j, slot)  G(j) == Gives(node, j, slot)
           E == slot \in DOMAIN node.encoded /\ Shows(node.encoded[slot].field, node.encoded[slot].value)
<1>4. Already(node, i, slot) <=> \/ E /\ \A j \in 1..(i - 1) : ~R(j)
                                 \/ \E j \in 1..(i - 1) : G(j) /\ \A k \in (j + 1)..(i - 1) : ~R(k)
  BY DEF Already
<1>5. Already(node, i + 1, slot) <=> \/ E /\ \A j \in 1..((i + 1) - 1) : ~R(j)
                                     \/ \E j \in 1..((i + 1) - 1) : G(j) /\ \A k \in (j + 1)..((i + 1) - 1) : ~R(k)
  BY DEF Already
<1> HIDE DEF R, G, E
<1>6. (\A j \in 1..((i + 1) - 1) : ~R(j)) <=> (\A j \in 1..(i - 1) : ~R(j)) /\ ~R(i)
  BY <1>1
<1>7. \A j \in 1..(i - 1) : (\A k \in (j + 1)..((i + 1) - 1) : ~R(k)) <=> (\A k \in (j + 1)..(i - 1) : ~R(k)) /\ ~R(i)
  BY <1>2
<1>8. \A k \in (i + 1)..((i + 1) - 1) : ~R(k)
  BY <1>3
<1>9. (\E j \in 1..((i + 1) - 1) : G(j) /\ \A k \in (j + 1)..((i + 1) - 1) : ~R(k))
        <=> G(i) \/ ((\E j \in 1..(i - 1) : G(j) /\ \A k \in (j + 1)..(i - 1) : ~R(k)) /\ ~R(i))
  BY <1>1, <1>7, <1>8
<1>10. Already(node, i + 1, slot) <=> (Already(node, i, slot) /\ ~R(i)) \/ G(i)
  BY <1>4, <1>5, <1>6, <1>9
<1> QED BY <1>10 DEF R, G
-----------------------------------------------------------------------------
(* What GetMut and WithValue do to each slot.                              *)

\* The slot is none of the rivals of a field at "at", nor in one.
Kept(s, at, f) == \A g \in Rivals(f) : ~Within(s, at, g.number)

LEMMA SlotIn ==
  ASSUME NEW m, Message(m), NEW s \in DOMAIN m
  PROVE  s \in PathSlots /\ m[s].field \in Fields /\ m[s].field.number = s[2]
         /\ m[s] = [field |-> m[s].field, value |-> m[s].value]
<1>1. s = <<s[1], s[2]>> /\ s[1] \in Seq(Int) /\ m[s].field \in Fields /\ m[s].field.number = s[2]
      /\ m[s] = [field |-> m[s].field, value |-> m[s].value]
  BY DEF Message
<1>2. s[2] \in Int
  BY <1>1, FilesAssumption
<1>3. <<s[1], s[2]>> \in Seq(Int) \X Int
  BY <1>1, <1>2
<1> QED BY <1>1, <1>3 DEF PathSlots

\* A field is no rival of its own.
LEMMA OwnKept ==
  ASSUME NEW at \in Seq(Int), NEW f \in Fields
  PROVE  <<at, f.number>> \in PathSlots /\ Kept(<<at, f.number>>, at, f)
<1> DEFINE own == <<at, f.number>>
<1>1. own \in PathSlots /\ own[1] = at /\ own[2] = f.number
  BY FilesAssumption DEF PathSlots
<1> HIDE DEF own
<1>2. ASSUME NEW g \in Rivals(f), Within(own, at, g.number) PROVE FALSE
  <2>1. g.number \in Int /\ g.number # f.number
    BY FilesAssumption DEF Rivals
  <2>2. Len(at) \in Nat
    OBVIOUS
  <2> QED BY <1>1, <1>2, <2>1, <2>2, WithinIs
<1> QED BY <1>1, <1>2 DEF Kept, own

LEMMA GetMutIs ==
  ASSUME Message(slots), NEW at \in Seq(Int), NEW f \in Fields
  PROVE  /\ DOMAIN GetMut(at, f) = { s \in DOMAIN slots : Kept(s, at, f) } \cup {<<at, f.number>>}
         /\ \A s \in DOMAIN slots : Kept(s, at, f) => GetMut(at, f)[s] = slots[s]
         /\ <<at, f.number>> \notin DOMAIN slots =>
              GetMut(at, f)[<<at, f.number>>] = [field |-> f, value |-> Default(f)]
<1> DEFINE kept == { s \in DOMAIN slots : \A g \in Rivals(f) : ~Within(s, at, g.number) }
           own == <<at, f.number>>
<1>1. kept = { s \in DOMAIN slots : Kept(s, at, f) }
  BY DEF Kept
<1>2. GetMut(at, f) = [s \in kept \cup {own} |-> IF s \in kept THEN slots[s] ELSE [field |-> f, value |-> Default(f)]]
  BY DEF GetMut
<1> HIDE DEF kept, own
<1>3. DOMAIN GetMut(at, f) = kept \cup {own}
  BY <1>2
<1>4. \A s \in kept : GetMut(at, f)[s] = slots[s]
  BY <1>2
<1>5. own \notin kept => GetMut(at, f)[own] = [field |-> f, value |-> Default(f)]
  BY <1>2
<1> QED BY <1>1, <1>3, <1>4, <1>5 DEF own

\* A place in a message has one type.
LEMMA OneType ==
  ASSUME NEW m, Message(m), NEW root, NEW at, NEW A, NEW B, HasType(m, root, at, A), HasType(m, root, at, B)
  PROVE  A = B
<1>1. CASE at = << >>
  BY <1>1 DEF HasType
<1>2. CASE at # << >>
  <2>1. PICK s \in DOMAIN m : Append(s[1], s[2]) = at /\ m[s].field.type = A
    BY <1>2 DEF HasType
  <2>2. PICK t \in DOMAIN m : Append(t[1], t[2]) = at /\ m[t].field.type = B
    BY <1>2 DEF HasType
  <2>3. s \in PathSlots /\ t \in PathSlots
    BY SlotIn
  <2>4. /\ s = <<s[1], s[2]>> /\ s[1] \in Seq(Int) /\ s[2] \in Int /\ Len(s[1]) \in Nat
        /\ t = <<t[1], t[2]>> /\ t[1] \in Seq(Int) /\ t[2] \in Int /\ Len(t[1]) \in Nat
    BY <2>3, SlotFacts
  <2>5. /\ Len(Append(s[1], s[2])) = Len(s[1]) + 1 /\ Append(s[1], s[2])[Len(s[1]) + 1] = s[2]
        /\ \A i \in 1..Len(s[1]) : Append(s[1], s[2])[i] = s[1][i]
        /\ Len(Append(t[1], t[2])) = Len(t[1]) + 1 /\ Append(t[1], t[2])[Len(t[1]) + 1] = t[2]
        /\ \A i \in 1..Len(t[1]) : Append(t[1], t[2])[i] = t[1][i]
    BY <2>4, PathAppended
  <2>6. Len(s[1]) = Len(t[1])
    BY <2>1, <2>2, <2>4, <2>5
  <2>7. s[2] = t[2] /\ \A i \in 1..Len(s[1]) : s[1][i] = t[1][i]
    BY <2>1, <2>2, <2>4, <2>5, <2>6
  <2>8. s[1] = t[1]
    BY <2>4, <2>6, <2>7, SamePath
  <2> QED BY <2>1, <2>2, <2>4, <2>7, <2>8
<1> QED BY <1>1, <1>2

\* The field in a slot is the one of its number.
LEMMA OwnField ==
  ASSUME NEW m, Message(m), NEW root, WellTyped(m, root), NEW f \in Fields, NEW at, HasType(m, root, at, f.parent),
         <<at, f.number>> \in DOMAIN m
  PROVE  m[<<at, f.number>>].field = f
<1> DEFINE own == <<at, f.number>>
<1>1. own[1] = at /\ own[2] = f.number
  OBVIOUS
<1> HIDE DEF own
<1>2. own \in DOMAIN m
  BY DEF own
<1>3. HasType(m, root, at, m[own].field.parent)
  BY <1>1, <1>2 DEF WellTyped
<1>4. m[own].field.parent = f.parent
  BY <1>3, OneType
<1>5. m[own].field \in Fields /\ m[own].field.number = f.number
  BY <1>1, <1>2, SlotIn
<1>6. m[own].field = f
  BY <1>4, <1>5, TypesAssumption
<1> QED BY <1>6 DEF own
\* What is in a slot that goes, goes too.
LEMMA WithinBelow ==
  ASSUME NEW t \in PathSlots, NEW s \in PathSlots, s[1] = Append(t[1], t[2]), NEW at \in Seq(Int), NEW n \in Int,
         Within(t, at, n)
  PROVE  Within(s, at, n)
<1>1. t[1] \in Seq(Int) /\ t[2] \in Int /\ Len(t[1]) \in Nat /\ Len(at) \in Nat
  BY SlotFacts
<1>2. /\ Len(s[1]) = Len(t[1]) + 1 /\ s[1][Len(t[1]) + 1] = t[2]
      /\ \A i \in 1..Len(t[1]) : s[1][i] = t[1][i]
  BY <1>1, PathAppended
<1>3. /\ Len(at) <= Len(t[1]) /\ \A i \in 1..Len(at) : t[1][i] = at[i]
      /\ \/ Len(at) = Len(t[1]) /\ t[2] = n
         \/ Len(at) < Len(t[1]) /\ t[1][Len(at) + 1] = n
  BY WithinIs
<1>4. Len(at) < Len(s[1]) /\ s[1][Len(at) + 1] = n /\ \A i \in 1..Len(at) : s[1][i] = at[i]
  <2>1. Len(at) < Len(s[1])
    BY ONLY <1>1, <1>2, <1>3
  <2>2. \A i \in 1..Len(at) : i \in 1..Len(t[1])
    BY ONLY <1>1, <1>3
  <2>3. \A i \in 1..Len(at) : s[1][i] = at[i]
    BY ONLY <1>2, <1>3, <2>2, Zenon
  <2>4. CASE Len(at) = Len(t[1]) /\ t[2] = n
    BY ONLY <1>2, <2>1, <2>3, <2>4, Zenon
  <2>5. CASE Len(at) < Len(t[1]) /\ t[1][Len(at) + 1] = n
    <3>1. Len(at) + 1 \in 1..Len(t[1])
      BY ONLY <1>1, <2>5
    <3> QED BY ONLY <1>2, <2>1, <2>3, <2>5, <3>1, Zenon
  <2> QED BY ONLY <1>3, <2>4, <2>5
<1>5. Within(s, at, n) <=>
        /\ Len(at) <= Len(s[1]) /\ \A i \in 1..Len(at) : s[1][i] = at[i]
        /\ \/ Len(at) = Len(s[1]) /\ s[2] = n
           \/ Len(at) < Len(s[1]) /\ s[1][Len(at) + 1] = n
  <2>1. \A u \in PathSlots : Within(u, at, n) <=>
          /\ Len(at) <= Len(u[1]) /\ \A i \in 1..Len(at) : u[1][i] = at[i]
          /\ \/ Len(at) = Len(u[1]) /\ u[2] = n
             \/ Len(at) < Len(u[1]) /\ u[1][Len(at) + 1] = n
    BY WithinIs
  <2> QED BY ONLY <2>1, s \in PathSlots, Zenon
<1> QED BY <1>1, <1>2, <1>4, <1>5

\* The messages that lead to a field are no rivals of it.
LEMMA AboveKept ==
  ASSUME NEW t \in PathSlots, NEW f, NEW at \in Seq(Int), at = Append(t[1], t[2])
  PROVE  Kept(t, at, f)
<1> SUFFICES ASSUME NEW g \in Rivals(f), Within(t, at, g.number) PROVE FALSE
  BY DEF Kept
<1>1. t[1] \in Seq(Int) /\ t[2] \in Int /\ Len(t[1]) \in Nat
  BY SlotFacts
<1>2. Len(at) = Len(t[1]) + 1
  BY <1>1, PathAppended
<1>3. g.number \in Int
  BY FilesAssumption DEF Rivals
<1>4. Len(at) <= Len(t[1])
  BY <1>3, WithinIs
<1> QED BY <1>1, <1>2, <1>4

\* A place keeps its type as long as its message is there.
LEMMA TypeStays ==
  ASSUME NEW m, NEW n, NEW root, NEW p, NEW A, HasType(m, root, p, A),
         \A t \in DOMAIN m : Append(t[1], t[2]) = p => t \in DOMAIN n /\ n[t].field = m[t].field
  PROVE  HasType(n, root, p, A)
BY DEF HasType

\* A field set where its message is, is typed, as all that stays.
LEMMA GetMutTyped ==
  ASSUME Message(slots), NEW root, WellTyped(slots, root), NEW at \in Seq(Int), NEW f \in Fields,
         HasType(slots, root, at, f.parent)
  PROVE  WellTyped(GetMut(at, f), root) /\ HasType(GetMut(at, f), root, at, f.parent)
<1> DEFINE m == GetMut(at, f)  own == <<at, f.number>>
<1>1. /\ DOMAIN m = { s \in DOMAIN slots : Kept(s, at, f) } \cup {own}
      /\ \A s \in DOMAIN slots : Kept(s, at, f) => m[s] = slots[s]
      /\ own \notin DOMAIN slots => m[own] = [field |-> f, value |-> Default(f)]
  BY GetMutIs
<1>2. own \in PathSlots /\ own[1] = at /\ Kept(own, at, f)
  BY OwnKept
<1> HIDE DEF m, own
<1>3. HasType(m, root, at, f.parent)
  <2>1. ASSUME NEW t \in DOMAIN slots, Append(t[1], t[2]) = at PROVE t \in DOMAIN m /\ m[t].field = slots[t].field
    <3>1. t \in PathSlots
      BY SlotIn
    <3>2. Kept(t, at, f)
      BY <2>1, <3>1, AboveKept
    <3> QED BY <1>1, <3>2
  <2> QED BY <2>1, TypeStays
<1>4. ASSUME NEW s \in DOMAIN slots, Kept(s, at, f)
      PROVE  /\ HasType(m, root, s[1], m[s].field.parent)
             /\ m[s].field.card = "repeated" => m[s].value \in Seq(Range(m[s].value))
  <2>1. m[s] = slots[s]
    BY <1>1, <1>4
  <2>2. HasType(slots, root, s[1], slots[s].field.parent)
    BY DEF WellTyped
  <2>3. ASSUME NEW t \in DOMAIN slots, Append(t[1], t[2]) = s[1] PROVE t \in DOMAIN m /\ m[t].field = slots[t].field
    <3>1. t \in PathSlots /\ s \in PathSlots
      BY SlotIn
    <3>2. \A g \in Rivals(f) : g.number \in Int
      BY FilesAssumption DEF Rivals
    <3>3. Kept(t, at, f)
      BY <1>4, <2>3, <3>1, <3>2, WithinBelow DEF Kept
    <3> QED BY <1>1, <3>3
  <2>4. HasType(m, root, s[1], slots[s].field.parent)
    BY <2>2, <2>3, TypeStays
  <2> QED BY <2>1, <2>4 DEF WellTyped
<1>5. ASSUME own \notin DOMAIN slots
      PROVE  /\ HasType(m, root, own[1], m[own].field.parent)
             /\ m[own].field.card = "repeated" => m[own].value \in Seq(Range(m[own].value))
  <2>1. m[own].field = f /\ m[own].value = Default(f)
    BY <1>1, <1>5
  <2>2. f.card = "repeated" => Default(f) \in Seq(Range(Default(f)))
    <3>1. << >> \in Seq(Range(<< >>))
      OBVIOUS
    <3>2. f.card = "repeated" => Default(f) = << >>
      BY DEF Default
    <3> QED BY <3>1, <3>2
  <2> QED BY <1>2, <1>3, <2>1, <2>2
<1>6. WellTyped(m, root)
  BY <1>1, <1>2, <1>4, <1>5 DEF WellTyped
<1> QED BY <1>3, <1>6 DEF m

\* Putting a value changes this value only.
LEMMA PutIs ==
  ASSUME NEW m, Message(m), NEW own \in DOMAIN m, NEW y
  PROVE  LET n == [m EXCEPT ![own].value = y]
         IN /\ DOMAIN n = DOMAIN m /\ n[own] = [field |-> m[own].field, value |-> y]
            /\ \A s \in DOMAIN m : s # own => n[s] = m[s]
<1>1. m[own] = [field |-> m[own].field, value |-> m[own].value]
  BY DEF Message
<1> QED BY <1>1

LEMMA PutTyped ==
  ASSUME NEW m, Message(m), NEW root, WellTyped(m, root), NEW own \in DOMAIN m, NEW y,
         m[own].field.card = "repeated" => y \in Seq(Range(y))
  PROVE  WellTyped([m EXCEPT ![own].value = y], root)
<1> DEFINE n == [m EXCEPT ![own].value = y]
<1>1. /\ DOMAIN n = DOMAIN m /\ n[own] = [field |-> m[own].field, value |-> y]
      /\ \A s \in DOMAIN m : s # own => n[s] = m[s]
  BY PutIs
<1> HIDE DEF n
<1>2. \A s \in DOMAIN m : n[s].field = m[s].field
  BY <1>1
<1>3. ASSUME NEW s \in DOMAIN n
      PROVE  /\ HasType(n, root, s[1], n[s].field.parent)
             /\ n[s].field.card = "repeated" => n[s].value \in Seq(Range(n[s].value))
  <2>1. HasType(m, root, s[1], m[s].field.parent)
    BY <1>1 DEF WellTyped
  <2>2. HasType(n, root, s[1], m[s].field.parent)
    BY <1>1, <1>2, <2>1, TypeStays
  <2>3. n[s].field.card = "repeated" => n[s].value \in Seq(Range(n[s].value))
    <3>1. CASE s = own
      BY <1>1, <3>1
    <3>2. CASE s # own
      BY <1>1, <3>2 DEF WellTyped
    <3> QED BY <3>1, <3>2
  <2> QED BY <1>1, <1>2, <2>2, <2>3
<1>4. WellTyped(n, root)
  BY <1>3 DEF WellTyped
<1> QED BY <1>4 DEF n
\* Paths that end in a number.
LEMMA AppendedSame ==
  ASSUME NEW p \in Seq(Int), NEW q \in Seq(Int), NEW m \in Int, NEW n \in Int, Append(p, m) = Append(q, n)
  PROVE  p = q /\ m = n
<1>1. /\ Len(Append(p, m)) = Len(p) + 1 /\ Append(p, m)[Len(p) + 1] = m /\ Len(p) \in Nat
      /\ \A i \in 1..Len(p) : Append(p, m)[i] = p[i]
      /\ Len(Append(q, n)) = Len(q) + 1 /\ Append(q, n)[Len(q) + 1] = n /\ Len(q) \in Nat
      /\ \A i \in 1..Len(q) : Append(q, n)[i] = q[i]
  BY PathAppended
<1>2. Len(p) = Len(q)
  BY <1>1
<1>3. m = n /\ \A i \in 1..Len(p) : p[i] = q[i]
  BY <1>1, <1>2
<1> QED BY <1>2, <1>3, SamePath

LEMMA PrefixAppended ==
  ASSUME NEW base \in Seq(Int), NEW p \in Seq(Int), NEW n \in Int
  PROVE  /\ IsPrefix(base, p) => IsPrefix(base, Append(p, n))
         /\ IsPrefix(base, Append(p, n)) /\ Len(base) <= Len(p) => IsPrefix(base, p)
<1> DEFINE q == Append(p, n)
<1>1. /\ q \in Seq(Int) /\ Len(q) = Len(p) + 1 /\ Len(p) \in Nat /\ Len(base) \in Nat
      /\ \A i \in 1..Len(p) : q[i] = p[i]
  BY PathAppended
<1> HIDE DEF q
<1>2. \A x \in Seq(Int) : IsPrefix(base, x) <=> Len(base) <= Len(x) /\ \A i \in 1..Len(base) : base[i] = x[i]
  BY PathPrefixIs
<1>6. IsPrefix(base, p) <=> Len(base) <= Len(p) /\ \A i \in 1..Len(base) : base[i] = p[i]
  BY ONLY <1>2, p \in Seq(Int), Zenon
<1>7. IsPrefix(base, q) <=> Len(base) <= Len(q) /\ \A i \in 1..Len(base) : base[i] = q[i]
  BY ONLY <1>1, <1>2, Zenon
<1>3. Len(base) <= Len(p) => \A i \in 1..Len(base) : q[i] = p[i]
  <2>1. Len(base) <= Len(p) => 1..Len(base) \subseteq 1..Len(p)
    BY <1>1
  <2> QED BY ONLY <1>1, <2>1, Zenon
<1>4. Len(base) <= Len(p) => Len(base) <= Len(q)
  BY <1>1
<1>5. /\ IsPrefix(base, p) => IsPrefix(base, q)
      /\ IsPrefix(base, q) /\ Len(base) <= Len(p) => IsPrefix(base, p)
  BY <1>3, <1>4, <1>6, <1>7
<1> QED BY <1>5 DEF q

\* Below a slot that is not there, there is none.
LEMMA NothingBelow ==
  ASSUME NEW m, Message(m), NEW root, WellTyped(m, root), NEW at \in Seq(Int), NEW k \in Int, <<at, k>> \notin DOMAIN m
  PROVE  \A s \in DOMAIN m : ~IsPrefix(Append(at, k), s[1])
<1> DEFINE base == Append(at, k)
           S == { d \in Nat : \A s \in DOMAIN m : Len(s[1]) = Len(base) + d => ~IsPrefix(base, s[1]) }
<1>1. base \in Seq(Int) /\ Len(base) \in Nat \ {0} /\ base # << >>
  BY PathAppended
<1>2. \A s \in DOMAIN m : s \in PathSlots /\ s = <<s[1], s[2]>> /\ s[1] \in Seq(Int) /\ s[2] \in Int /\ Len(s[1]) \in Nat
  BY SlotIn, SlotFacts
<1>3. \A s \in DOMAIN m : s[1] # << >> => \E t \in DOMAIN m : Append(t[1], t[2]) = s[1]
  BY DEF WellTyped, HasType
<1> HIDE DEF base
<1>4. 0 \in S
  <2> SUFFICES ASSUME NEW s \in DOMAIN m, Len(s[1]) = Len(base), IsPrefix(base, s[1]) PROVE FALSE
    BY <1>1
  <2>1. Len(base) <= Len(s[1]) /\ \A i \in 1..Len(base) : base[i] = s[1][i]
    BY <1>1, <1>2, PathPrefixIs
  <2>2. s[1] = base
    BY <1>1, <1>2, <2>1, SamePath
  <2>3. PICK t \in DOMAIN m : Append(t[1], t[2]) = base
    BY <1>1, <1>3, <2>2
  <2>4. t[1] = at /\ t[2] = k
    <3>1. t[1] \in Seq(Int) /\ t[2] \in Int
      BY <1>2
    <3>2. Append(t[1], t[2]) = Append(at, k)
      BY ONLY <2>3 DEF base
    <3> QED BY SMTT(60), <3>1, <3>2, AppendedSame
  <2> QED BY <1>2, <2>4
<1>5. ASSUME NEW d \in Nat, d \in S PROVE d + 1 \in S
  <2>1. ASSUME NEW s \in DOMAIN m, Len(s[1]) = Len(base) + (d + 1), IsPrefix(base, s[1]) PROVE FALSE
    <3>1. s[1] # << >>
      BY <1>1, <2>1
    <3>2. PICK t \in DOMAIN m : Append(t[1], t[2]) = s[1]
      BY <1>3, <3>1
    <3>3. t[1] \in Seq(Int) /\ t[2] \in Int /\ Len(t[1]) \in Nat
      BY <1>2
    <3>4. Len(s[1]) = Len(t[1]) + 1
      BY <3>2, <3>3, PathAppended
    <3>5. Len(t[1]) = Len(base) + d /\ Len(base) <= Len(t[1])
      BY ONLY SMTT(60), <1>1, <2>1, <3>3, <3>4, d \in Nat
    <3>6. IsPrefix(base, Append(t[1], t[2])) /\ Len(base) <= Len(t[1]) => IsPrefix(base, t[1])
      <4>1. \A p \in Seq(Int), n \in Int : IsPrefix(base, Append(p, n)) /\ Len(base) <= Len(p) => IsPrefix(base, p)
        BY <1>1, PrefixAppended
      <4> QED BY ONLY <4>1, <3>3, Zenon
    <3>7. IsPrefix(base, Append(t[1], t[2]))
      BY ONLY <2>1, <3>2, Zenon
    <3> QED BY <1>5, <3>5, <3>6, <3>7
  <2> QED BY <2>1
<1>6. Nat \subseteq S
  <2> HIDE DEF S
  <2> QED BY <1>4, <1>5, SetInduction
<1>7. ASSUME NEW s \in DOMAIN m, IsPrefix(base, s[1]) PROVE FALSE
  <2>1. Len(base) <= Len(s[1])
    BY <1>7 DEF IsPrefix
  <2>2. Len(s[1]) - Len(base) \in Nat /\ Len(s[1]) = Len(base) + (Len(s[1]) - Len(base))
    BY <1>1, <1>2, <2>1
  <2> QED BY <1>6, <1>7, <2>2
<1> QED BY <1>7 DEF base

\* Where a slot of a literal is put.
There(base, s) == <<base \o s[1], s[2]>>

\* The literal has replaced what was below the field.
GraftedAs(n, m, base, literal) ==
  /\ DOMAIN n = { s \in DOMAIN m : ~IsPrefix(base, s[1]) } \cup { There(base, s) : s \in DOMAIN literal }
  /\ \A s \in DOMAIN m : ~IsPrefix(base, s[1]) => n[s] = m[s]
  /\ \A s \in DOMAIN literal : /\ There(base, s) \in PathSlots /\ IsPrefix(base, There(base, s)[1])
                               /\ n[There(base, s)] = literal[s]

LEMMA GraftedIs ==
  ASSUME Message(slots), NEW at \in Seq(Int), NEW f \in Fields, NEW literal, Message(literal)
  PROVE  GraftedAs(Grafted(at, f, literal), GetMut(at, f), Append(at, f.number), literal)
<1> DEFINE m == GetMut(at, f)  base == Append(at, f.number)  n == Grafted(at, f, literal)
           kept == { s \in DOMAIN m : ~IsPrefix(base, s[1]) }
           new == { There(base, s) : s \in DOMAIN literal }
           of(s) == <<SubSeq(s[1], Len(base) + 1, Len(s[1])), s[2]>>
<1>1. n = [s \in kept \cup new |-> IF s \in kept THEN m[s] ELSE literal[of(s)]]
  BY DEF Grafted, There
<1>2. base \in Seq(Int)
  BY FilesAssumption, PathAppended
<1> HIDE DEF m, base, n
<1>3. ASSUME NEW s \in DOMAIN literal
      PROVE  There(base, s) \in PathSlots /\ IsPrefix(base, There(base, s)[1]) /\ of(There(base, s)) = s
  <2>1. s = <<s[1], s[2]>> /\ s[1] \in Seq(Int) /\ s[2] \in Int
    BY SlotIn, SlotFacts
  <2>2. /\ base \o s[1] \in Seq(Int) /\ IsPrefix(base, base \o s[1])
        /\ SubSeq(base \o s[1], Len(base) + 1, Len(base \o s[1])) = s[1]
    BY <1>2, <2>1, Behind
  <2> QED BY <2>1, <2>2 DEF There, PathSlots
<1>4. DOMAIN n = kept \cup new /\ \A s \in kept : n[s] = m[s]
  BY <1>1
<1>5. ASSUME NEW s \in DOMAIN literal PROVE n[There(base, s)] = literal[s]
  <2>1. There(base, s) \notin kept /\ There(base, s) \in new
    BY <1>3
  <2> HIDE DEF kept, new, of
  <2> QED BY <1>1, <1>3, <2>1
<1>6. GraftedAs(n, m, base, literal)
  BY <1>3, <1>4, <1>5 DEF GraftedAs
<1> QED BY <1>6 DEF m, base, n
LEMMA JoinedAppended ==
  ASSUME NEW base \in Seq(Int), NEW p \in Seq(Int), NEW n \in Int
  PROVE  Append(base \o p, n) = base \o Append(p, n) /\ base \o p \in Seq(Int)
<1> DEFINE x == Append(base \o p, n)  y == base \o Append(p, n)
<1>1. base \o p \in Seq(Int) /\ Append(p, n) \in Seq(Int)
  OBVIOUS
<1>2. x \in Seq(Int) /\ y \in Seq(Int) /\ Len(x) = Len(base) + Len(p) + 1 /\ Len(y) = Len(base) + Len(p) + 1
  BY <1>1
<1>3. \A i \in 1..Len(x) : x[i] = y[i]
  BY <1>2
<1> HIDE DEF x, y
<1>4. x = y
  BY <1>2, <1>3, SamePath
<1> QED BY <1>1, <1>4 DEF x, y

\* The type of a place in a literal is that of the place it is put at.
LEMMA ThereTyped ==
  ASSUME NEW n, NEW root, NEW base \in Seq(Int), base # << >>, NEW literal, Message(literal), NEW type,
         HasType(n, root, base, type),
         \A t \in DOMAIN literal : There(base, t) \in DOMAIN n /\ n[There(base, t)] = literal[t],
         NEW p \in Seq(Int), NEW A, HasType(literal, type, p, A)
  PROVE  HasType(n, root, base \o p, A)
<1>1. CASE p = << >>
  <2>1. A = type /\ base \o p = base
    BY <1>1 DEF HasType
  <2> QED BY <2>1
<1>2. CASE p # << >>
  <2>1. PICK t \in DOMAIN literal : /\ Append(t[1], t[2]) = p /\ literal[t].field.type = A
                                    /\ literal[t].field.kind = "message" /\ literal[t].field.card = "singular"
    BY <1>2 DEF HasType
  <2>2. t[1] \in Seq(Int) /\ t[2] \in Int
    BY SlotIn, SlotFacts
  <2>3. Append(There(base, t)[1], There(base, t)[2]) = base \o p
    BY <2>1, <2>2, JoinedAppended DEF There
  <2>4. base \o p # << >>
    BY <1>2
  <2> QED BY <2>1, <2>3, <2>4 DEF HasType
<1> QED BY <1>1, <1>2

LEMMA GraftedTyped ==
  ASSUME Message(slots), NEW root, WellTyped(slots, root), NEW at \in Seq(Int), NEW f \in Fields,
         HasType(slots, root, at, f.parent), f.kind = "message", f.card = "singular",
         NEW literal, Message(literal), WellTyped(literal, f.type)
  PROVE  WellTyped(Grafted(at, f, literal), root)
<1> DEFINE m == GetMut(at, f)  own == <<at, f.number>>  base == Append(at, f.number)  n == Grafted(at, f, literal)
<1>1. GraftedAs(n, m, base, literal)
  BY GraftedIs
<1>2. Message(m) /\ own \in DOMAIN m /\ WellTyped(m, root) /\ HasType(m, root, at, f.parent)
  BY GetMutFacts, GetMutTyped
<1>3. base \in Seq(Int) /\ base # << >> /\ Len(base) = Len(at) + 1 /\ own[1] = at /\ own[2] = f.number
  BY FilesAssumption, PathAppended
<1>4. m[own].field = f
  <2> HIDE DEF m
  <2> QED BY <1>2, OwnField
<1>5. Append(own[1], own[2]) = base
  BY <1>3
<1> HIDE DEF m, own, base, n
<1>6. \A s \in DOMAIN m : s[1] \in Seq(Int) /\ s[2] \in Int
  BY <1>2, SlotIn, SlotFacts
<1>7. own \in DOMAIN n /\ n[own] = m[own]
  <2>1. ~IsPrefix(base, at)
    BY <1>3 DEF IsPrefix
  <2> QED BY <1>1, <1>2, <1>3, <2>1 DEF GraftedAs
<1>8. HasType(n, root, base, f.type)
  BY <1>3, <1>4, <1>5, <1>7 DEF HasType
<1>9. ASSUME NEW s \in DOMAIN m, ~IsPrefix(base, s[1])
      PROVE  /\ HasType(n, root, s[1], n[s].field.parent)
             /\ n[s].field.card = "repeated" => n[s].value \in Seq(Range(n[s].value))
  <2>1. n[s] = m[s]
    BY <1>1, <1>9 DEF GraftedAs
  <2>2. HasType(m, root, s[1], m[s].field.parent)
    BY <1>2 DEF WellTyped
  <2>3. ASSUME NEW t \in DOMAIN m, Append(t[1], t[2]) = s[1] PROVE t \in DOMAIN n /\ n[t].field = m[t].field
    <3>1. IsPrefix(base, t[1]) => IsPrefix(base, Append(t[1], t[2]))
      BY <1>3, <1>6, PrefixAppended
    <3>2. ~IsPrefix(base, t[1])
      BY ONLY <1>9, <2>3, <3>1, Zenon
    <3> QED BY <1>1, <3>2 DEF GraftedAs
  <2>4. HasType(n, root, s[1], m[s].field.parent)
    BY <2>2, <2>3, TypeStays
  <2> QED BY <1>2, <2>1, <2>4 DEF WellTyped
<1>10. ASSUME NEW u \in DOMAIN literal, NEW s, s = There(base, u)
       PROVE  /\ HasType(n, root, s[1], n[s].field.parent)
              /\ n[s].field.card = "repeated" => n[s].value \in Seq(Range(n[s].value))
  <2>1. HasType(literal, f.type, u[1], literal[u].field.parent) /\ u[1] \in Seq(Int)
        /\ (literal[u].field.card = "repeated" => literal[u].value \in Seq(Range(literal[u].value)))
    BY SlotIn, SlotFacts DEF WellTyped
  <2>2. n[s] = literal[u] /\ s[1] = base \o u[1]
    BY <1>1, <1>10 DEF There, GraftedAs
  <2>3. HasType(n, root, base \o u[1], literal[u].field.parent)
    BY <1>1, <1>3, <1>8, <2>1, ThereTyped DEF GraftedAs
  <2> QED BY <2>1, <2>2, <2>3
<1>11. WellTyped(n, root)
  BY <1>1, <1>9, <1>10 DEF WellTyped, GraftedAs
<1> QED BY <1>11 DEF n
\* The field that a value is put in.
LEMMA OwnIs ==
  ASSUME Message(slots), NEW root, WellTyped(slots, root), NEW at \in Seq(Int), NEW f \in Fields,
         HasType(slots, root, at, f.parent)
  PROVE  /\ Message(GetMut(at, f)) /\ <<at, f.number>> \in DOMAIN GetMut(at, f)
         /\ GetMut(at, f)[<<at, f.number>>].field = f
<1> DEFINE m == GetMut(at, f)
<1>1. Message(m) /\ <<at, f.number>> \in DOMAIN m /\ WellTyped(m, root) /\ HasType(m, root, at, f.parent)
  BY GetMutFacts, GetMutTyped
<1> HIDE DEF m
<1>2. m[<<at, f.number>>].field = f
  BY <1>1, OwnField
<1> QED BY <1>1, <1>2 DEF m

LEMMA WithValueTyped ==
  ASSUME Message(slots), NEW root, WellTyped(slots, root), NEW at \in Seq(Int), NEW f \in Fields,
         HasType(slots, root, at, f.parent), NEW x,
         f.kind = "message" /\ f.card = "singular" => Message(x) /\ WellTyped(x, f.type)
  PROVE  WellTyped(WithValue(at, f, x), root)
<1> DEFINE m == GetMut(at, f)  own == <<at, f.number>>
           put(y) == [m EXCEPT ![own].value = y]
<1>1. Message(m) /\ own \in DOMAIN m /\ m[own].field = f
  BY OwnIs
<1>2. WellTyped(m, root)
  BY GetMutTyped
<1> HIDE DEF m, own
<1>3. ASSUME NEW y, f.card = "repeated" => y \in Seq(Range(y)) PROVE WellTyped(put(y), root)
  BY <1>1, <1>2, <1>3, PutTyped
<1>4. f.card \in {"singular", "repeated", "map"}
  BY Cards
<1>5. CASE f.card = "repeated"
  <2>1. m[own].value \in Seq(Range(m[own].value))
    BY <1>1, <1>2, <1>5 DEF WellTyped
  <2>2. WellTyped(put(Append(m[own].value, x)), root)
    BY <1>3, <2>1, Counted
  <2>3. WithValue(at, f, x) = put(Append(m[own].value, x))
    BY <1>5 DEF WithValue, m, own
  <2> QED BY ONLY <2>2, <2>3
<1>6. CASE f.card = "map"
  <2> DEFINE y == [k \in DOMAIN m[own].value \cup {x[1]} |-> IF k = x[1] THEN x[2] ELSE m[own].value[k]]
  <2>1. WithValue(at, f, x) = put(y)
    BY <1>6 DEF WithValue, m, own
  <2> HIDE DEF y
  <2>2. WellTyped(put(y), root)
    BY <1>3, <1>6
  <2> QED BY ONLY <2>1, <2>2
<1>7. CASE f.card = "singular" /\ f.kind = "message"
  <2>1. WithValue(at, f, x) = Grafted(at, f, x)
    BY <1>7 DEF WithValue
  <2> QED BY <1>7, <2>1, GraftedTyped
<1>8. CASE f.card = "singular" /\ f.kind # "message"
  <2>1. WithValue(at, f, x) = put(x)
    BY <1>8 DEF WithValue, m, own
  <2>2. WellTyped(put(x), root)
    BY <1>3, <1>8
  <2> QED BY ONLY <2>1, <2>2
<1> QED BY <1>4, <1>5, <1>6, <1>7, <1>8

-----------------------------------------------------------------------------
(* What shows after each call.                                             *)

LEMMA GetMutShows ==
  ASSUME Message(slots), NEW root, WellTyped(slots, root), NEW at \in Seq(Int), NEW f \in Fields,
         HasType(slots, root, at, f.parent), NEW slot
  PROVE  slot \in Shown(GetMut(at, f)) <=> \/ slot \in Shown(slots) /\ Kept(slot, at, f)
                                           \/ slot = <<at, f.number>> /\ f.presence
<1> DEFINE m == GetMut(at, f)  own == <<at, f.number>>
<1>1. /\ DOMAIN m = { s \in DOMAIN slots : Kept(s, at, f) } \cup {own}
      /\ \A s \in DOMAIN slots : Kept(s, at, f) => m[s] = slots[s]
      /\ own \notin DOMAIN slots => m[own] = [field |-> f, value |-> Default(f)]
  BY GetMutIs
<1>2. Kept(own, at, f)
  BY OwnKept
<1>3. own \in DOMAIN slots => slots[own].field = f
  BY OwnField
<1> HIDE DEF m, own
<1> SUFFICES slot \in Shown(m) <=> (slot \in Shown(slots) /\ Kept(slot, at, f)) \/ (slot = own /\ f.presence)
  BY DEF m, own
<1>4. slot \in Shown(m) <=> slot \in DOMAIN m /\ Shows(m[slot].field, m[slot].value)
  BY DEF Shown
<1>5. slot \in Shown(slots) <=> slot \in DOMAIN slots /\ Shows(slots[slot].field, slots[slot].value)
  BY DEF Shown
<1>6. CASE slot = own /\ own \notin DOMAIN slots
  <2>1. m[own].field = f /\ m[own].value = Default(f) /\ own \in DOMAIN m
    BY <1>1, <1>6
  <2>2. Shows(m[own].field, m[own].value) <=> f.presence
    BY <2>1 DEF Shows
  <2> QED BY <1>4, <1>5, <1>6, <2>1, <2>2
<1>7. CASE slot = own /\ own \in DOMAIN slots
  <2>1. m[own] = slots[own] /\ own \in DOMAIN m /\ slots[own].field = f
    BY <1>1, <1>2, <1>3, <1>7
  <2>2. f.presence => Shows(slots[own].field, slots[own].value)
    BY <2>1 DEF Shows
  <2> QED BY <1>2, <1>4, <1>5, <1>7, <2>1, <2>2
<1>8. CASE slot # own
  BY <1>1, <1>4, <1>5, <1>8
<1> QED BY <1>6, <1>7, <1>8

LEMMA PutShows ==
  ASSUME NEW m, Message(m), NEW own \in DOMAIN m, NEW y, NEW slot
  PROVE  slot \in Shown([m EXCEPT ![own].value = y]) <=>
           \/ slot \in Shown(m) /\ slot # own
           \/ slot = own /\ Shows(m[own].field, y)
<1> DEFINE n == [m EXCEPT ![own].value = y]
<1>1. /\ DOMAIN n = DOMAIN m /\ n[own] = [field |-> m[own].field, value |-> y]
      /\ \A s \in DOMAIN m : s # own => n[s] = m[s]
  BY PutIs
<1> HIDE DEF n
<1>2. n[own].field = m[own].field /\ n[own].value = y
  BY <1>1
<1>3. slot \in Shown(n) <=> slot \in DOMAIN n /\ Shows(n[slot].field, n[slot].value)
  BY DEF Shown
<1>4. slot \in Shown(m) <=> slot \in DOMAIN m /\ Shows(m[slot].field, m[slot].value)
  BY DEF Shown
<1>5. slot \in Shown(n) <=> (slot \in Shown(m) /\ slot # own) \/ (slot = own /\ Shows(m[own].field, y))
  BY <1>1, <1>2, <1>3, <1>4, Zenon
<1> QED BY <1>5 DEF n
\* The slots of a literal are shown where they are put, and what was there is gone.
LEMMA GraftedShows ==
  ASSUME NEW m, NEW n, NEW base, NEW literal, GraftedAs(n, m, base, literal), NEW slot
  PROVE  slot \in Shown(n) <=>
           \/ slot \in Shown(m) /\ ~IsPrefix(base, slot[1])
           \/ \E s \in DOMAIN literal : slot = There(base, s) /\ Shows(literal[s].field, literal[s].value)
<1>1. slot \in Shown(n) <=> slot \in DOMAIN n /\ Shows(n[slot].field, n[slot].value)
  BY DEF Shown
<1>2. slot \in Shown(m) <=> slot \in DOMAIN m /\ Shows(m[slot].field, m[slot].value)
  BY DEF Shown
<1>3. CASE slot \in DOMAIN m /\ ~IsPrefix(base, slot[1])
  <2>1. slot \in DOMAIN n /\ n[slot] = m[slot]
    BY <1>3 DEF GraftedAs
  <2>2. \A s \in DOMAIN literal : slot # There(base, s)
    BY <1>3 DEF GraftedAs
  <2> QED BY <1>1, <1>2, <1>3, <2>1, <2>2
<1>4. ASSUME ~(slot \in DOMAIN m /\ ~IsPrefix(base, slot[1]))
      PROVE  slot \in Shown(n) <=>
               \E s \in DOMAIN literal : slot = There(base, s) /\ Shows(literal[s].field, literal[s].value)
  <2>1. slot \in DOMAIN n <=> \E s \in DOMAIN literal : slot = There(base, s)
    BY <1>4 DEF GraftedAs
  <2>2. \A s \in DOMAIN literal : n[There(base, s)] = literal[s]
    BY DEF GraftedAs
  <2> QED BY <1>1, <2>1, <2>2, Zenon
<1>5. CASE ~(slot \in DOMAIN m /\ ~IsPrefix(base, slot[1]))
  BY <1>2, <1>4, <1>5
<1> QED BY <1>3, <1>5

\* What shows once a value is set: what a oneof has not lost, and the value.
Set(slot, at, f, x) ==
  \/ slot = <<at, f.number>> /\ (f.card # "singular" \/ Shows(f, x))
  \/ /\ f.card = "singular" /\ f.kind = "message"
     /\ \E s \in DOMAIN x : slot = There(Append(at, f.number), s) /\ Shows(x[s].field, x[s].value)

LEMMA WithValueShows ==
  ASSUME Message(slots), NEW root, WellTyped(slots, root), NEW at \in Seq(Int), NEW f \in Fields,
         HasType(slots, root, at, f.parent), f.card = "singular" => ~Has(at, f), NEW x,
         f.kind = "message" /\ f.card = "singular" => Message(x), NEW slot
  PROVE  slot \in Shown(WithValue(at, f, x)) <=>
           (slot \in Shown(slots) /\ Kept(slot, at, f)) \/ Set(slot, at, f, x)
<1> DEFINE m == GetMut(at, f)  own == <<at, f.number>>
           put(y) == [m EXCEPT ![own].value = y]
<1>1. Message(m) /\ own \in DOMAIN m /\ m[own].field = f
  BY OwnIs
<1>2. slot \in Shown(m) <=> (slot \in Shown(slots) /\ Kept(slot, at, f)) \/ (slot = own /\ f.presence)
  BY GetMutShows
<1>3. own \in Shown(slots) <=> Has(at, f)
  <2>1. own \in DOMAIN slots => slots[own].field = f
    BY OwnField
  <2> QED BY <2>1 DEF Shown, Has
<1>4. Kept(own, at, f)
  BY OwnKept
<1>5. f.card \in {"singular", "repeated", "map"}
  BY Cards
<1> HIDE DEF m, own
<1>6. ASSUME NEW y
      PROVE  slot \in Shown(put(y)) <=> (slot \in Shown(m) /\ slot # own) \/ (slot = own /\ Shows(f, y))
  BY <1>1, PutShows
<1>7. ASSUME NEW y, Shows(f, y), f.card # "singular"
      PROVE  slot \in Shown(put(y)) <=> (slot \in Shown(slots) /\ Kept(slot, at, f)) \/ Set(slot, at, f, x)
  <2>1. Set(slot, at, f, x) <=> slot = own
    BY <1>7 DEF Set, own
  <2> QED BY <1>2, <1>6, <1>7, <2>1
<1>8. CASE f.card = "repeated"
  <2>1. WithValue(at, f, x) = put(Append(m[own].value, x))
    BY <1>8 DEF WithValue, m, own
  <2>2. f.card # "singular"
    BY <1>8
  <2>3. Default(f) = << >>
    BY <1>8 DEF Default
  <2>4. Append(m[own].value, x) # << >>
    <3>1. m[own].value \in Seq(Range(m[own].value))
      BY <1>1, <1>8, GetMutTyped DEF WellTyped, m
    <3>2. Len(Append(m[own].value, x)) # 0
      BY <3>1, Counted
    <3>3. Len(<< >>) = 0
      OBVIOUS
    <3> QED BY ONLY <3>2, <3>3, Zenon
  <2>5. Shows(f, Append(m[own].value, x))
    BY ONLY <2>3, <2>4 DEF Shows
  <2> QED BY <1>7, <2>1, <2>2, <2>5
<1>9. CASE f.card = "map"
  <2> DEFINE y == [k \in DOMAIN m[own].value \cup {x[1]} |-> IF k = x[1] THEN x[2] ELSE m[own].value[k]]
  <2>1. WithValue(at, f, x) = put(y)
    BY <1>9 DEF WithValue, m, own
  <2>2. Default(f) = NoSlots /\ f.card # "singular"
    BY <1>9 DEF Default
  <2>3. x[1] \in DOMAIN y /\ x[1] \notin DOMAIN NoSlots
    BY DEF NoSlots
  <2>4. Shows(f, y)
    <3> HIDE DEF y
    <3> QED BY <2>2, <2>3 DEF Shows
  <2> HIDE DEF y
  <2> QED BY <1>7, <2>1, <2>2, <2>4
<1>10. CASE f.card = "singular" /\ f.kind # "message"
  <2>1. WithValue(at, f, x) = put(x)
    BY <1>10 DEF WithValue, m, own
  <2>2. Set(slot, at, f, x) <=> slot = own /\ Shows(f, x)
    BY <1>10 DEF Set, own
  <2>3. ~(own \in Shown(slots))
    BY <1>3, <1>10
  <2> QED BY <1>2, <1>6, <2>1, <2>2, <2>3
<1>11. CASE f.card = "singular" /\ f.kind = "message"
  <2> DEFINE base == Append(at, f.number)
  <2>1. WithValue(at, f, x) = Grafted(at, f, x)
    BY <1>11 DEF WithValue
  <2>2. GraftedAs(Grafted(at, f, x), m, base, x)
    BY <1>11, GraftedIs DEF m
  <2>3. f.presence /\ \A y : Shows(f, y)
    BY <1>11, Cards DEF Shows
  <2>4. own \notin DOMAIN slots
    BY <1>3, <1>11, <2>3 DEF Has, own
  <2>5. f.number \in Int
    BY FilesAssumption
  <2>6. \A s \in DOMAIN slots : ~IsPrefix(base, s[1])
    BY <2>4, <2>5, NothingBelow DEF own
  <2>7. ~IsPrefix(base, own[1])
    <3>1. own[1] = at /\ Len(base) = Len(at) + 1 /\ Len(at) \in Nat
      BY <2>5, PathAppended DEF own
    <3> QED BY <3>1 DEF IsPrefix
  <2>8. slot \in Shown(m) => ~IsPrefix(base, slot[1])
    BY <1>2, <2>6, <2>7 DEF Shown
  <2>9. Set(slot, at, f, x) <=> \/ slot = own
                                \/ \E s \in DOMAIN x : slot = There(base, s) /\ Shows(x[s].field, x[s].value)
    BY <1>11, <2>3 DEF Set, own
  <2>10. slot \in Shown(Grafted(at, f, x)) <=>
           \/ slot \in Shown(m) /\ ~IsPrefix(base, slot[1])
           \/ \E s \in DOMAIN x : slot = There(base, s) /\ Shows(x[s].field, x[s].value)
    <3> HIDE DEF base
    <3> QED BY <2>2, GraftedShows
  <2> HIDE DEF base
  <2> QED BY <1>2, <2>1, <2>3, <2>8, <2>9, <2>10
<1> QED BY <1>5, <1>8, <1>9, <1>10, <1>11
-----------------------------------------------------------------------------
(* A name followed one field further.                                      *)

\* What one more field adds to a chain.
Extends(d, c, f) ==
  /\ d \in Seq(Fields) /\ Len(c) \in Nat /\ Len(d) = Len(c) + 1 /\ d[Len(c) + 1] = f /\ \A k \in 1..Len(c) : d[k] = c[k]
  /\ Numbers(d) = Append(Numbers(c), f.number)
  /\ SlotAt(d, Len(c) + 1) = <<Numbers(c), f.number>> /\ \A k \in 1..Len(c) : SlotAt(d, k) = SlotAt(c, k)

LEMMA ChainAppended ==
  ASSUME NEW c \in Seq(Fields), NEW f \in Fields
  PROVE  Extends(Append(c, f), c, f)
<1> DEFINE d == Append(c, f)
<1>1. d \in Seq(Fields) /\ Len(c) \in Nat /\ Len(d) = Len(c) + 1 /\ d[Len(c) + 1] = f /\ \A k \in 1..Len(c) : d[k] = c[k]
  OBVIOUS
<1> HIDE DEF d
<1>2. f.number \in Int
  BY FilesAssumption
<1>3. Numbers(c) \in Seq(Int) /\ Len(Numbers(c)) = Len(c) /\ \A k \in 1..Len(c) : Numbers(c)[k] = c[k].number
  BY NumbersAre
<1>4. Numbers(d) \in Seq(Int) /\ Len(Numbers(d)) = Len(d) /\ \A k \in 1..Len(d) : Numbers(d)[k] = d[k].number
  BY <1>1, NumbersAre
<1>5. Numbers(d) = Append(Numbers(c), f.number)
  <2>1. /\ Append(Numbers(c), f.number) \in Seq(Int) /\ Len(Append(Numbers(c), f.number)) = Len(Numbers(c)) + 1
        /\ \A i \in 1..Len(Numbers(c)) : Append(Numbers(c), f.number)[i] = Numbers(c)[i]
        /\ Append(Numbers(c), f.number)[Len(Numbers(c)) + 1] = f.number
    BY <1>2, <1>3, PathAppended
  <2>2. ASSUME NEW i \in 1..Len(Numbers(d)) PROVE Numbers(d)[i] = Append(Numbers(c), f.number)[i]
    <3>1. i \in 1..Len(c) \/ i = Len(c) + 1
      BY <1>1, <1>4
    <3>2. Numbers(d)[i] = d[i].number
      BY <1>4
    <3>3. CASE i \in 1..Len(c)
      <4>1. Append(Numbers(c), f.number)[i] = Numbers(c)[i]
        BY <1>3, <2>1, <3>3
      <4> QED BY <1>1, <1>3, <3>2, <3>3, <4>1
    <3>4. CASE i = Len(c) + 1
      <4>1. Append(Numbers(c), f.number)[i] = f.number
        BY <1>3, <2>1, <3>4
      <4> QED BY <1>1, <3>2, <3>4, <4>1
    <3> QED BY <3>1, <3>3, <3>4
  <2> QED BY <1>1, <1>3, <1>4, <2>1, <2>2, SamePath
<1>6. ASSUME NEW k \in 1..(Len(c) + 1) PROVE [i \in 1..(k - 1) |-> d[i].number] = [i \in 1..(k - 1) |-> c[i].number]
  BY <1>1
<1>7. \A k \in 1..Len(c) : SlotAt(d, k) = SlotAt(c, k)
  BY <1>1, <1>6 DEF SlotAt
<1>8. SlotAt(d, Len(c) + 1) = <<Numbers(c), f.number>>
  <2>1. (Len(c) + 1) - 1 = Len(c) /\ Len(c) + 1 \in 1..(Len(c) + 1)
    BY <1>1
  <2>2. [i \in 1..((Len(c) + 1) - 1) |-> d[i].number] = Numbers(c)
    BY <1>6, <2>1 DEF Numbers
  <2> QED BY <1>1, <2>2 DEF SlotAt
<1>9. Extends(d, c, f)
  BY <1>1, <1>5, <1>7, <1>8 DEF Extends
<1> QED BY <1>9 DEF d

LEMMA RemovedNext ==
  ASSUME NEW c \in Seq(Fields), NEW f \in Fields, NEW d, Extends(d, c, f), NEW slot
  PROVE  RemovedBy(d, slot) <=> RemovedBy(c, slot) \/ ~Kept(slot, Numbers(c), f)
<1> DEFINE R(e, k) == \E g \in Rivals(e[k]) : Within(slot, SlotAt(e, k)[1], g.number)
<1>1. 1..Len(d) = 1..Len(c) \cup {Len(c) + 1}
  BY DEF Extends
<1>2. \A k \in 1..Len(c) : R(d, k) <=> R(c, k)
  BY DEF Extends
<1>3. R(d, Len(c) + 1) <=> ~Kept(slot, Numbers(c), f)
  BY DEF Extends, Kept
<1>4. (RemovedBy(d, slot) <=> \E k \in 1..Len(d) : R(d, k)) /\ (RemovedBy(c, slot) <=> \E k \in 1..Len(c) : R(c, k))
  BY DEF RemovedBy
<1> HIDE DEF R
<1> QED BY <1>1, <1>2, <1>3, <1>4

\* The messages on the way stay when a field in the last of them is set.
LEMMA WayKept ==
  ASSUME NEW c \in Seq(Fields), NEW f \in Fields, NEW j \in 1..Len(c)
  PROVE  Kept(SlotAt(c, j), Numbers(c), f)
<1> DEFINE d == Append(c, f)
<1>1. Extends(d, c, f)
  BY ChainAppended
<1> HIDE DEF d
<1>2. d \in Seq(Fields) /\ j \in 1..Len(d) /\ Len(c) + 1 \in 1..Len(d) /\ d[Len(c) + 1] = f
      /\ SlotAt(d, j) = SlotAt(c, j) /\ SlotAt(d, Len(c) + 1)[1] = Numbers(c)
  BY <1>1 DEF Extends
<1>3. ASSUME NEW g \in Rivals(f) PROVE ~Within(SlotAt(c, j), Numbers(c), g.number)
  <2>1. g \in Rivals(d[Len(c) + 1])
    BY <1>2
  <2>2. ~Within(SlotAt(d, j), SlotAt(d, Len(c) + 1)[1], g.number)
    BY <1>2, <2>1, ChainStays
  <2> QED BY <1>2, <2>2
<1> QED BY <1>3 DEF Kept

\* What shows and is no rival of the next field is on the way to it, or showed
\* already and is removed by no field on the way.
LEMMA Passed ==
  ASSUME NEW c \in Seq(Fields), Account(c), NEW f \in Fields, NEW d, Extends(d, c, f), NEW slot \in PathSlots
  PROVE  slot \in Shown(slots) /\ Kept(slot, Numbers(c), f) <=>
           \/ \E k \in 1..Len(c) : slot = SlotAt(c, k)
           \/ Already(Node, cursor.option, slot) /\ ~RemovedBy(d, slot)
<1>1. slot \in Shown(slots) <=> \/ \E k \in 1..Len(c) : slot = SlotAt(c, k)
                                \/ Already(Node, cursor.option, slot) /\ ~RemovedBy(c, slot)
  BY DEF Account
<1>2. RemovedBy(d, slot) <=> RemovedBy(c, slot) \/ ~Kept(slot, Numbers(c), f)
  BY RemovedNext
<1>3. (\E k \in 1..Len(c) : slot = SlotAt(c, k)) => Kept(slot, Numbers(c), f)
  BY WayKept
<1> QED BY <1>1, <1>2, <1>3
-----------------------------------------------------------------------------
(* The node, its options, and the fields that a part names.                *)

Sound(message, type) == Message(message) /\ WellTyped(message, type)
SoundNode ==
  LET count == Len(Node.uninterpreted)
  IN /\ Len(options) \in Nat /\ Len(file.nodes) \in Nat /\ DOMAIN file.nodes = 1..Len(file.nodes)
     /\ Len(options) + 1 \in DOMAIN file.nodes
     /\ count \in Nat /\ DOMAIN Node.uninterpreted = 1..count
     /\ Sound(Node.encoded, OptionsType(Node.kind))
     /\ \A i \in 1..count : LET name == Node.uninterpreted[i].name IN name \in Seq(Range(name))
     /\ \A i \in 1..count : \A f \in Fields :
          LET v == Node.uninterpreted[i].value
          IN f.kind = "message" /\ v.is = "aggregate" /\ v.type = f.type => Sound(v.value, f.type)

LEMMA NodeIsSound ==
  ASSUME IInv, Len(options) < Len(file.nodes)
  PROVE  SoundNode
<1>1. Len(options) \in Nat /\ file \in Files /\ file.nodes \in Seq(Range(file.nodes))
  BY FilesAssumption DEF IInv
<1>2. Len(options) + 1 \in DOMAIN file.nodes /\ DOMAIN file.nodes = 1..Len(file.nodes) /\ Len(file.nodes) \in Nat
  BY <1>1
<1>3. Node.uninterpreted \in Seq(Range(Node.uninterpreted))
  BY <1>1, <1>2, FilesAssumption DEF Node
<1>4. DOMAIN Node.uninterpreted = 1..Len(Node.uninterpreted) /\ Len(Node.uninterpreted) \in Nat
  BY <1>3
<1>5. \A x \in Files : \A n \in DOMAIN x.nodes :
        /\ WellTyped(x.nodes[n].encoded, OptionsType(x.nodes[n].kind))
        /\ \A i \in DOMAIN x.nodes[n].uninterpreted :
             /\ x.nodes[n].uninterpreted[i].name \in Seq(Range(x.nodes[n].uninterpreted[i].name))
             /\ \A f \in Fields :
                  f.kind = "message" /\ x.nodes[n].uninterpreted[i].value.is = "aggregate"
                  /\ x.nodes[n].uninterpreted[i].value.type = f.type
                  => WellTyped(x.nodes[n].uninterpreted[i].value.value, f.type)
  BY TypesAssumption, Zenon
<1>6. /\ WellTyped(Node.encoded, OptionsType(Node.kind))
      /\ \A i \in 1..Len(Node.uninterpreted) :
           /\ Node.uninterpreted[i].name \in Seq(Range(Node.uninterpreted[i].name))
           /\ \A f \in Fields :
                f.kind = "message" /\ Node.uninterpreted[i].value.is = "aggregate"
                /\ Node.uninterpreted[i].value.type = f.type
                => WellTyped(Node.uninterpreted[i].value.value, f.type)
  BY ONLY <1>1, <1>2, <1>4, <1>5, Zenon DEF Node
<1>7. /\ Message(Node.encoded)
      /\ \A i \in 1..Len(Node.uninterpreted) : \A f \in Fields :
           LET v == Node.uninterpreted[i].value
           IN f.kind = "message" /\ v.is = "aggregate" /\ v.type = f.type => Message(v.value)
  BY NodeFacts
<1> QED BY ONLY <1>1, <1>2, <1>4, <1>6, <1>7, Zenon DEF SoundNode, Sound

\* A part names at most one field, where the cursor is.
LEMMA OneNamed ==
  ASSUME NEW f \in Named, NEW g \in Named
  PROVE  f = g
<1>1. f \in Fields /\ g \in Fields /\ f.parent = g.parent /\ f.name = g.name /\ f.ext = g.ext
  BY DEF Named, Candidates
<1>2. \A h, k \in Fields : h.parent = k.parent /\ (h.number = k.number \/ (h.name = k.name /\ h.ext = k.ext)) => h = k
  BY TypesAssumption, Zenon
<1> QED BY ONLY <1>1, <1>2, Zenon

\* The chains of the name have named fields.
LEMMA ChainsNamed ==
  ASSUME SoundNode, AtPart, cursor.part \in Nat \ {0}, cursor.option \in Nat \ {0},
         NEW c, Walked(c), NEW d \in Chains(Node, Option.name)
  PROVE  /\ Walk(Node, Option.name, d) /\ Len(d) = Len(Option.name)
         /\ d[cursor.part] \in Named /\ \A k \in 1..(cursor.part - 1) : d[k] = c[k]
<1>1. Option.name \in Seq(Range(Option.name)) /\ Len(Option.name) \in Nat
  BY SMTT(60) DEF SoundNode, AtPart, Option
<1>2. Walk(Node, Option.name, d) /\ Len(d) = Len(Option.name)
  BY <1>1, ChainsAre
<1>3. cursor.part <= Len(Option.name) /\ Walk(Node, Option.name, c) /\ Len(c) = cursor.part - 1
      /\ cursor.type = IF c = << >> THEN OptionsType(Node.kind) ELSE c[Len(c)].type
  BY DEF AtPart, Walked
<1>4. \A k \in 1..Len(c) : c[k] = d[k]
  <2>1. Len(c) <= Len(d)
    BY <1>1, <1>2, <1>3
  <2> QED BY <1>2, <1>3, <2>1, WalksAgree
<1>5. cursor.part \in 1..Len(d) /\ d \in Seq(Fields) /\ c \in Seq(Fields)
  BY <1>1, <1>2, <1>3 DEF Walk
<1> DEFINE g == d[cursor.part]
<1>6. g \in Fields /\ g.name = Part.name /\ g.ext = Part.ext
  BY <1>2, <1>5 DEF Walk, Part
<1>7. g.parent = IF cursor.part = 1 THEN OptionsType(Node.kind) ELSE d[cursor.part - 1].type
  BY <1>2, <1>5 DEF Walk
<1>8. g.parent = cursor.type
  <2>1. CASE cursor.part = 1
    <3>1. c = << >>
      BY <1>3, <1>5, <2>1
    <3> QED BY <1>3, <1>7, <2>1, <3>1
  <2>2. CASE cursor.part # 1
    <3>1. c # << >> /\ cursor.part - 1 = Len(c) /\ Len(c) \in 1..Len(c)
      BY <1>3, <1>5, <2>2
    <3>2. d[Len(c)] = c[Len(c)]
      BY <1>4, <3>1
    <3> QED BY <1>3, <1>7, <2>2, <3>1, <3>2
  <2> QED BY <2>1, <2>2
<1> HIDE DEF g
<1>9. g \in Named
  BY <1>6, <1>8 DEF Named, Candidates
<1> QED BY <1>2, <1>3, <1>4, <1>9 DEF g
-----------------------------------------------------------------------------
(* Each step keeps what is known of the verdict.                           *)

LEMMA NoWay ==
  /\ << >> \in Seq(Fields) /\ Len(<< >>) = 0 /\ Numbers(<< >>) = << >>
  /\ \A node, name : Walk(node, name, << >>)
  /\ \A slot : ~RemovedBy(<< >>, slot)
<1>1. << >> \in Seq(Fields) /\ Len(<< >>) = 0 /\ 1..0 = {}
  OBVIOUS
<1>2. Numbers(<< >>) = << >>
  BY <1>1 DEF Numbers
<1> QED BY <1>1, <1>2 DEF Walk, RemovedBy

InOption == phase = "option" /\ cursor.option \in 1..Len(Node.uninterpreted)

LEMMA FailsVerdict ==
  ASSUME VInv, SoundNode, InOption, NEW kind, NEW message, Fails(kind, message),
         Sound(message, OptionsType(Node.kind)), FitsIn(message),
         errors = {} => ~ValidOption(Node, cursor.option)
  PROVE  Verdicts'
<1>1. /\ phase' = phase /\ options' = options /\ file' = file /\ errors' = errors \cup {kind} /\ slots' = message
      /\ cursor' = AtRoot(cursor.option + 1)
  BY DEF Fails, visited
<1>2. /\ cursor'.option = cursor.option + 1 /\ cursor'.part = 1 /\ cursor'.at = << >>
      /\ cursor'.type = OptionsType(Node.kind)
  BY <1>1 DEF AtRoot
<1>3. Node' = Node
  BY <1>1 DEF Node
<1>4. cursor.option \in Nat /\ cursor.option <= Len(Node.uninterpreted) /\ Len(Node.uninterpreted) \in Nat
  BY DEF InOption, SoundNode
<1>5. Walks'
  <2>1. Bounded'
    BY <1>2, <1>3, <1>4 DEF Bounded
  <2>2. Typed'
    BY <1>1, <1>2, <1>3 DEF Typed, HasType, Sound
  <2>3. errors' # {}
    BY <1>1
  <2> QED BY <2>1, <2>2, <2>3 DEF Walks
<1>6. \E n \in DOMAIN file.nodes : ~Valid(file.nodes[n])
  <2>1. CASE errors = {}
    <3>1. ~Valid(Node)
      BY <2>1 DEF Valid, SoundNode, InOption
    <3> QED BY <3>1 DEF SoundNode, Node
  <2>2. CASE errors # {}
    BY <2>2 DEF VInv, Verdicts, Valids
  <2> QED BY <2>1, <2>2
<1>7. Valids'
  BY <1>1, <1>6 DEF Valids, InOption
<1>8. OptionsMatch'
  BY <1>1, OptionsStillMatch DEF VInv, Verdicts, InOption
<1>9. Fits'
  BY <1>1 DEF Fits, FitsIn, Given
<1> QED BY <1>5, <1>7, <1>8, <1>9 DEF Verdicts

LEMMA InterpretedVerdict ==
  ASSUME VInv, SoundNode, InOption, NEW rest, Interpreted(rest),
         Sound(slots', OptionsType(Node.kind)), FitsIn(slots'),
         errors = {} => /\ ValidOption(Node, cursor.option)
                        /\ \A slot \in PathSlots :
                             slot \in Shown(slots') <=> Already(Node, cursor.option + 1, slot)
  PROVE  Verdicts'
<1>1. /\ phase' = phase /\ options' = options /\ file' = file /\ errors' = errors
      /\ cursor' = AtRoot(cursor.option + 1)
  BY DEF Interpreted, visited
<1>2. /\ cursor'.option = cursor.option + 1 /\ cursor'.part = 1 /\ cursor'.at = << >>
      /\ cursor'.type = OptionsType(Node.kind)
  BY <1>1 DEF AtRoot
<1>3. Node' = Node
  BY <1>1 DEF Node
<1>4. cursor.option \in Nat \ {0} /\ cursor.option <= Len(Node.uninterpreted) /\ Len(Node.uninterpreted) \in Nat
  BY DEF InOption, SoundNode
<1>5. Walks'
  <2>1. Bounded'
    BY <1>2, <1>3, <1>4 DEF Bounded
  <2>2. Typed'
    BY <1>1, <1>2, <1>3 DEF Typed, HasType, Sound
  <2>3. ASSUME errors' = {} PROVE (\E c \in Seq(Fields) : Walked(c) /\ Account(c))'
    <3>1. \A slot \in PathSlots : slot \in Shown(slots') <=> Already(Node', cursor'.option, slot)
      BY <1>1, <1>2, <1>3, <2>3
    <3>2. Walked(<< >>)'
      <4>1. Walk(Node, Option.name, << >>)'
        BY NoWay
      <4>2. Len(<< >>) = cursor'.part - 1 /\ cursor'.at = Numbers(<< >>)
        BY <1>2, NoWay
      <4>3. cursor'.type = OptionsType(Node'.kind)
        BY <1>2, <1>3
      <4> QED BY ONLY <4>1, <4>2, <4>3, Zenon DEF Walked
    <3>3. Account(<< >>)'
      BY <3>1, NoWay DEF Account
    <3> QED BY <3>2, <3>3, NoWay
  <2> QED BY <2>1, <2>2, <2>3 DEF Walks
<1>6. Valids'
  <2>1. ASSUME errors = {} PROVE ValidSoFar'
    <3>1. ValidSoFar
      BY <2>1 DEF VInv, Verdicts, Valids
    <3>2. 1..(cursor'.option - 1) = 1..(cursor.option - 1) \cup {cursor.option}
      BY <1>2, <1>4
    <3>3. \A i \in 1..(cursor'.option - 1) : ValidOption(Node, i)
      BY <2>1, <3>1, <3>2 DEF ValidSoFar, InOption
    <3> QED BY <1>1, <1>3, <3>1, <3>3 DEF ValidSoFar, InOption
  <2> QED BY <1>1, <2>1 DEF Valids, VInv, Verdicts, InOption
<1>7. OptionsMatch'
  BY <1>1, OptionsStillMatch DEF VInv, Verdicts, InOption
<1>8. Fits'
  BY <1>1 DEF Fits, FitsIn, Given
<1> QED BY <1>5, <1>6, <1>7, <1>8 DEF Verdicts
\* The default of a field fits it.
LEMMA DefaultFits ==
  ASSUME NEW f \in Fields
  PROVE  ValueFits(f, Default(f))
<1>1. \A kind \in Integral : 0 \in Width(kind)
  BY TypesAssumption, Zenon
<1>2. CASE f.card # "singular"
  BY <1>2 DEF ValueFits
<1>3. CASE f.card = "singular" /\ f.kind \in Integral
  <2>1. f.kind # "bool" /\ f.kind # "string" /\ f.kind # "bytes" /\ f.kind # "message"
    BY <1>3 DEF Integral
  <2>2. Default(f) = 0
    BY <1>3, <2>1 DEF Default
  <2>3. Default(f) \in Width(f.kind)
    BY ONLY <1>1, <1>3, <2>2, Zenon
  <2>4. f.kind # "enum"
    BY <1>3 DEF Integral
  <2> QED BY <1>3, <2>3, <2>4 DEF ValueFits
<1>4. CASE f.card = "singular" /\ f.kind \notin Integral
  <2>1. f.kind = "enum" => Default(f) = 0
    BY <1>4 DEF Default
  <2> QED BY <1>4, <2>1 DEF ValueFits
<1> QED BY <1>2, <1>3, <1>4

LEMMA GetMutFits ==
  ASSUME Message(slots), NEW at \in Seq(Int), NEW f \in Fields, FitsIn(slots)
  PROVE  FitsIn(GetMut(at, f))
<1> DEFINE m == GetMut(at, f)  own == <<at, f.number>>
<1>1. /\ DOMAIN m = { s \in DOMAIN slots : Kept(s, at, f) } \cup {own}
      /\ \A s \in DOMAIN slots : Kept(s, at, f) => m[s] = slots[s]
      /\ own \notin DOMAIN slots => m[own] = [field |-> f, value |-> Default(f)]
  BY GetMutIs
<1>2. Kept(own, at, f)
  BY OwnKept
<1> HIDE DEF m, own
<1>3. ASSUME NEW s \in DOMAIN m PROVE ValueFits(m[s].field, m[s].value) \/ Given(m[s])
  <2>1. CASE s \in DOMAIN slots
    BY <1>1, <1>2, <2>1 DEF FitsIn
  <2>2. CASE s \notin DOMAIN slots
    <3>1. m[s].field = f /\ m[s].value = Default(f)
      BY <1>1, <2>2
    <3> QED BY <3>1, DefaultFits
  <2> QED BY <2>1, <2>2
<1> QED BY <1>3 DEF FitsIn, m

LEMMA PutFits ==
  ASSUME NEW m, Message(m), FitsIn(m), NEW own \in DOMAIN m, NEW y, ValueFits(m[own].field, y)
  PROVE  FitsIn([m EXCEPT ![own].value = y])
<1> DEFINE n == [m EXCEPT ![own].value = y]
<1>1. /\ DOMAIN n = DOMAIN m /\ n[own] = [field |-> m[own].field, value |-> y]
      /\ \A s \in DOMAIN m : s # own => n[s] = m[s]
  BY PutIs
<1> HIDE DEF n
<1>2. n[own].field = m[own].field /\ n[own].value = y
  BY <1>1
<1>3. ASSUME NEW s \in DOMAIN n PROVE ValueFits(n[s].field, n[s].value) \/ Given(n[s])
  <2>1. CASE s = own
    BY <1>2, <2>1
  <2>2. CASE s # own
    BY <1>1, <2>2 DEF FitsIn
  <2> QED BY <2>1, <2>2
<1> QED BY <1>3 DEF FitsIn, n

\* A value that is converted fits its field.
LEMMA ConvertedFits ==
  ASSUME NEW f \in Fields, NEW v, NEW x \in Converted(f, v), f.kind # "message" \/ f.card # "singular"
  PROVE  ValueFits(f, x)
<1>1. CASE f.card # "singular"
  BY <1>1 DEF ValueFits
<1>2. CASE f.card = "singular" /\ f.kind \in Integral
  <2>1. x \in Width(f.kind)
    <3>1. f.kind # "bool" /\ f.kind # "double" /\ f.kind # "string" /\ f.kind # "bytes" /\ f.kind # "enum"
      BY <1>2 DEF Integral
    <3>2. Converted(f, v) = IF v.is \in {"positive", "negative"} THEN {v.value} \cap Width(f.kind) ELSE {}
      BY <1>2, <3>1 DEF Converted
    <3> QED BY <3>2
  <2>2. f.kind # "enum"
    BY <1>2 DEF Integral
  <2> QED BY <1>2, <2>1, <2>2 DEF ValueFits
<1>3. CASE f.card = "singular" /\ f.kind = "enum"
  <2>1. f.kind \notin Integral
    BY <1>3 DEF Integral
  <2>2. \E n \in DOMAIN EnumOf[f.type] : x = EnumOf[f.type][n]
    BY <1>3, <2>1 DEF Converted
  <2> QED BY <1>3, <2>1, <2>2 DEF ValueFits
<1>4. CASE f.card = "singular" /\ f.kind # "enum" /\ f.kind \notin Integral
  BY <1>4 DEF ValueFits
<1> QED BY <1>1, <1>2, <1>3, <1>4

LEMMA WithValueFits ==
  ASSUME Message(slots), FitsIn(slots), NEW root, WellTyped(slots, root), NEW at \in Seq(Int), NEW f \in Fields,
         HasType(slots, root, at, f.parent), NEW v, NEW x \in Converted(f, v),
         f.kind = "message" /\ f.card = "singular" => Message(x) /\ \A s \in DOMAIN x : Given(x[s])
  PROVE  FitsIn(WithValue(at, f, x))
<1> DEFINE m == GetMut(at, f)  own == <<at, f.number>>
           put(y) == [m EXCEPT ![own].value = y]
<1>1. Message(m) /\ own \in DOMAIN m /\ m[own].field = f
  BY OwnIs
<1>2. FitsIn(m)
  BY GetMutFits
<1>3. f.card \in {"singular", "repeated", "map"}
  BY Cards
<1> HIDE DEF m, own
<1>4. ASSUME NEW y, ValueFits(f, y) PROVE FitsIn(put(y))
  BY <1>1, <1>2, <1>4, PutFits
<1>5. CASE f.card = "repeated"
  <2>1. WithValue(at, f, x) = put(Append(m[own].value, x))
    BY <1>5 DEF WithValue, m, own
  <2>2. ValueFits(f, Append(m[own].value, x))
    BY <1>5 DEF ValueFits
  <2>3. FitsIn(put(Append(m[own].value, x)))
    BY <1>4, <2>2
  <2> QED BY ONLY <2>1, <2>3
<1>6. CASE f.card = "map"
  <2> DEFINE y == [k \in DOMAIN m[own].value \cup {x[1]} |-> IF k = x[1] THEN x[2] ELSE m[own].value[k]]
  <2>1. WithValue(at, f, x) = put(y)
    BY <1>6 DEF WithValue, m, own
  <2> HIDE DEF y
  <2>2. FitsIn(put(y))
    BY <1>4, <1>6 DEF ValueFits
  <2> QED BY ONLY <2>1, <2>2
<1>7. CASE f.card = "singular" /\ f.kind # "message"
  <2>1. WithValue(at, f, x) = put(x)
    BY <1>7 DEF WithValue, m, own
  <2>2. FitsIn(put(x))
    BY <1>4, <1>7, ConvertedFits
  <2> QED BY ONLY <2>1, <2>2
<1>8. CASE f.card = "singular" /\ f.kind = "message"
  <2> DEFINE n == Grafted(at, f, x)  base == Append(at, f.number)
  <2>1. WithValue(at, f, x) = n
    BY <1>8 DEF WithValue
  <2>2. GraftedAs(n, m, base, x)
    BY <1>8, GraftedIs DEF m
  <2> HIDE DEF n, base
  <2>3. ASSUME NEW s \in DOMAIN n PROVE ValueFits(n[s].field, n[s].value) \/ Given(n[s])
    <3>1. CASE s \in DOMAIN m /\ ~IsPrefix(base, s[1])
      BY <1>2, <2>2, <3>1 DEF GraftedAs, FitsIn
    <3>2. CASE ~(s \in DOMAIN m /\ ~IsPrefix(base, s[1]))
      BY <1>8, <2>2, <3>2 DEF GraftedAs
    <3> QED BY <3>1, <3>2
  <2> QED BY <2>1, <2>3 DEF FitsIn
<1> QED BY <1>3, <1>5, <1>6, <1>7, <1>8
\* What is known where a part is read.
InPart ==
  /\ IInv /\ SoundNode /\ InOption /\ Sound(slots, OptionsType(Node.kind)) /\ cursor.at \in Seq(Int)
  /\ cursor.part \in Nat \ {0} /\ cursor.option \in Nat \ {0}
  /\ HasType(slots, OptionsType(Node.kind), cursor.at, cursor.type) /\ FitsIn(slots)
  /\ errors = {} => \E c \in Seq(Fields) : Walked(c) /\ Account(c)

LEMMA PartFacts ==
  ASSUME VInv, AtPart
  PROVE  InPart
<1>1. IInv /\ Walks /\ phase = "option" /\ FitsIn(slots)
  BY DEF VInv, Verdicts, AtPart, Fits
<1>2. cursor.option \in Nat \ {0} /\ cursor.part \in Nat \ {0} /\ cursor.at \in Seq(Int) /\ Message(slots)
      /\ Len(options) < Len(file.nodes)
  BY <1>1 DEF IInv
<1>3. SoundNode
  BY <1>1, <1>2, NodeIsSound
<1>4. InOption
  BY <1>1, <1>2, <1>3 DEF AtPart, InOption, SoundNode
<1>5. Typed /\ (errors = {} => \E c \in Seq(Fields) : Walked(c) /\ Account(c))
  BY <1>1 DEF Walks
<1> QED BY <1>1, <1>2, <1>3, <1>4, <1>5 DEF InPart, Typed, Sound

LEMMA NotFoundVerdict ==
  ASSUME VInv, NotFound
  PROVE  Verdicts'
<1>1. InPart /\ AtPart /\ Named = {}
  BY PartFacts DEF NotFound
<1>2. ASSUME errors = {} PROVE ~ValidOption(Node, cursor.option)
  <2>1. PICK c \in Seq(Fields) : Walked(c)
    BY <1>1, <1>2 DEF InPart
  <2>2. \A d \in Chains(Node, Option.name) : FALSE
    BY <1>1, <2>1, ChainsNamed DEF InPart
  <2>3. Option.name # << >>
    <3>1. cursor.part <= Len(Option.name) /\ cursor.part \in Nat \ {0}
      BY <1>1 DEF AtPart, InPart
    <3>2. Len(<< >>) = 0
      OBVIOUS
    <3>3. Len(Option.name) # 0
      BY <3>1
    <3> QED BY ONLY <3>2, <3>3, Zenon
  <2> QED BY <2>2, <2>3 DEF ValidOption, Option
<1>3. PICK kind : Fails(kind, slots)
  BY DEF NotFound
<1> QED BY <1>1, <1>2, <1>3, FailsVerdict DEF InPart
\* An option with no name changes nothing and is valid.
LEMMA NoNameVerdict ==
  ASSUME VInv, NoName
  PROVE  Verdicts'
<1>1. IInv /\ Walks /\ phase = "option" /\ FitsIn(slots) /\ Option.name = << >> /\ slots' = slots
  BY DEF VInv, Verdicts, NoName, Fits
<1>2. cursor.option \in Nat \ {0} /\ cursor.part \in Nat \ {0} /\ Message(slots) /\ Len(options) < Len(file.nodes)
  BY <1>1 DEF IInv
<1>3. SoundNode
  BY <1>1, <1>2, NodeIsSound
<1>4. InOption
  BY <1>1, <1>2, <1>3 DEF NoName, InOption, SoundNode
<1>5. Typed /\ Bounded /\ (errors = {} => \E c \in Seq(Fields) : Walked(c) /\ Account(c))
  BY <1>1 DEF Walks
<1>6. cursor.part = 1
  <2>1. Len(Option.name) = 0
    BY <1>1
  <2> QED BY <1>2, <1>5, <2>1 DEF Bounded
<1>7. ASSUME errors = {}, NEW slot \in PathSlots
      PROVE  slot \in Shown(slots') <=> Already(Node, cursor.option + 1, slot)
  <2> DEFINE i == cursor.option
  <2>1. PICK c \in Seq(Fields) : Walked(c) /\ Account(c)
    BY <1>5, <1>7
  <2>2. c = << >>
    BY <1>6, <2>1 DEF Walked
  <2>3. slot \in Shown(slots) <=> Already(Node, i, slot)
    <3>1. Account(<< >>)
      BY <2>1, <2>2
    <3> QED BY <3>1, NoWay DEF Account
  <2>4. ChainOf(Node, i) = << >>
    <3>1. Node.uninterpreted[i].name = << >>
      BY <1>1 DEF Option
    <3>2. << >> \in Seq(Range(<< >>)) /\ Len(<< >>) = 0
      OBVIOUS
    <3>3. Walk(Node, Node.uninterpreted[i].name, << >>)
      BY NoWay
    <3>4. /\ Node.uninterpreted[i].name \in Seq(Range(Node.uninterpreted[i].name))
          /\ Len(<< >>) = Len(Node.uninterpreted[i].name)
      BY ONLY <3>1, <3>2, Zenon
    <3> HIDE DEF i
    <3> QED BY ONLY <3>3, <3>4, ChainOfIs
  <2>5. ~Removes(Node, i, slot)
    BY <2>4 DEF Removes
  <2>6. ~Gives(Node, i, slot)
    <3>1. 1..(Len(<< >>) - 1) = {}
      OBVIOUS
    <3> QED BY <2>4, <3>1 DEF Gives
  <2>7. Already(Node, i + 1, slot) <=> (Already(Node, i, slot) /\ ~Removes(Node, i, slot)) \/ Gives(Node, i, slot)
    BY <1>2, AlreadyNext
  <2> QED BY <1>1, <2>3, <2>5, <2>6, <2>7
<1>8. ValidOption(Node, cursor.option)
  BY <1>1 DEF ValidOption, Option
<1>9. Interpreted(<< >>) /\ Sound(slots', OptionsType(Node.kind)) /\ FitsIn(slots')
  BY <1>1, <1>2, <1>5 DEF NoName, Typed, Sound
<1> QED BY <1>3, <1>4, <1>7, <1>8, <1>9, InterpretedVerdict

\* The chain with the field that the part names.
LEMMA Longer ==
  ASSUME InPart, AtPart, NEW c \in Seq(Fields), Walked(c), NEW f \in Named,
         cursor.part < Len(Option.name) => f.kind = "message" /\ f.card = "singular"
  PROVE  Extends(Append(c, f), c, f) /\ Walk(Node, Option.name, Append(c, f)) /\ cursor.at = Numbers(c)
<1> DEFINE d == Append(c, f)
<1>1. f \in Fields /\ f.name = Part.name /\ f.ext = Part.ext /\ f.parent = cursor.type
  BY DEF Named, Candidates
<1>2. Extends(d, c, f)
  BY <1>1, ChainAppended
<1> HIDE DEF d
<1>3. d \in Seq(Fields) /\ Len(c) \in Nat /\ Len(d) = Len(c) + 1 /\ d[Len(c) + 1] = f /\ \A k \in 1..Len(c) : d[k] = c[k]
  BY <1>2 DEF Extends
<1>4. Walk(Node, Option.name, c) /\ Len(c) = cursor.part - 1 /\ cursor.at = Numbers(c) /\ cursor.part \in Nat \ {0}
      /\ cursor.type = IF c = << >> THEN OptionsType(Node.kind) ELSE c[Len(c)].type
  BY DEF Walked, InPart
<1>5. ASSUME NEW k \in 1..Len(d)
      PROVE  /\ d[k].name = Option.name[k].name /\ d[k].ext = Option.name[k].ext
             /\ d[k].parent = IF k = 1 THEN OptionsType(Node.kind) ELSE d[k - 1].type
             /\ k < Len(Option.name) => d[k].kind = "message" /\ d[k].card = "singular"
  <2>1. CASE k \in 1..Len(c)
    <3>1. d[k] = c[k] /\ (k # 1 => d[k - 1] = c[k - 1])
      BY <1>3, <2>1
    <3> QED BY <1>4, <2>1, <3>1 DEF Walk
  <2>2. CASE k = Len(c) + 1
    <3>1. k = cursor.part /\ d[k] = f
      BY <1>3, <1>4, <2>2
    <3>2. f.name = Option.name[k].name /\ f.ext = Option.name[k].ext
      BY <1>1, <3>1 DEF Part
    <3>3. CASE k = 1
      <4>1. c = << >>
        BY <1>3, <2>2, <3>3
      <4> QED BY <1>1, <1>4, <3>1, <3>2, <3>3, <4>1
    <3>4. CASE k # 1
      <4>1. c # << >> /\ k - 1 = Len(c) /\ Len(c) \in 1..Len(c)
        BY <1>3, <2>2, <3>4
      <4>2. d[k - 1] = c[Len(c)]
        BY <1>3, <4>1
      <4> QED BY <1>1, <1>4, <3>1, <3>2, <3>4, <4>1, <4>2
    <3> QED BY <3>3, <3>4
  <2> QED BY <1>3, <2>1, <2>2
<1>6. Walk(Node, Option.name, d)
  BY <1>3, <1>5 DEF Walk
<1> QED BY <1>2, <1>4, <1>6 DEF d
\* The fields of the chains of a name, where a part names f.
LEMMA OnlyThrough ==
  ASSUME InPart, AtPart, errors = {}, NEW f \in Named, NEW d \in Chains(Node, Option.name)
  PROVE  d[cursor.part] = f /\ cursor.part \in 1..Len(d) /\ Len(d) = Len(Option.name) /\ Walk(Node, Option.name, d)
<1>1. PICK c \in Seq(Fields) : Walked(c)
  BY DEF InPart
<1>2. Walk(Node, Option.name, d) /\ Len(d) = Len(Option.name) /\ d[cursor.part] \in Named
  BY <1>1, ChainsNamed DEF InPart
<1>3. d[cursor.part] = f
  BY <1>2, OneNamed
<1>4. d \in Seq(Fields) /\ cursor.part \in Nat \ {0} /\ cursor.part <= Len(Option.name)
  BY <1>2 DEF Walk, InPart, AtPart
<1>5. cursor.part \in 1..Len(d)
  BY <1>2, <1>4
<1> QED BY <1>2, <1>3, <1>5

LEMMA NamedOption ==
  ASSUME InPart, AtPart
  PROVE  Option.name # << >>
<1>1. cursor.part <= Len(Option.name) /\ cursor.part \in Nat \ {0}
  BY DEF AtPart, InPart
<1>2. Len(<< >>) = 0
  OBVIOUS
<1>3. Len(Option.name) # 0
  BY <1>1
<1> QED BY ONLY <1>2, <1>3, Zenon

LEMMA DescendVerdict ==
  ASSUME VInv, Descend
  PROVE  Verdicts'
<1>1. InPart /\ AtPart /\ ~IsLast
  BY PartFacts DEF Descend
<1>2. PICK f \in Named :
       \/ /\ f.kind = "message" /\ f.card = "singular"
          /\ slots' = GetMut(cursor.at, f)
          /\ cursor' = [cursor EXCEPT !.part = @ + 1, !.at = Append(@, f.number), !.type = f.type]
          /\ UNCHANGED <<visited, phase, errors, options, locations>>
       \/ /\ f.kind # "message" \/ f.card # "singular"
          /\ Fails("InvalidOptionType", GetMut(cursor.at, f))
  BY DEF Descend
<1> DEFINE root == OptionsType(Node.kind)  at == cursor.at
<1>3. f \in Fields /\ f.number \in Int /\ at \in Seq(Int) /\ Message(slots) /\ WellTyped(slots, root)
      /\ HasType(slots, root, at, f.parent) /\ FitsIn(slots)
  BY <1>1, FilesAssumption DEF Named, Candidates, InPart, Sound
<1>4. Message(GetMut(at, f)) /\ <<at, f.number>> \in DOMAIN GetMut(at, f) /\ GetMut(at, f)[<<at, f.number>>].field = f
      /\ WellTyped(GetMut(at, f), root) /\ FitsIn(GetMut(at, f))
  BY <1>3, OwnIs, GetMutTyped, GetMutFits
<1>5. cursor.part < Len(Option.name) /\ cursor.part \in Nat \ {0} /\ Len(Option.name) \in Nat
  <2>1. Option.name \in Seq(Range(Option.name))
    BY <1>1 DEF InPart, SoundNode, InOption, Option
  <2> QED BY <1>1, <2>1 DEF AtPart, IsLast, InPart
<1>6. CASE Fails("InvalidOptionType", GetMut(at, f)) /\ (f.kind # "message" \/ f.card # "singular")
  <2>1. ASSUME errors = {} PROVE ~ValidOption(Node, cursor.option)
    <3>1. ASSUME NEW d \in Chains(Node, Option.name) PROVE FALSE
      <4>1. d[cursor.part] = f /\ cursor.part \in 1..Len(d) /\ Walk(Node, Option.name, d)
        BY <1>1, <2>1, OnlyThrough
      <4> QED BY <1>5, <1>6, <4>1 DEF Walk
    <3> QED BY <1>1, <3>1, NamedOption DEF ValidOption, Option
  <2>2. Sound(GetMut(at, f), root)
    BY <1>4 DEF Sound
  <2> HIDE DEF root, at
  <2>3. SoundNode /\ InOption
    BY <1>1 DEF InPart
  <2> QED BY <1>4, <1>6, <2>1, <2>2, <2>3, FailsVerdict DEF root, at
<1>7. CASE /\ f.kind = "message" /\ f.card = "singular"
           /\ slots' = GetMut(cursor.at, f)
           /\ cursor' = [cursor EXCEPT !.part = @ + 1, !.at = Append(@, f.number), !.type = f.type]
           /\ UNCHANGED <<visited, phase, errors, options, locations>>
  <2>1. /\ file' = file /\ phase' = phase /\ errors' = errors /\ options' = options /\ Node' = Node
        /\ slots' = GetMut(at, f)
    BY <1>7 DEF visited, Node
  <2>2. /\ cursor'.option = cursor.option /\ cursor'.part = cursor.part + 1
        /\ cursor'.at = Append(at, f.number) /\ cursor'.type = f.type
    <3>1. cursor = [option |-> cursor.option, part |-> cursor.part, at |-> cursor.at, type |-> cursor.type]
      BY <1>1 DEF InPart, IInv
    <3> QED BY ONLY <1>7, <3>1
  <2>3. Option' = Option
    BY <2>1, <2>2 DEF Option
  <2>4. Bounded'
    BY <1>1, <1>5, <2>1, <2>2, <2>3 DEF Bounded, InPart, InOption
  <2>5. Typed'
    <3>1. Append(at, f.number) # << >>
      <4>1. Len(Append(at, f.number)) # 0 /\ Len(<< >>) = 0
        BY <1>3, PathAppended
      <4> QED BY ONLY <4>1, Zenon
    <3>2. HasType(GetMut(at, f), root, Append(at, f.number), f.type)
      <4> DEFINE own == <<at, f.number>>
      <4>1. Append(own[1], own[2]) = Append(at, f.number)
        OBVIOUS
      <4> HIDE DEF own
      <4> QED BY <1>4, <1>7, <3>1, <4>1 DEF HasType, own
    <3> QED BY <1>4, <2>1, <2>2, <3>2 DEF Typed
  <2>6. ASSUME errors = {} PROVE (\E c \in Seq(Fields) : Walked(c) /\ Account(c))'
    <3>1. PICK c \in Seq(Fields) : Walked(c) /\ Account(c)
      BY <1>1, <2>6 DEF InPart
    <3> DEFINE d == Append(c, f)
    <3>2. Extends(d, c, f) /\ Walk(Node, Option.name, d) /\ at = Numbers(c)
      BY <1>1, <1>7, <3>1, Longer
    <3> HIDE DEF d
    <3>3. d \in Seq(Fields) /\ Len(d) = Len(c) + 1 /\ Len(c) \in Nat /\ d[Len(c) + 1] = f
          /\ Numbers(d) = Append(at, f.number) /\ SlotAt(d, Len(c) + 1) = <<at, f.number>>
          /\ \A k \in 1..Len(c) : SlotAt(d, k) = SlotAt(c, k)
      BY <3>2 DEF Extends
    <3>4. Walked(d)'
      <4>1. Walk(Node', Option'.name, d)
        BY <2>1, <2>3, <3>2
      <4>2. Len(d) = cursor'.part - 1 /\ cursor'.at = Numbers(d)
        BY <1>5, <2>2, <3>1, <3>3 DEF Walked
      <4>3. d # << >> /\ cursor'.type = d[Len(d)].type
        <5>1. Len(d) # 0 /\ Len(<< >>) = 0
          BY <3>3
        <5>2. d # << >>
          BY ONLY <5>1, Zenon
        <5> QED BY <2>2, <3>3, <5>2
      <4> QED BY ONLY <4>1, <4>2, <4>3, Zenon DEF Walked
    <3>5. ASSUME NEW slot \in PathSlots
          PROVE  slot \in Shown(slots') <=> \/ \E k \in 1..Len(d) : slot = SlotAt(d, k)
                                            \/ Already(Node, cursor.option, slot) /\ ~RemovedBy(d, slot)
      <4>1. slot \in Shown(slots') <=> \/ slot \in Shown(slots) /\ Kept(slot, at, f)
                                       \/ slot = <<at, f.number>> /\ f.presence
        BY <1>3, <2>1, GetMutShows
      <4>2. f.presence
        BY <1>3, <1>7, Cards
      <4>3. slot \in Shown(slots) /\ Kept(slot, Numbers(c), f) <=>
              \/ \E k \in 1..Len(c) : slot = SlotAt(c, k)
              \/ Already(Node, cursor.option, slot) /\ ~RemovedBy(d, slot)
        BY <1>3, <3>1, <3>2, Passed
      <4>4. 1..Len(d) = 1..Len(c) \cup {Len(c) + 1}
        BY <3>3
      <4>5. (\E k \in 1..Len(d) : slot = SlotAt(d, k)) <=> (\E k \in 1..Len(c) : slot = SlotAt(c, k)) \/ slot = <<at, f.number>>
        BY <3>3, <4>4
      <4> QED BY ONLY <3>2, <4>1, <4>2, <4>3, <4>5, Zenon
    <3>6. Account(d)'
      BY <2>1, <2>2, <3>5 DEF Account
    <3> QED BY <3>3, <3>4, <3>6
  <2>7. Walks'
    BY <2>1, <2>4, <2>5, <2>6 DEF Walks
  <2>8. Valids'
    BY <2>1, <2>2 DEF VInv, Verdicts, Valids, ValidSoFar
  <2>9. OptionsMatch'
    BY <2>1, OptionsStillMatch DEF VInv, Verdicts
  <2>10. Fits'
    BY <1>4, <2>1 DEF Fits, FitsIn, Given
  <2> QED BY <2>7, <2>8, <2>9, <2>10 DEF Verdicts
<1> QED BY <1>2, <1>6, <1>7
\* What a literal of the option is: a message of the field's type, as it was given.
LEMMA LiteralsGiven ==
  ASSUME InPart, AtPart, NEW f \in Fields, f.kind = "message", NEW x \in Converted(f, Option.value)
  PROVE  Sound(x, f.type) /\ \A s \in DOMAIN x : Given(x[s])
<1>1. Option.value.is = "aggregate" /\ Option.value.type = f.type /\ x = Option.value.value
  BY DEF Converted, Integral
<1>2. cursor.option \in 1..Len(Node.uninterpreted) /\ Len(options) + 1 \in DOMAIN file.nodes
      /\ DOMAIN Node.uninterpreted = 1..Len(Node.uninterpreted)
  BY DEF InPart, InOption, SoundNode
<1>3. Sound(x, f.type)
  <2>1. \A i \in 1..Len(Node.uninterpreted) : \A g \in Fields :
          LET v == Node.uninterpreted[i].value
          IN g.kind = "message" /\ v.is = "aggregate" /\ v.type = g.type => Sound(v.value, g.type)
    BY SMTT(60) DEF InPart, SoundNode
  <2> QED BY <1>1, <1>2, <2>1, Zenon DEF Option
<1>4. ASSUME NEW s \in DOMAIN x PROVE Given(x[s])
  <2>1. x[s] \in Range(x)
    BY DEF Range
  <2> DEFINE n == Len(options) + 1  i == cursor.option
  <2>2. n \in DOMAIN file.nodes /\ i \in DOMAIN file.nodes[n].uninterpreted
        /\ Option = file.nodes[n].uninterpreted[i]
    BY <1>2 DEF Option, Node
  <2> HIDE DEF n, i
  <2> QED BY <1>1, <2>1, <2>2 DEF Given
<1> QED BY <1>3, <1>4

\* Below the cursor, only what showed already shows.
LEMMA HasAlready ==
  ASSUME InPart, AtPart, NEW c \in Seq(Fields), Walked(c), Account(c), NEW f \in Named
  PROVE  Has(cursor.at, f) <=> Already(Node, cursor.option, <<cursor.at, f.number>>)
<1> DEFINE at == cursor.at  own == <<at, f.number>>  d == Append(c, f)
<1>1. f \in Fields /\ f.number \in Int /\ at \in Seq(Int) /\ Message(slots) /\ WellTyped(slots, OptionsType(Node.kind))
      /\ HasType(slots, OptionsType(Node.kind), at, f.parent) /\ at = Numbers(c)
  BY FilesAssumption DEF Named, Candidates, InPart, Sound, Walked
<1>2. Has(at, f) <=> own \in Shown(slots)
  <2>1. own \in DOMAIN slots => slots[own].field = f
    BY <1>1, OwnField
  <2> QED BY <2>1 DEF Shown, Has
<1>3. own \in PathSlots /\ Kept(own, at, f) /\ own[1] = at
  BY <1>1, OwnKept
<1>4. Extends(d, c, f)
  BY <1>1, ChainAppended
<1> HIDE DEF own, d
<1>5. own \in Shown(slots) <=> \/ \E k \in 1..Len(c) : own = SlotAt(c, k)
                               \/ Already(Node, cursor.option, own) /\ ~RemovedBy(d, own)
  BY <1>1, <1>3, <1>4, Passed
<1>6. ASSUME NEW k \in 1..Len(c), own = SlotAt(c, k) PROVE FALSE
  <2>1. Len(own[1]) = k - 1 /\ k \in Nat /\ Len(c) \in Nat /\ k <= Len(c)
    BY <1>6, SlotAtIs
  <2>2. Len(own[1]) = Len(c)
    BY <1>1, <1>3, NumbersAre
  <2> QED BY <2>1, <2>2
<1>7. ~RemovedBy(d, own)
  <2>1. d \in Seq(Fields) /\ Len(c) \in Nat /\ Len(d) = Len(c) + 1 /\ SlotAt(d, Len(c) + 1) = own
    BY <1>1, <1>4 DEF Extends, own
  <2>2. Len(c) + 1 \in 1..Len(d)
    BY <2>1
  <2>3. \A k \in 1..Len(d) : \A g \in Rivals(d[k]) : ~Within(SlotAt(d, Len(c) + 1), SlotAt(d, k)[1], g.number)
    BY <2>1, <2>2, ChainStays
  <2> QED BY <2>1, <2>3 DEF RemovedBy
<1> QED BY <1>2, <1>5, <1>6, <1>7 DEF own
\* The last part of a name ends the only chain of it.
LEMMA ChainEnds ==
  ASSUME InPart, AtPart, IsLast, NEW c \in Seq(Fields), Walked(c), NEW f \in Named
  PROVE  LET d == Append(c, f)
         IN /\ Extends(d, c, f) /\ cursor.at = Numbers(c) /\ d # << >> /\ Last(d) = f
            /\ SlotOf(d) = <<cursor.at, f.number>> /\ DOMAIN d = 1..Len(d)
            /\ ChainOf(Node, cursor.option) = d /\ d \in Chains(Node, Option.name)
            /\ \A e \in Chains(Node, Option.name) : e = d
<1> DEFINE d == Append(c, f)  i == cursor.option
<1>1. Option.name \in Seq(Range(Option.name)) /\ Len(Option.name) \in Nat /\ Option.name = Node.uninterpreted[i].name
  <2>1. Option.name = Node.uninterpreted[i].name /\ i \in 1..Len(Node.uninterpreted) /\ SoundNode
    BY DEF InPart, InOption, Option
  <2>2. Option.name \in Seq(Range(Option.name))
    BY <2>1 DEF SoundNode
  <2> HIDE DEF i
  <2> QED BY ONLY <2>1, <2>2
<1>2. Extends(d, c, f) /\ Walk(Node, Option.name, d) /\ cursor.at = Numbers(c)
  BY <1>1, Longer DEF IsLast, InPart
<1> HIDE DEF d
<1>3. d \in Seq(Fields) /\ Len(c) \in Nat /\ Len(d) = Len(c) + 1 /\ d[Len(c) + 1] = f
      /\ SlotAt(d, Len(c) + 1) = <<Numbers(c), f.number>>
  BY <1>2 DEF Extends
<1>4. Len(d) = Len(Option.name)
  BY <1>3 DEF Walked, IsLast, InPart
<1>5. d # << >> /\ DOMAIN d = 1..Len(d)
  <2>1. Len(d) # 0 /\ Len(<< >>) = 0
    BY <1>3
  <2>2. d # << >>
    BY ONLY <2>1, Zenon
  <2> QED BY <1>3, <2>2
<1>6. Last(d) = f /\ SlotOf(d) = <<cursor.at, f.number>>
  BY <1>2, <1>3 DEF Last, SlotOf
<1>7. ChainOf(Node, i) = d /\ \A e \in Chains(Node, Node.uninterpreted[i].name) : e = d
  <2>1. Node.uninterpreted[i].name \in Seq(Range(Node.uninterpreted[i].name))
        /\ Walk(Node, Node.uninterpreted[i].name, d) /\ Len(d) = Len(Node.uninterpreted[i].name)
    BY ONLY <1>1, <1>2, <1>4, Zenon
  <2> HIDE DEF i
  <2> QED BY ONLY <2>1, ChainOfIs
<1>8. d \in Chains(Node, Option.name)
  BY <1>1, <1>2, <1>4, ChainsAre
<1> QED BY <1>1, <1>2, <1>5, <1>6, <1>7, <1>8 DEF d

LEMMA SetValueVerdict ==
  ASSUME VInv, SetValue
  PROVE  Verdicts'
<1>1. InPart /\ AtPart /\ IsLast
  BY PartFacts DEF SetValue
<1> DEFINE root == OptionsType(Node.kind)  at == cursor.at
<1>2. PICK f \in Named :
       \/ /\ f.card = "singular" /\ Has(at, f)
          /\ Fails("DuplicateOption", slots)
       \/ /\ f.card # "singular" \/ ~Has(at, f)
          /\ Converted(f, Option.value) = {}
          /\ Fails("InvalidOptionType", GetMut(at, f))
       \/ /\ f.card # "singular" \/ ~Has(at, f)
          /\ \E x \in Converted(f, Option.value) : slots' = WithValue(at, f, x)
          /\ Interpreted(ValuePath(at, f))
  BY DEF SetValue
<1> DEFINE own == <<at, f.number>>
<1>3. f \in Fields /\ f.number \in Int /\ at \in Seq(Int) /\ Message(slots) /\ WellTyped(slots, root)
      /\ HasType(slots, root, at, f.parent) /\ FitsIn(slots) /\ SoundNode /\ InOption
  BY <1>1, FilesAssumption DEF Named, Candidates, InPart, Sound
<1>4. Message(GetMut(at, f)) /\ WellTyped(GetMut(at, f), root) /\ FitsIn(GetMut(at, f))
  BY <1>3, GetMutFacts, GetMutTyped, GetMutFits
<1>5. Option.name # << >>
  BY <1>1, NamedOption
<1>6. CASE f.card = "singular" /\ Has(at, f) /\ Fails("DuplicateOption", slots)
  <2>1. ASSUME errors = {} PROVE ~ValidOption(Node, cursor.option)
    <3>1. PICK c \in Seq(Fields) : Walked(c) /\ Account(c)
      BY <1>1, <2>1 DEF InPart
    <3>2. Already(Node, cursor.option, own)
      BY <1>1, <1>6, <3>1, HasAlready
    <3>3. \A e \in Chains(Node, Option.name) : Last(e) = f /\ SlotOf(e) = own
      BY <1>1, <3>1, ChainEnds
    <3> QED BY <1>5, <1>6, <3>2, <3>3 DEF ValidOption, Option
  <2>2. Sound(slots, root)
    BY <1>3 DEF Sound
  <2> QED BY <1>3, <1>6, <2>1, <2>2, FailsVerdict
<1>7. CASE Converted(f, Option.value) = {} /\ Fails("InvalidOptionType", GetMut(at, f))
  <2>1. ASSUME errors = {} PROVE ~ValidOption(Node, cursor.option)
    <3>1. PICK c \in Seq(Fields) : Walked(c)
      BY <1>1, <2>1 DEF InPart
    <3>2. \A e \in Chains(Node, Option.name) : Last(e) = f
      BY <1>1, <3>1, ChainEnds
    <3> QED BY <1>5, <1>7, <3>2 DEF ValidOption, Option
  <2>2. Sound(GetMut(at, f), root)
    BY <1>4 DEF Sound
  <2> QED BY <1>3, <1>4, <1>7, <2>1, <2>2, FailsVerdict
<1>8. ASSUME f.card = "singular" => ~Has(at, f), Interpreted(ValuePath(at, f)),
             NEW x \in Converted(f, Option.value), slots' = WithValue(at, f, x)
      PROVE  Verdicts'
  <2>1. f.kind = "message" => Sound(x, f.type) /\ \A s \in DOMAIN x : Given(x[s])
    BY <1>1, <1>3, LiteralsGiven
  <2>2. Message(slots')
    <3>1. LET v == Option.value IN f.kind = "message" /\ v.is = "aggregate" /\ v.type = f.type => Message(v.value)
      BY <1>1, <1>3 DEF InPart, SoundNode, InOption, Option, Sound
    <3> QED BY <1>3, <1>8, <3>1, ValueFacts
  <2>3. WellTyped(slots', root)
    BY <1>3, <1>8, <2>1, WithValueTyped DEF Sound
  <2>4. FitsIn(slots')
    BY <1>3, <1>8, <2>1, WithValueFits DEF Sound
  <2>5. ASSUME errors = {} PROVE ValidOption(Node, cursor.option)
    <3>1. PICK c \in Seq(Fields) : Walked(c) /\ Account(c)
      BY <1>1, <2>5 DEF InPart
    <3>2. \E e \in Chains(Node, Option.name) : Last(e) = f /\ SlotOf(e) = own
      BY <1>1, <3>1, ChainEnds
    <3>3. f.card = "singular" => ~Already(Node, cursor.option, own)
      BY <1>1, <1>8, <3>1, HasAlready
    <3>4. Converted(f, Option.value) # {}
      BY <1>8
    <3> QED BY <3>2, <3>3, <3>4 DEF ValidOption, Option
  <2>6. ASSUME errors = {}, NEW slot \in PathSlots
        PROVE  slot \in Shown(slots') <=> Already(Node, cursor.option + 1, slot)
    <3>1. PICK c \in Seq(Fields) : Walked(c) /\ Account(c)
      BY <1>1, <2>6 DEF InPart
    <3> DEFINE d == Append(c, f)  i == cursor.option
    <3>2. /\ Extends(d, c, f) /\ at = Numbers(c) /\ d # << >> /\ Last(d) = f /\ SlotOf(d) = own /\ DOMAIN d = 1..Len(d)
          /\ ChainOf(Node, i) = d
      BY <1>1, <3>1, ChainEnds
    <3> HIDE DEF d
    <3>3. Len(c) \in Nat /\ Len(d) = Len(c) + 1 /\ \A k \in 1..Len(c) : SlotAt(d, k) = SlotAt(c, k)
      BY <3>2 DEF Extends
    <3>4. slot \in Shown(slots') <=> (slot \in Shown(slots) /\ Kept(slot, at, f)) \/ Set(slot, at, f, x)
      BY <1>3, <1>8, <2>1, WithValueShows DEF Sound
    <3>5. slot \in Shown(slots) /\ Kept(slot, at, f) <=>
            \/ \E k \in 1..Len(c) : slot = SlotAt(c, k)
            \/ Already(Node, i, slot) /\ ~RemovedBy(d, slot)
      BY <1>3, <3>1, <3>2, Passed
    <3>6. Removes(Node, i, slot) <=> RemovedBy(d, slot)
      BY <3>2 DEF Removes, RemovedBy
    <3>7. Literal(Node, i) = x
      <4>1. x \in Converted(Last(ChainOf(Node, i)), Node.uninterpreted[i].value)
        BY <1>8, <3>2 DEF Option
      <4>2. Literal(Node, i) \in Converted(Last(ChainOf(Node, i)), Node.uninterpreted[i].value)
        BY <4>1 DEF Literal
      <4> QED BY <4>1, <4>2, OneConverted
    <3>8. Gives(Node, i, slot) <=> (\E k \in 1..Len(c) : slot = SlotAt(c, k)) \/ Set(slot, at, f, x)
      <4>1. 1..(Len(d) - 1) = 1..Len(c)
        BY <3>3
      <4>2. (\E k \in 1..(Len(d) - 1) : slot = SlotAt(d, k)) <=> \E k \in 1..Len(c) : slot = SlotAt(c, k)
        BY <3>3, <4>1
      <4>3. Append(SlotOf(d)[1], SlotOf(d)[2]) = Append(at, f.number)
        BY <3>2
      <4>4. Set(slot, at, f, x) <=>
              \/ slot = own /\ (f.card # "singular" \/ Shows(f, x))
              \/ /\ f.card = "singular" /\ f.kind = "message"
                 /\ \E s \in DOMAIN x : slot = <<Append(at, f.number) \o s[1], s[2]>> /\ Shows(x[s].field, x[s].value)
        BY DEF Set, There
      <4> HIDE DEF own, i, at
      <4> QED BY ONLY <3>2, <3>7, <4>2, <4>3, <4>4 DEF Gives
    <3>9. Already(Node, i + 1, slot) <=> (Already(Node, i, slot) /\ ~Removes(Node, i, slot)) \/ Gives(Node, i, slot)
      <4>1. i \in Nat \ {0}
        BY <1>1 DEF InPart
      <4> HIDE DEF i
      <4> QED BY <4>1, AlreadyNext
    <3> QED BY <3>4, <3>5, <3>6, <3>8, <3>9
  <2>7. Sound(slots', root)
    BY <2>2, <2>3 DEF Sound
  <2> QED BY <1>3, <1>8, <2>4, <2>5, <2>6, <2>7, InterpretedVerdict
<1> QED BY <1>2, <1>6, <1>7, <1>8
-----------------------------------------------------------------------------
(* Where the options of an element are.                                    *)

\* The path of an options message has one tag more than that of its element.
LEMMA TagsOfOptions ==
  ASSUME NEW path \in Seq(Int), NEW n \in Int, Len(path) % 2 = 0
  PROVE  LET t == TagsOf(path) u == TagsOf(Append(path, n))
         IN /\ Len(t) \in Nat /\ t \in Seq(Int) /\ u \in Seq(Int) /\ Len(u) = Len(t) + 1 /\ u[Len(t) + 1] = n
            /\ \A i \in 1..Len(t) : u[i] = t[i]
<1> DEFINE m == Len(path) \div 2  p == Append(path, n)  t == TagsOf(path) u == TagsOf(p)
<1>1. /\ p \in Seq(Int) /\ Len(p) = Len(path) + 1 /\ Len(path) \in Nat
      /\ (\A i \in 1..Len(path) : p[i] = path[i]) /\ p[Len(path) + 1] = n
  BY PathAppended
<1>2. m \in Nat /\ Len(path) = 2 * m
  BY <1>1
<1> HIDE DEF m, p
<1>3. (Len(path) + 1) \div 2 = m /\ (Len(p) + 1) \div 2 = m + 1
  BY <1>1, <1>2
<1>4. t = [i \in 1..m |-> path[2 * i - 1]] /\ u = [i \in 1..(m + 1) |-> p[2 * i - 1]]
  BY <1>3 DEF TagsOf
<1>5. \A i \in 1..m : 2 * i - 1 \in 1..Len(path) /\ path[2 * i - 1] \in Int /\ p[2 * i - 1] = path[2 * i - 1]
  BY <1>1, <1>2
<1>6. 2 * (m + 1) - 1 = Len(path) + 1
  BY <1>2
<1>7. p[2 * (m + 1) - 1] = n
  BY <1>1, <1>6
<1> HIDE DEF t, u
<1>8. t \in Seq(Int) /\ Len(t) = m
  BY <1>2, <1>4, <1>5
<1>9. u \in Seq(Int) /\ Len(u) = m + 1
  <2>1. \A i \in 1..(m + 1) : i \in 1..m \/ i = m + 1
    BY <1>2
  <2>2. \A i \in 1..(m + 1) : p[2 * i - 1] \in Int
    BY <1>5, <1>7, <2>1
  <2> QED BY <1>2, <1>4, <2>2
<1>10. u[m + 1] = n
  <2>1. m + 1 \in 1..(m + 1)
    BY <1>2
  <2> QED BY <1>4, <1>7, <2>1
<1>11. ASSUME NEW i \in 1..m PROVE u[i] = t[i]
  <2>1. i \in 1..(m + 1)
    BY <1>2
  <2>2. u[i] = p[2 * i - 1] /\ t[i] = path[2 * i - 1]
    BY <1>4, <2>1
  <2> QED BY <1>5, <2>2
<1> QED BY <1>2, <1>8, <1>9, <1>10, <1>11 DEF t, u, p
LEMMA TagsAppended ==
  /\ Append(<< >>, 8) = <<8>> /\ Append(<< >>, 7) = <<7>>
  /\ Append(<<5>>, 3) = <<5, 3>> /\ Append(<<6>>, 3) = <<6, 3>> /\ Append(<<4>>, 3) = <<4, 3>>
  /\ Append(<<7>>, 8) = <<7, 8>> /\ Append(<<6>>, 8) = <<6, 8>> /\ Append(<<2>>, 8) = <<2, 8>> /\ Append(<<8>>, 2) = <<8, 2>>
  /\ Append(<<5, 2>>, 3) = <<5, 2, 3>> /\ Append(<<6, 2>>, 4) = <<6, 2, 4>> /\ Append(<<4, 2>>, 3) = <<4, 2, 3>>
<1>1. \A a \in Int : Append(<< >>, a) = <<a>>
  OBVIOUS
<1>2. ASSUME NEW a \in Int, NEW b \in Int PROVE Append(<<a>>, b) = <<a, b>>
  <2> DEFINE p == <<a>>  q == <<a, b>>
  <2>1. p \in Seq(Int) /\ Len(p) = 1 /\ p[1] = a /\ q \in Seq(Int) /\ Len(q) = 2 /\ q[1] = a /\ q[2] = b
    OBVIOUS
  <2> HIDE DEF p, q
  <2>4. /\ Append(p, b) \in Seq(Int) /\ Len(Append(p, b)) = Len(p) + 1
        /\ (\A i \in 1..Len(p) : Append(p, b)[i] = p[i]) /\ Append(p, b)[Len(p) + 1] = b
    BY <2>1, PathAppended
  <2>5. Len(p) + 1 = 2 /\ 1 \in 1..Len(p)
    BY <2>1
  <2>2. /\ Append(p, b) \in Seq(Int) /\ Len(Append(p, b)) = 2 /\ Append(p, b)[1] = a /\ Append(p, b)[2] = b
    BY ONLY <2>1, <2>4, <2>5
  <2>3. Append(p, b) = q
    BY <2>1, <2>2, SamePath
  <2> QED BY <2>3 DEF p, q
<1>3. ASSUME NEW a \in Int, NEW b \in Int, NEW c \in Int PROVE Append(<<a, b>>, c) = <<a, b, c>>
  <2> DEFINE p == <<a, b>>  q == <<a, b, c>>
  <2>1. p \in Seq(Int) /\ Len(p) = 2 /\ p[1] = a /\ p[2] = b
        /\ q \in Seq(Int) /\ Len(q) = 3 /\ q[1] = a /\ q[2] = b /\ q[3] = c
    OBVIOUS
  <2> HIDE DEF p, q
  <2>4. /\ Append(p, c) \in Seq(Int) /\ Len(Append(p, c)) = Len(p) + 1
        /\ (\A i \in 1..Len(p) : Append(p, c)[i] = p[i]) /\ Append(p, c)[Len(p) + 1] = c
    BY <2>1, PathAppended
  <2>5. Len(p) + 1 = 3 /\ 1 \in 1..Len(p) /\ 2 \in 1..Len(p)
    BY <2>1
  <2>2. /\ Append(p, c) \in Seq(Int) /\ Len(Append(p, c)) = 3 /\ Append(p, c)[1] = a /\ Append(p, c)[2] = b
        /\ Append(p, c)[3] = c
    BY ONLY <2>1, <2>4, <2>5
  <2>3. Append(p, c) = q
    BY <2>1, <2>2, SamePath
  <2> QED BY <2>3 DEF p, q
<1>4. 2 \in Int /\ 3 \in Int /\ 4 \in Int /\ 5 \in Int /\ 6 \in Int /\ 7 \in Int /\ 8 \in Int
  OBVIOUS
<1>5. /\ Append(<< >>, 8) = <<8>> /\ Append(<< >>, 7) = <<7>>
      /\ Append(<<5>>, 3) = <<5, 3>> /\ Append(<<6>>, 3) = <<6, 3>> /\ Append(<<4>>, 3) = <<4, 3>>
  BY ONLY <1>1, <1>2, <1>4, Zenon
<1>6. /\ Append(<<7>>, 8) = <<7, 8>> /\ Append(<<6>>, 8) = <<6, 8>> /\ Append(<<2>>, 8) = <<2, 8>>
      /\ Append(<<8>>, 2) = <<8, 2>>
  BY ONLY <1>2, <1>4, Zenon
<1>7. /\ Append(<<5, 2>>, 3) = <<5, 2, 3>> /\ Append(<<6, 2>>, 4) = <<6, 2, 4>>
      /\ Append(<<4, 2>>, 3) = <<4, 2, 3>>
  BY ONLY <1>3, <1>4, Zenon
<1> QED BY <1>5, <1>6, <1>7

\* The tags of an element and of its options.
LEMMA OptionsTags ==
  ASSUME NEW kind, NEW tags
  PROVE  /\ <<kind, tags>> \in InFile => Append(tags, OptionsTag(kind)) \in OptionsInFile
         /\ <<kind, tags>> \in InMessage => Append(tags, OptionsTag(kind)) \in OptionsInMessage
<1>1. /\ OptionsTag("file") = 8 /\ OptionsTag("field") = 8 /\ OptionsTag("extension") = 8 /\ OptionsTag("message") = 7
      /\ OptionsTag("oneof") = 2 /\ OptionsTag("method") = 4 /\ OptionsTag("enum") = 3 /\ OptionsTag("value") = 3
      /\ OptionsTag("service") = 3 /\ OptionsTag("range") = 3
  BY DEF OptionsTag
<1>2. ASSUME <<kind, tags>> \in InFile PROVE Append(tags, OptionsTag(kind)) \in OptionsInFile
  <2>1. \/ kind = "file" /\ tags = << >>
        \/ kind = "enum" /\ tags = <<5>>
        \/ kind = "value" /\ tags = <<5, 2>>
        \/ kind = "service" /\ tags = <<6>>
        \/ kind = "method" /\ tags = <<6, 2>>
        \/ kind = "extension" /\ tags = <<7>>
    BY <1>2, Zenon DEF InFile
  <2>2. Append(tags, OptionsTag(kind)) \in {<<8>>, <<5, 3>>, <<5, 2, 3>>, <<6, 3>>, <<6, 2, 4>>, <<7, 8>>}
    BY ONLY <1>1, <2>1, TagsAppended
  <2> QED BY <2>2 DEF OptionsInFile
<1>3. ASSUME <<kind, tags>> \in InMessage PROVE Append(tags, OptionsTag(kind)) \in OptionsInMessage
  <2>1. \/ kind = "message" /\ tags = << >>
        \/ kind = "field" /\ tags = <<2>>
        \/ kind = "range" /\ tags = <<5>>
        \/ kind = "oneof" /\ tags = <<8>>
        \/ kind = "enum" /\ tags = <<4>>
        \/ kind = "value" /\ tags = <<4, 2>>
        \/ kind = "extension" /\ tags = <<6>>
    BY <1>3, Zenon DEF InMessage
  <2>2. Append(tags, OptionsTag(kind)) \in {<<7>>, <<5, 3>>, <<2, 8>>, <<8, 2>>, <<4, 3>>, <<4, 2, 3>>, <<6, 8>>}
    BY ONLY <1>1, <2>1, TagsAppended
  <2> QED BY <2>2 DEF OptionsInMessage
<1> QED BY <1>2, <1>3

LEMMA OptionsReachable ==
  ASSUME NEW kind, NEW path \in Seq(Int), IsElement(kind, path)
  PROVE  Reachable(Append(path, OptionsTag(kind)))
<1> DEFINE n == OptionsTag(kind)  t == TagsOf(path)  u == TagsOf(Append(path, n))
<1>1. n \in Int
  BY DEF OptionsTag
<1>2. Len(path) % 2 = 0 /\ \/ <<kind, t>> \in InFile
                           \/ /\ t # << >> /\ t[1] = 4
                              /\ \E depth \in 0..(Len(t) - 1) : /\ \A i \in 2..(depth + 1) : t[i] = 3
                                                                /\ <<kind, SubSeq(t, depth + 2, Len(t))>> \in InMessage
  BY DEF IsElement
<1>3. Len(t) \in Nat /\ t \in Seq(Int) /\ u \in Seq(Int) /\ Len(u) = Len(t) + 1 /\ u[Len(t) + 1] = n
      /\ \A i \in 1..Len(t) : u[i] = t[i]
  BY <1>1, <1>2, TagsOfOptions
<1> HIDE DEF n, t, u
<1>4. CASE <<kind, t>> \in InFile
  <2>1. Append(t, n) \in OptionsInFile
    BY <1>4, OptionsTags DEF n
  <2>2. /\ Append(t, n) \in Seq(Int) /\ Len(Append(t, n)) = Len(t) + 1
        /\ (\A i \in 1..Len(t) : Append(t, n)[i] = t[i]) /\ Append(t, n)[Len(t) + 1] = n
    BY <1>1, <1>3, PathAppended
  <2>3. \A i \in 1..Len(u) : u[i] = Append(t, n)[i]
    <3>1. \A i \in 1..Len(u) : i \in 1..Len(t) \/ i = Len(t) + 1
      BY <1>3
    <3> QED BY <1>3, <2>2, <3>1
  <2>4. u = Append(t, n)
    BY <1>3, <2>2, <2>3, SamePath
  <2> QED BY <2>1, <2>4 DEF Reachable, u, n
<1>5. ASSUME t # << >>, t[1] = 4, NEW depth \in 0..(Len(t) - 1), \A i \in 2..(depth + 1) : t[i] = 3,
             <<kind, SubSeq(t, depth + 2, Len(t))>> \in InMessage
      PROVE  u[1] = 4 /\ \E e \in 0..(Len(u) - 1) : /\ \A i \in 2..(e + 1) : u[i] = 3
                                                    /\ SubSeq(u, e + 2, Len(u)) \in OptionsInMessage
  <2> DEFINE v == SubSeq(t, depth + 2, Len(t))  w == SubSeq(u, depth + 2, Len(u))
  <2>1. depth \in Nat /\ depth + 1 <= Len(t) /\ 1 \in 1..Len(t)
    BY <1>3, <1>5
  <2>2. v \in Seq(Int) /\ Len(v) = Len(t) - depth - 1 /\ \A i \in 1..Len(v) : v[i] = t[depth + 1 + i]
    BY SMTT(60), <1>3, <2>1
  <2>3. w \in Seq(Int) /\ Len(w) = Len(t) - depth /\ \A i \in 1..Len(w) : w[i] = u[depth + 1 + i]
    BY SMTT(60), <1>3, <2>1
  <2> HIDE DEF v, w
  <2>4. /\ Append(v, n) \in Seq(Int) /\ Len(Append(v, n)) = Len(v) + 1 /\ Len(v) \in Nat
        /\ (\A i \in 1..Len(v) : Append(v, n)[i] = v[i]) /\ Append(v, n)[Len(v) + 1] = n
    BY <1>1, <2>2, PathAppended
  <2>5. ASSUME NEW i \in 1..Len(w) PROVE w[i] = Append(v, n)[i]
    <3>1. w[i] = u[depth + 1 + i]
      BY <2>3
    <3>2. CASE i \in 1..Len(v)
      <4>1. depth + 1 + i \in 1..Len(t)
        BY <1>3, <2>1, <2>2, <3>2
      <4> QED BY <1>3, <2>2, <2>4, <3>1, <3>2, <4>1
    <3>3. CASE i = Len(v) + 1
      <4>1. depth + 1 + i = Len(t) + 1
        BY <1>3, <2>1, <2>2, <3>3
      <4> QED BY <1>3, <2>4, <3>1, <3>3, <4>1
    <3>4. i \in 1..Len(v) \/ i = Len(v) + 1
      <4>1. Len(v) = Len(t) - depth - 1 /\ Len(w) = Len(t) - depth /\ Len(t) \in Nat /\ depth \in Nat
        BY <1>3, <2>1, <2>2, <2>3
      <4> QED BY ONLY <4>1, i \in 1..Len(w)
    <3> QED BY <3>2, <3>3, <3>4
  <2>6. Len(w) = Len(Append(v, n))
    BY <1>3, <2>1, <2>2, <2>3, <2>4
  <2>7. w = Append(v, n)
    BY <2>3, <2>4, <2>5, <2>6, SamePath
  <2>8. w \in OptionsInMessage
    BY <1>5, <2>7, OptionsTags DEF n, v
  <2>9. \A i \in 2..(depth + 1) : i \in 1..Len(t)
    BY <1>3, <2>1
  <2>10. depth \in 0..(Len(u) - 1) /\ \A i \in 2..(depth + 1) : u[i] = 3
    <3>1. depth \in 0..(Len(u) - 1)
      BY <1>3, <2>1
    <3>2. ASSUME NEW i \in 2..(depth + 1) PROVE u[i] = 3
      <4>1. i \in 1..Len(t) /\ t[i] = 3
        BY <1>5, <2>9
      <4> QED BY <1>3, <4>1
    <3> QED BY <3>1, <3>2
  <2> QED BY <1>3, <1>5, <2>1, <2>8, <2>10 DEF w
<1>6. CASE <<kind, t>> \notin InFile
  <2>1. u[1] = 4 /\ \E e \in 0..(Len(u) - 1) : /\ \A i \in 2..(e + 1) : u[i] = 3
                                               /\ SubSeq(u, e + 2, Len(u)) \in OptionsInMessage
    BY <1>2, <1>5, <1>6
  <2> QED BY <2>1 DEF Reachable, u, n
<1> QED BY <1>4, <1>6
-----------------------------------------------------------------------------

LEMMA StartVerdict ==
  ASSUME VInv, StartNode
  PROVE  Verdicts'
<1>1. SoundNode
  BY NodeIsSound DEF VInv, StartNode
<1>2. file' = file /\ Len(options) \in Nat
  BY <1>1 DEF StartNode, visited, SoundNode
<1>3. CASE Node.decodes
  <2>1. /\ phase' = "option" /\ cursor' = AtRoot(1) /\ slots' = Node.encoded
        /\ errors' = errors /\ options' = options /\ phase = "visit"
    BY <1>3 DEF StartNode
  <2>2. cursor'.option = 1 /\ cursor'.part = 1 /\ cursor'.at = << >> /\ cursor'.type = OptionsType(Node.kind) /\ Node' = Node
    BY <1>2, <2>1 DEF AtRoot, Node
  <2>3. Bounded'
    BY <1>1, <2>2 DEF Bounded, SoundNode
  <2>4. Typed'
    BY <1>1, <2>1, <2>2 DEF Typed, SoundNode, Sound, HasType
  <2>5. (\E c \in Seq(Fields) : Walked(c) /\ Account(c))'
    <3>1. ASSUME NEW slot \in PathSlots PROVE slot \in Shown(slots') <=> Already(Node', cursor'.option, slot)
      <4>1. 1..(1 - 1) = {}
        OBVIOUS
      <4>2. Already(Node, 1, slot) <=>
              slot \in DOMAIN Node.encoded /\ Shows(Node.encoded[slot].field, Node.encoded[slot].value)
        BY <4>1 DEF Already
      <4> QED BY <2>1, <2>2, <4>2 DEF Shown
    <3>2. Walked(<< >>)'
      <4>1. Walk(Node, Option.name, << >>)'
        BY NoWay
      <4>2. Len(<< >>) = cursor'.part - 1 /\ cursor'.at = Numbers(<< >>)
        BY <2>2, NoWay
      <4>3. cursor'.type = OptionsType(Node'.kind)
        BY <2>2
      <4> QED BY ONLY <4>1, <4>2, <4>3, Zenon DEF Walked
    <3>3. Account(<< >>)'
      BY <3>1, NoWay DEF Account
    <3> QED BY <3>2, <3>3, NoWay
  <2>6. Walks'
    BY <2>3, <2>4, <2>5 DEF Walks
  <2>7. Valids'
    <3>1. 1..(cursor'.option - 1) = {}
      BY <2>2
    <3> QED BY <1>2, <1>3, <2>1, <2>2, <3>1 DEF VInv, Verdicts, Valids, ValidSoFar
  <2>8. OptionsMatch'
    BY <1>2, <2>1, OptionsStillMatch DEF VInv, Verdicts
  <2>9. Fits'
    <3>1. ASSUME NEW s \in DOMAIN Node.encoded PROVE Given(Node.encoded[s])
      BY <1>1 DEF Given, Range, Node, SoundNode
    <3> QED BY SMTT(60), <1>2, <2>1, <3>1 DEF Fits, FitsIn, Given
  <2> QED BY <2>6, <2>7, <2>8, <2>9 DEF Verdicts
<1>4. CASE ~Node.decodes
  <2>1. /\ errors' = errors \cup {"DecodeFileDescriptorSet"} /\ phase = "visit" /\ phase' = phase
        /\ options' = Append(options, [path |-> OptionsPath(Node), slots |-> NoSlots]) /\ slots' = slots
    BY <1>4 DEF StartNode
  <2>2. ~Valid(Node) /\ errors' # {}
    BY <1>4, <2>1 DEF Valid
  <2>3. Walks'
    BY <2>1 DEF Walks
  <2>4. Valids'
    BY SMTT(60), <1>1, <1>2, <2>1, <2>2 DEF Valids, Node, SoundNode
  <2>5. OptionsMatch'
    <3>1. OwnFields(NoSlots, OptionsType(Node.kind))
      BY DEF OwnFields, Outermost, NoSlots
    <3> DEFINE e == [path |-> OptionsPath(Node), slots |-> NoSlots]
    <3>2. e.path = OptionsPath(Node) /\ e.slots = NoSlots /\ options' = Append(options, e)
      BY <2>1
    <3>3. OwnFields(e.slots, OptionsType(Node.kind))
      BY <3>1, <3>2
    <3>4. OptionsMatch /\ options \in Seq(Range(options)) /\ phase' = phase
      BY <2>1 DEF VInv, Verdicts, IInv
    <3> HIDE DEF e
    <3> QED BY <1>2, <3>2, <3>3, <3>4, OptionsMatchOneMore
  <2>6. Fits'
    BY <1>2, <2>1 DEF VInv, Verdicts, Fits, FitsIn, Given
  <2> QED BY <2>3, <2>4, <2>5, <2>6 DEF Verdicts
<1> QED BY <1>3, <1>4

LEMMA EndVerdict ==
  ASSUME VInv, EndNode
  PROVE  Verdicts'
<1>1. Len(options) < Len(file.nodes) /\ phase = "option" /\ cursor.option > Len(Node.uninterpreted)
      /\ cursor.option \in Nat \ {0} /\ options \in Seq(Range(options))
  BY DEF VInv, EndNode, IInv
<1>2. SoundNode
  BY <1>1, NodeIsSound DEF VInv
<1> DEFINE shown == { s \in DOMAIN slots : /\ ~Within(s, << >>, UninterpretedOption)
                                           /\ Shows(slots[s].field, slots[s].value) }
           entry == [path |-> OptionsPath(Node), slots |-> [s \in shown |-> slots[s]]]
<1>3. /\ options' = Append(options, entry) /\ phase' = "visit"
      /\ file' = file /\ slots' = slots /\ errors' = errors
  BY DEF EndNode, visited
<1>4. entry.path = OptionsPath(Node) /\ OwnFields(entry.slots, OptionsType(Node.kind))
  <2>1. Message(slots) /\ WellTyped(slots, OptionsType(Node.kind))
    BY <1>1 DEF VInv, IInv, Verdicts, Walks, Typed
  <2>2. ASSUME NEW s \in DOMAIN slots, s[1] = << >>
        PROVE  slots[s].field \in Fields /\ slots[s].field.parent = OptionsType(Node.kind)
    BY <2>1, <2>2 DEF Message, WellTyped, HasType
  <2>3. entry.slots = [s \in shown |-> slots[s]]
    OBVIOUS
  <2>4. DOMAIN entry.slots = shown /\ \A s \in shown : s \in DOMAIN slots /\ entry.slots[s] = slots[s]
    BY <2>3
  <2>5. entry.path = OptionsPath(Node)
    OBVIOUS
  <2> HIDE DEF entry, shown
  <2> QED BY <2>2, <2>4, <2>5 DEF OwnFields, Outermost
<1> HIDE DEF entry
<1>5. Len(options) \in Nat /\ Len(options') = Len(options) + 1 /\ options'[Len(options) + 1].path = OptionsPath(Node)
      /\ \A n \in 1..Len(options) : options'[n] = options[n]
  BY <1>1, <1>3, <1>4
<1>6. \A n \in 1..Len(options') : n \in 1..Len(options) \/ n = Len(options) + 1
  BY <1>5
<1>7. ASSUME errors = {} PROVE ValidSoFar'
  <2>1. ValidSoFar
    BY <1>7 DEF VInv, Verdicts, Valids
  <2>2. cursor.option = Len(Node.uninterpreted) + 1 /\ Len(Node.uninterpreted) \in Nat
    BY <1>1, <1>2 DEF VInv, Verdicts, Walks, Bounded, SoundNode
  <2>3. Valid(Node)
    <3>1. 1..(cursor.option - 1) = DOMAIN Node.uninterpreted
      BY <1>2, <2>2 DEF SoundNode
    <3> QED BY <1>1, <2>1, <3>1 DEF ValidSoFar, Valid
  <2>4. \A n \in 1..Len(options') : Valid(file.nodes[n])
    BY <1>6, <2>1, <2>3 DEF ValidSoFar, Node
  <2> QED BY <1>3, <2>4 DEF ValidSoFar
<1>8. Valids'
  BY <1>3, <1>7 DEF VInv, Verdicts, Valids
<1>9. Walks'
  BY SMTT(60), <1>3 DEF Walks
<1>10. OptionsMatch'
  BY <1>1, <1>3, <1>4, OptionsMatchOneMore DEF VInv, Verdicts
<1>11. Fits'
  BY <1>3 DEF VInv, Verdicts, Fits, FitsIn, Given
<1> QED BY <1>8, <1>9, <1>10, <1>11 DEF Verdicts

\* Once options are interpreted, only the phase changes, or what is applied.
LEMMA LaterVerdict ==
  ASSUME VInv, file' = file, options' = options, slots' = slots, errors' = errors, cursor' = cursor, phase # "option",
         \/ phase' = phase
         \/ phase = "apply" /\ phase' = "accepted"
         \/ phase = "visit" /\ Len(options) = Len(file.nodes) /\ phase' = IF errors = {} THEN "apply" ELSE "refused"
  PROVE  Verdicts'
<1>1. phase' # "option"
  OBVIOUS
<1>2. Valids'
  <2>1. Valids
    BY DEF VInv, Verdicts
  <2>2. ValidSoFar => ValidSoFar'
    BY <1>1 DEF ValidSoFar
  <2> QED BY <1>1, <2>1, <2>2 DEF Valids
<1>3. Walks'
  BY <1>1 DEF Walks
<1>4. OptionsMatch'
  BY OptionsStillMatch DEF VInv, Verdicts
<1>5. Fits'
  BY DEF VInv, Verdicts, Fits, FitsIn, Given
<1> QED BY <1>2, <1>3, <1>4, <1>5 DEF Verdicts

\* The options of each element are where set_file_option looks for them, so only a
\* field on which the pool and the crate disagree makes it panic.
LEMMA StoreFailsVerdict ==
  ASSUME VInv, StoreFails
  PROVE  Verdicts'
<1> DEFINE n == applied + 1
<1>1. OptionsMatch /\ Valids /\ Walks /\ Fits /\ file \in Files /\ phase = "apply" /\ phase' = "panicked"
  BY DEF VInv, Verdicts, IInv, StoreFails
<1>2. UNCHANGED <<file, options, slots, errors, cursor>>
  BY DEF StoreFails, visited
<1>3. n \in 1..Len(options)
  BY DEF StoreFails, VInv, IInv
<1>4. Len(options) = Len(file.nodes) /\ file.nodes \in Seq(Range(file.nodes))
  BY <1>1, FilesAssumption DEF Valids
<1>5. options[n].path = OptionsPath(file.nodes[n]) /\ n \in DOMAIN file.nodes
      /\ OwnFields(options[n].slots, OptionsType(file.nodes[n].kind))
  BY <1>1, <1>3, <1>4 DEF OptionsMatch
<1>6. ~Reachable(options[n].path) \/ \E f \in Outermost(options[n].slots) : MayClash(f)
  BY DEF StoreFails
<1> HIDE DEF n
<1>7. Reachable(options[n].path)
  <2>1. IsElement(file.nodes[n].kind, file.nodes[n].path)
    <3>1. \A x \in Files : \A k \in DOMAIN x.nodes : IsElement(x.nodes[k].kind, x.nodes[k].path)
      BY TypesAssumption, Zenon
    <3> QED BY ONLY <1>1, <1>5, <3>1, Zenon
  <2>2. file.nodes[n].path \in Seq(Int)
    <3>1. \A x \in Files : \A k \in DOMAIN x.nodes : x.nodes[k].path \in Seq(Int)
      BY PathsAssumption, Zenon
    <3> QED BY ONLY <1>1, <1>5, <3>1, Zenon
  <2> QED BY <1>5, <2>1, <2>2, OptionsReachable DEF OptionsPath
<1>8. Disagrees
  <2>1. PICK f \in Outermost(options[n].slots) : MayClash(f)
    BY <1>6, <1>7
  <2>2. f \in Fields /\ f.parent = OptionsType(file.nodes[n].kind)
    BY <1>5 DEF OwnFields
  <2> QED BY <1>5, <2>1, <2>2 DEF Disagrees
<1>9. Disagrees'
  BY <1>2, <1>8 DEF Disagrees
<1>10. OptionsMatch'
  BY <1>1, <1>2, <1>9 DEF OptionsMatch, OptionsPath
<1>11. Valids'
  <2>1. ValidSoFar => ValidSoFar'
    BY <1>1, <1>2 DEF ValidSoFar
  <2> QED BY <1>1, <1>2, <2>1 DEF Valids
<1>12. Walks'
  BY <1>1 DEF Walks
<1>13. Fits'
  BY <1>1, <1>2 DEF Fits, FitsIn, Given
<1> QED BY <1>10, <1>11, <1>12, <1>13 DEF Verdicts

LEMMA InitVerdict == Init => VInv
<1> SUFFICES ASSUME Init PROVE VInv
  OBVIOUS
<1>1. IInv
  BY InitInv
<1>2. phase = "visit" /\ errors = {} /\ options = << >> /\ slots = NoSlots /\ applied = 0
  BY DEF Init
<1>3. 1..Len(options) = {} /\ DOMAIN slots = {}
  BY <1>2 DEF NoSlots
<1>4. Verdicts
  BY <1>2, <1>3 DEF Verdicts, Walks, Valids, ValidSoFar, OptionsMatch, Fits, FitsIn
<1> QED BY <1>1, <1>2, <1>4 DEF VInv

LEMMA NextVerdict == VInv /\ [Next]_vars => VInv'
<1> SUFFICES ASSUME VInv, [Next]_vars PROVE VInv'
  OBVIOUS
<1>1. IInv'
  BY NextInv DEF VInv
<1>2. Verdicts'
  <2>1. CASE StartNode
    BY <2>1, StartVerdict
  <2>2. CASE NotFound
    BY <2>2, NotFoundVerdict
  <2>3. CASE Descend
    BY <2>3, DescendVerdict
  <2>4. CASE SetValue
    BY <2>4, SetValueVerdict
  <2>5. CASE NoName
    BY <2>5, NoNameVerdict
  <2>6. CASE EndNode
    BY <2>6, EndVerdict
  <2>7. CASE EndVisit
    BY <2>7, LaterVerdict DEF EndVisit, visited
  <2>8. CASE StoreOptions
    BY <2>8, LaterVerdict DEF StoreOptions
  <2>12. CASE StoreFails
    BY <2>12, StoreFailsVerdict
  <2>9. CASE ApplyLocations
    BY <2>9, LaterVerdict DEF ApplyLocations
  <2>10. CASE Accept
    BY <2>10, LaterVerdict DEF Accept, visited
  <2>11. CASE UNCHANGED vars
    <3>1. /\ file' = file /\ phase' = phase /\ cursor' = cursor /\ slots' = slots /\ errors' = errors /\ options' = options
          /\ Node' = Node /\ Option' = Option
      BY <2>11 DEF vars, Node, Option
    <3>2. CASE phase = "option"
      <4>1. Walks'
        BY <3>1 DEF VInv, Verdicts, Walks, Bounded, Typed, Walked, Account
      <4>2. Valids'
        BY <3>1 DEF VInv, Verdicts, Valids, ValidSoFar
      <4>3. OptionsMatch'
        BY <3>1, OptionsStillMatch DEF VInv, Verdicts
      <4>4. Fits'
        BY <3>1 DEF VInv, Verdicts, Fits, FitsIn, Given
      <4> QED BY <4>1, <4>2, <4>3, <4>4 DEF Verdicts
    <3>3. CASE phase # "option"
      BY <3>1, <3>3, LaterVerdict
    <3> QED BY <3>2, <3>3
  <2> QED BY <2>1, <2>2, <2>3, <2>4, <2>5, <2>6, <2>7, <2>8, <2>9, <2>10, <2>11, <2>12 DEF Next
<1>3. applied' \in Nat
  <2>1. applied \in Nat
    BY SMTT(60) DEF VInv
  <2>2. StartNode \/ NotFound \/ Descend \/ SetValue \/ NoName \/ EndNode \/ EndVisit \/ StoreFails \/ Accept => applied' = applied
    BY DEF StartNode, NotFound, Descend, SetValue, NoName, EndNode, EndVisit, StoreFails, Accept, visited, Fails, Interpreted
  <2>3. StoreOptions \/ ApplyLocations => applied' \in {applied, applied + 1}
    BY DEF StoreOptions, ApplyLocations
  <2>4. UNCHANGED vars => applied' = applied
    BY DEF vars
  <2> QED BY <2>1, <2>2, <2>3, <2>4 DEF Next
<1> QED BY <1>1, <1>2, <1>3 DEF VInv

\* The visitor refuses a file exactly when an option of it is wrong by the rules of
\* options (ValidOption reads them from the file alone, without a cursor), never
\* stores a value its field does not have, and set_file_option never panics, as long as the
\* pool's options types agree with the crate's on the wire types of the fields of both.
THEOREM VerdictsOnOptions == Spec => []VerdictIsRight
<1>1. VInv => VerdictIsRight
  <2> SUFFICES ASSUME VInv PROVE VerdictIsRight
    OBVIOUS
  <2>1. DOMAIN file.nodes = 1..Len(file.nodes)
    BY FilesAssumption DEF VInv, IInv
  <2>2. phase \in {"apply", "accepted"} => \A n \in DOMAIN file.nodes : Valid(file.nodes[n])
    BY <2>1 DEF VInv, Verdicts, Valids, ValidSoFar
  <2>3. phase = "refused" => \E n \in DOMAIN file.nodes : ~Valid(file.nodes[n])
    BY DEF VInv, Verdicts, Valids
  <2>4. \A s \in DOMAIN slots : ValueFits(slots[s].field, slots[s].value) \/ Given(slots[s])
    BY DEF VInv, Verdicts, Fits, FitsIn
  <2>5. phase = "panicked" => Disagrees
    BY DEF VInv, Verdicts, OptionsMatch
  <2> QED BY <2>2, <2>3, <2>4, <2>5 DEF VerdictIsRight, Disagrees
<1>2. Init => VInv
  BY InitVerdict
<1>3. VInv /\ [Next]_vars => VInv'
  BY NextVerdict
<1> QED BY <1>1, <1>2, <1>3, PTL DEF Spec

-----------------------------------------------------------------------------
(* Where the values of options are.                                        *)

Naturals == Nat

\* Where the value of an option may be, from the path of its field.
Rests(f) == IF f.card = "repeated" THEN { <<k>> : k \in Naturals } ELSE {<< >>}

\* The field of the slot is f, and has the value x, if it is a list at the place of it.
Holds(slot, f, x, rest) ==
  /\ slot.field = f
  /\ CASE f.card = "repeated" -> rest[1] + 1 \in DOMAIN slot.value /\ slot.value[rest[1] + 1] = x
       [] f.card = "map" -> x[1] \in DOMAIN slot.value
       [] OTHER -> slot.value = x

\* The slot is there, and what it was given in it.
Left(message, slot, given) == slot \in Shown(message) /\ Grows(given, message[slot])

Placed(node, j, path) ==
  \E l \in Range(locations) : /\ l.from = OptionsPath(node) \o <<UninterpretedOption, j - 1>>
                              /\ l.to = OptionsPath(node) \o path

\* An option after j, or the way to the cursor, has removed the slot.
Lost(j, c, slot) ==
  (\E k \in (j + 1)..(cursor.option - 1) : Removes(Node, k, slot)) \/ RemovedBy(c, slot)

\* Option j is in the message, where its location leads.
HeldAt(j, c, rest) ==
  LET ch == ChainOf(Node, j) f == Last(ch) own == SlotOf(ch) x == Literal(Node, j)
      base == Append(own[1], own[2])
  IN /\ Placed(Node, j, base \o rest)
     /\ f.card = "singular" /\ f.kind = "message" =>
          \A s \in Shown(x) : Lost(j, c, There(base, s)) \/ Left(slots, There(base, s), x[s])
     /\ f.card # "singular" \/ f.kind # "message" =>
          \/ f.card = "singular" /\ ~Shows(f, x)
          \/ Lost(j, c, own)
          \/ own \in Shown(slots) /\ Holds(slots[own], f, x, rest)
Held(j, c) == \E rest \in Rests(Last(ChainOf(Node, j))) : HeldAt(j, c, rest)

Holding(c) == \A j \in 1..(cursor.option - 1) : Node.uninterpreted[j].name # << >> => Held(j, c)
Finds == errors = {} /\ phase = "option" => \E c \in Seq(Fields) : Walked(c) /\ Holding(c)

\* What is at the end of a node, and where it is stored.
Ended(n) == \A i \in DOMAIN file.nodes[n].uninterpreted : Arrives(options[n].slots, file.nodes[n], i)
Ends == errors = {} => \A n \in 1..Len(options) : Ended(n)
Stores ==
  /\ DOMAIN stored = { OptionsPath(file.nodes[n]) : n \in DOMAIN file.nodes }
  /\ applied > 0 => phase \in {"apply", "accepted", "panicked"}
  /\ \A n \in 1..applied : n <= Len(options) => stored[OptionsPath(file.nodes[n])] = options[n].slots
  /\ phase = "accepted" => Len(options) <= applied

AInv == LInv /\ VInv /\ Finds /\ Ends /\ Stores
-----------------------------------------------------------------------------
(* Values that grow.                                                       *)

IsList(slot) == slot.field.card = "repeated" => slot.value \in Seq(Range(slot.value))

\* A list of values is one of values of any larger set.
LEMMA ListIn ==
  ASSUME NEW v, v \in Seq(Range(v)), NEW S, Range(v) \subseteq S
  PROVE  v \in Seq(S)
OBVIOUS

\* Beginnings of lists, whatever is in them.
LEMMA BeginningIs ==
  ASSUME NEW p, p \in Seq(Range(p)), NEW q, q \in Seq(Range(q))
  PROVE  IsPrefix(p, q) <=> Len(p) <= Len(q) /\ \A i \in 1..Len(p) : p[i] = q[i]
<1> DEFINE S == Range(p) \cup Range(q)
<1>1. p \in Seq(S) /\ q \in Seq(S)
  BY ListIn
<1> QED BY <1>1, PrefixIs

\* A value is one that has not grown.
LEMMA GrowsSame ==
  ASSUME NEW a, IsList(a)
  PROVE  Grows(a, a)
<1>1. a.field.card = "repeated" => IsPrefix(a.value, a.value)
  <2> SUFFICES ASSUME a.field.card = "repeated" PROVE IsPrefix(a.value, a.value)
    OBVIOUS
  <2>1. a.value \in Seq(Range(a.value))
    BY DEF IsList
  <2>2. Len(a.value) <= Len(a.value)
    BY <2>1
  <2> QED BY <2>1, <2>2, BeginningIs
<1> QED BY <1>1 DEF Grows

\* A value that has grown twice has grown.
LEMMA GrowsOn ==
  ASSUME NEW a, NEW b, NEW c, IsList(a), IsList(b), IsList(c), Grows(a, b), Grows(b, c)
  PROVE  Grows(a, c)
<1>1. b.field = a.field /\ c.field = a.field
  BY DEF Grows
<1>2. CASE a.field.card = "repeated"
  <2>1. a.value \in Seq(Range(a.value)) /\ b.value \in Seq(Range(b.value)) /\ c.value \in Seq(Range(c.value))
    BY <1>1, <1>2 DEF IsList
  <2>2. IsPrefix(a.value, b.value) /\ IsPrefix(b.value, c.value)
    BY <1>1, <1>2 DEF Grows
  <2>3. Len(a.value) <= Len(b.value) /\ \A i \in 1..Len(a.value) : a.value[i] = b.value[i]
    BY <2>1, <2>2, BeginningIs
  <2>4. Len(b.value) <= Len(c.value) /\ \A i \in 1..Len(b.value) : b.value[i] = c.value[i]
    BY <2>1, <2>2, BeginningIs
  <2>5. Len(a.value) <= Len(c.value) /\ \A i \in 1..Len(a.value) : a.value[i] = c.value[i]
    <3>1. Len(a.value) \in Nat /\ Len(b.value) \in Nat /\ Len(c.value) \in Nat
      BY <2>1
    <3>2. 1..Len(a.value) \subseteq 1..Len(b.value)
      BY <3>1, <2>3
    <3> QED BY <2>3, <2>4, <3>1, <3>2
  <2>6. IsPrefix(a.value, c.value)
    BY <2>1, <2>5, BeginningIs
  <2> QED BY <1>1, <1>2, <2>6 DEF Grows
<1>3. CASE a.field.card # "repeated"
  BY <1>1, <1>3 DEF Grows
<1> QED BY <1>2, <1>3

\* What a field holds it still holds when its value has grown.
LEMMA HoldsOn ==
  ASSUME NEW a, NEW b, IsList(a), IsList(b), Grows(a, b), NEW f \in Fields, NEW x, NEW rest \in Rests(f),
         Holds(a, f, x, rest)
  PROVE  Holds(b, f, x, rest)
<1>1. a.field = f /\ b.field = f
  BY DEF Grows, Holds
<1>2. CASE f.card = "repeated"
  <2>1. a.value \in Seq(Range(a.value)) /\ b.value \in Seq(Range(b.value))
    BY <1>1, <1>2 DEF IsList
  <2>2. IsPrefix(a.value, b.value)
    BY <1>1, <1>2 DEF Grows
  <2>3. Len(a.value) <= Len(b.value) /\ \A i \in 1..Len(a.value) : a.value[i] = b.value[i]
    BY <2>1, <2>2, BeginningIs
  <2>4. rest[1] + 1 \in DOMAIN a.value /\ a.value[rest[1] + 1] = x
    BY <1>2 DEF Holds
  <2>5. rest[1] + 1 \in DOMAIN b.value /\ b.value[rest[1] + 1] = x
    <3>1. DOMAIN a.value = 1..Len(a.value) /\ DOMAIN b.value = 1..Len(b.value) /\ Len(a.value) \in Nat /\ Len(b.value) \in Nat
      BY <2>1
    <3>2. 1..Len(a.value) \subseteq 1..Len(b.value)
      BY <2>3, <3>1
    <3> QED BY <2>3, <2>4, <3>1, <3>2
  <2> QED BY <1>1, <1>2, <2>5 DEF Holds
<1>3. CASE f.card = "map"
  BY <1>1, <1>3 DEF Grows, Holds
<1>4. CASE f.card \notin {"repeated", "map"}
  BY <1>1, <1>4 DEF Grows, Holds
<1> QED BY <1>2, <1>3, <1>4

\* The values of a message are lists where they should be.
LEMMA ListsAre ==
  ASSUME NEW m, NEW root, WellTyped(m, root), NEW s \in DOMAIN m
  PROVE  IsList(m[s])
BY DEF WellTyped, IsList
-----------------------------------------------------------------------------
(* What an option leaves of the others.                                    *)

\* What shows and is not removed stays as it is when a field is reached.
LEMMA GetMutLeaves ==
  ASSUME Message(slots), NEW root, WellTyped(slots, root), NEW at \in Seq(Int), NEW f \in Fields,
         HasType(slots, root, at, f.parent), NEW slot \in Shown(slots), Kept(slot, at, f)
  PROVE  slot \in Shown(GetMut(at, f)) /\ GetMut(at, f)[slot] = slots[slot]
<1>1. slot \in Shown(GetMut(at, f))
  BY GetMutShows
<1>2. slot \in DOMAIN slots
  BY DEF Shown
<1> QED BY <1>1, <1>2, GetMutIs

\* What shows and is not removed has at most grown when a value is set that was not set.
LEMMA WithValueLeaves ==
  ASSUME Message(slots), NEW root, WellTyped(slots, root), NEW at \in Seq(Int), NEW f \in Fields,
         HasType(slots, root, at, f.parent), f.card = "singular" => ~Has(at, f), NEW x,
         f.kind = "message" /\ f.card = "singular" => Message(x),
         NEW slot \in Shown(slots), Kept(slot, at, f)
  PROVE  slot \in Shown(WithValue(at, f, x)) /\ Grows(slots[slot], WithValue(at, f, x)[slot])
<1> DEFINE m == GetMut(at, f)  own == <<at, f.number>>  n == WithValue(at, f, x)
           put(y) == [m EXCEPT ![own].value = y]
<1>1. Message(m) /\ own \in DOMAIN m /\ m[own].field = f
  BY OwnIs
<1>2. slot \in Shown(m) /\ m[slot] = slots[slot] /\ slot \in DOMAIN m /\ slot \in DOMAIN slots
  <2>1. slot \in Shown(m) /\ m[slot] = slots[slot]
    BY GetMutLeaves
  <2> QED BY <2>1 DEF Shown
<1>3. slot \in Shown(n)
  BY WithValueShows
<1>4. WellTyped(m, root)
  BY GetMutTyped
<1>5. f.card \in {"singular", "repeated", "map"}
  BY Cards
<1>6. IsList(m[slot]) /\ Grows(m[slot], m[slot])
  BY <1>2, <1>4, ListsAre, GrowsSame
<1>7. f.card = "singular" => slot # own
  <2> SUFFICES ASSUME f.card = "singular", slot = own PROVE FALSE
    OBVIOUS
  <2>1. slots[own].field = f
    BY <1>2, OwnField
  <2> QED BY <2>1 DEF Shown, Has
<1> HIDE DEF m, own
<1>8. ASSUME NEW y PROVE put(y)[own] = [field |-> f, value |-> y] /\ \A s \in DOMAIN m : s # own => put(y)[s] = m[s]
  BY <1>1, PutIs
<1> HIDE DEF put, n
<1>9. ASSUME NEW y, n = put(y), slot # own PROVE Grows(slots[slot], n[slot])
  <2>1. put(y)[slot] = m[slot]
    BY <1>2, <1>8, <1>9
  <2>2. n[slot] = slots[slot] /\ Grows(slots[slot], slots[slot])
    BY <1>2, <1>6, <1>9, <2>1
  <2> QED BY <2>2
<1> SUFFICES Grows(slots[slot], n[slot])
  BY <1>3 DEF n
<1>10. CASE f.card = "repeated"
  <2>1. n = put(Append(m[own].value, x))
    BY <1>10 DEF WithValue, m, n, own, put
  <2>2. m[own].value \in Seq(Range(m[own].value))
    BY <1>1, <1>4, <1>10 DEF WellTyped
  <2>3. IsPrefix(m[own].value, Append(m[own].value, x))
    <3> DEFINE v == m[own].value  w == Append(v, x)
    <3> HIDE DEF v
    <3>1. v \in Seq(Range(v)) /\ w \in Seq(Range(v) \cup {x}) /\ v \in Seq(Range(v) \cup {x})
      BY <2>2, ListIn DEF v
    <3>2. Len(v) <= Len(w) /\ \A i \in 1..Len(v) : v[i] = w[i]
      BY <3>1
    <3>3. IsPrefix(v, w)
      BY <3>1, <3>2, PrefixIs
    <3> QED BY <3>3 DEF v
  <2>4. CASE slot = own
    <3>1. n[own] = [field |-> f, value |-> Append(m[own].value, x)]
      BY <1>8, <2>1
    <3>2. slots[slot] = m[own] /\ m[own].field.card = "repeated"
      BY <1>1, <1>2, <1>10, <2>4
    <3>3. n[own].field = f /\ n[own].value = Append(m[own].value, x)
      BY <3>1
    <3> QED BY <1>1, <2>3, <2>4, <3>2, <3>3 DEF Grows
  <2> QED BY <1>9, <2>1, <2>4
<1>11. CASE f.card = "map"
  <2> DEFINE y == [k \in DOMAIN m[own].value \cup {x[1]} |-> IF k = x[1] THEN x[2] ELSE m[own].value[k]]
  <2>1. n = put(y)
    BY <1>11 DEF WithValue, m, n, own, put
  <2>2. DOMAIN m[own].value \subseteq DOMAIN y
    OBVIOUS
  <2> HIDE DEF y
  <2>4. CASE slot = own
    <3>1. n[own] = [field |-> f, value |-> y]
      BY <1>8, <2>1
    <3>2. slots[slot] = m[own] /\ m[own].field.card = "map"
      BY <1>1, <1>2, <1>11, <2>4
    <3>3. n[own].field = f /\ n[own].value = y
      BY <3>1
    <3> QED BY <1>1, <2>2, <2>4, <3>2, <3>3 DEF Grows
  <2> QED BY <1>9, <2>1, <2>4
<1>12. CASE f.card = "singular" /\ f.kind # "message"
  <2>1. n = put(x)
    BY <1>12 DEF WithValue, m, n, own, put
  <2> QED BY <1>7, <1>9, <1>12, <2>1
<1>13. CASE f.card = "singular" /\ f.kind = "message"
  <2>1. n = Grafted(at, f, x) /\ Message(x)
    BY <1>13 DEF WithValue, n
  <2>2. GraftedAs(n, m, Append(at, f.number), x)
    BY <2>1, GraftedIs DEF m
  <2>3. own \notin DOMAIN slots
    <3> SUFFICES ASSUME own \in DOMAIN slots PROVE FALSE
      OBVIOUS
    <3>1. f.presence
      BY <1>13, Cards
    <3>2. slots[own].field = f
      BY OwnField DEF own
    <3> QED BY <1>13, <3>1, <3>2 DEF Has, Shows, own
  <2>4. ~IsPrefix(Append(at, f.number), slot[1])
    <3>1. f.number \in Int
      BY FilesAssumption
    <3> QED BY <1>2, <2>3, <3>1, NothingBelow DEF own
  <2>5. n[slot] = m[slot]
    BY <1>2, <2>2, <2>4 DEF GraftedAs
  <2> QED BY <1>2, <1>6, <2>5
<1> QED BY <1>5, <1>10, <1>11, <1>12, <1>13
\* The value is where its path leads, unless it does not show.
HeldOwn(m, at, f, x, rest) ==
  /\ rest \in Rests(f) /\ ValuePath(at, f) = Append(at, f.number) \o rest
  /\ \/ f.card = "singular" /\ (f.kind = "message" \/ ~Shows(f, x))
     \/ <<at, f.number>> \in Shown(m) /\ Holds(m[<<at, f.number>>], f, x, rest)

\* The value that is set is where its path leads.
LEMMA WithValueHolds ==
  ASSUME Message(slots), NEW root, WellTyped(slots, root), NEW at \in Seq(Int), NEW f \in Fields,
         HasType(slots, root, at, f.parent), f.card = "singular" => ~Has(at, f), NEW x,
         f.kind = "message" /\ f.card = "singular" => Message(x)
  PROVE  \E rest \in Rests(f) : HeldOwn(WithValue(at, f, x), at, f, x, rest)
<1> DEFINE m == GetMut(at, f)  own == <<at, f.number>>  n == WithValue(at, f, x)
           put(y) == [m EXCEPT ![own].value = y]
<1>1. Message(m) /\ own \in DOMAIN m /\ m[own].field = f
  BY OwnIs
<1>2. WellTyped(m, root)
  BY GetMutTyped
<1>3. f.card \in {"singular", "repeated", "map"}
  BY Cards
<1>4. f.card # "singular" \/ Shows(f, x) => own \in Shown(n)
  <2>1. own \in Shown(n) <=> (own \in Shown(slots) /\ Kept(own, at, f)) \/ Set(own, at, f, x)
    BY WithValueShows
  <2> QED BY <2>1 DEF Set
<1> HIDE DEF m, own
<1>5. ASSUME NEW y PROVE put(y)[own].field = f /\ put(y)[own].value = y
  <2>1. put(y)[own] = [field |-> f, value |-> y]
    BY <1>1, PutIs
  <2> QED BY <2>1
<1> HIDE DEF put, n
<1>6. CASE f.card = "repeated"
  <2> DEFINE v == m[own].value
  <2>1. n = put(Append(v, x)) /\ ValuePath(at, f) = Append(at, f.number) \o <<Len(v)>>
    BY <1>6 DEF WithValue, ValuePath, m, n, own, put
  <2>2. v \in Seq(Range(v))
    BY <1>1, <1>2, <1>6 DEF WellTyped
  <2> HIDE DEF v
  <2>3. v \in Seq(Range(v) \cup {x})
    BY <2>2, ListIn
  <2>4. Len(v) \in Nat /\ Len(v) + 1 \in DOMAIN Append(v, x) /\ Append(v, x)[Len(v) + 1] = x
    BY <2>3
  <2>5. n[own].field = f /\ n[own].value = Append(v, x)
    BY <1>5, <2>1
  <2>6. <<Len(v)>> \in Rests(f) /\ <<Len(v)>>[1] = Len(v)
    BY <1>6, <2>4 DEF Rests, Naturals
  <2>7. Holds(n[own], f, x, <<Len(v)>>)
    BY <1>6, <2>4, <2>5, <2>6 DEF Holds
  <2>8. HeldOwn(n, at, f, x, <<Len(v)>>)
    BY <1>4, <1>6, <2>1, <2>6, <2>7 DEF HeldOwn, own
  <2> QED BY <2>6, <2>8 DEF n
<1>7. ASSUME f.card # "repeated" PROVE << >> \in Rests(f) /\ ValuePath(at, f) = Append(at, f.number) \o << >>
  BY <1>7 DEF Rests, ValuePath
<1>8. ASSUME f.card # "repeated",
             (f.card = "singular" /\ (f.kind = "message" \/ ~Shows(f, x))) \/ Holds(n[own], f, x, << >>)
      PROVE  \E rest \in Rests(f) : HeldOwn(n, at, f, x, rest)
  BY <1>4, <1>7, <1>8 DEF HeldOwn, own
<1>9. CASE f.card = "map"
  <2> DEFINE y == [k \in DOMAIN m[own].value \cup {x[1]} |-> IF k = x[1] THEN x[2] ELSE m[own].value[k]]
  <2>1. n = put(y)
    BY <1>9 DEF WithValue, m, n, own, put
  <2>2. x[1] \in DOMAIN y
    OBVIOUS
  <2> HIDE DEF y
  <2>3. n[own].field = f /\ n[own].value = y
    BY <1>5, <2>1
  <2>4. Holds(n[own], f, x, << >>)
    BY <1>9, <2>2, <2>3 DEF Holds
  <2> QED BY <1>8, <1>9, <2>4 DEF n
<1>10. CASE f.card = "singular" /\ f.kind # "message"
  <2>1. n = put(x)
    BY <1>10 DEF WithValue, m, n, own, put
  <2>2. n[own].field = f /\ n[own].value = x
    BY <1>5, <2>1
  <2>3. Holds(n[own], f, x, << >>)
    BY <1>10, <2>2 DEF Holds
  <2> QED BY <1>8, <1>10, <2>3 DEF n
<1>11. CASE f.card = "singular" /\ f.kind = "message"
  BY <1>8, <1>11 DEF n
<1> QED BY <1>3, <1>6, <1>9, <1>10, <1>11

\* What shows in a message literal is in the field it is given.
LEMMA LiteralLeft ==
  ASSUME Message(slots), NEW at \in Seq(Int), NEW f \in Fields, f.card = "singular", f.kind = "message",
         NEW x, Message(x), NEW type, WellTyped(x, type), NEW s \in Shown(x)
  PROVE  Left(WithValue(at, f, x), There(Append(at, f.number), s), x[s])
<1> DEFINE n == WithValue(at, f, x)  base == Append(at, f.number)
<1>1. GraftedAs(n, GetMut(at, f), base, x)
  <2>1. n = Grafted(at, f, x)
    BY DEF WithValue
  <2> QED BY <2>1, GraftedIs
<1>2. s \in DOMAIN x /\ Shows(x[s].field, x[s].value)
  BY DEF Shown
<1> HIDE DEF n, base
<1>3. There(base, s) \in DOMAIN n /\ n[There(base, s)] = x[s]
  BY <1>1, <1>2 DEF GraftedAs
<1>4. Grows(x[s], x[s])
  BY <1>2, ListsAre, GrowsSame
<1>5. There(base, s) \in Shown(n)
  BY <1>2, <1>3 DEF Shown
<1>6. Left(n, There(base, s), x[s])
  BY <1>3, <1>4, <1>5 DEF Left
<1> QED BY <1>6 DEF n, base
-----------------------------------------------------------------------------
(* Options that are right, and what later ones leave of them.              *)

\* The option has a chain of fields, and a value of the last.
Right(node, j) ==
  LET ch == ChainOf(node, j) f == Last(ch) own == SlotOf(ch) x == Literal(node, j)
  IN /\ Walk(node, node.uninterpreted[j].name, ch) /\ Len(ch) = Len(node.uninterpreted[j].name)
     /\ Len(ch) \in Nat \ {0} /\ f \in Fields /\ f = ch[Len(ch)]
     /\ own \in PathSlots /\ own[2] = f.number
     /\ x \in Converted(f, node.uninterpreted[j].value)
     /\ f.kind = "message" /\ f.card = "singular" => Sound(x, f.type)

\* A valid option is right.
LEMMA RightOption ==
  ASSUME SoundNode, NEW j \in 1..Len(Node.uninterpreted), Node.uninterpreted[j].name # << >>, ValidOption(Node, j)
  PROVE  Right(Node, j)
<1> DEFINE name == Node.uninterpreted[j].name  v == Node.uninterpreted[j].value
<1>1. PICK c \in Chains(Node, name) : Converted(Last(c), v) # {}
  BY DEF ValidOption
<1>2. name \in Seq(Range(name))
  BY DEF SoundNode
<1>3. Walk(Node, name, c) /\ Len(c) = Len(name)
  BY <1>2, ChainsAre
<1>4. ChainOf(Node, j) = c
  BY <1>2, <1>3, ChainOfIs
<1>5. c \in Seq(Fields) /\ Len(c) \in Nat \ {0}
  <2>1. Len(name) # 0
    BY <1>2
  <2> QED BY <1>3, <2>1 DEF Walk
<1>6. Len(c) \in 1..Len(c) /\ Last(c) = c[Len(c)] /\ Last(c) \in Fields
  BY <1>5 DEF Last
<1>7. SlotOf(c) \in PathSlots /\ SlotOf(c)[2] = Last(c).number
  BY <1>5, <1>6, SlotAtIs DEF SlotOf
<1> DEFINE x == Literal(Node, j)  f == Last(c)
<1>8. x \in Converted(f, v)
  BY <1>1, <1>4 DEF Literal
<1>9. ASSUME f.kind = "message", f.card = "singular" PROVE Sound(x, f.type)
  <2>1. v.is = "aggregate" /\ v.type = f.type /\ x = v.value
    BY <1>8, <1>9 DEF Converted, Integral
  <2>2. \A g \in Fields : g.kind = "message" /\ v.is = "aggregate" /\ v.type = g.type => Sound(v.value, g.type)
    BY DEF SoundNode
  <2> QED BY <1>6, <1>9, <2>1, <2>2
<1> QED BY <1>3, <1>4, <1>5, <1>6, <1>7, <1>8, <1>9 DEF Right

\* What a step leaves in the message: all that it does not lose.
Leaves(at, f, now) ==
  \A slot \in Shown(slots) : Kept(slot, at, f) => slot \in Shown(now) /\ Grows(slots[slot], now[slot])

\* A step that is losing no more than it may keeps what an option has left.
LEMMA HeldStays ==
  ASSUME NEW j, Right(Node, j), Node' = Node, NEW c, NEW d, NEW f, NEW at, Held(j, c),
         Range(locations) \subseteq Range(locations'),
         \A slot : Lost(j, c, slot) \/ ~Kept(slot, at, f) => Lost(j, d, slot)',
         NEW root, WellTyped(slots, root), WellTyped(slots', root), Leaves(at, f, slots')
  PROVE  Held(j, d)'
<1> DEFINE ch == ChainOf(Node, j)  g == Last(ch)  own == SlotOf(ch)  x == Literal(Node, j)
           base == Append(own[1], own[2])
<1>1. PICK rest \in Rests(g) : HeldAt(j, c, rest)
  BY DEF Held
<1>2. Placed(Node, j, base \o rest)
  BY <1>1 DEF HeldAt
<1>3. Placed(Node, j, base \o rest)'
  BY <1>2 DEF Placed
<1>4. ASSUME g.card = "singular", g.kind = "message", NEW s \in Shown(x)
      PROVE  Lost(j, d, There(base, s))' \/ Left(slots', There(base, s), x[s])
  <2> DEFINE there == There(base, s)
  <2>1. Lost(j, c, there) \/ Left(slots, there, x[s])
    BY <1>1, <1>4 DEF HeldAt
  <2>2. Sound(x, g.type)
    BY <1>4 DEF Right
  <2>3. s \in DOMAIN x /\ IsList(x[s])
    <3>1. s \in DOMAIN x
      BY <1>4 DEF Shown
    <3> QED BY <2>2, <3>1, ListsAre DEF Sound
  <2> HIDE DEF there
  <2>4. ASSUME Left(slots, there, x[s]), Kept(there, at, f) PROVE Left(slots', there, x[s])
    <3>1. there \in Shown(slots) /\ Grows(x[s], slots[there])
      BY <2>4 DEF Left
    <3>2. there \in Shown(slots') /\ Grows(slots[there], slots'[there])
      BY <2>4, <3>1 DEF Leaves
    <3>3. there \in DOMAIN slots /\ there \in DOMAIN slots'
      BY <3>1, <3>2 DEF Shown
    <3>4. IsList(slots[there]) /\ IsList(slots'[there])
      BY <3>3, ListsAre
    <3>5. Grows(x[s], slots'[there])
      BY <2>3, <3>1, <3>2, <3>4, GrowsOn
    <3> QED BY <3>2, <3>5 DEF Left
  <2> QED BY <2>1, <2>4 DEF there
<1>5. ASSUME g.card # "singular" \/ g.kind # "message"
      PROVE  \/ g.card = "singular" /\ ~Shows(g, x)
             \/ Lost(j, d, own)'
             \/ own \in Shown(slots') /\ Holds(slots'[own], g, x, rest)
  <2>1. \/ g.card = "singular" /\ ~Shows(g, x)
        \/ Lost(j, c, own)
        \/ own \in Shown(slots) /\ Holds(slots[own], g, x, rest)
    BY <1>1, <1>5 DEF HeldAt
  <2>2. g \in Fields
    BY DEF Right
  <2>3. ASSUME own \in Shown(slots), Holds(slots[own], g, x, rest), Kept(own, at, f)
        PROVE  own \in Shown(slots') /\ Holds(slots'[own], g, x, rest)
    <3> HIDE DEF own, g, x
    <3>1. own \in Shown(slots') /\ Grows(slots[own], slots'[own])
      BY <2>3 DEF Leaves
    <3>2. own \in DOMAIN slots /\ own \in DOMAIN slots'
      BY <2>3, <3>1 DEF Shown
    <3>3. IsList(slots[own]) /\ IsList(slots'[own])
      BY <3>2, ListsAre
    <3> QED BY <1>1, <2>2, <2>3, <3>1, <3>3, HoldsOn
  <2> QED BY <2>1, <2>3
<1>6. HeldAt(j, d, rest)'
  BY <1>3, <1>4, <1>5 DEF HeldAt
<1> QED BY <1>1, <1>6 DEF Held
-----------------------------------------------------------------------------
(* Steps of the cursor.                                                    *)

\* The options before the one at the cursor are right.
LEMMA OptionsRight ==
  ASSUME VInv, SoundNode, phase = "option", errors = {}, cursor.option <= Len(Node.uninterpreted) + 1,
         cursor.option \in Nat, NEW j \in 1..(cursor.option - 1), Node.uninterpreted[j].name # << >>
  PROVE  Right(Node, j)
<1>1. ValidOption(Node, j)
  BY DEF VInv, Verdicts, Valids, ValidSoFar
<1>2. j \in 1..Len(Node.uninterpreted)
  BY DEF SoundNode
<1> QED BY <1>1, <1>2, RightOption

\* The cursor goes one field on.
LEMMA DescendFinds ==
  ASSUME AInv, Descend
  PROVE  Finds'
<1>1. InPart /\ AtPart /\ ~IsLast /\ VInv
  BY PartFacts DEF Descend, AInv
<1>2. PICK f \in Named :
       \/ /\ f.kind = "message" /\ f.card = "singular"
          /\ slots' = GetMut(cursor.at, f)
          /\ cursor' = [cursor EXCEPT !.part = @ + 1, !.at = Append(@, f.number), !.type = f.type]
          /\ UNCHANGED <<visited, phase, errors, options, locations>>
       \/ /\ f.kind # "message" \/ f.card # "singular"
          /\ Fails("InvalidOptionType", GetMut(cursor.at, f))
  BY DEF Descend
<1> DEFINE root == OptionsType(Node.kind)  at == cursor.at
<1> SUFFICES ASSUME errors' = {}, phase' = "option" PROVE \E d \in Seq(Fields) : Walked(d)' /\ Holding(d)'
  BY DEF Finds
<1>3. /\ f.kind = "message" /\ f.card = "singular"
      /\ slots' = GetMut(at, f)
      /\ cursor' = [cursor EXCEPT !.part = @ + 1, !.at = Append(@, f.number), !.type = f.type]
      /\ UNCHANGED <<visited, phase, errors, options, locations>>
  BY <1>2 DEF Fails
<1>4. f \in Fields /\ at \in Seq(Int) /\ Message(slots) /\ WellTyped(slots, root) /\ HasType(slots, root, at, f.parent)
  BY <1>1 DEF Named, Candidates, InPart, Sound
<1>5. WellTyped(slots', root) /\ Node' = Node /\ Range(locations) \subseteq Range(locations')
  BY <1>3, <1>4, GetMutTyped DEF visited, Node
<1>6. /\ cursor'.option = cursor.option /\ cursor'.part = cursor.part + 1
      /\ cursor'.at = Append(at, f.number) /\ cursor'.type = f.type
  <2>1. cursor = [option |-> cursor.option, part |-> cursor.part, at |-> cursor.at, type |-> cursor.type]
    BY <1>1 DEF InPart, IInv
  <2> QED BY ONLY <1>3, <2>1
<1>7. PICK c \in Seq(Fields) : Walked(c) /\ Holding(c)
  BY <1>1, <1>3 DEF AInv, Finds, InPart, InOption
<1> DEFINE d == Append(c, f)
<1>8. Extends(d, c, f) /\ Walk(Node, Option.name, d) /\ at = Numbers(c)
  BY <1>1, <1>3, <1>7, Longer
<1> HIDE DEF d
<1>9. d \in Seq(Fields) /\ Len(d) = Len(c) + 1 /\ Len(c) \in Nat /\ d[Len(c) + 1] = f
  BY <1>8 DEF Extends
<1>10. Walked(d)'
  <2>1. Option' = Option
    BY <1>3, <1>6 DEF Option, Node, visited
  <2>2. Len(d) = cursor'.part - 1
    BY <1>1, <1>6, <1>7, <1>9 DEF Walked, InPart
  <2>3. cursor'.at = Numbers(d)
    BY <1>6, <1>8 DEF Extends
  <2>4. d # << >> /\ d[Len(d)].type = f.type
    <3>1. Len(d) # 0 /\ Len(<< >>) = 0
      BY <1>9
    <3> QED BY <1>9, <3>1
  <2> QED BY <1>5, <1>6, <1>8, <2>1, <2>2, <2>3, <2>4 DEF Walked
<1>11. Leaves(at, f, slots')
  <2>1. ASSUME NEW slot \in Shown(slots), Kept(slot, at, f)
        PROVE  slot \in Shown(slots') /\ Grows(slots[slot], slots'[slot])
    <3>1. slot \in Shown(slots') /\ slots'[slot] = slots[slot] /\ slot \in DOMAIN slots
      BY <1>3, <1>4, <2>1, GetMutLeaves DEF Shown
    <3>2. IsList(slots[slot])
      BY <1>4, <3>1, ListsAre
    <3> QED BY <3>1, <3>2, GrowsSame
  <2> QED BY <2>1 DEF Leaves
<1>12. ASSUME NEW j \in 1..(cursor.option - 1), Node.uninterpreted[j].name # << >> PROVE Held(j, d)'
  <2>1. Held(j, c)
    BY <1>7, <1>12 DEF Holding
  <2>2. Right(Node, j)
    BY SMTT(60), <1>1, <1>3, <1>12, OptionsRight DEF InPart, InOption, SoundNode
  <2>3. ASSUME NEW slot, Lost(j, c, slot) \/ ~Kept(slot, at, f) PROVE Lost(j, d, slot)'
    <3>1. RemovedBy(d, slot) <=> RemovedBy(c, slot) \/ ~Kept(slot, at, f)
      BY <1>4, <1>8, RemovedNext
    <3> QED BY <1>5, <1>6, <2>3, <3>1 DEF Lost
  <2> HIDE DEF root, at
  <2> QED BY <1>4, <1>5, <1>11, <2>1, <2>2, <2>3, HeldStays
<1>13. Holding(d)'
  BY <1>5, <1>6, <1>12 DEF Holding
<1> QED BY <1>9, <1>10, <1>13
\* A list and what is appended to it.
LEMMA RangeAppended ==
  ASSUME NEW list, list \in Seq(Range(list)), NEW e
  PROVE  Range(list) \subseteq Range(Append(list, e)) /\ e \in Range(Append(list, e))
<1> DEFINE S == Range(list) \cup {e}  n == Append(list, e)
<1>1. list \in Seq(S) /\ e \in S
  BY ListIn
<1>2. Len(n) = Len(list) + 1 /\ n[Len(list) + 1] = e /\ (\A i \in 1..Len(list) : n[i] = list[i]) /\ Len(list) \in Nat
      /\ DOMAIN n = 1..Len(n) /\ DOMAIN list = 1..Len(list)
  BY <1>1
<1> HIDE DEF n
<1>3. Len(list) + 1 \in DOMAIN n /\ DOMAIN list \subseteq DOMAIN n
  BY <1>2
<1>4. n = Append(list, e)
  BY DEF n
<1> QED BY <1>2, <1>3, <1>4 DEF Range

\* No cursor has come anywhere when an option begins.
LEMMA AtBeginning ==
  ASSUME NEW i, cursor' = [option |-> i, part |-> 1, at |-> << >>, type |-> OptionsType(Node.kind)], Node' = Node
  PROVE  << >> \in Seq(Fields) /\ Walked(<< >>)' /\ cursor'.option = i
<1>1. << >> \in Seq(Fields) /\ Len(<< >>) = 0 /\ Numbers(<< >>) = << >> /\ \A node, name : Walk(node, name, << >>)
  BY NoWay
<1>2. cursor'.option = i /\ cursor'.part = 1 /\ cursor'.at = << >> /\ cursor'.type = OptionsType(Node.kind)
  OBVIOUS
<1>3. Len(<< >>) = cursor'.part - 1
  BY <1>1, <1>2
<1>4. Walk(Node', Option'.name, << >>)
  BY <1>1
<1> QED BY <1>1, <1>2, <1>3, <1>4 DEF Walked

\* The value of an option is found where its location leads, as long as none is after it.
LEMMA SetValueHeld ==
  ASSUME AInv, InPart, AtPart, IsLast, errors = {}, NEW at, at = cursor.at, NEW i, i = cursor.option,
         NEW f \in Named, f.card = "singular" => ~Has(at, f),
         NEW x \in Converted(f, Option.value), slots' = WithValue(at, f, x), Node' = Node,
         Interpreted(ValuePath(at, f))
  PROVE  Held(i, << >>)'
<1> DEFINE root == OptionsType(Node.kind)  own == <<at, f.number>>
<1>1. f \in Fields /\ at \in Seq(Int) /\ Message(slots) /\ WellTyped(slots, root) /\ HasType(slots, root, at, f.parent)
  BY DEF Named, Candidates, InPart, Sound
<1>2. f.kind = "message" => Sound(x, f.type)
  BY <1>1, LiteralsGiven
<1>3. PICK c \in Seq(Fields) : Walked(c)
  BY DEF InPart
<1>4. Last(ChainOf(Node, i)) = f /\ SlotOf(ChainOf(Node, i)) = own
  BY <1>3, ChainEnds
<1>5. Literal(Node, i) = x
  <2>1. x \in Converted(Last(ChainOf(Node, i)), Node.uninterpreted[i].value)
    BY <1>4 DEF Option
  <2>2. Literal(Node, i) \in Converted(Last(ChainOf(Node, i)), Node.uninterpreted[i].value)
    BY <2>1 DEF Literal
  <2> QED BY <2>1, <2>2, OneConverted
<1>6. PICK rest \in Rests(f) : HeldOwn(slots', at, f, x, rest)
  BY <1>1, <1>2, WithValueHolds DEF Sound
<1>7. Placed(Node, i, Append(at, f.number) \o rest)'
  <2> DEFINE l == [from |-> OptionsPath(Node) \o <<UninterpretedOption, cursor.option - 1>>,
                   to |-> OptionsPath(Node) \o ValuePath(at, f)]
  <2>1. locations' = Append(locations, l)
    BY DEF Interpreted
  <2>2. l \in Range(locations')
    BY <2>1, RangeAppended DEF AInv, LInv, Records
  <2>3. l.from = OptionsPath(Node) \o <<UninterpretedOption, i - 1>>
        /\ l.to = OptionsPath(Node) \o (Append(at, f.number) \o rest)
    BY <1>6 DEF HeldOwn
  <2> HIDE DEF l
  <2> QED BY <2>2, <2>3 DEF Placed
<1>8. ASSUME f.card = "singular", f.kind = "message", NEW s \in Shown(x)
      PROVE  Left(slots', There(Append(at, f.number), s), x[s])
  BY <1>1, <1>2, <1>8, LiteralLeft DEF Sound
<1>9. Append(own[1], own[2]) = Append(at, f.number)
  OBVIOUS
<1>10. ASSUME f.card # "singular" \/ f.kind # "message"
       PROVE  \/ f.card = "singular" /\ ~Shows(f, x)
              \/ own \in Shown(slots') /\ Holds(slots'[own], f, x, rest)
  BY <1>6, <1>10 DEF HeldOwn
<1> HIDE DEF own
<1>11. HeldAt(i, << >>, rest)'
  BY <1>4, <1>5, <1>7, <1>8, <1>9, <1>10 DEF HeldAt
<1> QED BY <1>4, <1>6, <1>11 DEF Held
\* The last field of an option gets its value.
LEMMA SetValueFinds ==
  ASSUME AInv, SetValue
  PROVE  Finds'
<1>1. InPart /\ AtPart /\ IsLast /\ VInv
  BY PartFacts DEF SetValue, AInv
<1> DEFINE root == OptionsType(Node.kind)
<1>2. PICK at, i : at = cursor.at /\ i = cursor.option
  OBVIOUS
<1>3. PICK f \in Named :
       \/ Fails("DuplicateOption", slots)
       \/ Fails("InvalidOptionType", GetMut(at, f))
       \/ /\ f.card # "singular" \/ ~Has(at, f)
          /\ \E x \in Converted(f, Option.value) : slots' = WithValue(at, f, x)
          /\ Interpreted(ValuePath(at, f))
  BY <1>2 DEF SetValue
<1> SUFFICES ASSUME errors' = {}, phase' = "option" PROVE \E d \in Seq(Fields) : Walked(d)' /\ Holding(d)'
  BY DEF Finds
<1>4. /\ f.card = "singular" => ~Has(at, f)
      /\ \E x \in Converted(f, Option.value) : slots' = WithValue(at, f, x)
      /\ Interpreted(ValuePath(at, f))
  BY <1>3 DEF Fails
<1>5. PICK x \in Converted(f, Option.value) : slots' = WithValue(at, f, x)
  BY <1>4
<1>6. f \in Fields /\ at \in Seq(Int) /\ Message(slots) /\ WellTyped(slots, root) /\ HasType(slots, root, at, f.parent)
  BY <1>1, <1>2 DEF Named, Candidates, InPart, Sound
<1>7. f.kind = "message" => Sound(x, f.type)
  BY <1>1, <1>5, <1>6, LiteralsGiven
<1>8. file' = file /\ options' = options /\ errors' = errors /\ phase' = phase /\ Node' = Node
      /\ cursor' = AtRoot(i + 1)
  BY <1>2, <1>4 DEF Interpreted, visited, Node
<1>9. WellTyped(slots', root)
  BY <1>4, <1>5, <1>6, <1>7, WithValueTyped DEF Sound
<1>10. Range(locations) \subseteq Range(locations')
  BY <1>4, RangeAppended DEF Interpreted, AInv, LInv, Records
<1>11. << >> \in Seq(Fields) /\ Walked(<< >>)' /\ cursor'.option = i + 1
  BY <1>8, AtBeginning DEF AtRoot
<1>12. PICK c \in Seq(Fields) : Walked(c) /\ Holding(c)
  BY <1>1, <1>8 DEF AInv, Finds, InPart, InOption
<1>13. Leaves(at, f, slots')
  BY <1>4, <1>5, <1>6, <1>7, WithValueLeaves DEF Leaves, Sound
<1>14. i \in Nat \ {0} /\ i \in 1..Len(Node.uninterpreted) /\ Len(Node.uninterpreted) \in Nat
  BY <1>1, <1>2 DEF InPart, InOption, SoundNode
<1>15. \A slot : Removes(Node, i, slot) <=> RemovedBy(c, slot) \/ ~Kept(slot, at, f)
  <2> DEFINE d == Append(c, f)
  <2>1. Extends(d, c, f) /\ at = Numbers(c) /\ DOMAIN d = 1..Len(d) /\ ChainOf(Node, i) = d
    BY <1>1, <1>2, <1>12, ChainEnds
  <2> HIDE DEF d
  <2>2. \A slot : RemovedBy(d, slot) <=> RemovedBy(c, slot) \/ ~Kept(slot, at, f)
    BY <1>6, <2>1, RemovedNext
  <2>3. \A slot : Removes(Node, i, slot) <=> RemovedBy(d, slot)
    BY <2>1 DEF Removes, RemovedBy
  <2> QED BY <2>2, <2>3
<1>16. ASSUME NEW j \in 1..(i - 1), Node.uninterpreted[j].name # << >> PROVE Held(j, << >>)'
  <2>1. Held(j, c)
    BY <1>2, <1>12, <1>16 DEF Holding
  <2>2. Right(Node, j)
    BY <1>1, <1>2, <1>8, <1>14, <1>16, OptionsRight DEF InPart, InOption
  <2>3. ASSUME NEW slot, Lost(j, c, slot) \/ ~Kept(slot, at, f) PROVE Lost(j, << >>, slot)'
    <3>1. (j + 1)..(cursor'.option - 1) = (j + 1)..(cursor.option - 1) \cup {i}
      BY <1>2, <1>11, <1>14, <1>16
    <3>2. (\E k \in (j + 1)..(cursor.option - 1) : Removes(Node, k, slot)) \/ Removes(Node, i, slot)
      BY <1>15, <2>3 DEF Lost
    <3> QED BY <1>8, <3>1, <3>2 DEF Lost
  <2> HIDE DEF root
  <2> QED BY <1>6, <1>8, <1>9, <1>10, <1>13, <2>1, <2>2, <2>3, HeldStays
<1>17. Held(i, << >>)'
  BY <1>1, <1>2, <1>4, <1>5, <1>8, SetValueHeld
<1>18. Holding(<< >>)'
  <2>1. 1..(cursor'.option - 1) = 1..(i - 1) \cup {i}
    BY <1>11, <1>14
  <2> QED BY <1>8, <1>16, <1>17, <2>1 DEF Holding
<1> QED BY <1>11, <1>18

\* Nothing is left to find of an option without a name.
LEMMA NoNameFinds ==
  ASSUME AInv, NoName
  PROVE  Finds'
<1>1. PICK i : i = cursor.option
  OBVIOUS
<1>2. /\ phase = "option" /\ Interpreted(<< >>) /\ slots' = slots /\ Node.uninterpreted[i].name = << >>
      /\ file' = file /\ options' = options /\ errors' = errors /\ phase' = phase /\ Node' = Node
      /\ cursor' = AtRoot(i + 1)
  BY <1>1 DEF NoName, Interpreted, Option, visited, Node
<1> SUFFICES ASSUME errors' = {}, phase' = "option" PROVE \E d \in Seq(Fields) : Walked(d)' /\ Holding(d)'
  BY DEF Finds
<1>3. << >> \in Seq(Fields) /\ Walked(<< >>)' /\ cursor'.option = i + 1
  BY <1>2, AtBeginning DEF AtRoot
<1>4. PICK c \in Seq(Fields) : Walked(c) /\ Holding(c)
  BY <1>2 DEF AInv, Finds
<1>5. c = << >>
  <2>1. Walk(Node, << >>, c) /\ i \in Nat \ {0} /\ cursor.part \in Nat \ {0} /\ Len(c) = cursor.part - 1
    BY <1>1, <1>2, <1>4 DEF Walked, Option, AInv, VInv, IInv
  <2>2. cursor.part > 1 => cursor.part <= Len(<< >>)
    BY <1>1, <1>2 DEF AInv, VInv, Verdicts, Walks, Bounded, Option
  <2>3. Len(c) = 0
    BY <2>1, <2>2
  <2> QED BY <1>4, <2>3
<1>6. Range(locations) \subseteq Range(locations') /\ i \in Nat \ {0}
  BY <1>1, <1>2, RangeAppended DEF Interpreted, AInv, LInv, Records, IInv
<1>7. ASSUME NEW j \in 1..(i - 1), Held(j, << >>) PROVE Held(j, << >>)'
  <2>1. (j + 1)..(cursor.option - 1) \subseteq (j + 1)..(cursor'.option - 1)
    BY <1>1, <1>3, <1>6
  <2>2. \A slot : Lost(j, << >>, slot) => Lost(j, << >>, slot)'
    BY <1>2, <2>1 DEF Lost
  <2>3. \A path : Placed(Node, j, path) => Placed(Node, j, path)'
    BY <1>2, <1>6 DEF Placed
  <2>4. \A rest : HeldAt(j, << >>, rest) => HeldAt(j, << >>, rest)'
    BY <1>2, <2>2, <2>3 DEF HeldAt
  <2> QED BY <1>2, <1>7, <2>4 DEF Held
<1>8. Holding(<< >>)'
  <2>1. 1..(cursor'.option - 1) = 1..(i - 1) \cup {i}
    BY <1>3, <1>6
  <2> QED BY <1>1, <1>2, <1>4, <1>5, <1>7, <2>1 DEF Holding
<1> QED BY <1>3, <1>8

\* There is no option before the first.
LEMMA StartFinds ==
  ASSUME AInv, StartNode
  PROVE  Finds'
<1> SUFFICES ASSUME errors' = {}, phase' = "option" PROVE \E d \in Seq(Fields) : Walked(d)' /\ Holding(d)'
  BY DEF Finds
<1>1. cursor' = AtRoot(1) /\ Node' = Node
  BY DEF StartNode, visited, Node
<1>2. << >> \in Seq(Fields) /\ Walked(<< >>)' /\ cursor'.option = 1
  BY <1>1, AtBeginning DEF AtRoot
<1>3. 1..(cursor'.option - 1) = {}
  BY <1>2
<1> QED BY <1>2, <1>3 DEF Holding
-----------------------------------------------------------------------------
(* The end of a node.                                                      *)

\* What is left of a message without the uninterpreted options.
Written(message) ==
  LET shown == { s \in DOMAIN message : /\ ~Within(s, << >>, UninterpretedOption)
                                        /\ Shows(message[s].field, message[s].value) }
  IN [s \in shown |-> message[s]]

\* A path of one part more, from both ends.
LEMMA Ending ==
  ASSUME NEW p \in Seq(Int), NEW n \in Int
  PROVE  /\ Front(Append(p, n)) = p /\ Last(Append(p, n)) = n /\ Append(p, n) \in Seq(Int)
         /\ Len(Append(p, n)) = Len(p) + 1 /\ Len(p) \in Nat
         /\ p \o << >> = p /\ p \o <<n>> = Append(p, n)
<1>1. Append(p, n) \in Seq(Int) /\ Len(Append(p, n)) = Len(p) + 1 /\ Len(p) \in Nat /\ Append(p, n)[Len(p) + 1] = n
      /\ \A i \in 1..Len(p) : Append(p, n)[i] = p[i]
  BY PathAppended
<1> DEFINE q == Append(p, n)
<1> HIDE DEF q
<1>2. q \in Seq(Int) /\ Len(q) = Len(p) + 1 /\ q[Len(p) + 1] = n /\ \A i \in 1..Len(p) : q[i] = p[i]
  BY <1>1 DEF q
<1>3. SubSeq(q, 1, Len(q) - 1) \in Seq(Int) /\ Len(SubSeq(q, 1, Len(q) - 1)) = Len(p)
      /\ \A i \in 1..Len(p) : SubSeq(q, 1, Len(q) - 1)[i] = p[i]
  BY <1>1, <1>2
<1>4. SubSeq(q, 1, Len(q) - 1) = p
  BY <1>3, SamePath
<1>5. p \o <<n>> = q
  <2>1. p \o <<n>> \in Seq(Int) /\ Len(p \o <<n>>) = Len(p) + 1 /\ (p \o <<n>>)[Len(p) + 1] = n
        /\ \A i \in 1..Len(p) : (p \o <<n>>)[i] = p[i]
    BY <1>1
  <2>2. \A i \in 1..Len(q) : (p \o <<n>>)[i] = q[i]
    BY <1>1, <1>2, <2>1
  <2>3. Len(p \o <<n>>) = Len(q)
    BY <1>2, <2>1
  <2> HIDE DEF q
  <2> QED BY <1>2, <2>1, <2>2, <2>3, SamePath
<1>6. p \o << >> = p
  OBVIOUS
<1> QED BY <1>1, <1>2, <1>4, <1>5, <1>6 DEF q, Front, Last

\* Slots that show and are in another field than the uninterpreted options are written.
LEMMA WrittenIs ==
  ASSUME NEW m, Message(m), NEW slot \in Shown(m), NEW k \in Int, k # UninterpretedOption,
         Len(slot[1]) = 0 => slot[2] = k, Len(slot[1]) > 0 => slot[1][1] = k
  PROVE  slot \in DOMAIN Written(m) /\ Written(m)[slot] = m[slot]
<1>1. slot \in DOMAIN m /\ Shows(m[slot].field, m[slot].value)
  BY DEF Shown
<1>2. slot \in PathSlots
  BY <1>1, SlotIn
<1>3. << >> \in Seq(Int) /\ Len(<< >>) = 0 /\ UninterpretedOption \in Int
  BY DEF UninterpretedOption
<1>4. Len(slot[1]) \in Nat
  BY <1>2, SlotFacts
<1>5. ~Within(slot, << >>, UninterpretedOption)
  <2> SUFFICES ASSUME Within(slot, << >>, UninterpretedOption) PROVE FALSE
    OBVIOUS
  <2>1. \/ Len(<< >>) = Len(slot[1]) /\ slot[2] = UninterpretedOption
        \/ Len(<< >>) < Len(slot[1]) /\ slot[1][Len(<< >>) + 1] = UninterpretedOption
    BY <1>2, <1>3, WithinIs
  <2> QED BY <1>3, <1>4, <2>1
<1> QED BY <1>1, <1>5 DEF Written

\* Nothing is below an element of a list.
LEMMA NotBelowList ==
  ASSUME NEW m, NEW root, Sound(m, root), NEW own \in DOMAIN m, m[own].field.card = "repeated", NEW k
  PROVE  <<Append(own[1], own[2]), k>> \notin DOMAIN m
<1> DEFINE base == Append(own[1], own[2])  slot == <<base, k>>
<1> SUFFICES ASSUME slot \in DOMAIN m PROVE FALSE
  OBVIOUS
<1>1. own \in PathSlots /\ own[1] \in Seq(Int) /\ own[2] \in Int /\ own = <<own[1], own[2]>>
  BY SlotIn, SlotFacts DEF Sound
<1>2. base # << >>
  <2>1. Len(base) # 0 /\ Len(<< >>) = 0
    BY <1>1, PathAppended
  <2> QED BY ONLY <2>1, Zenon
<1>3. slot[1] = base
  OBVIOUS
<1> HIDE DEF base, slot
<1>4. HasType(m, root, base, m[slot].field.parent)
  BY <1>3 DEF Sound, WellTyped
<1>5. PICK s \in DOMAIN m : Append(s[1], s[2]) = base /\ m[s].field.card = "singular"
  BY <1>2, <1>4 DEF HasType
<1>6. s \in PathSlots /\ s[1] \in Seq(Int) /\ s[2] \in Int /\ s = <<s[1], s[2]>>
  BY SlotIn, SlotFacts DEF Sound
<1>7. s[1] = own[1] /\ s[2] = own[2]
  BY <1>1, <1>5, <1>6, AppendedSame DEF base
<1>8. s = own
  BY <1>1, <1>6, <1>7
<1> QED BY <1>5, <1>8
\* The field of an option, by the first number of the way to it.
LEMMA FirstNumber ==
  ASSUME NEW ch \in Seq(Fields), Len(ch) \in Nat \ {0}
  PROVE  LET own == SlotOf(ch) base == Append(own[1], own[2])
         IN /\ own \in PathSlots /\ own = <<own[1], own[2]>> /\ own[1] \in Seq(Int) /\ own[2] \in Int
            /\ base \in Seq(Int) /\ Len(base) \in Nat \ {0} /\ base[1] = ch[1].number /\ ch[1].number \in Int
            /\ Len(own[1]) = 0 => own[2] = ch[1].number
            /\ Len(own[1]) > 0 => own[1][1] = ch[1].number
<1> DEFINE own == SlotOf(ch)  base == Append(own[1], own[2])
<1>1. own \in PathSlots /\ own[2] = ch[Len(ch)].number /\ Len(own[1]) = Len(ch) - 1
      /\ \A i \in 1..(Len(ch) - 1) : own[1][i] = ch[i].number
  <2>1. Len(ch) \in 1..Len(ch)
    OBVIOUS
  <2> QED BY <2>1, SlotAtIs DEF SlotOf
<1> HIDE DEF own
<1>2. own = <<own[1], own[2]>> /\ own[1] \in Seq(Int) /\ own[2] \in Int /\ Len(own[1]) \in Nat
  BY <1>1, SlotFacts
<1>3. base \in Seq(Int) /\ Len(base) = Len(own[1]) + 1 /\ base[Len(own[1]) + 1] = own[2]
      /\ \A i \in 1..Len(own[1]) : base[i] = own[1][i]
  BY <1>2, PathAppended
<1>4. ch[1].number \in Int
  <2>1. ch[1] \in Fields
    OBVIOUS
  <2> QED BY <2>1, FilesAssumption
<1> HIDE DEF base
<1>5. CASE Len(own[1]) = 0
  <2>0. Len(own[1]) = Len(ch) - 1
    BY <1>1
  <2>1. Len(ch) - 1 = 0
    BY ONLY <2>0, <1>5, Zenon
  <2>2. Len(ch) \in Nat
    OBVIOUS
  <2>3. Len(ch) = 1
    BY ONLY <2>1, <2>2
  <2> QED BY <1>1, <1>2, <1>3, <1>4, <1>5, <2>3 DEF own, base
<1>6. CASE Len(own[1]) > 0
  <2>1. 1 \in 1..(Len(ch) - 1) /\ 1 \in 1..Len(own[1])
    BY <1>1, <1>2, <1>6
  <2> QED BY <1>1, <1>2, <1>3, <1>4, <1>6, <2>1 DEF own, base
<1> QED BY <1>2, <1>5, <1>6

\* What an option has left in the message is found by its path in what is written.
LEMMA FoundIn ==
  ASSUME NEW node, NEW i, Right(node, i), NEW root, Sound(slots, root),
         ChainOf(node, i)[1].number # UninterpretedOption,
         NEW rest \in Rests(Last(ChainOf(node, i))),
         LET ch == ChainOf(node, i) f == Last(ch) own == SlotOf(ch) x == Literal(node, i)
             base == Append(own[1], own[2])
         IN IF f.card = "singular" /\ f.kind = "message"
            THEN \A s \in Shown(x) : ~Settled(node, i, There(base, s)) \/ Left(slots, There(base, s), x[s])
            ELSE own \in Shown(slots) /\ Holds(slots[own], f, x, rest)
  PROVE  LET own == SlotOf(ChainOf(node, i))
         IN IsAt(Written(slots), node, i, Append(own[1], own[2]) \o rest)
<1> DEFINE ch == ChainOf(node, i)  f == Last(ch)  own == SlotOf(ch)  x == Literal(node, i)
           base == Append(own[1], own[2])  at == Written(slots)
<1>1. ch \in Seq(Fields) /\ Len(ch) \in Nat \ {0} /\ f \in Fields
  BY DEF Right, Walk
<1>2. /\ own \in PathSlots /\ own = <<own[1], own[2]>> /\ own[1] \in Seq(Int) /\ own[2] \in Int
      /\ base \in Seq(Int) /\ Len(base) \in Nat \ {0} /\ base[1] = ch[1].number /\ ch[1].number \in Int
      /\ Len(own[1]) = 0 => own[2] = ch[1].number
      /\ Len(own[1]) > 0 => own[1][1] = ch[1].number
  <2> HIDE DEF ch
  <2> QED BY <1>1, FirstNumber
<1>3. Message(slots) /\ WellTyped(slots, root)
  BY DEF Sound
<1>4. f.card \in {"singular", "repeated", "map"}
  BY <1>1, Cards
<1>5. base \o << >> = base /\ Front(base) = own[1] /\ Last(base) = own[2]
  BY <1>2, Ending
<1>6. CASE f.card = "singular" /\ f.kind = "message"
  <2>1. rest = << >>
    BY <1>6 DEF Rests
  <2>2. ASSUME NEW s \in DOMAIN x, Shows(x[s].field, x[s].value), Settled(node, i, There(base, s))
        PROVE  There(base, s) \in DOMAIN at /\ Grows(x[s], at[There(base, s)])
    <3>1. s \in Shown(x)
      BY <2>2 DEF Shown
    <3>2. Left(slots, There(base, s), x[s])
      BY <1>6, <2>2, <3>1
    <3>3. s \in PathSlots /\ s[1] \in Seq(Int)
      <4>1. Message(x)
        BY <1>6 DEF Right, Sound
      <4> QED BY SMTT(60), <2>2, <4>1, SlotIn, SlotFacts
    <3> DEFINE there == There(base, s)
    <3>4. there[1] = base \o s[1]
      BY DEF There
    <3> HIDE DEF there, base, ch
    <3>5. Len(there[1]) > 0 /\ there[1][1] = ch[1].number
      <4>1. Len(base \o s[1]) = Len(base) + Len(s[1]) /\ \A k \in 1..Len(base) : (base \o s[1])[k] = base[k]
        BY <1>2, <3>3, PathsJoined
      <4>2. 1 \in 1..Len(base) /\ Len(s[1]) \in Nat
        BY <1>2, <3>3
      <4> QED BY ONLY <1>2, <3>4, <4>1, <4>2
    <3>6. there \in Shown(slots) /\ Grows(x[s], slots[there])
      BY <3>2 DEF Left, there
    <3>7. ch[1].number # UninterpretedOption
      BY DEF ch
    <3>8. there \in DOMAIN at /\ at[there] = slots[there]
      BY <1>2, <1>3, <3>5, <3>6, <3>7, WrittenIs
    <3> QED BY <3>6, <3>8 DEF there
  <2> HIDE DEF base, at
  <2>3. IsAt(at, node, i, base)
    BY <1>6, <2>2 DEF IsAt, There
  <2> QED BY <1>5, <2>1, <2>3 DEF at, base
<1>7. ASSUME f.card # "singular" \/ f.kind # "message"
      PROVE  own \in DOMAIN at /\ at[own] = slots[own] /\ Holds(slots[own], f, x, rest) /\ own \in DOMAIN slots
  <2>1. own \in Shown(slots) /\ Holds(slots[own], f, x, rest)
    BY <1>7
  <2>2. ch[1].number # UninterpretedOption
    OBVIOUS
  <2> HIDE DEF ch, own, f, x
  <2>3. own \in DOMAIN at /\ at[own] = slots[own]
    BY <1>2, <1>3, <2>1, <2>2, WrittenIs
  <2> QED BY <2>1, <2>3 DEF Shown
<1>8. CASE f.card = "map"
  <2>1. rest = << >>
    BY <1>8 DEF Rests
  <2>2. x[1] \in DOMAIN at[own].value /\ own \in DOMAIN at
    BY <1>7, <1>8 DEF Holds
  <2> HIDE DEF own, at
  <2>3. IsAt(at, node, i, base)
    BY <1>8, <2>2 DEF IsAt, own
  <2> QED BY <1>5, <2>1, <2>3 DEF at, own
<1>9. CASE f.card = "singular" /\ f.kind # "message"
  <2>1. rest = << >>
    BY <1>9 DEF Rests
  <2>2. at[own].value = x /\ own \in DOMAIN at
    BY <1>7, <1>9 DEF Holds
  <2>3. LeadsTo(at, base, x)
    <3> HIDE DEF own, base, x
    <3> QED BY <1>2, <1>5, <2>2 DEF LeadsTo
  <2> HIDE DEF at, base
  <2>4. IsAt(at, node, i, base)
    BY <1>9, <2>3 DEF IsAt
  <2> QED BY <1>5, <2>1, <2>4 DEF at, base
<1>10. CASE f.card = "repeated"
  <2>1. PICK k \in Nat : rest = <<k>>
    BY <1>10 DEF Rests, Naturals
  <2>2. /\ own \in DOMAIN at /\ at[own] = slots[own] /\ slots[own].field = f /\ own \in DOMAIN slots
        /\ k + 1 \in DOMAIN slots[own].value /\ slots[own].value[k + 1] = x
    BY <1>7, <1>10, <2>1 DEF Holds
  <2> DEFINE path == Append(base, k)
  <2>3. base \o rest = path /\ Front(path) = base /\ Last(path) = k /\ Len(path) > 1
    <3> HIDE DEF base
    <3>1. Front(path) = base /\ Last(path) = k /\ Len(path) = Len(base) + 1 /\ base \o <<k>> = path
      BY <1>2, Ending
    <3> QED BY <1>2, <2>1, <3>1
  <2>4. <<base, k>> \notin DOMAIN slots
    BY <1>10, <2>2, NotBelowList
  <2>5. <<base, k>> \notin DOMAIN at
    BY <2>4 DEF Written
  <2>6. LeadsTo(at, path, x)
    <3> HIDE DEF own, base, x, path, at
    <3> QED BY <1>2, <1>5, <2>2, <2>3, <2>5 DEF LeadsTo
  <2> HIDE DEF at, path, base
  <2>7. IsAt(at, node, i, path)
    BY <1>10, <2>6 DEF IsAt
  <2> QED BY <2>3, <2>7 DEF at, base
<1> QED BY <1>4, <1>6, <1>8, <1>9, <1>10

\* An option of a node that is written is found there by its location.
LEMMA EndNodeArrives ==
  ASSUME AInv, EndNode, errors = {}, NEW i \in DOMAIN Node.uninterpreted
  PROVE  Arrives(Written(slots), Node, i)
<1>1. Len(options) < Len(file.nodes) /\ phase = "option" /\ cursor.option > Len(Node.uninterpreted)
      /\ cursor.option \in Nat \ {0} /\ cursor.part \in Nat \ {0} /\ VInv
  BY DEF AInv, VInv, EndNode, IInv
<1>2. SoundNode /\ DOMAIN Node.uninterpreted = 1..Len(Node.uninterpreted) /\ Len(Node.uninterpreted) \in Nat
  <2>1. SoundNode
    BY <1>1, NodeIsSound DEF VInv
  <2> QED BY <2>1 DEF SoundNode
<1>3. cursor.option = Len(Node.uninterpreted) + 1 /\ cursor.part = 1
  <2>1. Bounded
    BY <1>1 DEF VInv, Verdicts, Walks
  <2> QED BY <1>1, <1>2, <2>1 DEF Bounded
<1>4. PICK c \in Seq(Fields) : Walked(c) /\ Holding(c)
  BY <1>1 DEF AInv, Finds
<1>5. c = << >>
  <2>1. Len(c) = 0
    BY <1>3, <1>4 DEF Walked
  <2> QED BY <1>4, <2>1
<1>6. i \in 1..(cursor.option - 1)
  BY <1>2, <1>3
<1> DEFINE ch == ChainOf(Node, i)  f == Last(ch)  own == SlotOf(ch)  x == Literal(Node, i)
           base == Append(own[1], own[2])  path == OptionsPath(Node)
<1> SUFFICES ASSUME Node.uninterpreted[i].name # << >>, ch[1].number # UninterpretedOption,
                    ~(f.card = "singular" /\ ~Shows(f, x)), Settled(Node, i, own)
             PROVE  \E l \in Range(locations) :
                      /\ l.from = path \o <<UninterpretedOption, i - 1>>
                      /\ IsPrefix(path, l.to)
                      /\ IsAt(Written(slots), Node, i, SubSeq(l.to, Len(path) + 1, Len(l.to)))
  BY DEF Arrives
<1>7. PICK rest \in Rests(f) : HeldAt(i, << >>, rest)
  BY <1>4, <1>5, <1>6 DEF Holding, Held
<1>8. Right(Node, i)
  BY <1>1, <1>2, <1>3, <1>6, OptionsRight
<1>9. \A slot : Lost(i, << >>, slot) <=> ~Settled(Node, i, slot)
  <2>1. \A slot : ~RemovedBy(<< >>, slot)
    BY NoWay
  <2>2. cursor.option - 1 = Len(Node.uninterpreted)
    BY <1>2, <1>3
  <2> QED BY <2>1, <2>2 DEF Lost, Settled
<1>10. IF f.card = "singular" /\ f.kind = "message"
       THEN \A s \in Shown(x) : ~Settled(Node, i, There(base, s)) \/ Left(slots, There(base, s), x[s])
       ELSE own \in Shown(slots) /\ Holds(slots[own], f, x, rest)
  BY <1>7, <1>9 DEF HeldAt
<1>11. Sound(slots, OptionsType(Node.kind))
  <2>1. Typed
    BY <1>1 DEF VInv, Verdicts, Walks
  <2> QED BY <1>1, <2>1 DEF Typed, Sound, VInv, IInv
<1>12. IsAt(Written(slots), Node, i, base \o rest)
  BY <1>7, <1>8, <1>10, <1>11, FoundIn
<1>13. PICK l \in Range(locations) : l.from = path \o <<UninterpretedOption, i - 1>> /\ l.to = path \o (base \o rest)
  BY <1>7 DEF HeldAt, Placed
<1>14. path \in Seq(Int) /\ base \o rest \in Seq(Int)
  <2>1. path \in Seq(Int)
    <3>1. PICK n \in DOMAIN file.nodes : Node = file.nodes[n] /\ file \in Files
      BY <1>1, <1>2 DEF SoundNode, Node, VInv, IInv
    <3>2. Node.path \in Seq(Int)
      BY <3>1, PathsAssumption
    <3> QED BY <3>2, PathAppended DEF OptionsPath, OptionsTag
  <2>2. base \in Seq(Int)
    <3>1. ch \in Seq(Fields) /\ Len(ch) \in Nat \ {0}
      BY <1>8 DEF Right, Walk
    <3> HIDE DEF ch
    <3> QED BY <3>1, FirstNumber
  <2>3. rest \in Seq(Int)
    <3> HIDE DEF f
    <3>1. CASE f.card = "repeated"
      <4>1. PICK k \in Nat : rest = <<k>>
        BY <1>7, <3>1 DEF Rests, Naturals
      <4> QED BY <4>1
    <3>2. CASE f.card # "repeated"
      BY <1>7, <3>2 DEF Rests
    <3> QED BY <3>1, <3>2
  <2> QED BY <2>1, <2>2, <2>3
<1>15. IsPrefix(path, path \o (base \o rest))
       /\ SubSeq(path \o (base \o rest), Len(path) + 1, Len(path \o (base \o rest))) = base \o rest
  <2> HIDE DEF path, base
  <2> QED BY <1>14, Behind
<1> QED BY <1>12, <1>13, <1>15

\* Options that are found in what is written stay there.
LEMMA EndedStays ==
  ASSUME NEW n, Ended(n), options'[n] = options[n], file' = file, Range(locations) \subseteq Range(locations')
  PROVE  Ended(n)'
<1>1. PICK at, node : at = options[n].slots /\ node = file.nodes[n]
  OBVIOUS
<1>2. ASSUME NEW i \in DOMAIN node.uninterpreted PROVE Arrives(at, node, i)'
  <2>1. Arrives(at, node, i)
    BY <1>1, <1>2 DEF Ended
  <2> QED BY <2>1 DEF Arrives
<1> QED BY <1>1, <1>2 DEF Ended

\* The options of a node are in what is written of it.
LEMMA EndNodeEnds ==
  ASSUME AInv, EndNode
  PROVE  Ends'
<1>1. options' = Append(options, [path |-> OptionsPath(Node), slots |-> Written(slots)])
      /\ file' = file /\ errors' = errors /\ locations' = locations
  BY DEF EndNode, Written, visited
<1>2. options \in Seq(Range(options))
  BY DEF AInv, VInv, IInv
<1> DEFINE entry == [path |-> OptionsPath(Node), slots |-> Written(slots)]
<1>3. options' = Append(options, entry) /\ entry.slots = Written(slots)
  BY <1>1
<1> HIDE DEF entry
<1>4. Len(options) \in Nat /\ Len(options') = Len(options) + 1 /\ options'[Len(options) + 1] = entry
      /\ \A n \in 1..Len(options) : options'[n] = options[n]
  BY <1>2, <1>3
<1> SUFFICES ASSUME errors = {}, NEW n \in 1..Len(options') PROVE Ended(n)'
  BY <1>1 DEF Ends
<1>5. CASE n \in 1..Len(options)
  <2>1. Ended(n)
    BY <1>5 DEF AInv, Ends
  <2> QED BY <1>1, <1>4, <1>5, <2>1, EndedStays
<1>6. CASE n \notin 1..Len(options)
  <2>1. n = Len(options) + 1
    BY <1>4, <1>6
  <2>2. PICK at, node : at = Written(slots) /\ node = Node
    OBVIOUS
  <2>3. options'[n].slots = at /\ file'.nodes[n] = node
    BY <1>1, <1>3, <1>4, <2>1, <2>2 DEF Node
  <2>4. ASSUME NEW i \in DOMAIN node.uninterpreted PROVE Arrives(at, node, i)'
    <3>1. Arrives(at, node, i)
      BY <2>2, <2>4, EndNodeArrives
    <3> QED BY <1>1, <3>1 DEF Arrives
  <2> QED BY <2>3, <2>4 DEF Ended
<1> QED BY <1>5, <1>6
\* Whatever comes next, what is held stays held.
LEMMA NextFinds == AInv /\ [Next]_vars => Finds'
<1> SUFFICES ASSUME AInv, [Next]_vars PROVE Finds'
  OBVIOUS
<1>1. CASE StartNode
  BY <1>1, StartFinds
<1>2. CASE NotFound
  <2>1. errors' # {}
    BY <1>2 DEF NotFound, Fails
  <2> QED BY <2>1 DEF Finds
<1>3. CASE Descend
  BY <1>3, DescendFinds
<1>4. CASE SetValue
  BY <1>4, SetValueFinds
<1>5. CASE NoName
  BY <1>5, NoNameFinds
<1>6. CASE EndNode \/ EndVisit \/ StoreOptions \/ StoreFails \/ ApplyLocations \/ Accept
  <2>1. phase' # "option"
    BY <1>6 DEF EndNode, EndVisit, StoreOptions, StoreFails, ApplyLocations, Accept
  <2> QED BY <2>1 DEF Finds
<1>7. CASE UNCHANGED vars
  <2>1. /\ errors' = errors /\ phase' = phase /\ cursor' = cursor /\ slots' = slots /\ locations' = locations
        /\ Node' = Node /\ Option' = Option
    BY <1>7 DEF vars, Node, Option
  <2> SUFFICES ASSUME errors = {}, phase = "option" PROVE \E c \in Seq(Fields) : Walked(c)' /\ Holding(c)'
    BY <2>1 DEF Finds
  <2>2. PICK c \in Seq(Fields) : Walked(c) /\ Holding(c)
    BY DEF AInv, Finds
  <2>3. Walked(c)'
    BY <2>1, <2>2 DEF Walked
  <2>4. Holding(c)'
    <3>1. ASSUME NEW j \in 1..(cursor.option - 1), Node.uninterpreted[j].name # << >> PROVE Held(j, c)'
      <4>1. PICK rest \in Rests(Last(ChainOf(Node, j))) : HeldAt(j, c, rest)
        BY <2>2, <3>1 DEF Holding, Held
      <4>2. HeldAt(j, c, rest)'
        BY <2>1, <4>1 DEF HeldAt, Placed, Lost, Left
      <4> QED BY <2>1, <4>1, <4>2 DEF Held
    <3> QED BY <2>1, <3>1 DEF Holding
  <2> QED BY <2>3, <2>4
<1> QED BY <1>1, <1>2, <1>3, <1>4, <1>5, <1>6, <1>7 DEF Next

\* What has ended stays ended while no node ends.
LEMMA EndsStay ==
  ASSUME Ends, errors' = errors, options' = options, file' = file, Range(locations) \subseteq Range(locations')
  PROVE  Ends'
<1> SUFFICES ASSUME errors = {}, NEW n \in 1..Len(options) PROVE Ended(n)'
  BY DEF Ends
<1>1. Ended(n)
  BY DEF Ends
<1>2. options'[n] = options[n]
  OBVIOUS
<1> QED BY <1>1, <1>2, EndedStays

LEMMA NextEnds == AInv /\ [Next]_vars => Ends'
<1> SUFFICES ASSUME AInv, [Next]_vars PROVE Ends'
  OBVIOUS
<1>1. locations \in Seq(Range(locations))
  BY DEF AInv, LInv, Records
<1>2. CASE errors' # {}
  BY <1>2 DEF Ends
<1>3. CASE errors' = {} /\ ~EndNode
  <2>1. errors' = errors /\ options' = options /\ file' = file
        /\ (locations' = locations \/ \E e : locations' = Append(locations, e))
    <3>1. CASE StartNode
      BY <1>3, <3>1 DEF StartNode, visited
    <3>2. CASE NotFound
      BY <1>3, <3>2 DEF NotFound, Fails, visited
    <3>3. CASE Descend
      BY <1>3, <3>3 DEF Descend, Fails, visited
    <3>4. CASE SetValue
      BY <1>3, <3>4 DEF SetValue, Fails, Interpreted, visited
    <3>5. CASE NoName
      BY <3>5 DEF NoName, Interpreted, visited
    <3>6. CASE EndVisit \/ Accept
      BY <3>6 DEF EndVisit, Accept, visited
    <3>7. CASE StoreOptions \/ StoreFails \/ ApplyLocations
      BY <3>7 DEF StoreOptions, StoreFails, visited, ApplyLocations
    <3>8. CASE UNCHANGED vars
      BY <3>8 DEF vars
    <3> QED BY <1>3, <3>1, <3>2, <3>3, <3>4, <3>5, <3>6, <3>7, <3>8 DEF Next
  <2>2. Range(locations) \subseteq Range(locations')
    BY <1>1, <2>1, RangeAppended
  <2> QED BY <2>1, <2>2, EndsStay DEF AInv
<1>4. CASE EndNode
  BY <1>4, EndNodeEnds
<1> QED BY <1>2, <1>3, <1>4

\* The options of a node are stored at its path, and no other node's are stored there.
LEMMA ApplyStores ==
  ASSUME AInv, StoreOptions \/ StoreFails
  PROVE  Stores'
<1>1. /\ applied \in Nat /\ Len(options) <= Len(file.nodes) /\ file \in Files /\ Len(options) \in Nat
      /\ Len(file.nodes) \in Nat /\ DOMAIN file.nodes = 1..Len(file.nodes)
  <2>1. options \in Seq(Range(options)) /\ file \in Files /\ applied \in Nat /\ Len(options) <= Len(file.nodes)
    BY DEF AInv, VInv, IInv
  <2>2. file.nodes \in Seq(Range(file.nodes))
    BY <2>1, FilesAssumption
  <2> QED BY <2>1, <2>2
<1>2. phase = "apply" /\ applied < Len(options) /\ file' = file /\ options' = options
  BY DEF StoreOptions, StoreFails, visited
<1>3. CASE StoreFails
  <2>1. stored' = stored /\ applied' = applied /\ phase' = "panicked"
    BY <1>3 DEF StoreFails, visited
  <2> QED BY <1>2, <1>3, <2>1 DEF AInv, Stores, OptionsPath
<1>4. CASE StoreOptions
  <2> DEFINE k == applied + 1  path(n) == OptionsPath(file.nodes[n])
  <2>1. options[k].path = path(k) /\ k \in 1..Len(file.nodes) /\ k \in 1..Len(options)
    BY <1>1, <1>2 DEF AInv, VInv, Verdicts, OptionsMatch
  <2>2. stored' = [stored EXCEPT ![path(k)] = options[k].slots] /\ applied' = k /\ phase' = "apply"
    BY <1>2, <1>4, <2>1 DEF StoreOptions
  <2>3. \A n \in 1..Len(file.nodes) : path(n) = path(k) => n = k
    <3> TAKE n \in 1..Len(file.nodes)
    <3> HAVE path(n) = path(k)
    <3>1. path(n) \in Seq(Int)
      <4>1. file.nodes[n].path \in Seq(Int)
        BY <1>1, PathsAssumption
      <4> QED BY <4>1, PathAppended DEF OptionsTag, OptionsPath
    <3>2. IsPrefix(path(n), path(k))
      <4> HIDE DEF path
      <4>1. IsPrefix(path(n), path(n))
        BY <3>1, PrefixIs
      <4> QED BY <4>1
    <3>3. \A x \in Files : \A m, o \in DOMAIN x.nodes :
            IsPrefix(OptionsPath(x.nodes[m]), OptionsPath(x.nodes[o])) => m = o
      BY PathsAssumption, Zenon
    <3> QED BY <1>1, <2>1, <3>2, <3>3
  <2>4. DOMAIN stored = { path(n) : n \in DOMAIN file.nodes }
    BY DEF AInv, Stores
  <2>5. path(k) \in DOMAIN stored
    BY <1>1, <2>1, <2>4
  <2>6. ASSUME NEW n \in 1..k PROVE stored'[path(n)] = options[n].slots
    <3>1. n \in 1..Len(file.nodes) /\ n \in 1..Len(options)
      BY <1>1, <2>1, <2>6
    <3>2. path(n) \in DOMAIN stored
      BY <1>1, <2>4, <3>1
    <3>3. CASE n = k
      <4> HIDE DEF path, k
      <4> QED BY <2>2, <2>5, <3>3
    <3>4. CASE n # k
      <4>1. stored[path(n)] = options[n].slots
        <5>1. n \in 1..applied /\ n <= Len(options)
          BY <1>1, <2>1, <2>6, <3>1, <3>4
        <5> QED BY <5>1 DEF AInv, Stores
      <4>2. path(n) # path(k)
        BY <2>3, <3>1, <3>4
      <4> HIDE DEF path, k
      <4> QED BY <2>2, <3>2, <4>1, <4>2
    <3> QED BY <3>3, <3>4
  <2>7. DOMAIN stored' = DOMAIN stored
    BY <2>2
  <2>8. \A n : OptionsPath(file'.nodes[n]) = path(n)
    BY <1>2 DEF OptionsPath
  <2>9. \A n \in 1..applied' : stored'[OptionsPath(file'.nodes[n])] = options'[n].slots
    BY <1>2, <2>2, <2>6, <2>8
  <2>10. DOMAIN stored' = { OptionsPath(file'.nodes[n]) : n \in DOMAIN file'.nodes }
    BY <1>2, <2>4, <2>7, <2>8
  <2> HIDE DEF k, path
  <2> QED BY <2>2, <2>9, <2>10 DEF Stores
<1> QED BY <1>3, <1>4

LEMMA NextStores == AInv /\ [Next]_vars => Stores'
<1> SUFFICES ASSUME AInv, [Next]_vars PROVE Stores'
  OBVIOUS
<1>1. applied \in Nat /\ (phase \in {"visit", "option"} => applied = 0)
  BY DEF AInv, LInv, Counts
<1>2. Len(options) \in Nat /\ Len(locations) \in Nat
  BY DEF AInv, LInv, IInv, Records
<1>3. CASE StartNode \/ NotFound \/ Descend \/ SetValue \/ NoName \/ EndNode \/ EndVisit
  <2>1. applied' = applied /\ stored' = stored /\ file' = file /\ applied = 0 /\ phase' # "accepted"
    <3>1. applied' = applied /\ stored' = stored /\ file' = file
      BY <1>3 DEF StartNode, NotFound, Descend, SetValue, NoName, EndNode, EndVisit, Fails, Interpreted, visited
    <3>2. phase \in {"visit", "option"}
      BY <1>3 DEF StartNode, NotFound, Descend, SetValue, NoName, EndNode, EndVisit, AtPart
    <3>3. phase' # "accepted"
      BY <1>3, <3>2 DEF StartNode, NotFound, Descend, SetValue, NoName, EndNode, EndVisit, Fails, Interpreted
    <3> QED BY SMTT(60), <1>1, <3>1, <3>2, <3>3
  <2>2. 1..applied' = {}
    BY <2>1
  <2>3. DOMAIN stored = { OptionsPath(file.nodes[n]) : n \in DOMAIN file.nodes }
    BY DEF AInv, Stores
  <2>4. \A n : OptionsPath(file'.nodes[n]) = OptionsPath(file.nodes[n])
    BY <2>1 DEF OptionsPath
  <2> QED BY <2>1, <2>2, <2>3, <2>4 DEF Stores
<1>4. CASE StoreOptions \/ StoreFails
  BY <1>4, ApplyStores
<1>5. CASE ApplyLocations
  <2>1. /\ stored' = stored /\ file' = file /\ options' = options /\ phase' = phase /\ phase = "apply"
        /\ Len(options) <= applied /\ applied' = applied + 1
    BY <1>5 DEF ApplyLocations
  <2>2. \A n \in 1..applied' : n <= Len(options) => n \in 1..applied
    BY <1>1, <1>2, <2>1
  <2> QED BY <2>1, <2>2 DEF AInv, Stores, OptionsPath
<1>6. CASE Accept
  <2>1. /\ stored' = stored /\ file' = file /\ options' = options /\ applied' = applied
        /\ applied = Len(options) + Len(locations) /\ phase' = "accepted"
    BY <1>6 DEF Accept, visited
  <2>2. Len(options) <= applied
    BY <1>2, <2>1
  <2> QED BY <2>1, <2>2 DEF AInv, Stores, OptionsPath
<1>7. CASE UNCHANGED vars
  BY <1>7 DEF vars, AInv, Stores, OptionsPath
<1> QED BY <1>3, <1>4, <1>5, <1>6, <1>7 DEF Next

LEMMA InitArrives == Init => AInv
<1> SUFFICES ASSUME Init PROVE AInv
  OBVIOUS
<1>1. LInv /\ VInv
  BY InitLocations, InitVerdict
<1>2. phase = "visit" /\ options = << >> /\ applied = 0
      /\ stored = [p \in { OptionsPath(file.nodes[n]) : n \in DOMAIN file.nodes } |-> NoSlots]
  BY DEF Init
<1>3. Finds /\ Ends
  BY <1>2 DEF Finds, Ends
<1>4. Stores
  BY <1>2 DEF Stores
<1> QED BY <1>1, <1>3, <1>4 DEF AInv

LEMMA NextArrives == AInv /\ [Next]_vars => AInv'
BY NextLocations, NextVerdict, NextFinds, NextEnds, NextStores DEF AInv

\* Of every file that is accepted, whatever its elements and options, each option is
\* in what is stored for its element, at the path that its location was given, unless
\* a later option took it out of a oneof or its value does not show: set_field_value
\* and get_field_mut_or_default lose no value of an option that came before, and
\* set_file_option none of an element that came before.
THEOREM OptionsAllArrive == Spec => []OptionsArrive
<1>1. AInv => OptionsArrive
  <2> SUFFICES ASSUME AInv, phase = "accepted", NEW n \in DOMAIN file.nodes, NEW i \in DOMAIN file.nodes[n].uninterpreted
               PROVE  Arrives(stored[OptionsPath(file.nodes[n])], file.nodes[n], i)
    BY DEF OptionsArrive
  <2>1. errors = {} /\ Len(options) = Len(file.nodes)
    BY DEF AInv, VInv, Verdicts, Valids
  <2>2. DOMAIN file.nodes = 1..Len(file.nodes) /\ Len(file.nodes) \in Nat
    <3>1. file.nodes \in Seq(Range(file.nodes))
      BY FilesAssumption DEF AInv, VInv, IInv
    <3> QED BY <3>1
  <2>3. n \in 1..Len(options) /\ n \in 1..applied /\ n <= Len(options)
    <3>1. Len(options) <= applied /\ applied \in Nat
      BY DEF AInv, Stores, VInv
    <3> QED BY <2>1, <2>2, <3>1
  <2>4. Ended(n)
    BY <2>1, <2>3 DEF AInv, Ends
  <2>5. stored[OptionsPath(file.nodes[n])] = options[n].slots
    BY <2>3 DEF AInv, Stores
  <2>6. Arrives(options[n].slots, file.nodes[n], i)
    BY <2>4 DEF Ended
  <2> QED BY <2>5, <2>6
<1>2. Init => AInv
  BY InitArrives
<1>3. AInv /\ [Next]_vars => AInv'
  BY NextArrives
<1> QED BY <1>1, <1>2, <1>3, PTL DEF Spec
================================================================================
