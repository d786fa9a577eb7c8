---------------------------- MODULE MCDeclarations ----------------------------
(***************************************************************************)
(* Small instances of Declarations: files that differ in numbers, in names,*)
(* in the values of the enum, or in what a field is.                       *)
(***************************************************************************)
EXTENDS Declarations

SeqsOf(S, lens) == UNION { [1..n -> S] : n \in lens }

a == 97  b == 98
NameA == <<a>>
NameB == <<b>>

IntField == [name |-> NameA, number |-> 1, label |-> "optional", type |-> "int32", ref |-> "",
             oneof |-> None, optional3 |-> FALSE, json |-> None, packed |-> None, default |-> NoDefault]

Zero == [name |-> <<65>>, number |-> 0]

Plain == [syntax |-> "proto3", fields |-> <<IntField>>, extensions |-> << >>, oneofs |-> 1,
          reserved |-> << <<2, 3>>, <<8, 10>> >>, extensionRanges |-> << <<5, 7>>, <<7, 20002>> >>,
          values |-> <<Zero>>, enumReserved |-> << <<2, 3>> >>, allowAlias |-> FALSE]

Numbered(n, name) == [IntField EXCEPT !.number = n, !.name = name]

\* Fields next to each other and to the ends of all ranges, and extensions of the message.
FieldNumbers == {-1, 0, 1, 2, 3, 4, 5, 20001, 20002, 536870911, 536870912}
ExtensionNumbers == {4, 5, 6, 7, 8, 9, 10, 18999, 19000, 19999, 20000, 20002}
NumberProtos ==
  { [Plain EXCEPT !.fields = <<Numbered(m, NameA), Numbered(n, NameB)>>] : m, n \in FieldNumbers }
  \cup { [Plain EXCEPT !.extensions = <<Numbered(m, <<a, b>>), Numbered(n, <<b, a>>)>>] : m, n \in ExtensionNumbers }

\* Names of letters in both cases and underscores, some with a JSON name of their own.
FieldNames == { n \in SeqsOf({a, 65, Underscore}, 1..3) : n[1] # 65 }
NameProtos ==
  { [Plain EXCEPT !.syntax = s, !.fields = <<[Numbered(1, m) EXCEPT !.json = j], Numbered(3, n)>>] :
      s \in {"proto2", "proto3"}, m, n \in FieldNames, j \in {None, <<a, 65>>} }

\* Values that come in any order, repeated and reserved.
EnumProtos ==
  { [Plain EXCEPT !.syntax = s, !.allowAlias = alias,
                  !.values = [i \in DOMAIN numbers |-> [name |-> <<64 + i>>, number |-> numbers[i]]]] :
      s \in {"proto2", "proto3"}, alias \in BOOLEAN, numbers \in SeqsOf({-1, 0, 1, 2, 3, 4}, 0..3) }
  \cup { [Plain EXCEPT !.values = [i \in DOMAIN numbers |-> [name |-> <<64 + i>>, number |-> numbers[i]]],
                       !.allowAlias = TRUE] : numbers \in [1..4 -> {0, 1}] }
  \cup { [Plain EXCEPT !.values = <<Zero, [Zero EXCEPT !.number = 1]>>] }

\* What a field is: types, defaults, oneofs.
Literals == { NoDefault, Number(1), Name(<<65>>), Name(<<b>>) }
Types == { <<"int32", "">>, <<"bytes", "">>, <<"message", "">>, <<"group", "the message">>, <<"int32", "the enum">>,
           <<"message", "the message">>, <<"enum", "nowhere">> }
KindProtos ==
  UNION { { [Plain EXCEPT !.syntax = s, !.fields =
       <<[IntField EXCEPT !.type = t[1], !.ref = t[2], !.label = l, !.oneof = o, !.default = d],
         [Numbered(3, NameB) EXCEPT !.oneof = o]>>] :
        s \in {"proto2", "proto3"}, l \in {"optional", "repeated"}, o \in {None, -1, 0, 1},
        d \in IF t[1] = "bytes" THEN Literals \ {Number(1)} ELSE Literals } : t \in Types }

\* Defaults of type bytes: escapes of all sorts, cut short, followed by digits and letters.
BytesField(text) == [IntField EXCEPT !.type = "bytes", !.default = Name(text)]
LiteralProtos ==
  { [Plain EXCEPT !.fields = <<BytesField(text)>>] :
      text \in SeqsOf({Backslash, 120, 49, 55, a}, 0..5) \cup { <<Backslash, 120, 52, 195, 169>> } }
  \cup { [Plain EXCEPT !.extensions = <<[BytesField(<<Backslash, 55, 55, 55>>) EXCEPT !.number = 5, !.name = NameB]>>] }

AllProtos == NumberProtos \cup NameProtos \cup EnumProtos \cup KindProtos \cup LiteralProtos
=============================================================================
