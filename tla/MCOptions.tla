------------------------------- MODULE MCOptions -------------------------------
(***************************************************************************)
(* Small instances of Options: files with up to three options of one       *)
(* element, and a file with an option of every kind of element.            *)
(***************************************************************************)
EXTENDS Options

F(parent, name, number, kind, type, card, oneof, presence) ==
  [parent |-> parent, name |-> name, ext |-> FALSE, number |-> number, kind |-> kind, type |-> type,
   card |-> card, oneof |-> oneof, presence |-> presence]
X(parent, name, number, kind, type, card) ==
  [F(parent, name, number, kind, type, card, None, card = "singular") EXCEPT !.ext = TRUE]

OptionsTypes == { OptionsType(k) : k \in {"file", "message", "range", "field", "oneof", "service", "method", "enum", "value"} }

\* The file has extensions of its options, the first with a message of its own.  The
\* pool has its own options of services and methods, one field of each unlike the crate's.
AllFields ==
  { F(t, "uninterpreted", 999, "message", "UninterpretedOption", "repeated", None, FALSE) : t \in OptionsTypes }
  \cup { F(t, "flag", 1, "bool", "", "singular", None, TRUE) : t \in OptionsTypes }
  \cup { F("ServiceOptions", "own", 2, "bool", "", "singular", None, TRUE),
         F("MethodOptions", "own", 2, "bytes", "", "singular", None, TRUE) }
  \cup { X("FileOptions", "msg", 1000, "message", "Msg", "singular"),
         X("FileOptions", "ints", 1001, "int32", "", "repeated"),
         X("FileOptions", "msgs", 1002, "message", "Msg", "repeated"),
         X("FieldOptions", "other", 1003, "int32", "", "singular"),
         F("Msg", "a", 1, "uint32", "", "singular", "o", TRUE),
         F("Msg", "b", 2, "message", "Sub", "singular", "o", TRUE),
         F("Msg", "z", 3, "int64", "", "singular", None, FALSE),
         F("Msg", "m", 4, "map", "Entry", "map", None, FALSE),
         F("Sub", "e", 1, "enum", "Enum", "singular", "p", TRUE),
         F("Sub", "s", 2, "string", "", "singular", "p", TRUE),
         F("Sub", "l", 3, "uint64", "", "repeated", None, FALSE),
         F("Sub", "d", 4, "double", "", "singular", None, TRUE),
         F("Sub", "y", 5, "bytes", "", "singular", None, TRUE) }

Enums == [Enum |-> [zero |-> 0, two |-> 2]]
OwnTypes ==
  [t \in OptionsTypes |-> IF t \in {"ServiceOptions", "MethodOptions"} THEN 1 :> "bool" @@ 2 :> "string" ELSE 1 :> "bool"]
Widths == [int32 |-> 3, uint32 |-> 3, int64 |-> 4, uint64 |-> 4]

N(name) == [name |-> name, ext |-> FALSE]
E(name) == [name |-> name, ext |-> TRUE]
Pos(n) == [is |-> "positive", value |-> n]
Neg(n) == [is |-> "negative", value |-> n]
Ident(s) == [is |-> "identifier", value |-> s]
Str(s) == [is |-> "string", value |-> s, utf8 |-> s # "raw"]
Agg(type, slotsOf) == [is |-> "aggregate", type |-> type, value |-> slotsOf]
Slot(parent, name, x) ==
  LET f == CHOOSE g \in AllFields : g.parent = parent /\ g.name = name IN [field |-> f, value |-> x]
Opt(name, value) == [name |-> name, value |-> value]

EmptyLiteral == NoSlots
LiteralB == << << >>, 2>> :> Slot("Msg", "b", "message") @@ <<<<2>>, 2>> :> Slot("Sub", "s", "x") @@ <<<<2>>, 3>> :> Slot("Sub", "l", <<1>>)
            @@ << << >>, 3>> :> Slot("Msg", "z", 3)

\* Options that meet in one message: rivals of two oneofs, implicit presence,
\* lists, a map, a whole message before or after a part of it.
Meeting ==
  { Opt(<<E("msg"), N("a")>>, Pos(1)), Opt(<<E("msg"), N("b"), N("e")>>, Ident("two")),
    Opt(<<E("msg"), N("b"), N("s")>>, Str("x")), Opt(<<E("msg"), N("b"), N("l")>>, Pos(15)),
    Opt(<<E("msg"), N("z")>>, Pos(0)), Opt(<<E("msg"), N("z")>>, Neg(-8)),
    Opt(<<E("msg"), N("m")>>, Agg("Entry", <<1, "x">>)), Opt(<<E("msg"), N("m")>>, Agg("Entry", <<2, "x">>)),
    Opt(<<E("msg")>>, Agg("Msg", LiteralB)), Opt(<<E("msg")>>, Agg("Msg", EmptyLiteral)),
    Opt(<<E("msgs")>>, Agg("Msg", LiteralB)), Opt(<<E("ints")>>, Neg(-4)), Opt(<<E("ints")>>, Pos(3)),
    Opt(<<N("uninterpreted")>>, Agg("UninterpretedOption", EmptyLiteral)), Opt(<<N("flag")>>, Ident("true")) }

\* Options that are wrong, or at the ends of what is right.
Failing ==
  { Opt(<<E("msg"), N("a")>>, v) : v \in {Pos(7), Pos(8), Neg(-1), Neg(0), Str("x"), Ident("two")} }
  \cup { Opt(<<E("msg"), N("z")>>, v) : v \in {Pos(7), Pos(8), Neg(-8)} }
  \cup { Opt(<<E("msg"), N("b"), N("l")>>, v) : v \in {Pos(15), Neg(-1)} }
  \cup { Opt(<<E("ints")>>, v) : v \in {Pos(3), Pos(4), Neg(-4), Neg(-5)} }
  \cup { Opt(<<E("msg"), N("b"), N("e")>>, v) : v \in {Ident("two"), Ident("four"), Pos(2)} }
  \cup { Opt(<<E("msg"), N("b"), N("s")>>, v) : v \in {Str("x"), Str("raw"), Ident("x")} }
  \cup { Opt(<<E("msg"), N("b"), N("y")>>, Str("raw")), Opt(<<E("msg"), N("b"), N("d")>>, Pos(1)),
         Opt(<<E("msg"), N("b"), N("d")>>, Str("x")), Opt(<<N("flag")>>, Ident("maybe")),
         Opt(<<E("other")>>, Pos(1)), Opt(<<E("none")>>, Pos(1)), Opt(<<N("none")>>, Pos(1)),
         Opt(<<E("ints"), N("a")>>, Pos(1)), Opt(<<E("msg"), N("a"), N("b")>>, Pos(1)),
         Opt(<<E("msg"), N("a")>>, Agg("Msg", EmptyLiteral)), Opt(<<E("msg")>>, Agg("Sub", EmptyLiteral)),
         Opt(<< >>, Pos(1)) }

\* The message before interpretation has the uninterpreted options, and perhaps
\* more; the file has locations of each, of their names, and of the element.
Before == { NoSlots, <<<<1000>>, 1>> :> Slot("Msg", "a", 2) @@ << << >>, 1000>> :> Slot("FileOptions", "msg", "message")
                     @@ << << >>, 1001>> :> Slot("FileOptions", "ints", <<1>>) }
Encoded(before, opts, kind) ==
  before @@ (<< << >>, 999>> :> [field |-> CHOOSE f \in AllFields : f.number = 999 /\ f.parent = OptionsType(kind),
                                 value |-> [i \in DOMAIN opts |-> NoSlots]])

FileOf(before, opts) ==
  [nodes |-> << [kind |-> "file", path |-> << >>, decodes |-> TRUE, uninterpreted |-> opts,
                 encoded |-> IF opts = << >> THEN before ELSE Encoded(before, opts, "file")] >>,
   info |-> <<<<8>>, <<4, 0>>>> \o [i \in DOMAIN opts |-> <<8, 999, i - 1>>] \o [i \in DOMAIN opts |-> <<8, 999, i - 1, 2, 0>>]]

\* Every kind of element, and messages in messages.
Elements ==
  { <<"file", << >>>>, <<"message", <<4, 0>>>>, <<"range", <<4, 0, 5, 0>>>>, <<"field", <<4, 0, 2, 1>>>>,
    <<"oneof", <<4, 0, 8, 0>>>>, <<"message", <<4, 0, 3, 0>>>>, <<"field", <<4, 0, 3, 0, 2, 0>>>>,
    <<"message", <<4, 0, 3, 0, 3, 3>>>>, <<"range", <<4, 0, 3, 0, 3, 3, 5, 0>>>>, <<"enum", <<4, 0, 3, 0, 4, 0>>>>,
    <<"value", <<4, 0, 3, 0, 4, 0, 2, 1>>>>, <<"extension", <<4, 0, 6, 0>>>>, <<"enum", <<5, 0>>>>,
    <<"value", <<5, 0, 2, 0>>>>, <<"service", <<6, 0>>>>, <<"method", <<6, 0, 2, 1>>>>, <<"extension", <<7, 1>>>> }
NodeWith(element, name, value) ==
  LET opts == <<Opt(<<N(name)>>, value)>>
  IN [kind |-> element[1], path |-> element[2], decodes |-> TRUE, uninterpreted |-> opts,
      encoded |-> Encoded(NoSlots, opts, element[1])]
NodeOf(element, value) == NodeWith(element, "flag", value)
ElementFiles ==
  { [nodes |-> <<NodeOf(e, Ident("true")), NodeOf(d, Ident("true"))>>,
     info |-> <<OptionsPath(NodeOf(e, 0)) \o <<999, 0>>, OptionsPath(NodeOf(d, 0)) \o <<999, 0, 2>>, d[2]>>] :
      e, d \in Elements }
  \cup { [nodes |-> <<[NodeOf(<<"file", << >>>>, Ident("true")) EXCEPT !.decodes = FALSE],
                      NodeOf(<<"message", <<4, 0>>>>, Ident(s))>>, info |-> << >>] : s \in {"true", "maybe"} }
  \cup { [nodes |-> <<NodeWith(<<"service", <<6, 0>>>>, "own", Ident("true"))>>, info |-> << >>],
         [nodes |-> <<NodeWith(<<"method", <<6, 0, 2, 1>>>>, "own", Str("raw"))>>, info |-> << >>] }

AllFiles ==
  { FileOf(before, opts) : before \in Before, opts \in UNION { [1..n -> Meeting] : n \in 0..2 } }
  \cup { FileOf(NoSlots, opts) : opts \in [1..3 -> { o \in Meeting : Len(o.name) > 0 /\ o.name[1] = E("msg") }] }
  \cup { FileOf(NoSlots, opts) : opts \in UNION { [1..n -> Failing] : n \in 1..2 } }
  \cup { f \in ElementFiles :
           Len(f.nodes) > 1 => Len(f.nodes[1].path) # Len(f.nodes[2].path) \/ f.nodes[1].path # f.nodes[2].path }
=============================================================================
