----------------------------- MODULE MCFormatRelay -----------------------------
(***************************************************************************)
(* Messages with a oneof, lists, a map, a group, an extension, unknown     *)
(* fields and well-known types, and what an editor may add to their        *)
(* documents.                                                              *)
(***************************************************************************)
EXTENDS FormatRelay

F(index, name, card, kind, presence, oneof, of) ==
  [index |-> index, name |-> name, json |-> name, text |-> name, card |-> card, kind |-> kind,
   presence |-> presence, oneof |-> oneof, ext |-> FALSE, of |-> of]
One(index, name, kind) == F(index, name, "one", kind, FALSE, "", "")
Msg(index, name, of) == F(index, name, "one", "message", TRUE, "", of)

M ==
  (1 :> [One(9, "big_num", "int64") EXCEPT !.json = "bigNum"])
  @@ (2 :> F(8, "left", "one", "string", TRUE, "o", ""))
  @@ (3 :> F(7, "right", "one", "message", TRUE, "o", "Sub"))
  @@ (4 :> F(1, "tags", "list", "enum", FALSE, "", "Color"))
  @@ (5 :> F(2, "pairs", "map", "message", FALSE, "", "Pair"))
  @@ (6 :> Msg(3, "any", "Any"))
  @@ (7 :> Msg(4, "val", "Value"))
  @@ (8 :> Msg(5, "ratio", "FloatValue"))
  @@ (9 :> One(6, "blob", "bytes"))
  @@ (10 :> F(10, "on", "one", "bool", TRUE, "", ""))
  @@ (11 :> [Msg(11, "grp", "Sub") EXCEPT !.text = "Grp"])
  @@ (12 :> [F(12, "e", "list", "uint32", FALSE, "", "") EXCEPT !.json = "[e]", !.ext = TRUE])
  @@ (13 :> Msg(13, "mask", "FieldMask"))
  @@ (14 :> F(14, "nil", "one", "enum", FALSE, "", "NullValue"))
  @@ (15 :> One(15, "dbl", "double"))
  @@ (16 :> Msg(16, "time", "Timestamp"))

MCSchema ==
  [M |-> M,
   Sub |-> (1 :> One(2, "s", "string")) @@ (2 :> F(1, "n", "one", "int32", TRUE, "", "")),
   Pair |-> (1 :> One(1, "key", "int32")) @@ (2 :> Msg(2, "value", "Sub")),
   Any |-> (1 :> One(1, "type_url", "string")) @@ (2 :> One(2, "value", "bytes")),
   FloatValue |-> (1 :> One(1, "value", "double")),
   FieldMask |-> (1 :> F(1, "paths", "list", "string", FALSE, "", "")),
   Timestamp |-> (1 :> One(1, "seconds", "int64")),
   Empty |-> Nothing,
   Value |-> (1 :> F(1, "null_value", "one", "enum", TRUE, "kind", "NullValue"))
             @@ (2 :> F(2, "number_value", "one", "double", TRUE, "kind", ""))
             @@ (3 :> F(3, "string_value", "one", "string", TRUE, "kind", ""))
             @@ (4 :> F(4, "bool_value", "one", "bool", TRUE, "kind", ""))
             @@ (5 :> F(5, "struct_value", "one", "message", TRUE, "kind", "Struct"))
             @@ (6 :> F(6, "list_value", "one", "message", TRUE, "kind", "ListValue")),
   Struct |-> (1 :> F(1, "fields", "map", "message", FALSE, "", "StructEntry")),
   StructEntry |-> (1 :> One(1, "key", "string")) @@ (2 :> Msg(2, "value", "Value")),
   ListValue |-> (1 :> F(1, "values", "list", "message", FALSE, "", "Value"))]

MCEnumOf == [Color |-> [Red |-> 0, Blue |-> 1], NullValue |-> [NULL_VALUE |-> 0]]
MCFullName == [M |-> <<77>>, Sub |-> <<83>>, FloatValue |-> <<70>>, Any |-> <<65>>, Empty |-> <<69>>]
MCBits == [int32 |-> 4, int64 |-> 6, uint32 |-> 4]
MCSeconds == [Timestamp |-> -3..20, Duration |-> -5..5]

S(s, n) == (1 :> s) @@ (2 :> n)
Url(name) == <<100, Dot, 101, 49, Slash, name>>
Infinity == [is |-> "Infinity", value |-> 0]
Of(t, m) == [type |-> t, message |-> m]

MCMessages == <<
  Of("M", (1 :> -5) @@ (2 :> <<97, 34, 10, 7, 49>>)),
  Of("M", (3 :> S(<<98>>, 0)) @@ (4 :> List(<<1, 7>>)) @@ (99 :> <<5, 6>>)),
  Of("M", (5 :> ((1 :> S(<<98>>, 3)) @@ (2 :> Nothing))) @@ (9 :> Data(<<200, 0>>)) @@ (10 :> FALSE)),
  Of("M", (6 :> AnyOf(Url(83), Payload("Sub", S(<<99>>, 1) @@ (50 :> <<5>>)))) @@ (4 :> List(<<0>>))),
  Of("M", (7 :> (5 :> (1 :> ((<<107>> :> (6 :> (1 :> List(<<(2 :> Finite(1)), Nothing>>)))) @@ (<<108>> :> (4 :> TRUE))))))
          @@ (8 :> (1 :> Infinity))),
  Of("M", (8 :> (1 :> Finite(0))) @@ (11 :> S(<<103>>, 2)) @@ (12 :> List(<<3, 4>>))),
  Of("M", (13 :> (1 :> List(<< <<97, 95, 98, 46, 99>>, << >>, <<100, 95>> >>))) @@ (14 :> 0)
          @@ (15 :> [is |-> "NaN", value |-> 0]) @@ (16 :> (1 :> 20))),
  Of("M", (1 :> 0) @@ (6 :> AnyOf(<<120>>, Data(<<1>>)))),
  Of("M", 6 :> AnyOf(<<97, Slash, 98, Slash, 83>>, Payload("Sub", S(<<99>>, 1)))),
  Of("M", 6 :> AnyOf(<<97, 45, 98, Slash, 83>>, Payload("Sub", S(<<99>>, 1)))),
  Of("M", 16 :> (1 :> 21)),
  Of("M", 7 :> (2 :> Infinity)),
  Of("M", 13 :> (1 :> List(<< <<97, 95, 49>> >>))),
  Of("Any", AnyOf(Url(83), Payload("Sub", S(<<99>>, 1)))),
  Of("Any", AnyOf(Url(70), Payload("FloatValue", 1 :> Finite(5)))),
  Of("Any", AnyOf(Url(77), Payload("M", (2 :> <<97>>) @@ (4 :> List(<<1>>)) @@ (10 :> TRUE)))),
  Of("Any", AnyOf(Url(65), Payload("Any", AnyOf(Url(83), Payload("Sub", S(<<99>>, 1)))))),
  Of("Any", AnyOf(Url(69), Data(<< >>))),
  Of("FloatValue", 1 :> Infinity),
  Of("FloatValue", 1 :> Finite(5)) >>

X(form, type, entry, harm) == [format |-> form, type |-> type, entry |-> entry, harm |-> harm]
T(name, value) == Entry([is |-> "ident", name |-> name], value)
IntToken(v) == [is |-> "int", value |-> v]
Sub(n) == Body(<<T("n", IntToken(n))>>)

MCExtras == <<
  X("json", "M", Pair("other", Number(1)), "lenient"),
  X("json", "M", Pair("left", Null), "harmless"),
  X("json", "M", Pair("tags", Null), "harmless"),
  X("json", "M", Pair("val", Null), "other"),
  X("json", "M", Pair("left", Str("plain", <<120>>)), "other"),
  X("json", "M", Pair("big_num", Str("digits", 32)), "other"),
  X("json", "M", Pair("bigNum", Real(32)), "other"),
  X("json", "M", Pair("tags", [is |-> "array", items |-> <<Str("name", "Mauve"), Str("name", "Blue")>>]), "other"),
  X("json", "Any", Pair("other", Number(1)), "lenient"),
  X("json", "Any", Pair("s", Null), "lenient"),
  X("json", "Any", Pair("left", Null), "lenient"),
  X("text", "M", T("left", [is |-> "string", text |-> <<120>>]), "other"),
  X("text", "M", T("right", Sub(1)), "other"),
  X("text", "M", T("big_num", IntToken(32)), "other"),
  X("text", "M", T("big_num", IntToken(3)), "other"),
  X("text", "M", T("tags", [is |-> "ident", name |-> "Blue"]), "other"),
  X("text", "M", T("on", IntToken(1)), "other"),
  X("text", "M", T("pairs", Body(<<T("key", IntToken(2)), T("value", Sub(5))>>)), "other"),
  X("text", "M", Entry([is |-> "any", url |-> Url(83)], Sub(1)), "other"),
  X("text", "M", T("grp", Sub(1)), "other"),
  X("text", "M", Entry([is |-> "extension", name |-> "e"], [is |-> "list", items |-> <<IntToken(6), IntToken(7)>>]), "other"),
  X("text", "Any", T("value", [is |-> "bytes", value |-> Data(<< >>)]), "other"),
  X("text", "Any", Entry([is |-> "any", url |-> Url(69)], Body(<< >>)), "other") >>

TextOption(unknown, defaults, indexed, expand, ascending) ==
  [unknown |-> unknown, defaults |-> defaults, indexed |-> indexed, expand |-> expand, ascending |-> ascending]
MCTextOptions ==
  {TextOption(FALSE, FALSE, FALSE, TRUE, TRUE), TextOption(TRUE, FALSE, TRUE, FALSE, FALSE),
   TextOption(FALSE, TRUE, TRUE, TRUE, FALSE), TextOption(TRUE, TRUE, FALSE, TRUE, TRUE)}

JsonOption(stringify, numbers, proto, defaults, ascending) ==
  [stringify |-> stringify, numbers |-> numbers, proto |-> proto, defaults |-> defaults, ascending |-> ascending]
MCJsonOptions ==
  {JsonOption(TRUE, FALSE, FALSE, FALSE, TRUE), JsonOption(FALSE, TRUE, TRUE, FALSE, FALSE),
   JsonOption(FALSE, FALSE, TRUE, TRUE, TRUE), JsonOption(TRUE, TRUE, FALSE, TRUE, FALSE)}
MCReadOptions == [deny : BOOLEAN, ascending : BOOLEAN]

================================================================================
