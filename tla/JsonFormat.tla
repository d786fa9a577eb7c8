------------------------------ MODULE JsonFormat ------------------------------
(***************************************************************************)
(* The JSON mapping of a dynamic message (serde/ser and serde/de).  What   *)
(* serde_json reads and writes is a tree; an object that a message gives   *)
(* is marked "message", one that a map or a Struct gives "map".            *)
(***************************************************************************)
EXTENDS MessageValues, AsciiText

CONSTANT Seconds   \* "Timestamp" and "Duration" -> the seconds they may have

Null == [is |-> "null"]
Number(v) == [is |-> "number", real |-> FALSE, value |-> v]
Real(v) == [is |-> "number", real |-> TRUE, value |-> v]
Str(as, v) == [is |-> "string", as |-> as, value |-> v]
Object(as, entries) == [is |-> as, entries |-> entries]
Pair(key, value) == [key |-> key, value |-> value]
IsObject(j) == j.is \in {"message", "map"}

Wrappers == {"FloatValue", "Int64Value"}
WellKnown == Wrappers \cup {"Any", "Timestamp", "Duration", "FieldMask", "Value", "Struct", "ListValue", "Empty"}

Comma == 44
Split(s, c) ==
  FoldLeft(LAMBDA parts, b : IF b = c THEN Append(parts, << >>)
                             ELSE [parts EXCEPT ![Len(parts)] = Append(@, b)], << << >> >>, s)
Join(parts, c) == FoldLeft(LAMBDA s, part : s \o <<c>> \o part, Head(parts), Tail(parts))

\* Each part of a path, if it can be converted.
Converted(path, Convert(_)) ==
  LET parts == Split(path, Dot)
      names == [i \in DOMAIN parts |-> Convert(parts[i])]
  IN IF \E i \in DOMAIN names : names[i].is # "text" THEN {}
     ELSE {Join([i \in DOMAIN names |-> names[i].text], Dot)}

-----------------------------------------------------------------------------
(* Serializer.  Options o: stringify, numbers, proto, defaults; ascending  *)
(* is the order of a map.  A result is a set, empty for an error.          *)

RECURSIVE Json(_, _, _)

\* ValueAndKind, of one element.
JsonOne(f, x, o) ==
  CASE f.kind \in {"int32", "uint32"} -> {Number(x)}
    [] f.kind = "int64" -> {IF o.stringify THEN Str("digits", x) ELSE Number(x)}
    [] f.kind = "double" -> {IF x.is = "finite" THEN Real(x.value) ELSE Str("name", x.is)}
    [] f.kind = "bool" -> {[is |-> "bool", value |-> x]}
    [] f.kind = "string" -> {Str("plain", x)}
    [] f.kind = "bytes" -> {Str("base64", x)}
    [] f.kind = "enum" ->
         LET names == { name \in DOMAIN EnumOf[f.of] : EnumOf[f.of][name] = x }
         IN {IF f.of = "NullValue" THEN Null
             ELSE IF o.numbers \/ names = {} THEN Number(x) ELSE Str("name", The(names))}
    [] f.kind = "message" -> Json(f.of, x, o)

\* ValueAndKind: an element, an array of them or an object.
JsonWhole(f, x, keys, values) ==
  CASE f.card = "one" \/ (f.card = "list" /\ x.lone) -> values[1]
    [] f.card = "list" /\ ~x.lone -> [is |-> "array", items |-> values]
    [] f.card = "map" -> Object("map", [i \in DOMAIN keys |-> Pair(keys[i], values[i])])

JsonValue(f, x, o) ==
  LET keys == IF f.card = "map" THEN Keys(x, o.ascending) ELSE << >>
      element == IF f.card = "map" THEN Schema[f.of][2] ELSE f
      parts == CASE f.card = "one" -> <<x>> [] f.card = "list" -> x.items
                 [] f.card = "map" -> [i \in DOMAIN keys |-> x[keys[i]]]
  IN { JsonWhole(f, x, keys, values) : values \in Together([i \in DOMAIN parts |-> JsonOne(element, parts[i], o)]) }

\* serialize_dynamic_message_fields
JsonFields(t, m, o) ==
  LET known == SelectSeq(Iterated(t, m, o.defaults, FALSE), LAMBDA n : n \in DOMAIN Schema[t])
      key(f) == IF o.proto /\ ~f.ext THEN f.name ELSE f.json
  IN { [i \in DOMAIN known |-> Pair(key(Schema[t][known[i]]), values[i])] :
         values \in Together([i \in DOMAIN known |-> JsonValue(Schema[t][known[i]], Get(t, m, known[i]), o)]) }

\* serialize_any
JsonAny(m, o) ==
  LET at == Pair("@type", Str("plain", Get("Any", m, 1)))
  IN UNION { IF any.type \in WellKnown
             THEN { Object("message", <<at, Pair("value", j)>>) : j \in Json(any.type, any.message, o) }
             ELSE { Object("message", <<at>> \o fields) : fields \in JsonFields(any.type, any.message, o) } :
             any \in Expanded("Any", m) }

\* serialize_value_inner
JsonKind(m, o) ==
  IF DOMAIN m = {} THEN {Null}
  ELSE UNION { JsonValue(Schema["Value"][n], m[n], o) :
                 n \in { k \in DOMAIN m : Schema["Value"][k].kind = "double" => m[k].is = "finite" } }

\* serialize_field_mask
JsonMask(m) ==
  LET paths == Get("FieldMask", m, 1).items
  IN { Str("plain", FoldLeft(LAMBDA s, path : IF s = << >> THEN path ELSE s \o <<Comma>> \o path, << >>, names)) :
         names \in Together([i \in DOMAIN paths |-> Converted(paths[i], SnakeToCamel)]) }

\* The serializers of wkt.rs, and of a message.  A float that JSON does not
\* have is null to serde_json.
Json(t, m, o) ==
  CASE t = "Any" -> JsonAny(m, o)
    [] t \in {"Timestamp", "Duration"} -> { Str("time", s) : s \in Seconds[t] \cap {Get(t, m, 1)} }
    [] t = "FieldMask" -> JsonMask(m)
    [] t = "Value" -> JsonKind(m, o)
    [] t \in Wrappers \cup {"Struct", "ListValue"} ->
         IF t = "FloatValue" /\ Get(t, m, 1).is # "finite" THEN {Null} ELSE JsonValue(Schema[t][1], Get(t, m, 1), o)
    [] t = "Empty" -> {Object("map", << >>)}
    [] OTHER -> { Object("message", fields) : fields \in JsonFields(t, m, o) }

-----------------------------------------------------------------------------
(* Deserializer.  Options o: deny; ascending is the order of the entries    *)
(* that were buffered.  A result is a set, empty for an error; of a field   *)
(* it has << >> when there is no value and <<x>> when x is its value.       *)

RECURSIVE ReadMessage(_, _, _)

\* Int32Visitor, Uint32Visitor, Int64Visitor: the bound of 64 bits, as a double,
\* is one above it, and the conversion back saturates.
IntOf(kind, j) ==
  CASE j.is = "string" -> IF j.as = "digits" THEN {j.value} \cap Width(kind) ELSE {}
    [] j.is = "number" -> IF kind = "int64" /\ j.real /\ j.value = 2^(Bits[kind] - 1) THEN {j.value - 1}
                          ELSE {j.value} \cap Width(kind)
    [] OTHER -> {}

\* DoubleVisitor
DoubleOf(j) ==
  CASE j.is = "number" -> {Finite(j.value)}
    [] j.is = "string" -> CASE j.as = "digits" -> {Finite(j.value)}
                            [] j.as = "name" -> IF j.value \in {"Infinity", "-Infinity", "NaN"}
                                                THEN {[is |-> j.value, value |-> 0]} ELSE {}
                            [] OTHER -> {}
    [] OTHER -> {}

\* EnumVisitor and GoogleProtobufNullVisitor.
ReadEnum(of, j, o) ==
  LET unknown == IF o.deny THEN {} ELSE {<< >>}
  IN IF of = "NullValue"
     THEN CASE j.is = "null" -> {<<0>>}
            [] j.is = "string" -> IF j.as = "name" /\ j.value = "NULL_VALUE" THEN {<<0>>} ELSE unknown
            [] OTHER -> {}
     ELSE CASE j.is = "string" -> IF j.as = "name" /\ j.value \in DOMAIN EnumOf[of]
                                  THEN {<<EnumOf[of][j.value]>>} ELSE unknown
            [] j.is = "number" -> IF j.real THEN {} ELSE { <<x>> : x \in {j.value} \cap Width("int32") }
            [] OTHER -> {}

\* KindSeed
ReadOne(f, j, o) ==
  LET one(S) == { <<x>> : x \in S }
  IN CASE f.kind \in Integral -> one(IntOf(f.kind, j))
       [] f.kind = "double" -> one(DoubleOf(j))
       [] f.kind = "bool" -> IF j.is = "bool" THEN {<<j.value>>} ELSE {}
       [] f.kind = "string" -> IF j.is = "string" /\ j.as = "plain" THEN {<<j.value>>} ELSE {}
       [] f.kind = "bytes" -> IF j.is = "string" /\ j.as = "base64" THEN {<<j.value>>} ELSE {}
       [] f.kind = "enum" -> ReadEnum(f.of, j, o)
       [] f.kind = "message" -> one(ReadMessage(f.of, j, o))

\* FieldDescriptorSeed, with ListVisitor and MapVisitor: of the elements those
\* that have a value.
ReadWhole(f, j, values) ==
  CASE f.card = "one" -> values[1]
    [] f.card = "list" -> <<List(FlattenSeq(values))>>
    [] f.card = "map" ->
         <<FoldLeft(LAMBDA map, i : IF values[i] = << >> THEN map ELSE (j.entries[i].key :> values[i][1]) @@ map,
                    Nothing, [i \in DOMAIN values |-> i])>>

ReadValue(f, j, o) ==
  LET element == IF f.card = "map" THEN Schema[f.of][2] ELSE f
      parts == CASE f.card = "one" -> <<j>> [] f.card = "list" -> j.items
                 [] f.card = "map" -> [i \in DOMAIN j.entries |-> j.entries[i].value]
      fits == CASE f.card = "one" -> TRUE [] f.card = "list" -> j.is = "array" [] f.card = "map" -> IsObject(j)
  IN IF ~fits THEN {}
     ELSE { ReadWhole(f, j, values) : values \in Together([i \in DOMAIN parts |-> ReadOne(element, parts[i], o)]) }

\* OptionalFieldDescriptorSeed: null is a value for some kinds, of a list too.
NullOf(f) ==
  { <<IF f.card = "list" THEN Lone(x) ELSE x>> :
      x \in IF f.of = "Value" THEN {1 :> 0} ELSE {0} }
ReadField(f, j, o) ==
  IF j.is # "null" THEN ReadValue(f, j, o)
  ELSE IF f.card # "map" /\ f.of \in {"Value", "NullValue"} THEN NullOf(f) ELSE {<< >>}

\* The field or extension of a key: by JSON name, by name, or by full name in
\* brackets, which is the JSON name of an extension.
JsonKeys ==
  [t \in DOMAIN Schema |->
     LET own == { n \in DOMAIN Schema[t] : ~Schema[t][n].ext }
         of(key) == { n \in own : Schema[t][n].json = key }
     IN [key \in UNION { {Schema[t][n].json, Schema[t][n].name} : n \in DOMAIN Schema[t] } |->
           IF of(key) # {} THEN of(key)
           ELSE { n \in DOMAIN Schema[t] : key = IF n \in own THEN Schema[t][n].name ELSE Schema[t][n].json }]]
FieldsOf(t, key) == IF key \in DOMAIN JsonKeys[t] THEN JsonKeys[t][key] ELSE {}

\* Fault: a member of a oneof may come twice.
TakenByOther(t, m, n) == \E k \in Members(t, n) \ {n} : Has(t, m, k)

\* "multiple fields provided for oneof"
Taken(t, m, n) == \E k \in Members(t, n) : Has(t, m, k)

\* MessageVisitorInner, one entry.
ReadInto(t, m, found, e, o) ==
  IF found = {} THEN IF o.deny THEN {} ELSE {m}
  ELSE UNION { { IF value = << >> THEN m ELSE Put(t, m, n, value[1]) :
                   value \in { r \in ReadField(Schema[t][n], e.value, o) : r = << >> \/ ~Taken(t, m, n) } } : n \in found }
ReadEntries(t, entries, o) ==
  FoldLeft(LAMBDA ms, e : UNION { ReadInto(t, m, FieldsOf(t, e.key), e, o) : m \in ms }, {Nothing}, entries)

\* make_message: what the encoding of a known type keeps.
Made(t, m) == Shown(t, m)

\* The entries before "@type" are buffered in a HashMap: of two with one key the
\* last stays, and they come back in some order.
Buffered(entries, at, ascending) ==
  LET last == { i \in 1..(at - 1) : \A j \in (i + 1)..(at - 1) : entries[j].key # entries[i].key }
      order == Ordered(last, LAMBDA a, b : IF ascending THEN a < b ELSE a > b)
  IN [i \in DOMAIN order |-> entries[order[i]]]

\* GoogleProtobufAnyVisitor, of the entries beside the first "@type".
FirstOf(entries, key) ==
  { entries[i].value : i \in { k \in DOMAIN entries : entries[k].key = key /\ \A h \in 1..(k - 1) : entries[h].key # key } }
Payloads(u, rest, o) ==
  IF u \notin WellKnown THEN ReadEntries(u, rest, o)
  ELSE UNION { ReadMessage(u, value, o) : value \in { v \in FirstOf(rest, "value") : o.deny => Len(rest) = 1 } }
ReadTyped(url, rest, o) ==
  UNION { { Made("Any", AnyOf(url, Encode(u, m))) : m \in Payloads(u, rest, o) } : u \in TypesOf(url) }
ReadAny(j, o) ==
  IF ~IsObject(j) THEN {}
  ELSE UNION { ReadTyped(j.entries[at].value.value,
                         Buffered(j.entries, at, o.ascending) \o SubSeq(j.entries, at + 1, Len(j.entries)), o) :
                 at \in { k \in DOMAIN j.entries : /\ j.entries[k].key = "@type"
                                                   /\ \A h \in 1..(k - 1) : j.entries[h].key # "@type" } }

\* GoogleProtobufValueVisitor: the field of its kind.
ValueField(j) ==
  CASE j.is = "null" -> 1 [] j.is = "number" -> 2 [] j.is = "string" -> 3 [] j.is = "bool" -> 4 [] j.is = "array" -> 6
    [] OTHER -> 5

\* GoogleProtobufFieldMaskVisitor
ReadMask(j) ==
  IF j.is # "string" THEN {}
  ELSE LET paths == SelectSeq(Split(j.value, Comma), LAMBDA path : path # << >>)
       IN { Made("FieldMask", 1 :> List(names)) :
              names \in Together([i \in DOMAIN paths |-> Converted(paths[i], CamelToSnake)]) }

\* deserialize_message
ReadMessage(t, j, o) ==
  CASE t = "Any" -> ReadAny(j, o)
    [] t \in {"Timestamp", "Duration"} -> IF j.is = "string" /\ j.as = "time"
                                          THEN { Made(t, 1 :> s) : s \in Seconds[t] \cap {j.value} } ELSE {}
    [] t = "FieldMask" -> ReadMask(j)
    [] t \in Wrappers \cup {"Struct", "ListValue", "Value"} ->
         LET n == IF t = "Value" THEN ValueField(j) ELSE 1
         IN { Made(t, n :> x[1]) : x \in ReadValue(Schema[t][n], j, o) }
    [] t = "Empty" -> IF IsObject(j) /\ j.entries = << >> THEN {Nothing} ELSE {}
    [] OTHER -> IF IsObject(j) THEN ReadEntries(t, j.entries, o) ELSE {}
================================================================================
