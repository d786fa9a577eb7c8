------------------------------ MODULE TextFormat ------------------------------
(***************************************************************************)
(* The text format of a dynamic message (text_format/format.rs and         *)
(* text_format/parse).  A document is a tree: a message is a sequence of   *)
(* entries, each a key and a value; layout, separators and the places of   *)
(* errors are left out.                                                    *)
(***************************************************************************)
EXTENDS MessageValues, AsciiText

Entry(key, value) == [key |-> key, value |-> value]
Body(entries) == [is |-> "message", entries |-> entries]

\* FieldDescriptor::name, the name of the message of a group, or an extension.
NameOf(f) == [is |-> IF f.ext THEN "extension" ELSE "ident", name |-> f.text]
TextNames == [t \in DOMAIN Schema |-> [n \in DOMAIN Schema[t] |-> NameOf(Schema[t][n])]]
WithKey(t, key) == { n \in DOMAIN TextNames[t] : TextNames[t][n] = key }

-----------------------------------------------------------------------------
(* Writer.  Options o: unknown, defaults, indexed, expand; ascending is     *)
(* the order of a map.                                                      *)

RECURSIVE TextMessage(_, _, _)

NumbersNamed(f, x) == { name \in DOMAIN EnumOf[f.of] : EnumOf[f.of][name] = x }

\* fmt_value, of one element.
TextOne(f, x, o) ==
  CASE f.kind \in Integral -> [is |-> "int", value |-> x]
    [] f.kind = "double" -> [is |-> "float", value |-> x]
    [] f.kind = "bool" -> [is |-> "ident", name |-> IF x THEN "true" ELSE "false"]
    [] f.kind = "string" -> [is |-> "string", text |-> Escaped(x)]
    [] f.kind = "bytes" -> [is |-> "bytes", value |-> x]
    [] f.kind = "enum" -> IF NumbersNamed(f, x) = {} THEN [is |-> "int", value |-> x]
                          ELSE [is |-> "ident", name |-> The(NumbersNamed(f, x))]
    [] f.kind = "message" -> TextMessage(f.of, x, o)

\* fmt_value: of a list its elements, of a map its pairs, as messages of its
\* entry type.
Parts(f, x, ascending) ==
  CASE f.card = "one" -> <<x>>
    [] f.card = "list" -> x.items
    [] f.card = "map" -> LET keys == Keys(x, ascending) IN [i \in DOMAIN keys |-> (1 :> keys[i]) @@ (2 :> x[keys[i]])]

Bracketed(f, x, values) == IF f.card = "one" \/ (f.card = "list" /\ x.lone) THEN values[1] ELSE [is |-> "list", items |-> values]

TextValue(f, x, o) ==
  LET parts == Parts(f, x, o.ascending) IN Bracketed(f, x, [i \in DOMAIN parts |-> TextOne(f, parts[i], o)])

\* fmt_message_field and fmt_unknown_field, whose values are integers here.
TextField(t, m, n, o) ==
  IF n \in DOMAIN Schema[t]
  THEN <<Entry(NameOf(Schema[t][n]), TextValue(Schema[t][n], Get(t, m, n), o))>>
  ELSE IF ~o.unknown THEN << >>
  ELSE [i \in DOMAIN m[n] |-> Entry([is |-> "number", number |-> n], [is |-> "int", value |-> m[n][i]])]

TextFields(t, m, fields, o) == Body(FlattenSeq([i \in DOMAIN fields |-> TextField(t, m, fields[i], o)]))

\* fmt_message
TextMessage(t, m, o) ==
  IF o.expand /\ Expanded(t, m) # {}
  THEN The({ Body(<<Entry([is |-> "any", url |-> Get(t, m, 1)], TextMessage(body.type, body.message, o))>>) :
               body \in Expanded(t, m) })
  ELSE TextFields(t, m, Iterated(t, m, o.defaults, o.indexed), o)

-----------------------------------------------------------------------------
(* Parser.  A message is parsed into one that may have fields, and has      *)
(* those before an error when it ends in one.                               *)

RECURSIVE ParseMessage(_, _, _)

Verdict(v, m) == [verdict |-> v, message |-> m]

\* parse_value: its values, if it has one.
ParseOne(f, v) ==
  CASE f.kind \in Integral -> IF v.is = "int" THEN {v.value} \cap Width(f.kind) ELSE {}
    [] f.kind = "double" -> CASE v.is = "float" -> {v.value} [] v.is = "int" -> {Finite(v.value)} [] OTHER -> {}
    [] f.kind = "bool" ->
         CASE v.is = "ident" -> IF v.name \in {"true", "True", "t"} THEN {TRUE}
                                ELSE IF v.name \in {"false", "False", "f"} THEN {FALSE} ELSE {}
           [] v.is = "int" -> { b \in BOOLEAN : v.value = IF b THEN 1 ELSE 0 }
           [] OTHER -> {}
    [] f.kind = "string" ->
         IF v.is # "string" THEN {} ELSE { r.data : r \in { l \in {LexString(Append(v.text, Quote), Quote)} : l.is = "bytes" } }
    [] f.kind = "bytes" -> IF v.is = "bytes" THEN {v.value} ELSE {}
    [] f.kind = "enum" ->
         CASE v.is = "ident" -> { EnumOf[f.of][name] : name \in DOMAIN EnumOf[f.of] \cap {v.name} }
           [] v.is = "int" -> {v.value} \cap Width("int32")
           [] OTHER -> {}
    [] f.kind = "message" ->
         IF v.is # "message" THEN {}
         ELSE { r.message : r \in { body \in {ParseMessage(f.of, Nothing, v.entries)} : body.verdict = "held" } }

\* parse_value, or parse_repeated_value.
ParseMany(f, v) ==
  LET items == IF f.card # "one" /\ v.is = "list" THEN v.items ELSE <<v>>
  IN Together([i \in DOMAIN items |-> ParseOne(f, items[i])])

\* Fault: only the other members of a oneof are looked at.
AlreadySetRivals(t, m, n) == \E k \in Members(t, n) : Has(t, m, k)

\* FieldAlreadySet and OneofAlreadySet.
AlreadySet(t, m, n) == \E k \in Members(t, n) \cup {n} : Has(t, m, k)

\* parse_field_value, of the values xs.
SetParsed(t, m, n, old, xs) ==
  LET f == Schema[t][n]
  IN CASE f.card = "one" ->
            IF AlreadySet(t, m, n) THEN Verdict("refused", m) ELSE Verdict("held", Put(t, m, n, xs[1]))
       [] f.card = "list" ->
            IF old.lone THEN Verdict("panicked", m)
            ELSE Verdict("held", Put(t, m, n, List(old.items \o xs)))
       [] f.card = "map" ->
            Verdict("held", Put(t, m, n, FoldLeft(LAMBDA map, e : (Get(f.of, e, 1) :> Get(f.of, e, 2)) @@ map, old, xs)))

\* parse_full_ident: identifiers with dots between them (the blanks and comments that
\* may be between those are left out).
IsLetter(c) == IsUpper(c) \/ IsLower(c) \/ c = Underscore
FullIdent(text) ==
  /\ text # << >> /\ Last(text) # Dot
  /\ \A i \in DOMAIN text :
       IsLetter(text[i]) \/ (i > 1 /\ text[i - 1] # Dot /\ text[i] \in (48..57) \cup {Dot})

\* parse_field_name, in brackets: a domain, one slash and the name of a type.
IsAnyName(url) ==
  \E k \in DOMAIN url :
    url[k] = Slash /\ FullIdent(SubSeq(url, 1, k - 1)) /\ FullIdent(SubSeq(url, k + 1, Len(url)))

\* A type in brackets, and the message of that type; a type and a value that the Any
\* has already are replaced.
ParseAny(t, m, url, v) ==
  LET types == IF t = "Any" /\ v.is = "message" /\ IsAnyName(url) THEN TypesOf(url) ELSE {}
  IN UNION { { AnyOf(url, Encode(u, body.message)) @@ m :
                 body \in { b \in {ParseMessage(u, Nothing, v.entries)} : b.verdict = "held" } } : u \in types }

\* Of the verdicts of what could be parsed, if it could.
Outcome(verdicts, m) == IF verdicts = {} THEN Verdict("refused", m) ELSE The(verdicts)

\* parse_field, with find_field and get_extension_by_full_name.
ParseEntry(t, m, e) ==
  Outcome(IF e.key.is = "any" THEN { Verdict("held", any) : any \in ParseAny(t, m, e.key.url, e.value) }
          ELSE UNION { { SetParsed(t, m, n, Get(t, m, n), xs) : xs \in ParseMany(Schema[t][n], e.value) } :
                         n \in WithKey(t, e.key) },
          m)

ParseMessage(t, m, entries) ==
  FoldLeft(LAMBDA r, e : IF r.verdict = "held" THEN ParseEntry(t, r.message, e) ELSE r, Verdict("held", m), entries)
================================================================================
