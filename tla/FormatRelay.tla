------------------------------ MODULE FormatRelay ------------------------------
(***************************************************************************)
(* A message that is printed in the text or the JSON format, with some     *)
(* options, edited on the way as a document, and read back, or merged into *)
(* another message of its type.                                            *)
(***************************************************************************)
EXTENDS TextFormat, JsonFormat

CONSTANTS
  Messages,     \* a sequence: type and message first printed
  Extras,       \* entries that an editor adds: [format, type, entry, harm]
  TextOptions, JsonOptions, ReadOptions,
  MaxHops       \* bound on how often the message is printed

VARIABLES
  origin,   \* index of the message first printed
  message,  \* the message held, of the type of the origin
  doc,      \* the document printed or read last
  format,   \* its format
  options,  \* the options it is read with
  edited,   \* what the editor did: "no", "harmless", "lenient" if unknown keys are ignored, "other"
  base,     \* the message that was merged into
  phase,    \* "held", "printed", "unprinted", "refused", "merged", "panicked"
  json,     \* has it been through JSON?
  hops

vars == <<origin, message, doc, format, options, edited, base, phase, json, hops>>

Type == Messages[origin].type
NoOptions == [deny |-> TRUE, ascending |-> TRUE]

Init ==
  /\ origin \in DOMAIN Messages /\ message = Messages[origin].message
  /\ doc = Null /\ format = "none" /\ options = NoOptions /\ edited = "no" /\ base = Nothing
  /\ phase = "held" /\ json = FALSE /\ hops = 0

Faithful == edited \in {"no", "harmless"} \/ (edited = "lenient" /\ ~options.deny)

\* to_text_format_with_options and serialize_with_options.
Printed(documents, as) ==
  /\ format' = as /\ json' = (json \/ as = "json")
  /\ \/ doc' \in documents /\ phase' = "printed"
     \/ documents = {} /\ doc' = Null /\ phase' = "unprinted"
  /\ hops' = hops + 1 /\ edited' = "no" /\ options' = NoOptions
  /\ UNCHANGED <<origin, message, base>>

PrintOut ==
  /\ phase = "held" /\ Faithful /\ hops < MaxHops
  /\ \/ \E o \in TextOptions : Printed({TextMessage(Type, message, o)}, "text")
     \/ \E o \in JsonOptions : Printed(Json(Type, message, o), "json")

\* The first document is edited, once.
Editable == phase = "printed" /\ hops = 1 /\ edited = "no" /\ doc.is = "message"
Edited(entries, how) ==
  /\ doc' = [doc EXCEPT !.entries = entries] /\ edited' = how
  /\ UNCHANGED <<origin, message, format, options, base, phase, json, hops>>

Swap ==
  /\ Editable
  /\ \E i \in 1..(Len(doc.entries) - 1) :
       Edited([doc.entries EXCEPT ![i] = doc.entries[i + 1], ![i + 1] = doc.entries[i]], "harmless")

Repeat ==
  /\ Editable
  /\ \E i \in DOMAIN doc.entries : Edited(Append(doc.entries, doc.entries[i]), "other")

Add ==
  /\ Editable
  /\ \E k \in DOMAIN Extras :
       /\ Extras[k].format = format /\ Extras[k].type = Type
       /\ \E i \in {0, Len(doc.entries)} :
            Edited(InsertAt(doc.entries, i + 1, Extras[k].entry), Extras[k].harm)

\* parse_text_format and deserialize_with_options.
Taking(read, o) ==
  /\ options' = o
  /\ \/ \E r \in read : message' = r.message /\ phase' = r.verdict
     \/ read = {} /\ message' = Nothing /\ phase' = "refused"
  /\ UNCHANGED <<origin, doc, format, edited, base, json, hops>>

ReadBack ==
  /\ phase = "printed"
  /\ \/ format = "text" /\ Taking({ParseMessage(Type, Nothing, doc.entries)}, options)
     \/ /\ format = "json"
        /\ \E o \in ReadOptions : Taking({ Verdict("held", m) : m \in ReadMessage(Type, doc, o) }, o)

\* merge_text_format of the first document, into the message of another program.
Merge ==
  /\ phase = "printed" /\ format = "text" /\ hops = 1 /\ edited = "no"
  /\ \E i \in DOMAIN Messages :
       /\ Messages[i].type = Type
       /\ base' = Messages[i].message
       /\ message' = ParseMessage(Type, Messages[i].message, doc.entries).message
  /\ phase' = "merged"
  /\ UNCHANGED <<origin, doc, format, options, edited, json, hops>>

Done ==
  /\ phase \in {"unprinted", "refused", "merged", "panicked"} \/ (phase = "held" /\ (hops = MaxHops \/ ~Faithful))
  /\ UNCHANGED vars

Next == PrintOut \/ Swap \/ Repeat \/ Add \/ ReadBack \/ Merge \/ Done

Spec == Init /\ [][Next]_vars

-----------------------------------------------------------------------------
(* Properties.                                                             *)

Fits(f, x) ==
  CASE f.card = "one" /\ f.kind \in Integral -> x \in Width(f.kind)
    [] f.card = "list" /\ f.kind \in Integral -> \A i \in DOMAIN x.items : x.items[i] \in Width(f.kind)
    [] OTHER -> TRUE

\* A path as JSON gives it back: an underscore at the end of a part is lost.
RECURSIVE Normal(_, _, _)
Trimmed(path) ==
  LET parts == Split(path, Dot)
  IN Join([i \in DOMAIN parts |-> IF parts[i] # << >> /\ Last(parts[i]) = Underscore THEN Front(parts[i]) ELSE parts[i]], Dot)

NormalOne(f, x, viaJson) ==
  CASE f.kind = "message" -> Normal(f.of, x, viaJson)
    [] f.kind = "bytes" -> IF x.is = "payload" THEN Encode(x.type, Normal(x.type, x.message, viaJson)) ELSE x
    [] OTHER -> x

NormalValue(f, x, viaJson) ==
  CASE f.card = "one" -> NormalOne(f, x, viaJson)
    [] f.card = "list" -> [x EXCEPT !.items = [i \in DOMAIN @ |-> NormalOne(f, @[i], viaJson)]]
    [] f.card = "map" -> [k \in DOMAIN x |-> NormalOne(Schema[f.of][2], x[k], viaJson)]

\* What a reader has of a message: the known fields that show.  JSON has no
\* infinite FloatValue, no Value without a kind, no empty path, and no
\* underscore at the end of a part of a path.
Normal(t, m, viaJson) ==
  LET known == [n \in DOMAIN m \cap DOMAIN Schema[t] |-> NormalValue(Schema[t][n], m[n], viaJson)]
      infinite(n) == /\ viaJson /\ Schema[t][n].card = "one" /\ Schema[t][n].of = "FloatValue"
                     /\ Get("FloatValue", m[n], 1).is # "finite"
      shown == { n \in DOMAIN known : Shows(Schema[t][n], known[n]) /\ ~infinite(n) }
  IN CASE viaJson /\ t = "Value" /\ shown = {} -> 1 :> 0
       [] viaJson /\ t = "FieldMask" /\ shown # {} ->
            1 :> List(SelectSeq([i \in DOMAIN m[1].items |-> Trimmed(m[1].items[i])], LAMBDA path : path # << >>))
       [] OTHER -> [n \in shown |-> known[n]]

\* Does the text have what its parser does not take: a number for a key, or a type
\* that is not a domain of identifiers, one slash and a name?
RECURSIVE Foreign(_)
Foreign(v) ==
  CASE v.is = "message" ->
         \E i \in DOMAIN v.entries :
           LET e == v.entries[i]
           IN \/ e.key.is = "number" \/ (e.key.is = "any" /\ ~IsAnyName(e.key.url))
              \/ Foreign(e.value)
    [] v.is = "list" -> \E i \in DOMAIN v.items : Foreign(v.items[i])
    [] OTHER -> FALSE

\* What is printed, whatever the options, is read back as the message that was
\* printed first, through any number of formats, in any order of the entries of
\* a document (also of those before the "@type" of an Any), and with entries
\* added that say nothing; or its reader is one that cannot take it.
RoundTrip ==
  Faithful =>
    /\ phase = "held" => Normal(Type, message, json) = Normal(Type, Messages[origin].message, json)
    /\ phase = "refused" => \/ format = "text" /\ Foreign(doc)
                            \/ format = "json" /\ Type = "FloatValue" /\ doc = Null

-----------------------------------------------------------------------------
(* What a document says, entry by entry.                                   *)

\* The fields named by the key of an entry, and the values the entry gives one:
\* a sequence of one in JSON, none if it says nothing, of all in text.
NamedIn(e) ==
  IF format = "json" THEN FieldsOf(Type, e.key)
  ELSE WithKey(Type, e.key)
Gives(e, n) == IF format = "json" THEN ReadField(Schema[Type][n], e.value, options) ELSE ParseMany(Schema[Type][n], e.value)

\* Of each entry, the fields it names with what it gives them.
Told == [i \in DOMAIN doc.entries |-> { [n |-> n, gives |-> Gives(doc.entries[i], n)] : n \in NamedIn(doc.entries[i]) }]

\* Two entries that a document may not have: of two of a oneof and, in text, of
\* one field of which the first shows.
Clash(a, b) ==
  \/ b.n \in Members(Type, a.n)
  \/ format = "text" /\ a.n = b.n /\ Schema[Type][a.n].card = "one" /\ Shows(Schema[Type][a.n], The(a.gives)[1])

\* What the entries give field n, in order, without those that say nothing.
SaidOf(told, n) ==
  FlattenSeq([i \in DOMAIN told |-> FlattenSeq(SetToSeq({ r \in UNION { t.gives : t \in { u \in told[i] : u.n = n } } : r # << >> }))])

Accepted(told) ==
  /\ \A i \in DOMAIN told : IF told[i] = {} THEN format = "json" /\ ~options.deny ELSE \A t \in told[i] : t.gives # {}
  /\ \A i, k \in DOMAIN told : i < k =>
       \A a \in told[i], b \in told[k] : Clash(a, b) => << >> \in a.gives \cup b.gives

\* The value of field n when s is said of it: the last in JSON, and in text the
\* lists together, or the last pair of each key.
Settled(n, s) ==
  LET f == Schema[Type][n]
  IN CASE f.card = "one" \/ format = "json" -> Last(s)
       [] f.card = "list" /\ format = "text" -> List(s)
       [] f.card = "map" /\ format = "text" ->
            [key \in { Get(f.of, s[i], 1) : i \in DOMAIN s } |->
               Get(f.of, Last(SelectSeq(s, LAMBDA pair : Get(f.of, pair, 1) = key)), 2)]

Says(told) ==
  /\ (phase = "held") = Accepted(told)
  /\ phase = "held" =>
       \A n \in DOMAIN message \cup { t.n : t \in UNION Range(told) } :
         \A s \in {SaidOf(told, n)} :
           IF s = << >> THEN n \in DOMAIN message => format = "text" /\ message[n] = Default(Schema[Type][n])
           ELSE n \in DOMAIN message /\ message[n] = Settled(n, s)

\* A document is accepted exactly when its entries do not clash and each is one
\* that its field takes, and then the message has what they say and no more.  At any
\* time integers fit their kinds, and of a oneof at most one field is set.
DocumentMeans ==
  /\ \A n \in DOMAIN message \cap DOMAIN Schema[Type] :
       Fits(Schema[Type][n], message[n]) /\ Members(Type, n) \cap DOMAIN message \subseteq {n}
  /\ phase \in {"held", "refused"} /\ hops > 0 /\ Type \notin WellKnown =>
       DOMAIN message \subseteq DOMAIN Schema[Type] /\ \A told \in {Told} : Says(told)

\* Text merged into a message, to its end or to an error, changes no field that
\* has a value there: lists grow at their end, and maps keep their keys.  It says
\* nothing of a message that is an Any itself: a type in brackets replaces the two
\* fields of that, whatever they are, where another entry for them would be refused.
MergesKeep ==
  phase = "merged" =>
    \A n \in DOMAIN base :
      IF n \notin DOMAIN Schema[Type] THEN n \in DOMAIN message /\ message[n] = base[n]
      ELSE LET f == Schema[Type][n]
           IN Shows(f, base[n]) /\ Type # "Any" =>
                /\ n \in DOMAIN message
                /\ CASE f.card = "one" -> message[n] = base[n]
                     [] f.card = "list" -> IsPrefix(base[n].items, message[n].items)
                     [] f.card = "map" -> DOMAIN base[n] \subseteq DOMAIN message[n]
================================================================================
