----------------------------- MODULE Declarations -----------------------------
(***************************************************************************)
(* A message, its extensions and an enum of one file, as the first two     *)
(* phases of build_files declare and resolve them: the tables in which a   *)
(* descriptor finds a field by number, name and JSON name, the members of  *)
(* a oneof and the values of an enum, and which files are refused.         *)
(*                                                                         *)
(* What goes across files (imports, options, rollback) is in               *)
(* DescriptorPool, the scoping of type names in NameScopes: here the names *)
(* of the message, the enum and of nothing are references that resolve or  *)
(* do not.                                                                 *)
(***************************************************************************)
EXTENDS AsciiText, FiniteSets

CONSTANTS
  Protos,    \* the files
  Checked,   \* whether the build checks u8 arithmetic for overflow
  None       \* what a descriptor does not give

ASSUME NoneAssumption == None \notin Int

\* Fault: the end belongs to a range.
InRangeClosed(n, range) == range[1] <= n /\ n <= range[2]

\* descriptor/mod.rs; ranges include their start and not their end.
InRange(n, range) == range[1] <= n /\ n < range[2]
ValidNumbers == <<1, 536870912>>
ReservedNumbers == <<19000, 20000>>

\* What a default value is written as.
IsLiteral(d) ==
  CASE d.is = "none" -> d = [is |-> "none"]
    [] d.is = "int" -> d.value \in Int /\ d = [is |-> "int", value |-> d.value]
    [] d.is = "text" -> d.text \in Seq(Int) /\ d = Name(d.text)
    [] OTHER -> FALSE

\* "name" and "json" are texts, "default" a literal, "ref" what type_name refers to.
FieldProto(f) ==
  /\ f.number \in Int /\ f.label \in {"optional", "required", "repeated"}
  /\ f.optional3 \in BOOLEAN /\ f.oneof \in Int \cup {None} /\ f.packed \in BOOLEAN \cup {None}
  /\ IsLiteral(f.default)

ASSUME ProtosAssumption ==
  \A p \in Protos :
    /\ p.fields \in Seq(Range(p.fields)) /\ p.extensions \in Seq(Range(p.extensions))
    /\ p.values \in Seq(Range(p.values)) /\ p.oneofs \in Nat
    /\ \A i \in DOMAIN p.fields : FieldProto(p.fields[i])
    /\ \A i \in DOMAIN p.extensions : FieldProto(p.extensions[i])
    /\ \A i \in DOMAIN p.values : p.values[i].number \in Int
    /\ p.reserved \in Seq(Int \X Int) /\ p.extensionRanges \in Seq(Int \X Int)
    /\ p.enumReserved \in Seq(Int \X Int) /\ p.allowAlias \in BOOLEAN

VARIABLES
  proto,     \* the file
  phase,     \* "names", "resolve", and how the build ends
  errors,    \* kinds of the errors reported so far
  message,   \* MessageDescriptorInner
  exts,      \* the file's ExtensionDescriptorInner
  enum       \* EnumDescriptorInner

vars == <<proto, phase, errors, message, exts, enum>>

\* A map from keys to indices.
Empty == [k \in {} |-> 0]
Put(map, k, i) == [x \in DOMAIN map \cup {k} |-> IF x = k THEN i ELSE map[x]]
ErrorIf(fails, kind) == IF fails THEN {kind} ELSE {}

Init ==
  /\ proto \in Protos
  /\ phase = "names" /\ errors = {}
  /\ message = [fields |-> << >>, numbers |-> Empty, names |-> Empty, jsonNames |-> Empty,
                oneofs |-> [o \in 0..(proto.oneofs - 1) |-> << >>], extensions |-> << >>]
  /\ exts = << >>
  /\ enum = [numbers |-> << >>, names |-> Empty]

-----------------------------------------------------------------------------
(* The first phase: names.rs.                                              *)

Twice(seq) == \E i, j \in DOMAIN seq : i # j /\ seq[i] = seq[j]
NamesOf(elements) == [i \in DOMAIN elements |-> elements[i].name]
Folded(fields) == [i \in DOMAIN fields |-> ToLowerWithoutUnderscores(fields[i].name)]

\* NameVisitor over the file: the names of the fields are in the message, those
\* of the values and extensions next to it.
NameErrors(p) ==
  ErrorIf(Twice(NamesOf(p.fields)) \/ Twice(NamesOf(p.values) \o NamesOf(p.extensions)), "DuplicateName")
  \cup ErrorIf(p.syntax # "proto2" /\ Twice(Folded(p.fields)), "DuplicateFieldCamelCaseName")
  \cup ErrorIf(p.values = << >>, "EmptyEnum")
  \cup ErrorIf(p.values # << >> /\ p.syntax # "proto2" /\ p.values[1].number # 0, "InvalidProto3EnumDefault")

DeclareNames ==
  /\ phase = "names"
  /\ errors' = NameErrors(proto)
  /\ phase' = IF errors' = {} THEN "resolve" ELSE "refused"
  /\ UNCHANGED <<proto, message, exts, enum>>

-----------------------------------------------------------------------------
(* The second phase: resolve.rs.                                           *)

\* check_field_number
NumberErrors(p, n, extends) ==
  LET extensible == \E i \in DOMAIN p.extensionRanges : InRange(n, p.extensionRanges[i])
  IN ErrorIf(~InRange(n, ValidNumbers) \/ InRange(n, ReservedNumbers), "InvalidFieldNumber")
     \cup ErrorIf(\E i \in DOMAIN p.reserved : InRange(n, p.reserved[i]), "FieldNumberInReservedRange")
     \cup ErrorIf(~extends /\ extensible, "FieldNumberInExtensionRange")
     \cup ErrorIf(extends /\ ~extensible, "ExtensionNumberOutOfRange")

\* resolve_field_type; "unknown" after an error.
Kind(f) ==
  CASE f.ref = "the message" -> IF f.type = "group" THEN "group" ELSE "message"
    [] f.ref = "the enum" -> "enum"
    [] f.ref = "" /\ f.type \notin {"message", "group", "enum"} -> f.type
    [] OTHER -> "unknown"

TypeErrors(f) == ErrorIf(Kind(f) = "unknown", IF f.ref = "" THEN "MissingRequiredField" ELSE "NameNotFound")

IsMessage(kind) == kind \in {"message", "group"}
Packable(kind) == kind \in {"int32", "enum"}

NoDefault == [is |-> "none"]
Number(n) == [is |-> "int", value |-> n]

\* parse_field_default_value; a literal is a Number, for types other than bytes, or a Name.
ParseDefault(p, f) ==
  LET named == { i \in DOMAIN p.values : f.default = Name(p.values[i].name) }
      first == CHOOSE i \in named : \A j \in named : i <= j
      kind == Kind(f)
  IN CASE f.default.is = "none" \/ kind = "unknown" -> NoDefault
       [] f.default.is = "text" /\ kind = "bytes" -> UnescapeC(f.default.text, Checked)
       [] f.default.is = "int" /\ kind = "int32" -> f.default
       [] f.default.is = "text" /\ kind = "enum" /\ named # {} -> Number(p.values[first].number)
       [] OTHER -> Refused

JsonName(f) == IF f.json = None THEN ToJsonName(f.name) ELSE f.json

Packed(p, f) ==
  /\ f.label = "repeated" /\ Packable(Kind(f))
  /\ IF f.packed = None THEN p.syntax = "proto3" ELSE f.packed

Presence(p, f) ==
  \/ f.optional3 \/ f.oneof # None
  \/ f.label # "repeated" /\ (IsMessage(Kind(f)) \/ p.syntax = "proto2")

\* FieldDescriptorInner
Field(p, f) ==
  [name |-> f.name, number |-> f.number, kind |-> IF Kind(f) = "unknown" THEN "double" ELSE Kind(f),
   json |-> JsonName(f), card |-> f.label, packed |-> Packed(p, f), presence |-> Presence(p, f),
   oneof |-> IF f.oneof \in DOMAIN message.oneofs THEN f.oneof ELSE None,
   default |-> IF ParseDefault(p, f) = Refused THEN NoDefault ELSE ParseDefault(p, f)]

\* ExtensionDescriptorInner: the JSON name is the full name in brackets.
Extension(p, f) ==
  [number |-> f.number, kind |-> Field(p, f).kind, json |-> <<91>> \o f.name \o <<93>>, card |-> f.label,
   packed |-> Packed(p, f), default |-> Field(p, f).default]

Visited == Len(message.fields)

\* Fault: indices start at the one before.
FieldIndexBefore == Visited

FieldIndex == Visited + 1

\* Fault: nobody looks at what insert returns.
ReplacesNone(map, k) == FALSE

\* Option::is_some of what insert returns.
Replaces(map, k) == k \in DOMAIN map

\* Unescaping a default may panic.
DefaultPanics(f) ==
  /\ ParseDefault(proto, f) = Panics
  /\ phase' = "panicked"
  /\ UNCHANGED <<proto, errors, message, exts, enum>>

\* What visit_field does: the field is pushed, and found under its number and
\* its names from now on, whatever is wrong with it.
EnterField(f) ==
  LET i == FieldIndex
  IN /\ message' = [message EXCEPT
                      !.fields = Append(@, Field(proto, f)),
                      !.numbers = Put(@, f.number, i), !.names = Put(@, f.name, i),
                      !.jsonNames = Put(@, JsonName(f), i),
                      !.oneofs = [o \in DOMAIN @ |-> IF o = f.oneof THEN Append(@[o], i) ELSE @[o]]]
     /\ errors' = errors \cup NumberErrors(proto, f.number, FALSE) \cup TypeErrors(f)
                  \cup ErrorIf(ParseDefault(proto, f) = Refused, "InvalidFieldDefault")
                  \cup ErrorIf(f.oneof # None /\ f.oneof \notin DOMAIN message.oneofs, "InvalidOneofIndex")
                  \cup ErrorIf(Replaces(message.numbers, f.number), "DuplicateFieldNumber")
                  \cup ErrorIf(Replaces(message.names, f.name), "DuplicateName")
                  \cup ErrorIf(Replaces(message.jsonNames, JsonName(f)), "DuplicateFieldJsonName")

VisitField ==
  /\ phase = "resolve" /\ Visited < Len(proto.fields)
  /\ LET f == proto.fields[Visited + 1]
     IN \/ DefaultPanics(f)
        \/ /\ ParseDefault(proto, f) # Panics
           /\ EnterField(f)
           /\ UNCHANGED <<proto, phase, exts, enum>>

\* Fault: the place is not searched for.
PlacesAtEnd(numbers, n) == {Len(numbers) + 1}

\* binary_search_by: where the number is, or where it would be.
Places(numbers, n) ==
  LET found == { i \in DOMAIN numbers : numbers[i].number = n }
  IN IF found # {} THEN found
     ELSE { i \in 1..(Len(numbers) + 1) :
              \A j \in DOMAIN numbers : IF j < i THEN numbers[j].number < n ELSE numbers[j].number > n }

Inserted(seq, i, x) ==
  [j \in 1..(Len(seq) + 1) |-> IF j < i THEN seq[j] ELSE IF j = i THEN x ELSE seq[j - 1]]

\* check_enum_number: these ranges include their end.
ReservedValue(p, n) == \E i \in DOMAIN p.enumReserved : p.enumReserved[i][1] <= n /\ n <= p.enumReserved[i][2]

VisitEnumValue ==
  LET index == Len(enum.numbers) + 1
      v == proto.values[index]
  IN /\ phase = "resolve" /\ Visited = Len(proto.fields)
     /\ Len(enum.numbers) < Len(proto.values)
     /\ \E at \in Places(enum.numbers, v.number) :
          enum' = [numbers |-> Inserted(enum.numbers, at, [number |-> v.number, value |-> index]),
                   names |-> Put(enum.names, v.name, index)]
     /\ errors' = errors \cup ErrorIf(ReservedValue(proto, v.number), "EnumNumberInReservedRange")
                  \cup ErrorIf(~proto.allowAlias /\ \E i \in DOMAIN enum.numbers : enum.numbers[i].number = v.number,
                               "DuplicateEnumNumber")
                  \cup ErrorIf(Replaces(enum.names, v.name), "DuplicateName")
     /\ UNCHANGED <<proto, phase, message, exts>>

\* Extensions of the message; nothing compares their numbers with each other.
VisitExtension ==
  LET i == Len(exts) + 1
      f == proto.extensions[i]
  IN /\ phase = "resolve" /\ Visited = Len(proto.fields) /\ Len(enum.numbers) = Len(proto.values)
     /\ Len(exts) < Len(proto.extensions)
     /\ \/ DefaultPanics(f)
        \/ /\ ParseDefault(proto, f) # Panics
           /\ exts' = Append(exts, Extension(proto, f))
           /\ message' = [message EXCEPT !.extensions = Append(@, i)]
           /\ errors' = errors \cup NumberErrors(proto, f.number, TRUE) \cup TypeErrors(f)
                        \cup ErrorIf(ParseDefault(proto, f) = Refused, "InvalidFieldDefault")
           /\ UNCHANGED <<proto, phase, enum>>

AllVisited ==
  /\ Visited = Len(proto.fields) /\ Len(enum.numbers) = Len(proto.values)
  /\ Len(exts) = Len(proto.extensions)

EndResolve ==
  /\ phase = "resolve" /\ AllVisited
  /\ phase' = IF errors = {} THEN "accepted" ELSE "refused"
  /\ UNCHANGED <<proto, errors, message, exts, enum>>

Next == DeclareNames \/ VisitField \/ VisitEnumValue \/ VisitExtension \/ EndResolve

Spec == Init /\ [][Next]_vars
-----------------------------------------------------------------------------
(* Properties.                                                             *)

IsMap(map, Keys) == DOMAIN map \subseteq Keys /\ map = [k \in DOMAIN map |-> map[k]]

TypeOK ==
  /\ phase \in {"names", "resolve", "accepted", "refused", "panicked"}
  /\ message.fields \in Seq(Range(message.fields)) /\ Visited <= Len(proto.fields)
  /\ IsMap(message.numbers, Int) /\ Range(message.numbers) \subseteq DOMAIN message.fields
  /\ Range(message.names) \cup Range(message.jsonNames) \subseteq DOMAIN message.fields
  /\ \A o \in DOMAIN message.oneofs : message.oneofs[o] \in Seq(DOMAIN message.fields)
  /\ message.extensions = [i \in DOMAIN exts |-> i]
  /\ enum.numbers \in Seq([number : Int, value : 1..Len(enum.numbers)])

\* Each index is where the map leads from its key, and each key leads to an index with it.
Finds(map, keys) ==
  /\ \A i \in DOMAIN keys : keys[i] \in DOMAIN map /\ map[keys[i]] = i
  /\ \A k \in DOMAIN map : keys[map[k]] = k

Numbers(elements) == [i \in DOMAIN elements |-> elements[i].number]
JsonNames(fields) == [i \in DOMAIN fields |-> fields[i].json]
Members(o) == { i \in DOMAIN message.fields : message.fields[i].oneof = o }

\* As long as no error is reported, get_field, get_field_by_name and
\* get_field_by_json_name lead to each field of the message and to nothing
\* else, and each oneof has exactly its fields, in their order: what encoding,
\* decoding and the clearing of oneofs rely on.
FieldsFound ==
  errors = {} =>
    /\ Finds(message.numbers, Numbers(message.fields))
    /\ Finds(message.names, NamesOf(message.fields))
    /\ Finds(message.jsonNames, JsonNames(message.fields))
    /\ \A o \in DOMAIN message.oneofs :
         /\ Range(message.oneofs[o]) = Members(o)
         /\ \A j, k \in DOMAIN message.oneofs[o] : j < k => message.oneofs[o][j] < message.oneofs[o][k]

\* The values of an enum are sorted by number, aliases included, whatever place
\* the binary search finds among them; each value is there exactly once, and a
\* number leads to several values only if aliases are allowed.  So get_value
\* finds a value for exactly the numbers that have one.
ValuesFound ==
  LET numbers == enum.numbers
  IN /\ \A j, k \in DOMAIN numbers : j < k => /\ numbers[j].number <= numbers[k].number
                                              /\ numbers[j].value # numbers[k].value
     /\ \A j \in DOMAIN numbers : numbers[j].number = proto.values[numbers[j].value].number
     /\ errors = {} /\ ~proto.allowAlias =>
          \A j, k \in DOMAIN numbers : j < k => numbers[j].number < numbers[k].number

\* The rules of the language, over sets of numbers; the greatest number of a field is 2^29 - 1.
Greatest == 536870911
UnionOf(ranges) == UNION { ranges[i][1]..(ranges[i][2] - 1) : i \in DOMAIN ranges }
Fits(p, f) ==
  \/ f.default.is = "none"
  \/ Kind(f) = "int32" /\ f.default.is = "int"
  \/ Kind(f) = "bytes" /\ f.default.is = "text" /\ UnescapeC(f.default.text, FALSE).is = "bytes"
  \/ Kind(f) = "enum" /\ \E i \in DOMAIN p.values : f.default = Name(p.values[i].name)

Valid(p) ==
  LET fields == Range(p.fields) extensions == Range(p.extensions)
      reserved == UnionOf(p.reserved) extensible == UnionOf(p.extensionRanges)
      json == [i \in DOMAIN p.fields |-> JsonName(p.fields[i])]
      values == Numbers(p.values)
  IN /\ ~Twice(Numbers(p.fields)) /\ ~Twice(NamesOf(p.fields)) /\ ~Twice(json)
     /\ p.syntax # "proto2" => ~Twice(Folded(p.fields))
     /\ \A f \in fields \cup extensions :
          /\ f.number \in 1..Greatest /\ f.number \notin 19000..19999 /\ f.number \notin reserved
          /\ Kind(f) # "unknown" /\ Fits(p, f)
     /\ \A f \in fields : /\ f.number \notin extensible
                          /\ f.oneof # None => f.oneof \in 0..(p.oneofs - 1)
     /\ \A f \in extensions : f.number \in extensible
     /\ ~Twice(NamesOf(p.values) \o NamesOf(p.extensions))
     /\ values # << >> /\ (p.syntax # "proto2" => values[1] = 0)
     /\ ~p.allowAlias => ~Twice(values)
     /\ \A n \in Range(values) : \A i \in DOMAIN p.enumReserved : n \notin p.enumReserved[i][1]..p.enumReserved[i][2]

\* A file is accepted when it keeps the rules and refused when it does not: the
\* ranges that overlap and their ends, duplicates between elements visited at
\* different times, names that differ only in the JSON format.
VerdictIsRight ==
  /\ phase = "accepted" => Valid(proto)
  /\ phase = "refused" => ~Valid(proto)

\* A default of type bytes is what the text format reads from the same literal,
\* wherever both readers, which are separate code, accept it.
DefaultsAgree ==
  \A i \in DOMAIN message.fields :
    LET f == message.fields[i]
        lexed == LexString(Append(proto.fields[i].default.text, Quote), Quote)
    IN f.default.is = "bytes" /\ lexed.is = "bytes" => f.default = lexed

=============================================================================
