-------------------------------- MODULE Options --------------------------------
(***************************************************************************)
(* Interpretation of custom options, the last phase of build_files: each   *)
(* name and literal that the compiler left uninterpreted becomes a value   *)
(* of the options message of its element, and the source locations that    *)
(* point to it move along.                                                 *)
(*                                                                         *)
(* An options message is kept flat: a slot <<at, number>> is the field     *)
(* "number" of the message at "at", the numbers that lead to it from the   *)
(* options message.  How an extension is looked up from its scope is in    *)
(* NameScopes, what the wire format keeps in WireRelay, and how a message  *)
(* literal is read in TextFormat: here a literal has its slots.            *)
(***************************************************************************)
EXTENDS Integers, Sequences, SequencesExt

CONSTANTS
  Fields,    \* fields and extensions of the options messages and their parts
  EnumOf,    \* enum type -> name of a value -> number
  Files,     \* the files
  Bits,      \* width of an integer kind, scaled
  Structs,   \* options type -> number -> kind of the field in the crate's own type
  None       \* no oneof

UninterpretedOption == 999

\* What an integer kind holds.
Width(kind) ==
  IF kind \in {"uint32", "uint64"} THEN 0..(2^Bits[kind] - 1)
  ELSE -(2^(Bits[kind] - 1))..(2^(Bits[kind] - 1) - 1)
Integral == {"int32", "int64", "uint32", "uint64"}

\* Of a oneof of a message, at most one field has a slot.
Exclusive(message) ==
  \A s, t \in DOMAIN message :
    s[1] = t[1] /\ message[s].field.oneof = message[t].field.oneof /\ message[s].field.oneof # None => s = t

\* What decoding and parsing make: their own modules say so.
Message(message) ==
  /\ \A s \in DOMAIN message : /\ s = <<s[1], s[2]>> /\ s[1] \in Seq(Int)
                               /\ message[s] = [field |-> message[s].field, value |-> message[s].value]
                               /\ message[s].field \in Fields /\ message[s].field.number = s[2]
  /\ Exclusive(message)

ASSUME FilesAssumption ==
  /\ \A f \in Fields : f.number \in Int
  /\ \A x \in Files :
       /\ x.nodes \in Seq(Range(x.nodes))
       /\ \A n \in DOMAIN x.nodes :
            /\ Message(x.nodes[n].encoded)
            /\ x.nodes[n].uninterpreted \in Seq(Range(x.nodes[n].uninterpreted))
            /\ \A i \in DOMAIN x.nodes[n].uninterpreted :
                 LET v == x.nodes[n].uninterpreted[i].value
                 IN \A f \in Fields : f.kind = "message" /\ v.is = "aggregate" /\ v.type = f.type => Message(v.value)

VARIABLES
  file,       \* its nodes, with their options
  info,       \* the paths of its source locations
  phase,      \* "visit", "option", "apply", and how it ends
  cursor,     \* the option, the part of its name, and the message this part is in
  slots,      \* the options message: slot -> [field, value]
  errors,     \* kinds of the errors
  options,    \* of each node visited: the path and the slots to store there
  locations,  \* of each option interpreted: its path before and after
  stored,     \* the options of the file: path -> slots
  applied     \* how many of "options" and "locations" are applied

vars == <<file, info, phase, cursor, slots, errors, options, locations, stored, applied>>
visited == <<file, info, stored, applied>>

NoSlots == [s \in {} |-> 0]

\* The messages of options, and the field of the node they are in.
OptionsType(kind) ==
  CASE kind = "file" -> "FileOptions" [] kind = "message" -> "MessageOptions"
    [] kind = "range" -> "ExtensionRangeOptions" [] kind \in {"field", "extension"} -> "FieldOptions"
    [] kind = "oneof" -> "OneofOptions" [] kind = "service" -> "ServiceOptions"
    [] kind = "method" -> "MethodOptions" [] kind = "enum" -> "EnumOptions" [] OTHER -> "EnumValueOptions"
OptionsTag(kind) ==
  CASE kind \in {"file", "field", "extension"} -> 8 [] kind = "message" -> 7 [] kind = "oneof" -> 2
    [] kind = "method" -> 4 [] OTHER -> 3

Node == file.nodes[Len(options) + 1]
OptionsPath(node) == Append(node.path, OptionsTag(node.kind))
Option == Node.uninterpreted[cursor.option]

\* A oneof is of one message.  An options message is no element, so its path begins
\* no other's.  The uninterpreted options are a list in the message they are options
\* of, as long as there are; locations in one of them are in its fields.
ASSUME PathsAssumption ==
  /\ \A f, g \in Fields : f.oneof = g.oneof /\ f.oneof # None => f.parent = g.parent
  /\ \A x \in Files :
       /\ x.info \in Seq(Seq(Int))
       /\ \A m, n \in DOMAIN x.nodes : IsPrefix(OptionsPath(x.nodes[m]), OptionsPath(x.nodes[n])) => m = n
       /\ \A n \in DOMAIN x.nodes :
            LET node == x.nodes[n] list == <<<< >>, UninterpretedOption>>
                within == Append(OptionsPath(node), UninterpretedOption)
            IN /\ node.path \in Seq(Int)
               /\ \A f \in Fields : f.parent = OptionsType(node.kind) /\ f.number = UninterpretedOption =>
                    /\ f.card = "repeated" /\ f.oneof = None
                    /\ node.uninterpreted # << >> =>
                         /\ list \in DOMAIN node.encoded
                         /\ node.encoded[list].value \in Seq(Range(node.encoded[list].value))
                         /\ Len(node.encoded[list].value) = Len(node.uninterpreted)
               /\ \A i \in DOMAIN x.info :
                    IsPrefix(within, x.info[i]) /\ Len(x.info[i]) > Len(within) + 1 =>
                      x.info[i][Len(within) + 2] # UninterpretedOption

\* The type of the message at "at", in a message of type "root".
HasType(message, root, at, type) ==
  IF at = << >> THEN type = root
  ELSE \E s \in DOMAIN message : /\ Append(s[1], s[2]) = at /\ message[s].field.type = type
                                 /\ message[s].field.kind = "message" /\ message[s].field.card = "singular"

\* Each field is one of the message it is in.
WellTyped(message, root) ==
  \A s \in DOMAIN message :
    /\ HasType(message, root, s[1], message[s].field.parent)
    /\ message[s].field.card = "repeated" => message[s].value \in Seq(Range(message[s].value))

\* The tags on the way to an element of a file, or of a message in it.
InFile == {<<"file", << >>>>, <<"enum", <<5>>>>, <<"value", <<5, 2>>>>, <<"service", <<6>>>>, <<"method", <<6, 2>>>>,
           <<"extension", <<7>>>>}
InMessage == {<<"message", << >>>>, <<"field", <<2>>>>, <<"range", <<5>>>>, <<"oneof", <<8>>>>, <<"enum", <<4>>>>,
              <<"value", <<4, 2>>>>, <<"extension", <<6>>>>}
TagsOf(path) == [i \in 1..((Len(path) + 1) \div 2) |-> path[2 * i - 1]]

IsElement(kind, path) ==
  LET tags == TagsOf(path)
  IN /\ Len(path) % 2 = 0
     /\ \/ <<kind, tags>> \in InFile
        \/ /\ tags # << >> /\ tags[1] = 4
           /\ \E depth \in 0..(Len(tags) - 1) : /\ \A i \in 2..(depth + 1) : tags[i] = 3
                                                /\ <<kind, SubSeq(tags, depth + 2, Len(tags))>> \in InMessage

\* Names and numbers are unique in a message (nothing compares those of two
\* extensions of it: their numbers are supposed to differ), and a message has
\* presence; 0 is in every width.  Messages are those of the types that have them,
\* and the visitor has come to each node by the tags of its kind.
ASSUME TypesAssumption ==
  /\ \A kind \in Integral : 0 \in Width(kind)
  /\ \A f \in Fields : /\ f.card \in {"singular", "repeated", "map"}
                       /\ f.kind = "message" /\ f.card = "singular" => f.presence
  /\ \A f, g \in Fields :
       f.parent = g.parent /\ (f.number = g.number \/ (f.name = g.name /\ f.ext = g.ext)) => f = g
  /\ \A x \in Files : \A n \in DOMAIN x.nodes :
       LET node == x.nodes[n]
       IN /\ IsElement(node.kind, node.path)
          /\ WellTyped(node.encoded, OptionsType(node.kind))
          /\ \A i \in DOMAIN node.uninterpreted :
               LET name == node.uninterpreted[i].name v == node.uninterpreted[i].value
               IN /\ name \in Seq(Range(name))
                  /\ \A f \in Fields : f.kind = "message" /\ v.is = "aggregate" /\ v.type = f.type =>
                                         WellTyped(v.value, f.type)

AtRoot(i) == [option |-> i, part |-> 1, at |-> << >>, type |-> OptionsType(Node.kind)]

Init ==
  /\ file \in Files
  /\ phase = "visit" /\ cursor = [option |-> 1, part |-> 1, at |-> << >>, type |-> "FileOptions"]
  /\ slots = NoSlots /\ errors = {} /\ options = << >> /\ locations = << >>
  /\ info = file.info /\ applied = 0
  /\ stored = [p \in { OptionsPath(file.nodes[i]) : i \in DOMAIN file.nodes } |-> NoSlots]

-----------------------------------------------------------------------------
(* Values.                                                                 *)

\* Value::default_value_for_field.
Default(f) ==
  IF f.card = "repeated" THEN << >> ELSE IF f.card = "map" THEN NoSlots
  ELSE CASE f.kind = "bool" -> FALSE [] f.kind \in {"string", "bytes"} -> "" [] f.kind = "message" -> "message"
         [] OTHER -> 0

\* FieldDescriptorLike::has, of a value that is there.
Shows(f, value) == f.presence \/ value # Default(f)

\* Fault: an extension is never set already.
HasField(at, f) == ~f.ext /\ <<at, f.number>> \in DOMAIN slots /\ Shows(f, slots[<<at, f.number>>].value)

\* has_field and has_extension.
Has(at, f) == <<at, f.number>> \in DOMAIN slots /\ Shows(f, slots[<<at, f.number>>].value)

Within(s, at, n) == s = <<at, n>> \/ IsPrefix(Append(at, n), s[1])

\* Fault: only the members that come later are cleared.
RivalsAfter(f) == { g \in Fields : g.oneof = f.oneof /\ f.oneof # None /\ g.number > f.number }

\* clear_oneof_fields
Rivals(f) == { g \in Fields : g.oneof = f.oneof /\ f.oneof # None /\ g.number # f.number }

\* get_field_mut and get_extension_mut: the other members of the oneof go, with
\* all that is in them, and the field is there.
GetMut(at, f) ==
  LET kept == { s \in DOMAIN slots : \A g \in Rivals(f) : ~Within(s, at, g.number) }
  IN [s \in kept \cup {<<at, f.number>>} |->
        IF s \in kept THEN slots[s] ELSE [field |-> f, value |-> Default(f)]]

\* option_to_bool .. option_to_map_entry: the value, if there is one.
Converted(f, v) ==
  CASE f.kind = "bool" -> IF v.is = "identifier" /\ v.value \in {"true", "false"} THEN {v.value = "true"} ELSE {}
    [] f.kind \in Integral -> IF v.is \in {"positive", "negative"} THEN {v.value} \cap Width(f.kind) ELSE {}
    [] f.kind = "double" -> IF v.is \in {"double", "positive", "negative"} THEN {v.value} ELSE {}
    [] f.kind = "string" -> IF v.is = "string" /\ v.utf8 THEN {v.value} ELSE {}
    [] f.kind = "bytes" -> IF v.is = "string" THEN {v.value} ELSE {}
    [] f.kind = "enum" -> IF v.is = "identifier" /\ v.value \in DOMAIN EnumOf[f.type] THEN {EnumOf[f.type][v.value]} ELSE {}
    [] OTHER -> IF v.is = "aggregate" /\ v.type = f.type THEN {v.value} ELSE {}

\* The field has the slots of a message literal, and nothing it had before.
Grafted(at, f, literal) ==
  LET base == Append(at, f.number)
      found == GetMut(at, f)
      kept == { s \in DOMAIN found : ~IsPrefix(base, s[1]) }
  IN [s \in kept \cup { <<base \o s[1], s[2]>> : s \in DOMAIN literal } |->
        IF s \in kept THEN found[s]
        ELSE literal[<<SubSeq(s[1], Len(base) + 1, Len(s[1])), s[2]>>]]

\* Fault: the new element replaces those that were there.
WithValueOnly(at, f, x) ==
  IF f.card = "repeated" THEN [GetMut(at, f) EXCEPT ![<<at, f.number>>].value = <<x>>]
  ELSE IF f.kind = "message" /\ f.card # "map" THEN Grafted(at, f, x)
  ELSE [GetMut(at, f) EXCEPT ![<<at, f.number>>].value = x]

\* set_field_value, of a value that has been converted.
WithValue(at, f, x) ==
  LET put(y) == [GetMut(at, f) EXCEPT ![<<at, f.number>>].value = y]
      old == GetMut(at, f)[<<at, f.number>>].value
  IN CASE f.card = "repeated" -> put(Append(old, x))
       [] f.card = "map" -> put([k \in DOMAIN old \cup {x[1]} |-> IF k = x[1] THEN x[2] ELSE old[k]])
       [] f.card = "singular" /\ f.kind = "message" -> Grafted(at, f, x)
       [] OTHER -> put(x)

\* Where the value of a field of an options message is.
ValuePath(at, f) ==
  Append(at, f.number) \o
    IF f.card = "repeated" THEN <<Len(GetMut(at, f)[<<at, f.number>>].value)>> ELSE << >>

-----------------------------------------------------------------------------
(* OptionsVisitor.                                                         *)

Part == Option.name[cursor.part]
IsLast == cursor.part = Len(Option.name)
AtPart == phase = "option" /\ cursor.option <= Len(Node.uninterpreted) /\ cursor.part <= Len(Option.name)

\* get_field_by_name and find_extension.
Candidates == { f \in Fields : f.name = Part.name /\ f.ext = Part.ext }
Named == { f \in Candidates : f.parent = cursor.type }

StartNode ==
  /\ phase = "visit" /\ Len(options) < Len(file.nodes)
  /\ \/ /\ Node.decodes
        /\ phase' = "option" /\ cursor' = AtRoot(1) /\ slots' = Node.encoded
        /\ UNCHANGED <<errors, options>>
     \/ /\ ~Node.decodes
        /\ errors' = errors \cup {"DecodeFileDescriptorSet"}
        /\ options' = Append(options, [path |-> OptionsPath(Node), slots |-> NoSlots])
        /\ UNCHANGED <<phase, cursor, slots>>
  /\ UNCHANGED <<visited, locations>>

\* An option fails; what it did to the message stays.
Fails(kind, message) ==
  /\ errors' = errors \cup {kind}
  /\ slots' = message /\ cursor' = AtRoot(cursor.option + 1)
  /\ UNCHANGED <<visited, phase, options, locations>>

NotFound ==
  /\ AtPart /\ Named = {}
  /\ Fails(IF ~Part.ext THEN "OptionNotFound" ELSE IF Candidates = {} THEN "NameNotFound"
           ELSE "InvalidOptionExtendee", slots)

\* A part of a name that others follow leads into a message.
Descend ==
  /\ AtPart /\ ~IsLast
  /\ \E f \in Named :
       \/ /\ f.kind = "message" /\ f.card = "singular"
          /\ slots' = GetMut(cursor.at, f)
          /\ cursor' = [cursor EXCEPT !.part = @ + 1, !.at = Append(@, f.number), !.type = f.type]
          /\ UNCHANGED <<visited, phase, errors, options, locations>>
       \/ /\ f.kind # "message" \/ f.card # "singular"
          /\ Fails("InvalidOptionType", GetMut(cursor.at, f))

Interpreted(rest) ==
  /\ locations' = Append(locations, [from |-> OptionsPath(Node) \o <<UninterpretedOption, cursor.option - 1>>,
                                     to |-> OptionsPath(Node) \o rest])
  /\ cursor' = AtRoot(cursor.option + 1)
  /\ UNCHANGED <<visited, phase, errors, options>>

SetValue ==
  /\ AtPart /\ IsLast
  /\ \E f \in Named :
       LET at == cursor.at
       IN \/ /\ f.card = "singular" /\ Has(at, f)
             /\ Fails("DuplicateOption", slots)
          \/ /\ f.card # "singular" \/ ~Has(at, f)
             /\ Converted(f, Option.value) = {}
             /\ Fails("InvalidOptionType", GetMut(at, f))
          \/ /\ f.card # "singular" \/ ~Has(at, f)
             /\ \E x \in Converted(f, Option.value) : slots' = WithValue(at, f, x)
             /\ Interpreted(ValuePath(at, f))

\* A name of no parts: the loop over them does nothing.
NoName ==
  /\ phase = "option" /\ cursor.option <= Len(Node.uninterpreted) /\ Option.name = << >>
  /\ Interpreted(<< >>) /\ UNCHANGED slots

\* The message is encoded without the uninterpreted options.
EndNode ==
  /\ phase = "option" /\ cursor.option > Len(Node.uninterpreted)
  /\ LET shown == { s \in DOMAIN slots : /\ ~Within(s, << >>, UninterpretedOption)
                                         /\ Shows(slots[s].field, slots[s].value) }
     IN options' = Append(options, [path |-> OptionsPath(Node), slots |-> [s \in shown |-> slots[s]]])
  /\ phase' = "visit"
  /\ UNCHANGED <<visited, cursor, slots, errors, locations>>

EndVisit ==
  /\ phase = "visit" /\ Len(options) = Len(file.nodes)
  /\ phase' = IF errors = {} THEN "apply" ELSE "refused"
  /\ UNCHANGED <<visited, cursor, slots, errors, options, locations>>

OptionsInFile == {<<8>>, <<5, 3>>, <<5, 2, 3>>, <<6, 3>>, <<6, 2, 4>>, <<7, 8>>}
OptionsInMessage == {<<7>>, <<5, 3>>, <<2, 8>>, <<8, 2>>, <<4, 3>>, <<4, 2, 3>>, <<6, 8>>}

\* set_file_option, set_message_option and set_enum_option: the paths they
\* know, messages in messages at any depth; for the rest they panic.
Reachable(path) ==
  LET tags == TagsOf(path)
  IN \/ tags \in OptionsInFile
     \/ /\ tags[1] = 4
        /\ \E depth \in 0..(Len(tags) - 1) : /\ \A i \in 2..(depth + 1) : tags[i] = 3
                                             /\ SubSeq(tags, depth + 2, Len(tags)) \in OptionsInMessage

\* Options::decode, into the crate's own type: of the fields that this has too, those
\* that the pool's descriptor.proto gives another wire type fail, and those fail for
\* some values that it lets repeat, or has no string for where the crate has one.
Wire(kind) ==
  IF kind \in Integral \cup {"bool", "enum"} THEN "varint" ELSE IF kind = "double" THEN "fixed64" ELSE "bytes"
Own(f) == Structs[f.parent][f.number]
IsOwn(f) == f.number \in DOMAIN Structs[f.parent]
Clashes(f) == IsOwn(f) /\ f.card # "repeated" /\ Wire(f.kind) # Wire(Own(f))
MayClash(f) ==
  IsOwn(f) /\ (f.card = "repeated" \/ Wire(f.kind) # Wire(Own(f)) \/ (Own(f) = "string" /\ f.kind # "string"))
Outermost(message) == { message[s].field : s \in { t \in DOMAIN message : t[1] = << >> } }

StoreOptions ==
  /\ phase = "apply" /\ applied < Len(options)
  /\ LET o == options[applied + 1]
     IN /\ Reachable(o.path) /\ \A f \in Outermost(o.slots) : ~Clashes(f)
        /\ stored' = [stored EXCEPT ![o.path] = o.slots]
  /\ applied' = applied + 1
  /\ UNCHANGED <<file, info, phase, cursor, slots, errors, options, locations>>

StoreFails ==
  /\ phase = "apply" /\ applied < Len(options)
  /\ LET o == options[applied + 1]
     IN ~Reachable(o.path) \/ \E f \in Outermost(o.slots) : MayClash(f)
  /\ phase' = "panicked"
  /\ UNCHANGED <<visited, cursor, slots, errors, options, locations>>

\* Fault: the location of the option itself moves, those in it stay.
MovedItself(path, from, to) == IF path = from THEN to ELSE path

\* starts_with, splice
Moved(path, from, to) ==
  IF IsPrefix(from, path) THEN to \o SubSeq(path, Len(from) + 1, Len(path)) ELSE path

ApplyLocations ==
  /\ phase = "apply" /\ Len(options) <= applied /\ applied < Len(options) + Len(locations)
  /\ LET l == locations[applied - Len(options) + 1]
     IN info' = [i \in DOMAIN info |-> Moved(info[i], l.from, l.to)]
  /\ applied' = applied + 1
  /\ UNCHANGED <<file, phase, cursor, slots, errors, options, locations, stored>>

Accept ==
  /\ phase = "apply" /\ applied = Len(options) + Len(locations)
  /\ phase' = "accepted"
  /\ UNCHANGED <<visited, cursor, slots, errors, options, locations>>

Next == StartNode \/ NotFound \/ Descend \/ SetValue \/ NoName \/ EndNode \/ EndVisit
        \/ StoreOptions \/ StoreFails \/ ApplyLocations \/ Accept

Spec == Init /\ [][Next]_vars
-----------------------------------------------------------------------------
(* Properties.                                                             *)

\* What a value of a field looks like: integers are in the range of their kind,
\* the numbers of an enum are those of a value it has.
ValueFits(f, x) ==
  CASE f.card # "singular" -> TRUE
    [] f.card = "singular" /\ f.kind \in Integral -> x \in Width(f.kind)
    [] f.card = "singular" /\ f.kind = "enum" -> x = 0 \/ \E n \in DOMAIN EnumOf[f.type] : x = EnumOf[f.type][n]
    [] OTHER -> TRUE

\* The value is in an options message as the compiler left it, or in a message literal.
Given(slot) ==
  \E n \in DOMAIN file.nodes :
    \/ slot \in Range(file.nodes[n].encoded)
    \/ \E i \in DOMAIN file.nodes[n].uninterpreted, f \in Fields :
         LET v == file.nodes[n].uninterpreted[i].value
         IN f.kind = "message" /\ v.is = "aggregate" /\ v.type = f.type /\ slot \in Range(v.value)

\* Of a oneof of the options message, or of a message in it, at most one field
\* is there at any time, whatever options set, pass through or fail to set.
OneofsExclusive == Exclusive(slots)

-----------------------------------------------------------------------------
(* The options of a file, as a reader of the file sees them.               *)

\* The fields that the parts of a name lead through.
Chains(node, name) ==
  { c \in [DOMAIN name -> { f \in Fields : \E i \in DOMAIN name : f.name = name[i].name }] :
      \A i \in DOMAIN name : /\ c[i].name = name[i].name /\ c[i].ext = name[i].ext
                             /\ c[i].parent = IF i = 1 THEN OptionsType(node.kind) ELSE c[i - 1].type
                             /\ i < Len(name) => c[i].kind = "message" /\ c[i].card = "singular" }
ChainOf(node, i) == CHOOSE c \in Chains(node, node.uninterpreted[i].name) : TRUE
SlotAt(c, k) == <<[i \in 1..(k - 1) |-> c[i].number], c[k].number>>
SlotOf(c) == SlotAt(c, Len(c))
Literal(node, i) == CHOOSE x \in Converted(Last(ChainOf(node, i)), node.uninterpreted[i].value) : TRUE

\* Option i removes the slot, as a rival in a oneof.
Removes(node, i, slot) ==
  LET c == ChainOf(node, i)
  IN \E k \in DOMAIN c : \E g \in Rivals(c[k]) : Within(slot, SlotAt(c, k)[1], g.number)

\* Option i gives the slot a value that shows.
Gives(node, i, slot) ==
  LET c == ChainOf(node, i)
      base == Append(SlotOf(c)[1], SlotOf(c)[2])
      literal == Literal(node, i)
  IN \/ \E k \in 1..(Len(c) - 1) : slot = SlotAt(c, k)
     \/ c # << >> /\ slot = SlotOf(c) /\ (Last(c).card # "singular" \/ Shows(Last(c), literal))
     \/ c # << >> /\ Last(c).card = "singular" /\ Last(c).kind = "message"
        /\ \E s \in DOMAIN literal : slot = <<base \o s[1], s[2]>> /\ Shows(literal[s].field, literal[s].value)

\* The slot shows when option i is reached.
Already(node, i, slot) ==
  \/ /\ slot \in DOMAIN node.encoded /\ Shows(node.encoded[slot].field, node.encoded[slot].value)
     /\ \A j \in 1..(i - 1) : ~Removes(node, j, slot)
  \/ \E j \in 1..(i - 1) : Gives(node, j, slot) /\ \A k \in (j + 1)..(i - 1) : ~Removes(node, k, slot)

Settled(node, i, slot) == \A j \in (i + 1)..Len(node.uninterpreted) : ~Removes(node, j, slot)

ValidOption(node, i) ==
  LET o == node.uninterpreted[i]
  IN o.name # << >> =>
       \E c \in Chains(node, o.name) :
         Converted(Last(c), o.value) # {} /\ (Last(c).card = "singular" => ~Already(node, i, SlotOf(c)))
Valid(node) == node.decodes /\ \A i \in DOMAIN node.uninterpreted : ValidOption(node, i)

\* A file is refused exactly when an option of it has no field, or a value its
\* field does not have, or sets once more what is set; no value is converted to
\* one that its kind does not have.  Each path the visitor pairs with options is one
\* that the file has options at, and what is encoded by the pool's types decodes again:
\* set_file_option panics otherwise, which is left to a descriptor.proto in the pool
\* that disagrees with the crate on a field of the options of an element of the file.
VerdictIsRight ==
  /\ phase = "panicked" =>
       \E f \in Fields, n \in DOMAIN file.nodes : f.parent = OptionsType(file.nodes[n].kind) /\ MayClash(f)
  /\ \A s \in DOMAIN slots : ValueFits(slots[s].field, slots[s].value) \/ Given(slots[s])
  /\ phase \in {"apply", "accepted"} => \A n \in DOMAIN file.nodes : Valid(file.nodes[n])
  /\ phase = "refused" => \E n \in DOMAIN file.nodes : ~Valid(file.nodes[n])

\* What a path from the options message leads to.
LeadsTo(at, path, x) ==
  LET slot == <<Front(path), Last(path)>>
      list == <<Front(Front(path)), Last(Front(path))>>
  IN IF slot \in DOMAIN at THEN at[slot].value = x
     ELSE /\ Len(path) > 1 /\ list \in DOMAIN at
          /\ Last(path) + 1 \in DOMAIN at[list].value /\ at[list].value[Last(path) + 1] = x

\* A value has grown: a list at its end, a map by its keys.
Grows(slot, now) ==
  /\ now.field = slot.field
  /\ CASE slot.field.card = "repeated" -> IsPrefix(slot.value, now.value)
       [] slot.field.card = "map" -> DOMAIN slot.value \subseteq DOMAIN now.value
       [] OTHER -> now.value = slot.value

\* Option i is in an options message, where the path leads.
IsAt(at, node, i, path) ==
  LET f == Last(ChainOf(node, i))
      x == Literal(node, i)
  IN CASE f.card = "map" -> \E s \in DOMAIN at : Append(s[1], s[2]) = path /\ x[1] \in DOMAIN at[s].value
       [] f.card = "singular" /\ f.kind = "message" ->
            \A s \in DOMAIN x :
              LET there == <<path \o s[1], s[2]>>
              IN Shows(x[s].field, x[s].value) /\ Settled(node, i, there) => there \in DOMAIN at /\ Grows(x[s], at[there])
       [] OTHER -> LeadsTo(at, path, x)

\* Option i is in the options of its node, with its path as recorded.
Arrives(at, node, i) ==
  LET own == OptionsPath(node)
      c == ChainOf(node, i)
      hidden == Last(c).card = "singular" /\ ~Shows(Last(c), Literal(node, i))
  IN node.uninterpreted[i].name # << >> =>
       \/ c[1].number = UninterpretedOption \/ hidden \/ ~Settled(node, i, SlotOf(c))
       \/ \E l \in Range(locations) :
            /\ l.from = own \o <<UninterpretedOption, i - 1>>
            /\ IsPrefix(own, l.to)
            /\ IsAt(at, node, i, SubSeq(l.to, Len(own) + 1, Len(l.to)))

\* Once a file is accepted, the path recorded for each option leads to its value
\* in what is stored for its element, where other options may have added to the
\* lists and maps of a message literal, unless a later option has removed it from
\* a oneof or the value is one that does not show.
OptionsArrive ==
  phase = "accepted" =>
    \A n \in DOMAIN file.nodes : \A i \in DOMAIN file.nodes[n].uninterpreted :
      Arrives(stored[OptionsPath(file.nodes[n])], file.nodes[n], i)

\* Each source location in an option has moved once, with that option, whatever
\* the paths of other options begin with; the others are where they were.
LocationsFollow ==
  phase = "accepted" =>
    \A i \in DOMAIN info :
      LET into == { l \in Range(locations) : IsPrefix(l.from, file.info[i]) }
      IN IF into = {} THEN info[i] = file.info[i]
         ELSE \E l \in into : info[i] = l.to \o SubSeq(file.info[i], Len(l.from) + 1, Len(file.info[i]))
================================================================================
