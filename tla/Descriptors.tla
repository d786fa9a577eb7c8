----------------------------- MODULE Descriptors -----------------------------
(***************************************************************************)
(* The accessors of the descriptors (descriptor/api.rs) over the tables     *)
(* that the walk of DescriptorTree has filled, and what they promise.       *)
(***************************************************************************)
EXTENDS DescriptorTree

\* The well-known types, and the schema of files themselves.
WK == INSTANCE WellKnown

Absent == [kind |-> "absent", index |-> 0]
Prost(file) == pool.files[file].prost

\* Fault: a name is looked up without its namespace.
JoinNameAlone(namespace, name) == <<name>>

\* join_name
JoinName(namespace, name) == Append(namespace, name)

\* DescriptorPoolInner::get_by_name; get_message_by_name and the like of the
\* other kinds.
GetByName(kind, name) ==
  LET plain == IF name # << >> /\ name[1] = "" THEN Tail(name) ELSE name
  IN  IF plain \in DOMAIN pool.names /\ pool.names[plain].kind = kind
      THEN [kind |-> kind, index |-> pool.names[plain].index] ELSE Absent

-----------------------------------------------------------------------------
(* Protos, found by path.                                                   *)

NoProto == [name |-> ""]

RECURSIVE NestedProto(_, _)
NestedProto(message, at) ==
  IF at = << >> THEN message
  ELSE IF at[1] = TagMessage.nested_type /\ at[2] + 1 \in DOMAIN message.messages
       THEN NestedProto(message.messages[at[2] + 1], Rest(at)) ELSE NoProto

\* find_message_proto, find_message_proto_prost: NoProto stands for their panics.
MessageProto(file, at) ==
  IF at[1] = TagFile.message_type /\ at[2] + 1 \in DOMAIN file.messages
  THEN NestedProto(file.messages[at[2] + 1], Rest(at)) ELSE NoProto

\* find_enum_proto, enum_descriptor_proto
EnumProto(file, at) ==
  IF Len(at) = 2 THEN file.enums[at[2] + 1]
  ELSE MessageProto(file, SubSeq(at, 1, Len(at) - 2)).enums[at[Len(at)] + 1]

\* ExtensionDescriptor::field_descriptor_proto, raw
ExtensionProto(file, at) ==
  IF Len(at) = 2 THEN file.extensions[at[2] + 1]
  ELSE MessageProto(file, SubSeq(at, 1, Len(at) - 2)).extensions[at[Len(at)] + 1]

MessageProtoOf(m) == MessageProto(Prost(pool.messages[m].id.file), pool.messages[m].id.path)
EnumProtoOf(e) == EnumProto(Prost(pool.enums[e].id.file), pool.enums[e].id.path)
ExtensionProtoOf(x) == ExtensionProto(Prost(pool.extensions[x].id.file), pool.extensions[x].id.path)
ServiceProtoOf(s) == Prost(pool.services[s].id.file).services[Last(pool.services[s].id.path) + 1]
FieldProtoOf(m, i) == MessageProtoOf(m).fields[Last(pool.messages[m].fields[i].id.path) + 1]
OneofProtoOf(m, i) == MessageProtoOf(m).oneofs[i]
ValueProtoOf(e, i) == EnumProtoOf(e).values[i]
MethodProtoOf(s, i) == ServiceProtoOf(s).methods[i]

-----------------------------------------------------------------------------
(* Relatives, found by name or by row.                                      *)

Named(kind, namespace, elements) == [i \in DOMAIN elements |-> GetByName(kind, JoinName(namespace, elements[i].name))]

\* FileDescriptor::messages, enums, extensions, services
MessagesOf(f) == Named("message", Prost(f).package, Prost(f).messages)
EnumsOf(f) == Named("enum", Prost(f).package, Prost(f).enums)
ExtensionsOf(f) == Named("extension", Prost(f).package, Prost(f).extensions)
ServicesOf(f) == Named("service", Prost(f).package, Prost(f).services)

\* MessageDescriptor::child_messages, child_enums, child_extensions
ChildMessages(m) == Named("message", pool.messages[m].id.name, MessageProtoOf(m).messages)
ChildEnums(m) == Named("enum", pool.messages[m].id.name, MessageProtoOf(m).enums)
ChildExtensions(m) == Named("extension", pool.messages[m].id.name, MessageProtoOf(m).extensions)

\* is_map_entry; is_map and is_list of a field.
IsMapEntry(m) == MessageProto(pool.files[pool.messages[m].id.file].raw, pool.messages[m].id.path).mapEntry.value
IsMap(field) == field.label = "repeated" /\ field.target.kind \in {"message", "group"} /\ IsMapEntry(field.target.index)

\* get_field: field_numbers has the field that was resolved last.
GetField(m, number) ==
  LET fields == pool.messages[m].fields
      those == { i \in DOMAIN fields : fields[i].number = number }
  IN  IF those = {} THEN Absent ELSE fields[CHOOSE i \in those : \A j \in those : j <= i]

\* map_entry_key_field, map_entry_value_field: Absent stands for their panics.
MapEntryKey(m) == GetField(m, 1)
MapEntryValue(m) == GetField(m, 2)

\* MessageDescriptor::extensions, get_extension
Extensions(m) == pool.messages[m].extensions
GetExtension(m, number) ==
  LET those == { i \in DOMAIN Extensions(m) : pool.extensions[Extensions(m)[i]].number = number }
  IN  IF those = {} THEN 0 ELSE Extensions(m)[CHOOSE i \in those : \A j \in those : i <= j]

\* FieldDescriptor::containing_oneof, OneofDescriptor::fields
ContainingOneof(m, i) == pool.messages[m].fields[i].oneof + 1
OneofFields(m, o) == pool.messages[m].oneofs[o].fields

-----------------------------------------------------------------------------
(* Between two calls: what a caller can see.                                *)

Idle == pass = "idle"

\* Every descriptor of the pool: its kind, its identity, the row of its parent
\* (0: none) and its brief description, which tells its proto from others.
Brief(kind, proto) ==
  LET NamesIn(elements) == [i \in DOMAIN elements |-> elements[i].name]
  IN  CASE kind = "message" -> <<proto.name, NamesIn(proto.fields), NamesIn(proto.messages), NamesIn(proto.enums),
                                 NamesIn(proto.extensions), proto.oneofs, proto.mapEntry>>
        [] kind \in {"field", "extension"} -> <<proto.name, proto.number, proto.label, proto.oneof, proto.default, proto.packed>>
        [] kind = "enum" -> <<proto.name, proto.values>>
        [] kind = "service" -> <<proto.name, NamesIn(proto.methods)>>
        [] kind = "value" -> <<proto.name, proto.number>>
        [] kind = "method" -> <<proto.name>>
        [] kind = "oneof" -> <<proto>>

Found(kind, id, proto) == [kind |-> kind, name |-> id.name, file |-> Prost(id.file).name, brief |-> Brief(kind, proto)]

Descriptors ==
  { Found("message", pool.messages[m].id, MessageProtoOf(m)) : m \in DOMAIN pool.messages }
  \cup { Found("enum", pool.enums[e].id, EnumProtoOf(e)) : e \in DOMAIN pool.enums }
  \cup { Found("service", pool.services[s].id, ServiceProtoOf(s)) : s \in DOMAIN pool.services }
  \cup { Found("extension", pool.extensions[x].id, ExtensionProtoOf(x)) : x \in DOMAIN pool.extensions }
  \cup UNION { { Found("field", pool.messages[m].fields[i].id, FieldProtoOf(m, i)) : i \in DOMAIN pool.messages[m].fields }
               \cup { Found("oneof", pool.messages[m].oneofs[i].id, OneofProtoOf(m, i)) : i \in DOMAIN pool.messages[m].oneofs }
               : m \in DOMAIN pool.messages }
  \cup UNION { { Found("value", pool.enums[e].values[i].id, ValueProtoOf(e, i)) : i \in DOMAIN pool.enums[e].values }
               : e \in DOMAIN pool.enums }
  \cup UNION { { Found("method", pool.services[s].methods[i].id, MethodProtoOf(s, i)) : i \in DOMAIN pool.services[s].methods }
               : s \in DOMAIN pool.services }

\* What a file declares, by the language's rules: the values of an enum are named
\* beside it.
Entry(kind, file, namespace, element) ==
  [kind |-> kind, name |-> Append(namespace, NameOf(kind, element)), file |-> file, brief |-> Brief(kind, element)]
Entries(kind, file, namespace, elements) == { Entry(kind, file, namespace, elements[i]) : i \in DOMAIN elements }

DeclaredEnums(file, namespace, enums) ==
  Entries("enum", file, namespace, enums)
  \cup UNION { Entries("value", file, namespace, enums[i].values) : i \in DOMAIN enums }

RECURSIVE DeclaredMessages(_, _, _)
DeclaredMessages(file, namespace, messages) ==
  Entries("message", file, namespace, messages) \cup UNION {
    LET message == messages[i]
        within == Append(namespace, message.name)
    IN  Entries("field", file, within, message.fields) \cup Entries("oneof", file, within, message.oneofs)
        \cup DeclaredEnums(file, within, message.enums) \cup Entries("extension", file, within, message.extensions)
        \cup DeclaredMessages(file, within, message.messages)
    : i \in DOMAIN messages }

Declared(file) ==
  DeclaredMessages(file.name, file.package, file.messages) \cup DeclaredEnums(file.name, file.package, file.enums)
  \cup Entries("extension", file.name, file.package, file.extensions)
  \cup Entries("service", file.name, file.package, file.services)
  \cup UNION { Entries("method", file.name, Append(file.package, file.services[i].name), file.services[i].methods)
               : i \in DOMAIN file.services }

\* The files of all batches, with what they declare.
Given == UNION { { files[i] : i \in DOMAIN files } : files \in Batches }
DeclaredBy == [file \in Given |-> Declared(file)]

-----------------------------------------------------------------------------
(* Invariants.                                                              *)

\* The indexes that the walk counts are those of the rows that the visitors push,
\* in both passes and after a refused batch: the debug_assert_eq! of visit_file,
\* visit_message, visit_oneof, visit_enum, visit_enum_value, visit_field,
\* visit_service, visit_method and visit_extension never fail.
IndexesPredicted ==
  /\ pass = "names" =>
       next.file = Len(pool.files) /\ next.message = Len(pool.messages) /\ next.enum = Len(pool.enums)
  /\ pass = "resolve" => next.service = Len(pool.services) /\ next.extension = Len(pool.extensions)
  /\ (stack # << >> /\ Inside /\ Top.child \in DOMAIN List) =>
       CASE pass = "names" /\ Current.kind = "oneof" -> Len(pool.messages[Top.index].oneofs) = Top.child - 1
         [] pass = "names" /\ Current.kind = "value" -> Len(pool.enums[Top.index].values) = Top.child - 1
         [] pass = "resolve" /\ Current.kind = "field" -> Len(pool.messages[Top.index].fields) = Top.child - 1
         [] pass = "resolve" /\ Current.kind = "method" -> Len(pool.services[Top.index].methods) = Top.child - 1
         [] OTHER -> TRUE

\* Descriptors and protos are the same things: the full names, and the protos that
\* the accessors find by path in the files' final form, are those that the files
\* declare, and no refused file leaves any.
ProtosFound ==
  Idle => /\ Descriptors = UNION { DeclaredBy[file] : file \in { g \in Given : g.name \in DOMAIN pool.fileNames } }
          /\ Cardinality(Descriptors) = Cardinality({ n \in DOMAIN pool.names : pool.names[n].kind # "package" })

\* descriptor.proto as the walk's paths are read by others: the type that a path
\* from a file leads to, by the numbers of its fields.
Schema == [name \in { m.name : m \in ToSet(WK!DescriptorFile.messages) } |->
             CHOOSE m \in ToSet(WK!DescriptorFile.messages) : m.name = name]

FieldsAt(schema, type, tag) == { field \in ToSet(schema[type].fields) : field.number = tag }

RECURSIVE LeadsTo(_, _, _, _)
LeadsTo(schema, type, at, goal) ==
  IF at = << >> THEN type = goal
  ELSE Len(at) > 1 /\ \E field \in FieldsAt(schema, type, at[1]) :
         field.label = "repeated" /\ field.type.kind = "message" /\ LeadsTo(schema, Last(field.type.of), Rest(at), goal)

ProtoType == [message |-> "DescriptorProto", field |-> "FieldDescriptorProto", extension |-> "FieldDescriptorProto",
              oneof |-> "OneofDescriptorProto", enum |-> "EnumDescriptorProto", value |-> "EnumValueDescriptorProto",
              service |-> "ServiceDescriptorProto", method |-> "MethodDescriptorProto", package |-> "FileDescriptorProto"]

Ids == { pool.messages[m].id : m \in DOMAIN pool.messages } \cup { pool.enums[e].id : e \in DOMAIN pool.enums }
       \cup { pool.services[s].id : s \in DOMAIN pool.services } \cup { pool.extensions[x].id : x \in DOMAIN pool.extensions }

\* The type of descriptor.proto with this name, within others.
RECURSIVE Described(_, _)
Described(messages, types) ==
  LET message == CHOOSE m \in ToSet(messages) : m.name = types[1]
  IN  IF Len(types) = 1 THEN message ELSE Described(message.messages, Tail(types))

\* What the crate decodes, and the paths it builds, mean the same to others: the
\* structs of types.rs and the constants of tag.rs are those of descriptor.proto, and
\* the path of every name leads, by the numbers there, to the name in a proto of its
\* kind, from the path of its row.
SchemaAgrees ==
  Idle => /\ \A struct \in Structs : \A i \in DOMAIN struct[2] :
               \E field \in ToSet(Described(WK!DescriptorFile.messages, struct[1]).fields) :
                  /\ field.name = struct[2][i].name /\ field.number = struct[2][i].number
                  /\ field.label = struct[2][i].label
                  /\ struct[2][i].type = IF field.type.of = << >> THEN field.type.kind ELSE Last(field.type.of)
          /\ \A tags \in TagModules : \A constant \in DOMAIN tags[2] :
               \E field \in ToSet(Described(WK!DescriptorFile.messages, tags[1]).fields) :
                  field.name = constant /\ field.number = tags[2][constant]
          /\ \A schema \in {Schema} : \A n \in DOMAIN pool.names :
               LET d == pool.names[n] IN
               /\ LeadsTo(schema, "FileDescriptorProto", Front(d.path), ProtoType[d.kind])
               /\ \E field \in FieldsAt(schema, ProtoType[d.kind], Last(d.path)) :
                    field.name = IF d.kind = "package" THEN "package" ELSE "name"
          /\ \A id \in Ids : Front(pool.names[id.name].path) = id.path

\* The references of a committed file are absolute names of what their rows point
\* at, the lists of oneofs and of extensions mirror their members.
Denotes(type, target) ==
  IF target.kind = "none" THEN type.of = << >>
  ELSE /\ type.kind = target.kind
       /\ type.of = <<"">> \o (IF target.kind = "enum" THEN pool.enums ELSE pool.messages)[target.index].id.name

ReferencesWritten ==
  Idle =>
    /\ \A m \in DOMAIN pool.messages : \A i \in DOMAIN pool.messages[m].fields :
         LET field == pool.messages[m].fields[i] IN
         /\ Denotes(FieldProtoOf(m, i).type, field.target)
         /\ \A o \in DOMAIN pool.messages[m].oneofs :
              i \in ToSet(OneofFields(m, o)) <=> o = ContainingOneof(m, i)
    /\ \A x \in DOMAIN pool.extensions :
         LET extension == pool.extensions[x] IN
         /\ Denotes(ExtensionProtoOf(x).type, extension.target)
         /\ ExtensionProtoOf(x).extendee = <<"">> \o pool.messages[extension.extendee].id.name
         /\ GetExtension(extension.extendee, extension.number) = x
    /\ \A s \in DOMAIN pool.services : \A i \in DOMAIN pool.services[s].methods :
         LET method == pool.services[s].methods[i] IN
         /\ MethodProtoOf(s, i).input = <<"">> \o pool.messages[method.input].id.name
         /\ MethodProtoOf(s, i).output = <<"">> \o pool.messages[method.output].id.name

\* Parents and children find each other: what an accessor finds by joining names,
\* and expects to find, is what has that parent, in the same file.
FamiliesAgree ==
  Idle =>
    /\ \A m \in DOMAIN pool.messages :
         LET Own(table, kind) == { [kind |-> kind, index |-> i] : i \in { j \in DOMAIN table : table[j].parent = m } } IN
         /\ ToSet(ChildMessages(m)) = Own(pool.messages, "message")
         /\ ToSet(ChildEnums(m)) = Own(pool.enums, "enum")
         /\ ToSet(ChildExtensions(m)) = Own(pool.extensions, "extension")
    /\ \A f \in DOMAIN pool.files :
         LET Top0(table, kind) == { [kind |-> kind, index |-> i] : i \in { j \in DOMAIN table : table[j].id.file = f /\ table[j].parent = 0 } } IN
         /\ ToSet(MessagesOf(f)) = Top0(pool.messages, "message")
         /\ ToSet(EnumsOf(f)) = Top0(pool.enums, "enum")
         /\ ToSet(ExtensionsOf(f)) = Top0(pool.extensions, "extension")
         /\ ToSet(ServicesOf(f)) = { [kind |-> "service", index |-> s] : s \in { t \in DOMAIN pool.services : pool.services[t].id.file = f } }
    /\ \A m \in DOMAIN pool.messages : \A i \in DOMAIN pool.messages[m].fields :
         IsMap(pool.messages[m].fields[i]) =>
            LET entry == pool.messages[m].fields[i].target.index IN
            pool.messages[entry].parent = m /\ MapEntryKey(entry) # Absent /\ MapEntryValue(entry) # Absent

-----------------------------------------------------------------------------
(* The well-known types.                                                    *)

Distinct(sequence) == Cardinality(ToSet(sequence)) = Len(sequence)

WellKnownTried == { file \in ToSet(WK!WellKnownFiles) : \E files \in tried : file \in ToSet(files) }

\* make_wkt_descriptor_pool().unwrap() does not panic, nor does descriptor() of any
\* type: the files that the crate carries are accepted, with numbers that are
\* distinct and outside of the reserved ranges and those for extensions, defaults
\* that exist and a zero value in every proto3 enum, and hold the reflected types.
WellKnownBuilds ==
  Idle =>
    /\ \A file \in WellKnownTried : file.name \in DOMAIN pool.fileNames
    /\ WK!WellKnownFiles \in tried => \A types \in WK!Reflected : GetByName("message", WK!Google \o types) # Absent
    /\ \A m \in DOMAIN pool.messages :
         LET proto == MessageProtoOf(m)
             fields == pool.messages[m].fields
         IN  /\ Distinct([i \in DOMAIN fields |-> fields[i].number])
             /\ \A i \in DOMAIN fields :
                  /\ fields[i].number > 0 /\ fields[i].number <= 536870911 /\ fields[i].number \notin 19000..19999
                  /\ \A j \in DOMAIN proto.taken :
                       ~(proto.taken[j][1] <= fields[i].number /\ fields[i].number < proto.taken[j][2])
                  /\ (fields[i].target.kind = "enum" /\ proto.fields[i].default # "") =>
                       \E v \in ToSet(EnumProtoOf(fields[i].target.index).values) : v.name = proto.fields[i].default
    /\ \A e \in DOMAIN pool.enums :
         Prost(pool.enums[e].id.file).syntax = "proto3" => pool.enums[e].values[1].number = 0

=============================================================================
