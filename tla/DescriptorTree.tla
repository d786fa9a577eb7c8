---------------------------- MODULE DescriptorTree ----------------------------
(***************************************************************************)
(* The walk over the files of a batch (build/visit.rs), which two visitors  *)
(* take in turn (names, then what refers to them), the tables it fills, and *)
(* the accessors that find a descriptor's relatives and its proto again     *)
(* (descriptor/api.rs).  A row of a table keeps the path of its element     *)
(* within its file: everything later goes by that path.                     *)
(*                                                                          *)
(* Rows are numbered from 1 and elements of paths from 0, as in the         *)
(* descriptor.  Numbers, default values and options are left to             *)
(* Declarations and Options, public imports to DescriptorPool, and type     *)
(* names are absolute or of one part (NameScopes has the others).           *)
(***************************************************************************)
EXTENDS FiniteSets, DescriptorTypes

CONSTANTS
  Batches,   \* sequences of files, the arguments of add_file_descriptor_protos
  Alone      \* the batches that are added to an empty pool, and nothing after them

ASSUME BatchesAssumption == Alone \subseteq Batches

VARIABLES
  pool,      \* DescriptorPoolInner: its names, files and tables
  pass,      \* "idle", "names" or "resolve"
  batch,     \* the files of the batch that are not in the pool yet
  tried,     \* the batches that were added, or refused
  offsets,   \* the lengths of the tables when the batch was begun
  next,      \* Context::offsets: the same, counted on
  visited,   \* the number of files of the batch that were entered
  stack,     \* the elements around the one that is visited
  path,      \* Context::path
  scope,     \* Context::scope
  errors     \* whether an error was reported

vars == <<pool, pass, batch, tried, offsets, next, visited, stack, path, scope, errors>>

Put(f, x, y) == (x :> y) @@ f
NameOf(kind, element) == IF kind = "oneof" THEN element ELSE element.name

-----------------------------------------------------------------------------
(* The parts of an element, in the order of the walk.                       *)

Section(tag, list, kind) == [tag |-> tag, list |-> list, kind |-> kind]

FileSections == <<
  Section(TagFile.message_type, "messages", "message"), Section(TagFile.enum_type, "enums", "enum"),
  Section(TagFile.service, "services", "service"), Section(TagFile.extension, "extensions", "extension")>>
MessageSections == <<
  Section(TagMessage.oneof_decl, "oneofs", "oneof"), Section(TagMessage.field, "fields", "field"),
  Section(TagMessage.nested_type, "messages", "message"), Section(TagMessage.enum_type, "enums", "enum"),
  Section(TagMessage.extension, "extensions", "extension")>>
EnumSections == <<Section(TagEnum.value, "values", "value")>>
ServiceSections == <<Section(TagService.method, "methods", "method")>>

Sections == [file |-> FileSections, message |-> MessageSections, enum |-> EnumSections, service |-> ServiceSections]
Parents == DOMAIN Sections

-----------------------------------------------------------------------------
(* The tables.                                                              *)

EmptyPool == [names |-> << >>, fileNames |-> << >>, files |-> << >>,
              messages |-> << >>, enums |-> << >>, services |-> << >>, extensions |-> << >>]

\* Fault: extensions are counted by the messages they extend.
OffsetsByExtendee(p) == [file |-> Len(p.files), message |-> Len(p.messages), enum |-> Len(p.enums),
  service |-> Len(p.services), extension |-> Cardinality({ p.extensions[x].extendee : x \in DOMAIN p.extensions })]

\* DescriptorPoolOffsets::new
Offsets(p) == [file |-> Len(p.files), message |-> Len(p.messages), enum |-> Len(p.enums),
               service |-> Len(p.services), extension |-> Len(p.extensions)]

Identity(file, at, name) == [file |-> file, path |-> at, name |-> name]

\* The name of an element among the tags of its kind.
NameTag == [package |-> TagFile.package, message |-> TagMessage.name, field |-> TagField.name, oneof |-> TagOneof.name,
            service |-> TagService.name, method |-> TagService.name, enum |-> TagEnum.name,
            value |-> TagEnumValue.name, extension |-> TagField.name]

Clashes(p, name, kind) == name \in DOMAIN p.names /\ ~(kind = "package" /\ p.names[name].kind = "package")

AddName(p, file, name, at, kind, index) ==
  IF name \in DOMAIN p.names THEN p
  ELSE [p EXCEPT !.names = Put(@, name,
          [file |-> file, path |-> Append(at, NameTag[kind]), kind |-> kind, index |-> index])]

-----------------------------------------------------------------------------
(* NameVisitor.  "parent" is the row of the innermost message, enum or      *)
(* service around the element (0: none), "index" the element's own.         *)

PackagePrefixes(package) == { SubSeq(package, 1, k) : k \in DOMAIN package }

NameFile(p, file, index) ==
  LET pushed == [p EXCEPT !.fileNames = Put(@, file.name, index),
                          !.files = Append(@, [raw |-> FromFile(file), prost |-> << >>, visible |-> {}])]
  IN  FoldLeft(LAMBDA q, k : AddName(q, index, SubSeq(file.package, 1, k), << >>, "package", 0), pushed,
               [k \in DOMAIN file.package |-> k])

NameFileFails(p, file) ==
  file.name \in DOMAIN p.fileNames \/ \E name \in PackagePrefixes(file.package) : Clashes(p, name, "package")

\* The row that a definition names: a field or a method counts for its parent.
Holder(kind, parent, index) == IF kind \in {"message", "enum", "service", "extension"} THEN index ELSE parent

NameElement(p, kind, element, file, parent, index, at, name) ==
  LET id == Identity(file, at, name)
      named == AddName(p, file, name, at, kind, Holder(kind, parent, index))
  IN  CASE kind = "message" ->
             [named EXCEPT !.messages = Append(@,
                [id |-> id, parent |-> parent, fields |-> << >>, oneofs |-> << >>, extensions |-> << >>])]
        [] kind = "oneof" ->
             [named EXCEPT !.messages[parent].oneofs = Append(@, [id |-> id, fields |-> << >>])]
        [] kind = "enum" -> [named EXCEPT !.enums = Append(@, [id |-> id, parent |-> parent, values |-> << >>])]
        [] kind = "value" ->
             [named EXCEPT !.enums[parent].values = Append(@, [id |-> id, number |-> element.number])]
        [] kind \in {"field", "service", "method", "extension"} -> named

-----------------------------------------------------------------------------
(* ResolveVisitor.                                                          *)

None == [kind |-> "none", index |-> 0]

\* resolve_name: in the innermost scope where the name fits.
Fits(p, file, name, kinds) ==
  name \in DOMAIN p.names /\ p.names[name].kind \in kinds /\ p.names[name].file \in p.files[file].visible

Candidates(p, file, from, name, kinds) ==
  IF name[1] = "" THEN { n \in {Tail(name)} : Fits(p, file, n, kinds) }
  ELSE { n \in { SubSeq(from, 1, k) \o name : k \in 0..Len(from) } : Fits(p, file, n, kinds) }

Resolved(p, file, from, name, kinds) ==
  LET found == Candidates(p, file, from, name, kinds)
  IN  IF found = {} THEN None
      ELSE LET full == CHOOSE n \in found : \A m \in found : Len(m) <= Len(n)
           IN  [kind |-> p.names[full].kind, index |-> p.names[full].index, name |-> <<"">> \o full]

ResolveFile(p, file, index) ==
  [p EXCEPT !.files[index].visible =
     {index} \cup { p.fileNames[d] : d \in { file.deps[i] : i \in DOMAIN file.deps } \cap DOMAIN p.fileNames }]

ResolveFileFails(p, file) == \E i \in DOMAIN file.deps : file.deps[i] \notin DOMAIN p.fileNames

\* find_file_field_proto_mut, find_message_field_proto and set_type_name: the
\* reference that was resolved is written into the file, at the element's path.
Rest(at) == SubSeq(at, 3, Len(at))

Written(field, tag, target) ==
  IF tag = TagField.extendee THEN [field EXCEPT !.extendee = target.name]
  ELSE [field EXCEPT !.type = [kind |-> IF @.kind = "group" THEN "group" ELSE target.kind, of |-> target.name]]

RECURSIVE WrittenInMessage(_, _, _, _)
WrittenInMessage(message, at, tag, target) ==
  CASE at[1] = TagMessage.field -> [message EXCEPT !.fields[at[2] + 1] = Written(@, tag, target)]
    [] at[1] = TagMessage.extension -> [message EXCEPT !.extensions[at[2] + 1] = Written(@, tag, target)]
    [] at[1] = TagMessage.nested_type ->
         [message EXCEPT !.messages[at[2] + 1] = WrittenInMessage(@, Rest(at), tag, target)]

SetTypeName(file, at, tag, target) ==
  CASE at[1] = TagFile.service ->
         IF tag = TagMethod.input_type
         THEN [file EXCEPT !.services[at[2] + 1].methods[at[4] + 1].input = target.name]
         ELSE [file EXCEPT !.services[at[2] + 1].methods[at[4] + 1].output = target.name]
    [] at[1] = TagFile.message_type ->
         [file EXCEPT !.messages[at[2] + 1] = WrittenInMessage(@, Rest(at), tag, target)]
    [] at[1] = TagFile.extension ->
         [file EXCEPT !.extensions[at[2] + 1] = Written(@, tag, target)]

\* resolve_field_type: a message may be encoded as a group.
Typed(given, target) == IF given = "group" /\ target.kind = "message" THEN [target EXCEPT !.kind = "group"] ELSE target

\* The references of an element: what they name, and the tag of each.
References(p, kind, element, file, name) ==
  LET At(reference, kinds) == Resolved(p, file, name, reference, kinds)
      type == IF element.type.of = << >> THEN None ELSE Typed(element.type.kind, At(element.type.of, {"message", "enum"}))
  IN  CASE kind = "field" -> << <<TagField.type_name, type>> >>
        [] kind = "extension" -> << <<TagField.extendee, At(element.extendee, {"message"})>>, <<TagField.type_name, type>> >>
        [] kind = "method" -> << <<TagMethod.input_type, At(element.input, {"message"})>>,
                                 <<TagMethod.output_type, At(element.output, {"message"})>> >>
        [] kind \in {"message", "oneof", "enum", "value", "service"} -> << >>

\* A type that is not named, and has a kind, is a scalar.
ReferencesFail(kind, element, references) ==
  \E i \in DOMAIN references :
     /\ references[i][2] = None
     /\ ~(references[i][1] = TagField.type_name /\ kind \in {"field", "extension"} /\ element.type.of = << >>
          /\ element.type.kind \notin {"message", "enum", "group"})

OneofFails(p, kind, element, parent) ==
  kind = "field" /\ element.oneof # -1 /\ element.oneof \notin 0..(Len(p.messages[parent].oneofs) - 1)

\* Fault: a field enters the oneof after its own.
EnterOneofNext(message, element, index) ==
  IF element.oneof \notin 0..(Len(message.oneofs) - 1) THEN message
  ELSE [message EXCEPT !.oneofs[((element.oneof + 1) % Len(message.oneofs)) + 1].fields = Append(@, index)]

EnterOneof(message, element, index) ==
  IF element.oneof \notin 0..(Len(message.oneofs) - 1) THEN message
  ELSE [message EXCEPT !.oneofs[element.oneof + 1].fields = Append(@, index)]

ResolveElement(p, kind, element, file, parent, index, at, name, references) ==
  LET id == Identity(file, at, name)
      q == FoldLeft(LAMBDA r, s : [r EXCEPT !.files[file].raw = SetTypeName(@, at, s[1], s[2])], p,
                    SelectSeq(references, LAMBDA s : s[2] # None))
  IN  CASE kind = "field" ->
             [q EXCEPT !.messages[parent] =
                LET message == EnterOneof(@, element, index)
                IN  [message EXCEPT !.fields = Append(@,
                       [id |-> id, number |-> element.number, oneof |-> element.oneof, label |-> element.label,
                        target |-> [kind |-> references[1][2].kind, index |-> references[1][2].index]])]]
        [] kind = "service" -> [q EXCEPT !.services = Append(@, [id |-> id, methods |-> << >>])]
        [] kind = "method" ->
             [q EXCEPT !.services[parent].methods = Append(@,
                [id |-> id, input |-> references[1][2].index, output |-> references[2][2].index])]
        [] kind = "extension" ->
             LET extendee == references[1][2].index
                 listed == IF extendee = 0 THEN q ELSE [q EXCEPT !.messages[extendee].extensions = Append(@, index)]
             IN  [listed EXCEPT !.extensions = Append(@,
                    [id |-> id, parent |-> parent, number |-> element.number, extendee |-> extendee,
                     target |-> [kind |-> references[2][2].kind, index |-> references[2][2].index]])]
        [] kind \in {"message", "oneof", "enum", "value"} -> q

-----------------------------------------------------------------------------
(* The walk.                                                                *)

Frame(kind, element, index) == [kind |-> kind, element |-> element, index |-> index, section |-> 1, child |-> 0]
Top == stack[Len(stack)]
WithTop(frame) == [stack EXCEPT ![Len(stack)] = frame]
Current == Sections[Top.kind][Top.section]
Inside == Top.section \in DOMAIN Sections[Top.kind]
List == Top.element[Current.list]

PushPath(part) == path' = Append(path, part)
PopPath == path' = Front(path)

\* pop_scope: the scope without as many parts as the name has.
PopScope(parts, at) == SubSeq(at, 1, Len(at) - parts)

Init ==
  /\ pool = EmptyPool /\ pass = "idle" /\ batch = << >> /\ tried = {} /\ offsets = Offsets(EmptyPool)
  /\ next = Offsets(EmptyPool) /\ visited = 0 /\ stack = << >> /\ path = << >> /\ scope = << >> /\ errors = FALSE

\* build_files: of the files those that are new are added.
Begin ==
  /\ pass = "idle" /\ tried \cap Alone = {}
  /\ \E files \in Batches \ tried :
       /\ files \in Alone => tried = {}
       /\ tried' = tried \cup {files}
       /\ batch' = SelectSeq(files, LAMBDA f : f.name \notin DOMAIN pool.fileNames)
  /\ pass' = "names" /\ offsets' = Offsets(pool) /\ next' = offsets' /\ visited' = 0
  /\ UNCHANGED <<pool, stack, path, scope, errors>>

EnterFile ==
  /\ pass # "idle" /\ stack = << >> /\ visited < Len(batch)
  /\ LET file == batch[visited + 1]
         index == next.file + 1
     IN  /\ IF pass = "names"
            THEN /\ pool' = NameFile(pool, file, index)
                 /\ errors' = (errors \/ NameFileFails(pool, file))
            ELSE /\ pool' = ResolveFile(pool, file, index)
                 /\ errors' = (errors \/ ResolveFileFails(pool, file))
         /\ scope' = scope \o file.package
         /\ stack' = <<Frame("file", file, index)>>
  /\ next' = [next EXCEPT !.file = @ + 1]
  /\ visited' = visited + 1
  /\ UNCHANGED <<pass, batch, tried, offsets, path>>

\* The tag of the next part of the element is pushed.
Open ==
  /\ stack # << >> /\ Inside /\ Top.child = 0
  /\ PushPath(Current.tag)
  /\ stack' = WithTop([Top EXCEPT !.child = 1])
  /\ UNCHANGED <<pool, pass, batch, tried, offsets, next, visited, scope, errors>>

\* Elements with parts of their own get a frame; the scope of an enum is left
\* before its values are visited, who are its siblings.
Visit ==
  /\ stack # << >> /\ Inside /\ Top.child \in DOMAIN List
  /\ LET kind == Current.kind
         element == List[Top.child]
         counted == kind \in DOMAIN next
         index == IF counted THEN next[kind] + 1 ELSE Top.child
         parent == IF Top.kind = "file" THEN 0 ELSE Top.index
         file == stack[1].index
         at == Append(path, Top.child - 1)
         name == Append(scope, NameOf(kind, element))
         references == IF pass = "names" THEN << >> ELSE References(pool, kind, element, file, name)
     IN  /\ IF pass = "names"
            THEN /\ pool' = NameElement(pool, kind, element, file, parent, index, at, name)
                 /\ errors' = (errors \/ Clashes(pool, name, kind))
            ELSE /\ pool' = ResolveElement(pool, kind, element, file, parent, index, at, name, references)
                 /\ errors' = (errors \/ ReferencesFail(kind, element, references)
                                      \/ OneofFails(pool, kind, element, parent))
         /\ next' = IF counted THEN [next EXCEPT ![kind] = index] ELSE next
         /\ IF kind \in Parents
            THEN path' = at /\ stack' = Append(stack, Frame(kind, element, index))
            ELSE path' = path /\ stack' = WithTop([Top EXCEPT !.child = @ + 1])
         /\ scope' = IF kind \in {"message", "service"} THEN name ELSE PopScope(1, name)
  /\ UNCHANGED <<pass, batch, tried, offsets, visited>>

Close ==
  /\ stack # << >> /\ Inside /\ Top.child = Len(List) + 1
  /\ PopPath
  /\ stack' = WithTop([Top EXCEPT !.section = @ + 1, !.child = 0])
  /\ UNCHANGED <<pool, pass, batch, tried, offsets, next, visited, scope, errors>>

Leave ==
  /\ stack # << >> /\ ~Inside
  /\ scope' = PopScope(CASE Top.kind = "file" -> Len(Top.element.package)
                         [] Top.kind \in {"message", "service"} -> 1
                         [] Top.kind = "enum" -> 0, scope)
  /\ IF Len(stack) = 1 THEN stack' = << >> /\ path' = path
     ELSE stack' = [Front(stack) EXCEPT ![Len(stack) - 1].child = @ + 1] /\ PopPath
  /\ UNCHANGED <<pool, pass, batch, tried, offsets, next, visited, errors>>

WalkEnded == pass # "idle" /\ stack = << >> /\ visited = Len(batch)

\* collect_names ends, and resolve_names starts anew from the same offsets.
Resolve ==
  /\ WalkEnded /\ pass = "names" /\ ~errors
  /\ pass' = "resolve" /\ next' = offsets /\ visited' = 0
  /\ UNCHANGED <<pool, batch, tried, offsets, stack, path, scope, errors>>

\* build_files_deduped ends: the files get their final form.
Commit ==
  /\ WalkEnded /\ pass = "resolve" /\ ~errors
  /\ pool' = [pool EXCEPT !.files = [i \in DOMAIN @ |->
                [pool.files[i] EXCEPT !.prost = IF i > offsets.file THEN ToFile(pool.files[i].raw) ELSE @]]]
  /\ pass' = "idle" /\ batch' = << >> /\ visited' = 0
  /\ UNCHANGED <<tried, offsets, next, stack, path, scope, errors>>

\* Fault: values of enums are kept by the number of messages.
IsKeptByMessage(p, before, name) ==
  LET d == p.names[name]
  IN  CASE d.kind = "package" -> \E i \in 1..before.file : IsPrefix(name, p.files[i].prost.package)
        [] d.kind \in {"message", "field", "oneof", "enum", "value"} -> d.index <= before.message
        [] d.kind \in {"service", "method"} -> d.index <= before.service
        [] d.kind = "extension" -> d.index <= before.extension

\* What the rollback keeps of the names.
IsKept(p, before, name) ==
  LET d == p.names[name]
      Upto(kind) == d.index <= before[kind]
  IN  CASE d.kind = "package" -> \E i \in 1..before.file : IsPrefix(name, p.files[i].prost.package)
        [] d.kind \in {"message", "field", "oneof"} -> Upto("message")
        [] d.kind \in {"service", "method"} -> Upto("service")
        [] d.kind \in {"enum", "value"} -> Upto("enum")
        [] d.kind = "extension" -> Upto("extension")

\* DescriptorPoolOffsets::rollback.  The lists of extensions are cut at the number
\* of messages: see DescriptorPool.
Rollback(p, before) ==
  LET kept == { name \in DOMAIN p.names : IsKept(p, before, name) }
      old == { f \in DOMAIN p.fileNames : p.fileNames[f] <= before.file }
  IN  [names |-> [name \in kept |-> p.names[name]], fileNames |-> [f \in old |-> p.fileNames[f]],
       files |-> SubSeq(p.files, 1, before.file),
       messages |-> [i \in 1..before.message |->
          [p.messages[i] EXCEPT !.extensions = SelectSeq(@, LAMBDA e : e <= before.message)]],
       enums |-> SubSeq(p.enums, 1, before.enum), services |-> SubSeq(p.services, 1, before.service),
       extensions |-> SubSeq(p.extensions, 1, before.extension)]

Refuse ==
  /\ WalkEnded /\ errors
  /\ pool' = Rollback(pool, offsets)
  /\ pass' = "idle" /\ batch' = << >> /\ visited' = 0 /\ errors' = FALSE
  /\ UNCHANGED <<tried, offsets, next, stack, path, scope>>

Next == Begin \/ EnterFile \/ Open \/ Visit \/ Close \/ Leave \/ Resolve \/ Commit \/ Refuse

Spec == Init /\ [][Next]_vars
=============================================================================
