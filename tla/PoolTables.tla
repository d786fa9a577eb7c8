----------------------------- MODULE PoolTables -----------------------------
(***************************************************************************)
(* The contents of a descriptor pool (DescriptorPoolInner) and the pure    *)
(* functions that building a file applies to it: declaring the names of a  *)
(* file, resolving what it refers to, checking its options, and undoing a  *)
(* failed batch.                                                           *)
(*                                                                         *)
(* A file descriptor is abstracted to what those functions read: its name, *)
(* the packages it declares (with every dotted prefix), its imports, its   *)
(* declarations of each kind, the names it refers to and the extensions it *)
(* uses as options.  Names are fully qualified.  The tables are 1-based    *)
(* here and 0-based in the code, so "index < offset" there is              *)
(* "index <= offset" here.                                                 *)
(***************************************************************************)
EXTENDS Naturals, Sequences, FiniteSets, SequencesExt

CONSTANTS
  Names,        \* fully qualified names
  FileNames,    \* names of .proto files
  FileOptions,  \* the name google.protobuf.FileOptions
  MaxNumber     \* bound on the field numbers of the model

ASSUME NamesAssumption == FileOptions \in Names /\ MaxNumber \in Nat \ {0}

Kinds == {"message", "enum", "service", "extension"}

\* The kinds whose rows are made when a file is resolved; those of the others are made
\* when its names are declared.
Deferred == {"service", "extension"}

\* What DefinitionKind stores beside the table index: a message and its
\* fields and oneofs all carry the index of the message, and so on.
Decl == [name : Names, members : SUBSET Names, ranges : SUBSET (1..MaxNumber),
         extendee : Names, number : 1..MaxNumber]

Proto == [name : FileNames, knownSyntax : BOOLEAN, packages : SUBSET Names,
          deps : Seq(FileNames), public : SUBSET Nat, weak : SUBSET Nat,
          decls : [Kinds -> Seq(Decl)],
          refs : SUBSET [name : Names, filter : SUBSET Kinds],
          options : Seq(Names)]

\* A row of one of the four tables; "extendee" is the index of the extended
\* message (0: unresolved), "extensions" the list kept by a message.
Entry == [decl : Decl, file : Nat, extendee : Nat, extensions : SUBSET (Nat \ {0})]

FileInner == [raw : Proto, prost : BOOLEAN]

Definition == [kind : Kinds \cup {"package", "none"}, member : BOOLEAN,
               index : Nat, file : Nat]

NoDef == [kind |-> "none", member |-> FALSE, index |-> 0, file |-> 0]

Pool == [files : Seq(FileInner), fileNames : [FileNames -> Nat],
         tables : [Kinds -> Seq(Entry)], names : [Names -> Definition]]

EmptyPool == [files |-> << >>, fileNames |-> [f \in FileNames |-> 0],
              tables |-> [k \in Kinds |-> << >>], names |-> [n \in Names |-> NoDef]]

\* DescriptorPoolOffsets: the lengths of the tables when a build starts.
Offsets == [file : Nat, table : [Kinds -> Nat]]

OffsetsOf(pool) == [file |-> Len(pool.files),
                    table |-> [k \in Kinds |-> Len(pool.tables[k])]]

-----------------------------------------------------------------------------
(* Phase 1: declaring names (NameVisitor).                                 *)

\* What a file adds to the name table; "base" holds the index before its first
\* declaration of each kind (Context::offsets).
Additions(p, file, base) ==
  LET def(kind, member, index) ==
        [kind |-> kind, member |-> member, index |-> index, file |-> file]
      of(k, i) == [name : {p.decls[k][i].name}, def : {def(k, FALSE, base[k] + i)}]
                  \cup [name : p.decls[k][i].members, def : {def(k, TRUE, base[k] + i)}]
  IN  [name : p.packages, def : {def("package", FALSE, 0)}]
      \cup UNION { UNION { of(k, i) : i \in DOMAIN p.decls[k] } : k \in Kinds }

BothPackages(d, e) == d.kind = "package" /\ e.kind = "package"

\* Some name is declared twice, and not as a package both times.
NameClash(names, additions) ==
  \E a \in additions :
     \/ names[a.name] # NoDef /\ ~BothPackages(names[a.name], a.def)
     \/ \E b \in additions : b.name = a.name /\ b # a

\* The first definition of a name stays.  (When one file declares a name twice
\* the build fails, so which of the two is kept is never seen.)
WithNames(names, additions) ==
  [n \in Names |->
     IF names[n] = NoDef /\ \E a \in additions : a.name = n
     THEN (CHOOSE a \in additions : a.name = n).def
     ELSE names[n]]

\* A declaration as a fresh row.
Row(d, file, extendee) ==
  [decl |-> d, file |-> file, extendee |-> extendee, extensions |-> {}]

\* The pool after NameVisitor has visited file p.
Declared(pool, p, base) ==
  LET file == Len(pool.files) + 1
      rows(k) == [i \in DOMAIN p.decls[k] |-> Row(p.decls[k][i], file, 0)]
  IN  [files     |-> Append(pool.files, [raw |-> p, prost |-> FALSE]),
       fileNames |-> [pool.fileNames EXCEPT ![p.name] = file],
       tables    |-> [k \in Kinds |-> IF k \in Deferred THEN pool.tables[k]
                                      ELSE pool.tables[k] \o rows(k)],
       names     |-> WithNames(pool.names, Additions(p, file, base))]

\* The errors that visit_file and add_name report.
DeclareFails(pool, p, base) ==
  \/ pool.fileNames[p.name] # 0
  \/ NameClash(pool.names, Additions(p, Len(pool.files) + 1, base))

-----------------------------------------------------------------------------
(* Phase 2: resolving (ResolveVisitor).                                    *)

\* The imports of file f, in order, as far as the files are in the pool, and
\* whether the import is public.
Imports(pool, f) ==
  LET deps == pool.files[f].raw.deps
      known(i) == pool.fileNames[deps[i]] # 0
  IN  [i \in 1..Len(deps) |->
         [file |-> pool.fileNames[deps[i]], known |-> known(i),
          public |-> i \in pool.files[f].raw.public]]

\* Fault: public imports are not passed on.
NoDependencies(pool, found, f) == found

\* resolve_public_dependencies adds the public imports of file g to the set, and enters
\* one only when it was in the set already; "enter" is what the recursion does then.
Entered(pool, enter, seen, g) ==
  FoldLeft(LAMBDA acc, d : IF ~d.known \/ ~d.public THEN acc
                           ELSE IF d.file \in acc THEN enter[d.file][acc]
                           ELSE acc \cup {d.file},
           seen, Imports(pool, g))

\* walk[k] is the function for a recursion less than k deep; one that is deeper than there
\* are files is in a cycle of public imports and does not end, which puts "Endless" in the set.
Endless == 0

PublicDependencies(pool, found, f) ==
  LET files == DOMAIN pool.files
      walk[k \in 0..(Len(pool.files) + 1)] ==
        [g \in files |-> [seen \in SUBSET (files \cup {Endless}) |->
           IF k = 0 THEN seen \cup {Endless} ELSE Entered(pool, walk[k - 1], seen, g)]]
  IN  walk[Len(pool.files) + 1][f][found]

\* transitive_dependencies of file f.
Visible(pool, f) ==
  FoldLeft(LAMBDA acc, d : IF d.known
                           THEN PublicDependencies(pool, acc \cup {d.file}, d.file)
                           ELSE acc,
           {f}, Imports(pool, f))

\* ResolveNameResult::Found, for a fully qualified name.
Found(pool, visible, name, filter) ==
  LET def == pool.names[name]
  IN  def.file \in visible /\ def.kind \in filter /\ ~def.member

Extendee(pool, visible, d) ==
  IF Found(pool, visible, d.extendee, {"message"})
  THEN pool.names[d.extendee].index ELSE 0

\* ResolveVisitor makes one row per service and per extension, and pushes the index of an
\* extension, counted from "base", on the list of the message it extends.
PushedFrom(pool, f, base) ==
  LET exts == pool.files[f].raw.decls["extension"]
      services == pool.files[f].raw.decls["service"]
      to(i) == Extendee(pool, Visible(pool, f), exts[i])
      pushed(m) == { base + i : i \in { j \in DOMAIN exts : to(j) = m } }
      old == pool.tables
  IN  [pool EXCEPT !.tables =
         [k \in Kinds |->
            CASE k = "message" -> [m \in DOMAIN old[k] |->
                                     [old[k][m] EXCEPT !.extensions = @ \cup pushed(m)]]
              [] k = "extension" -> old[k] \o [i \in DOMAIN exts |-> Row(exts[i], f, to(i))]
              [] k = "service" -> old[k] \o [i \in DOMAIN services |-> Row(services[i], f, 0)]
              [] OTHER -> old[k]]]

\* Faults: the index pushed is 0-based for a 1-based table, or does not count
\* the extensions of earlier files.
ResolvedOffByOne(pool, f) == PushedFrom(pool, f, Len(pool.tables["extension"]) - 1)
ResolvedFromZero(pool, f) == PushedFrom(pool, f, 0)

\* The pool after ResolveVisitor has visited file f.
Resolved(pool, f) == PushedFrom(pool, f, Len(pool.tables["extension"]))

\* check_field_number of an extension: its number is in an extension range of the
\* message it extends, if that is found.
NumberFits(pool, visible, d) ==
  LET m == Extendee(pool, visible, d)
  IN  m # 0 /\ d.number \in pool.tables["message"][m].decl.ranges

\* Fault: the extension ranges of the extended message are not checked.
ResolveFailsWithoutRanges(pool, f) ==
  LET p == pool.files[f].raw
      visible == Visible(pool, f)
  IN  \/ \E i \in DOMAIN p.deps : pool.fileNames[p.deps[i]] = 0
      \/ ~(p.public \cup p.weak \subseteq DOMAIN p.deps)
      \/ \E r \in p.refs : ~Found(pool, visible, r.name, r.filter)
      \/ \E i \in DOMAIN p.decls["extension"] :
            Extendee(pool, visible, p.decls["extension"][i]) = 0

\* The errors that visit_file, visit_field, visit_method, visit_extension and
\* check_field_number report.
ResolveFails(pool, f) ==
  LET p == pool.files[f].raw
      visible == Visible(pool, f)
  IN  \/ \E i \in DOMAIN p.deps : pool.fileNames[p.deps[i]] = 0
      \/ ~(p.public \cup p.weak \subseteq DOMAIN p.deps)
      \/ \E r \in p.refs : ~Found(pool, visible, r.name, r.filter)
      \/ \E i \in DOMAIN p.decls["extension"] : ~NumberFits(pool, visible, p.decls["extension"][i])

-----------------------------------------------------------------------------
(* Phase 3: options (OptionsVisitor), and undoing a failed build.          *)

\* find_extension: an extension that is visible, of FileOptions as this pool
\* defines it.
OptionFound(pool, visible, n) ==
  LET options == pool.names[FileOptions]
  IN  /\ Found(pool, visible, n, {"extension"})
      /\ options.kind = "message" /\ ~options.member
      /\ pool.tables["extension"][pool.names[n].index].extendee = options.index

\* The errors that set_option reports: each option is found, and is set once.
OptionsFail(pool, f) ==
  LET options == pool.files[f].raw.options
  IN  \/ \E i \in DOMAIN options : ~OptionFound(pool, Visible(pool, f), options[i])
      \/ ~IsInjective(options)

\* Fault: the names of packages outlive a failed build.
RolledBackKeepingPackages(pool, off) ==
  LET stays(d) == d.kind = "package" \/ (d.kind # "none" /\ d.index <= off.table[d.kind])
  IN  [files     |-> SubSeq(pool.files, 1, off.file),
       fileNames |-> [f \in FileNames |-> IF pool.fileNames[f] <= off.file
                                          THEN pool.fileNames[f] ELSE 0],
       tables    |-> [k \in Kinds |-> SubSeq(pool.tables[k], 1, off.table[k])],
       names     |-> [n \in Names |-> IF stays(pool.names[n]) THEN pool.names[n] ELSE NoDef]]

\* DescriptorPoolOffsets::rollback.  The extension lists are filtered with the
\* length of the message table, as in the code.
RolledBack(pool, off) ==
  LET keep(t, k) == SubSeq(t, 1, off.table[k])
      files == SubSeq(pool.files, 1, off.file)
      declaresPackage(n) == \E i \in DOMAIN files : files[i].prost /\ n \in files[i].raw.packages
      stays(n) == LET d == pool.names[n]
                  IN  IF d.kind = "package" THEN declaresPackage(n)
                      ELSE d.kind # "none" /\ d.index <= off.table[d.kind]
  IN  [files     |-> files,
       fileNames |-> [f \in FileNames |-> IF pool.fileNames[f] <= off.file
                                          THEN pool.fileNames[f] ELSE 0],
       tables    |-> [k \in Kinds |->
                        IF k = "message"
                        THEN [m \in 1..off.table[k] |->
                                [pool.tables[k][m] EXCEPT !.extensions =
                                   { e \in @ : e <= off.table["message"] }]]
                        ELSE keep(pool.tables[k], k)],
       names     |-> [n \in Names |-> IF stays(n) THEN pool.names[n] ELSE NoDef]]

\* The last step of a successful build: every new file gets its prost form.
Committed(pool, off) ==
  [pool EXCEPT !.files = [i \in DOMAIN @ |-> IF i > off.file THEN [@[i] EXCEPT !.prost = TRUE] ELSE @[i]]]
=============================================================================
