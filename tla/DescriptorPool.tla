--------------------------- MODULE DescriptorPool ---------------------------
(***************************************************************************)
(* DescriptorPool values and build_files.                                  *)
(*                                                                         *)
(* A DescriptorPool is an Arc of its contents, and so is every descriptor  *)
(* taken from it: both are "handles" here.  Cloning shares the contents;   *)
(* adding files first makes them the handle's own (Arc::make_mut), then    *)
(* changes them in place through three phases, each of which visits every  *)
(* new file, collects errors, and fails as a whole.  A failed phase undoes *)
(* the build (DescriptorPoolOffsets::rollback).                            *)
(*                                                                         *)
(* A build holds its handle exclusively (&mut self), but other handles on  *)
(* the same contents are used, cloned, dropped and built by other threads  *)
(* meanwhile, so a build is a sequence of steps, one per visited file.     *)
(***************************************************************************)
EXTENDS PoolTables

CONSTANTS Handles, Batches,
          Arcs,      \* heap cells, at least as many as there are handles
          NoArc      \* the arc of a handle that holds no pool

ASSUME ArcsAssumption == NoArc \notin Arcs
ASSUME BatchesAssumption == Batches \subseteq Seq(Proto)

VARIABLES
  arc,         \* handle -> the Arc it holds
  heap,        \* Arc -> the contents it points to
  job,         \* handle -> the build in progress on it
  visitor,     \* handle -> where OptionsVisitor is in the file it visits
  rolledBack   \* history: the Arcs whose contents went through a rollback

vars == <<arc, heap, job, visitor, rolledBack>>

Phases == {"idle", "declare", "resolve", "options", "commit", "rollback", "panicked"}

\* "queue" holds the files of the batch not yet declared, "at" the next file a
\* later phase visits, "ahead" the index that the last service and the last extension
\* declared so far will have, "failed" whether the phase has reported an error.
Job == [phase : Phases, queue : Seq(Proto), off : Offsets, at : Nat,
        ahead : [Deferred -> Nat], failed : BOOLEAN]

Idle == [phase |-> "idle", queue |-> << >>, off |-> OffsetsOf(EmptyPool), at |-> 0,
         ahead |-> [k \in Deferred |-> 0], failed |-> FALSE]

\* OptionsVisitor in a file with options: "option" is the option it sets next (0: it is
\* between two files), "clones" its own references to the pool that is being built: in the
\* message that it decodes the options into, and in the extension that it found last.
Visitor == [option : Nat, clones : SUBSET {"message", "extension"}]
NoVisit == [option |-> 0, clones |-> {}]

TypeOK ==
  /\ arc \in [Handles -> Arcs \cup {NoArc}]
  /\ heap \in [Arcs -> Pool]
  /\ job \in [Handles -> Job]
  /\ visitor \in [Handles -> Visitor]
  /\ rolledBack \in SUBSET Arcs

Holders(a) == { h \in Handles : arc[h] = a }
Free == { a \in Arcs : Holders(a) = {} }
Live(h) == arc[h] # NoArc
Unique(h) == Holders(arc[h]) = {h}
Contents(h) == heap[arc[h]]

\* Files of the pool from before the build have their old index.
AlreadyIn(pool, off, p) == pool.fileNames[p.name] \in 1..off.file

-----------------------------------------------------------------------------
Init ==
  /\ arc = [h \in Handles |-> NoArc]
  /\ heap = [a \in Arcs |-> EmptyPool]
  /\ job = [h \in Handles |-> Idle]
  /\ visitor = [h \in Handles |-> NoVisit]
  /\ rolledBack = {}

\* DescriptorPool::new
New(h) ==
  /\ ~Live(h)
  /\ \E a \in Free : /\ arc' = [arc EXCEPT ![h] = a]
                     /\ heap' = [heap EXCEPT ![a] = EmptyPool]
                     /\ rolledBack' = rolledBack \ {a}
  /\ UNCHANGED <<job, visitor>>

\* Cloning a pool, or taking a descriptor from it.
Clone(g, h) ==
  /\ Live(g) /\ job[g].phase = "idle" /\ ~Live(h)
  /\ arc' = [arc EXCEPT ![h] = arc[g]]
  /\ UNCHANGED <<heap, job, visitor, rolledBack>>

\* The last handle frees the contents.
Release(h) ==
  /\ arc' = [arc EXCEPT ![h] = NoArc]
  /\ heap' = IF Unique(h) THEN [heap EXCEPT ![arc[h]] = EmptyPool] ELSE heap
  /\ rolledBack' = IF Unique(h) THEN rolledBack \ {arc[h]} ELSE rolledBack

Drop(h) ==
  /\ Live(h) /\ job[h].phase = "idle"
  /\ Release(h)
  /\ UNCHANGED <<job, visitor>>

-----------------------------------------------------------------------------
\* Fault: contents that are shared are changed in place.
MakeMutInPlace(h) == UNCHANGED <<arc, heap, rolledBack>>

\* Arc::make_mut: contents that are shared are copied first.
MakeMut(h) ==
  IF Unique(h)
  THEN UNCHANGED <<arc, heap, rolledBack>>
  ELSE \E a \in Free :
         /\ arc' = [arc EXCEPT ![h] = a]
         /\ heap' = [heap EXCEPT ![a] = Contents(h)]
         /\ rolledBack' = IF arc[h] \in rolledBack THEN rolledBack \cup {a}
                          ELSE rolledBack \ {a}

\* build_files, up to the first phase.  A batch of files that are all in the
\* pool returns before anything is touched.
StartBuild(h, batch) ==
  LET off == OffsetsOf(Contents(h))
  IN  /\ Live(h) /\ job[h].phase = "idle"
      /\ \E i \in DOMAIN batch : ~AlreadyIn(Contents(h), off, batch[i])
      /\ MakeMut(h)
      /\ job' = [job EXCEPT ![h] = [phase |-> "declare", queue |-> batch, off |-> off,
                                    at |-> 0, ahead |-> [k \in Deferred |-> off.table[k]],
                                    failed |-> FALSE]]
      /\ UNCHANGED visitor

\* The file at the head of the queue was in the pool before: filtered out.
SkipFile(h) ==
  /\ job[h].phase = "declare" /\ job[h].queue # << >>
  /\ AlreadyIn(Contents(h), job[h].off, Head(job[h].queue))
  /\ job' = [job EXCEPT ![h].queue = Tail(@)]
  /\ UNCHANGED <<arc, heap, visitor, rolledBack>>

\* The index before the next declaration of each kind.
Base(h) == [k \in Kinds |-> IF k \in Deferred THEN job[h].ahead[k]
                            ELSE Len(Contents(h).tables[k])]

DeclareFile(h) ==
  LET p == Head(job[h].queue)
  IN  /\ job[h].phase = "declare" /\ job[h].queue # << >>
      /\ ~AlreadyIn(Contents(h), job[h].off, p)
      /\ p.knownSyntax
      /\ heap' = [heap EXCEPT ![arc[h]] = Declared(@, p, Base(h))]
      /\ job' = [job EXCEPT ![h].queue = Tail(@),
                            ![h].ahead = [k \in Deferred |-> @[k] + Len(p.decls[k])],
                            ![h].failed = @ \/ DeclareFails(Contents(h), p, Base(h))]
      /\ UNCHANGED <<arc, visitor, rolledBack>>

\* The error for an unknown syntax is labelled with the file that declares it,
\* which is not in the table yet: Label::new panics on the index.
UnknownSyntax(h) ==
  LET p == Head(job[h].queue)
  IN  /\ job[h].phase = "declare" /\ job[h].queue # << >>
      /\ ~AlreadyIn(Contents(h), job[h].off, p)
      /\ ~p.knownSyntax
      /\ job' = [job EXCEPT ![h].phase = "panicked"]
      /\ UNCHANGED <<arc, heap, visitor, rolledBack>>

MoreFiles(h) ==
  IF job[h].phase = "declare" THEN job[h].queue # << >>
  ELSE job[h].at <= Len(Contents(h).files)

\* The search for the imports of a file ends.  (If not, the build overflows the
\* stack: there is no further step.)
ImportsEnd(h) == Endless \notin Visible(Contents(h), job[h].at)

ResolveFile(h) ==
  /\ job[h].phase = "resolve" /\ MoreFiles(h)
  /\ ImportsEnd(h)
  /\ heap' = [heap EXCEPT ![arc[h]] = Resolved(@, job[h].at)]
  /\ job' = [job EXCEPT ![h].at = @ + 1,
                        ![h].failed = @ \/ ResolveFails(Contents(h), job[h].at)]
  /\ UNCHANGED <<arc, visitor, rolledBack>>

\* The options of the file that OptionsVisitor visits.
VisitedOptions(h) == Contents(h).files[job[h].at].raw.options

\* resolve_options decodes the options of the file into a message: get_message_by_name
\* clones this pool for it, or the global one where this pool has no FileOptions.
OpenOptions(h) ==
  LET def == Contents(h).names[FileOptions]
  IN  /\ job[h].phase = "options" /\ MoreFiles(h)
      /\ visitor[h].option = 0 /\ VisitedOptions(h) # << >>
      /\ visitor' = [visitor EXCEPT ![h] =
           [option |-> 1,
            clones |-> IF def.kind = "message" /\ ~def.member THEN {"message"} ELSE {}]]
      /\ UNCHANGED <<arc, heap, job, rolledBack>>

\* set_option: find_extension clones this pool for an extension that is visible, also when
\* it turns out to extend another message.  The one of the option before is gone by then.
SetOption(h) ==
  LET i == visitor[h].option
      visible == Visible(Contents(h), job[h].at)
      found == Found(Contents(h), visible, VisitedOptions(h)[i], {"extension"})
  IN  /\ job[h].phase = "options" /\ i # 0 /\ i <= Len(VisitedOptions(h))
      /\ visitor' = [visitor EXCEPT ![h] =
           [option |-> i + 1,
            clones |-> (@.clones \ {"extension"}) \cup IF found THEN {"extension"} ELSE {}]]
      /\ UNCHANGED <<arc, heap, job, rolledBack>>

\* All options of the file are set, or have reported their errors.
OptionsVisited(h) ==
  /\ job[h].phase = "options" /\ MoreFiles(h)
  /\ IF VisitedOptions(h) = << >> THEN visitor[h].option = 0
     ELSE visitor[h].option = Len(VisitedOptions(h)) + 1
  /\ job' = [job EXCEPT ![h].at = @ + 1,
                        ![h].failed = @ \/ OptionsFail(Contents(h), job[h].at)]
  /\ UNCHANGED <<arc, heap, rolledBack>>

\* Fault: the error of the last option keeps the descriptor of the extension.
OptionsFileKeeping(h) ==
  /\ OptionsVisited(h)
  /\ visitor' = [visitor EXCEPT ![h] =
       IF OptionsFail(Contents(h), job[h].at) THEN [@ EXCEPT !.option = 0, !.clones = @ \ {"message"}]
       ELSE NoVisit]

\* The visit of a file ends: what it cloned is dropped.
OptionsFile(h) ==
  /\ OptionsVisited(h)
  /\ visitor' = [visitor EXCEPT ![h] = NoVisit]

NextPhase == [declare |-> "resolve", resolve |-> "options", options |-> "commit"]

\* A phase that reported an error ends the build.
EndPhase(h) ==
  /\ job[h].phase \in DOMAIN NextPhase /\ ~MoreFiles(h) /\ visitor[h].option = 0
  /\ job' = [job EXCEPT ![h].phase = IF job[h].failed THEN "rollback" ELSE NextPhase[@],
                        ![h].at = job[h].off.file + 1]
  /\ UNCHANGED <<arc, heap, visitor, rolledBack>>

\* The reference count of the contents is 1.
Sole(h) == Unique(h) /\ visitor[h].clones = {}

\* Arc::get_mut(..).unwrap(): panics when the contents are shared.
GetMut(h, pool) ==
  IF Sole(h)
  THEN /\ heap' = [heap EXCEPT ![arc[h]] = pool]
       /\ job' = [job EXCEPT ![h] = Idle]
  ELSE /\ job' = [job EXCEPT ![h].phase = "panicked"]
       /\ UNCHANGED heap

Commit(h) ==
  /\ job[h].phase = "commit"
  /\ GetMut(h, Committed(Contents(h), job[h].off))
  /\ UNCHANGED <<arc, visitor, rolledBack>>

Rollback(h) ==
  /\ job[h].phase = "rollback"
  /\ GetMut(h, RolledBack(Contents(h), job[h].off))
  /\ rolledBack' = rolledBack \cup {arc[h]}
  /\ UNCHANGED <<arc, visitor>>

\* Unwinding drops the handle, and what the visitor or an error still held.
Unwind(h) ==
  /\ job[h].phase = "panicked"
  /\ Release(h)
  /\ job' = [job EXCEPT ![h] = Idle]
  /\ visitor' = [visitor EXCEPT ![h] = NoVisit]

Next ==
  \E h \in Handles :
     \/ New(h) \/ Drop(h) \/ \E g \in Handles : Clone(g, h)
     \/ \E batch \in Batches : StartBuild(h, batch)
     \/ SkipFile(h) \/ DeclareFile(h) \/ UnknownSyntax(h)
     \/ ResolveFile(h) \/ OpenOptions(h) \/ SetOption(h) \/ OptionsFile(h) \/ EndPhase(h)
     \/ Commit(h) \/ Rollback(h) \/ Unwind(h)

Spec == Init /\ [][Next]_vars

-----------------------------------------------------------------------------
(* Properties.                                                             *)

\* Contents that a user of some handle can see: no build is changing them.
Settled == { h \in Handles : Live(h) /\ job[h].phase = "idle" }

\* While a build runs, its handle is the only one on the contents: no clone that
\* a program took of the pool, or of a descriptor, sees them half built.
BuildersAreAlone ==
  \A h \in Handles : job[h].phase # "idle" => Live(h) /\ Unique(h)

\* The Arc::get_mut(..).unwrap() calls that write the options, the prost descriptors
\* and the rollback never panic: by then the descriptors that OptionsVisitor cloned
\* the pool for are gone too, also those of options that were refused (the
\* debug_assert_eq!(Arc::strong_count(..), 1) of build_files and resolve_options).
GetMutsSucceed == \A h \in Handles : job[h].phase \in {"commit", "rollback"} => Sole(h)

\* The row a definition stands for, and the name it has there.
DefinitionMatches(pool, n) ==
  LET d == pool.names[n]
  IN  CASE d.kind = "none" -> TRUE
        [] d.kind = "package" -> \E i \in DOMAIN pool.files : n \in pool.files[i].raw.packages
        [] OTHER -> /\ d.index \in DOMAIN pool.tables[d.kind]
                    /\ LET row == pool.tables[d.kind][d.index]
                       IN  /\ row.file = d.file
                           /\ IF d.member THEN n \in row.decl.members ELSE row.decl.name = n

RowIsNamed(pool, k, i) ==
  LET row == pool.tables[k][i]
      here(n, member) == pool.names[n].kind = k /\ pool.names[n].index = i
                         /\ pool.names[n].member = member
  IN  here(row.decl.name, FALSE) /\ \A n \in row.decl.members : here(n, TRUE)

\* The lookup tables of a pool and its tables of files, messages, enums,
\* services and extensions describe each other exactly: every name leads to a
\* row with that name, every row is found under its names, every file under
\* its file name, and every file has its prost form.
NamesMatch(pool) ==
  /\ \A n \in Names : DefinitionMatches(pool, n)
  /\ \A k \in Kinds : \A i \in DOMAIN pool.tables[k] : RowIsNamed(pool, k, i)
  /\ \A i \in DOMAIN pool.files :
        /\ pool.fileNames[pool.files[i].raw.name] = i
        /\ pool.files[i].prost
        /\ \A n \in pool.files[i].raw.packages : pool.names[n].kind = "package"
  /\ \A f \in FileNames : pool.fileNames[f] # 0 =>
        /\ pool.fileNames[f] \in DOMAIN pool.files
        /\ pool.files[pool.fileNames[f]].raw.name = f

\* ... in every pool, also after builds that fail half way through, whose rows
\* and names rollback has to remove one by one.
NamesMatchTables == \A h \in Settled : NamesMatch(Contents(h))

\* MessageDescriptor::extensions lists the extensions of the message, defined
\* anywhere in the pool, and nothing else.
ListsExact(pool) ==
  \A m \in DOMAIN pool.tables["message"] :
     pool.tables["message"][m].extensions =
       { e \in DOMAIN pool.tables["extension"] : pool.tables["extension"][e].extendee = m }

\* ... in every pool whose contents never went through a rollback: across
\* batches, clones and copies, also when the extended message is in a file of
\* an earlier batch.
ListsExactUntilRollback ==
  \A h \in Settled : arc[h] \notin rolledBack => ListsExact(Contents(h))

\* ... in every pool: what the documentation of extensions() says.
ExtensionListsExact == \A h \in Settled : ListsExact(Contents(h))

\* A pool handle that is not building never sees its contents change, whatever
\* other handles on the same contents add, fail to add or drop.
SnapshotsUnchanged ==
  [][\A h \in Settled :
       \/ job'[h].phase # "idle"
       \/ arc'[h] = NoArc
       \/ arc'[h] = arc[h] /\ heap'[arc[h]] = heap[arc[h]]]_vars

-----------------------------------------------------------------------------
(* The promise of PoolRegistry.  A pool being built still counts as what it *)
(* was when the build started.                                             *)

ProtosUpTo(pool, n) == { pool.files[i].raw : i \in 1..n }

Held ==
  [h \in Handles |->
     IF ~Live(h) THEN [live |-> FALSE, protos |-> {}]
     ELSE [live |-> TRUE,
           protos |-> ProtosUpTo(Contents(h),
                        IF job[h].phase = "idle" THEN Len(Contents(h).files)
                        ELSE job[h].off.file)]]

Registry == INSTANCE PoolRegistry WITH held <- Held

\* A build that succeeds adds its whole batch, and only a well-formed batch
\* whatever the order of its files; one that fails leaves the pool's files as
\* they were; other handles are not affected.
ImplementsRegistry == Registry!Spec

\* A batch is refused only when, with the pool, it is not closed under its
\* references: from_file_descriptor_set and the add methods succeed on every
\* set protoc generates.
OnlyInvalidBatchesRefused ==
  \A h \in Handles :
    job[h].phase = "rollback" =>
      LET n == job[h].off.file
          pool == Contents(h)
      IN  ~Registry!WellFormed(ProtosUpTo(pool, n),
             job[h].queue \o [i \in 1..(Len(pool.files) - n) |-> pool.files[n + i].raw])

\* The files that may be added to a pool.
Offered == UNION { { b[i] : i \in DOMAIN b } : b \in Batches }

\* No file offered imports publicly a file that in turn imports one publicly: the condition
\* under which OnlyInvalidBatchesRefused holds, as the code does not follow such a chain.
PublicImportsEnd ==
  \A p, q \in Offered : q.name \in Registry!PublicImports(p) => Registry!PublicImports(q) = {}
=============================================================================
