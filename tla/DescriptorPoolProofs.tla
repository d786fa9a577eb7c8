------------------------ MODULE DescriptorPoolProofs ------------------------
(***************************************************************************)
(* Theorems about DescriptorPool, for every number of handles and every    *)
(* set of batches.  The inductive invariant IInv says, beside the types,   *)
(* that a handle with a build on it shares its contents with no other      *)
(* handle, and that these contents are never shorter than when the build   *)
(* started, which is what rollback relies on.  The lemmas before it say    *)
(* what the functions of PoolTables return: the contents of a pool again,  *)
(* with tables that have grown by the new rows, or are back at the lengths *)
(* of the given offsets.  The second half is about the contents: how far   *)
(* the tables, the names and the files describe each other in the middle   *)
(* of a build, so that they do when it is committed or rolled back.        *)
(***************************************************************************)
EXTENDS DescriptorPool, TLAPS

-----------------------------------------------------------------------------
(* The functions of PoolTables.                                            *)

\* The tables of a pool are at least as long as the offsets say.
Within(off, pool) ==
  /\ off.file <= Len(pool.files)
  /\ \A k \in Kinds : off.table[k] <= Len(pool.tables[k])

\* The pool "next" has at least the rows of the pool "pool".
Grows(pool, next) ==
  /\ Len(pool.files) <= Len(next.files)
  /\ \A k \in Kinds : Len(pool.tables[k]) <= Len(next.tables[k])

LEMMA EmptyPoolTyped == EmptyPool \in Pool
  BY DEF EmptyPool, Pool, NoDef, Definition

LEMMA OffsetsTyped ==
  ASSUME NEW pool \in Pool
  PROVE  OffsetsOf(pool) \in Offsets /\ Within(OffsetsOf(pool), pool)
BY DEF OffsetsOf, Offsets, Within, Pool

LEMMA WithinGrows ==
  ASSUME NEW pool \in Pool, NEW next \in Pool, NEW off \in Offsets,
         Within(off, pool), Grows(pool, next)
  PROVE  Within(off, next)
BY DEF Within, Grows, Offsets, Pool

\* Updates of one part of a row, a file and a pool.
LEMMA EntryListing ==
  ASSUME NEW r \in Entry, NEW list \in SUBSET (Nat \ {0})
  PROVE  [r EXCEPT !.extensions = list] \in Entry
BY DEF Entry

LEMMA FileCompleted ==
  ASSUME NEW f \in FileInner
  PROVE  [f EXCEPT !.prost = TRUE] \in FileInner
BY DEF FileInner

LEMMA PoolTablesUpdate ==
  ASSUME NEW pool \in Pool, NEW t
  PROVE  [pool EXCEPT !.tables = t] =
           [files |-> pool.files, fileNames |-> pool.fileNames, tables |-> t,
            names |-> pool.names]
BY DEF Pool

LEMMA PoolFilesUpdate ==
  ASSUME NEW pool \in Pool, NEW f \in Seq(FileInner)
  PROVE  [pool EXCEPT !.files = f] =
           [files |-> f, fileNames |-> pool.fileNames, tables |-> pool.tables,
            names |-> pool.names]
BY SMTT(60) DEF Pool

\* Every addition of a file is a name and a definition.
LEMMA AdditionsTyped ==
  ASSUME NEW p \in Proto, NEW file \in Nat, NEW base \in [Kinds -> Nat],
         NEW a \in Additions(p, file, base)
  PROVE  a.name \in Names /\ a.def \in Definition
<1> DEFINE def(kind, member, index) ==
             [kind |-> kind, member |-> member, index |-> index, file |-> file]
           of(k, i) == [name : {p.decls[k][i].name}, def : {def(k, FALSE, base[k] + i)}]
                       \cup [name : p.decls[k][i].members, def : {def(k, TRUE, base[k] + i)}]
<1>1. CASE a \in [name : p.packages, def : {def("package", FALSE, 0)}]
  <2>1. a.name \in Names
    BY <1>1 DEF Proto
  <2>2. a.def = def("package", FALSE, 0)
    BY <1>1
  <2>3. def("package", FALSE, 0) \in Definition
    BY DEF Definition
  <2> QED BY <2>1, <2>2, <2>3
<1>2. ASSUME NEW k \in Kinds, NEW i \in DOMAIN p.decls[k], a \in of(k, i)
      PROVE  a.name \in Names /\ a.def \in Definition
  <2>1. p.decls[k] \in Seq(Decl)
    BY DEF Proto
  <2>2. i \in Nat /\ p.decls[k][i] \in Decl
    BY <2>1
  <2>3. base[k] + i \in Nat
    BY <2>2
  <2>4. def(k, FALSE, base[k] + i) \in Definition /\ def(k, TRUE, base[k] + i) \in Definition
    BY <2>3 DEF Definition
  <2>5. p.decls[k][i].name \in Names /\ p.decls[k][i].members \subseteq Names
    BY <2>2 DEF Decl
  <2> HIDE DEF def
  <2> QED BY <1>2, <2>4, <2>5
<1>3. a \in [name : p.packages, def : {def("package", FALSE, 0)}]
            \cup UNION { UNION { of(k, i) : i \in DOMAIN p.decls[k] } : k \in Kinds }
  BY DEF Additions
<1>4. \/ a \in [name : p.packages, def : {def("package", FALSE, 0)}]
      \/ \E k \in Kinds : \E i \in DOMAIN p.decls[k] : a \in of(k, i)
  <2> DEFINE inner(k) == UNION { of(k, i) : i \in DOMAIN p.decls[k] }
  <2> HIDE DEF def, of
  <2>1. ASSUME NEW k \in Kinds, a \in inner(k)
        PROVE  \E i \in DOMAIN p.decls[k] : a \in of(k, i)
    BY <2>1
  <2>2. \/ a \in [name : p.packages, def : {def("package", FALSE, 0)}]
        \/ a \in UNION { inner(k) : k \in Kinds }
    BY <1>3
  <2> HIDE DEF inner
  <2> QED BY <2>1, <2>2
<1> HIDE DEF def, of
<1> QED BY <1>1, <1>2, <1>4

LEMMA WithNamesTyped ==
  ASSUME NEW names \in [Names -> Definition], NEW p \in Proto, NEW file \in Nat,
         NEW base \in [Kinds -> Nat]
  PROVE  WithNames(names, Additions(p, file, base)) \in [Names -> Definition]
<1> DEFINE adds == Additions(p, file, base)
<1>1. ASSUME NEW n \in Names, \E a \in adds : a.name = n
      PROVE  (CHOOSE a \in adds : a.name = n).def \in Definition
  BY <1>1, AdditionsTyped
<1> HIDE DEF adds
<1>2. WithNames(names, adds) \in [Names -> Definition]
  BY <1>1 DEF WithNames
<1> QED BY <1>2 DEF adds

LEMMA RowTyped ==
  ASSUME NEW d \in Decl, NEW file \in Nat, NEW extendee \in Nat
  PROVE  Row(d, file, extendee) \in Entry
BY DEF Row, Entry

\* Declaring a file gives a pool with one more file and at least the old rows.
LEMMA DeclaredTyped ==
  ASSUME NEW pool \in Pool, NEW p \in Proto, NEW base \in [Kinds -> Nat]
  PROVE  Declared(pool, p, base) \in Pool /\ Grows(pool, Declared(pool, p, base))
<1> DEFINE file == Len(pool.files) + 1
           rows(k) == [i \in DOMAIN p.decls[k] |-> Row(p.decls[k][i], file, 0)]
           files == Append(pool.files, [raw |-> p, prost |-> FALSE])
           tables == [k \in Kinds |-> IF k \in Deferred THEN pool.tables[k]
                                      ELSE pool.tables[k] \o rows(k)]
           names == WithNames(pool.names, Additions(p, file, base))
<1>1. /\ pool.files \in Seq(FileInner) /\ pool.fileNames \in [FileNames -> Nat]
      /\ pool.tables \in [Kinds -> Seq(Entry)] /\ pool.names \in [Names -> Definition]
  BY DEF Pool
<1>2. file \in Nat
  BY <1>1
<1>3. files \in Seq(FileInner) /\ Len(pool.files) <= Len(files)
  BY <1>1 DEF FileInner
<1>4. [pool.fileNames EXCEPT ![p.name] = file] \in [FileNames -> Nat]
  BY <1>1, <1>2
<1>5. names \in [Names -> Definition]
  BY <1>1, <1>2, WithNamesTyped
<1>6. ASSUME NEW k \in Kinds
      PROVE  rows(k) \in Seq(Entry)
  <2>1. p.decls[k] \in Seq(Decl)
    BY DEF Proto
  <2>2. \A i \in DOMAIN p.decls[k] : Row(p.decls[k][i], file, 0) \in Entry
    BY <2>1, <1>2, RowTyped
  <2>3. DOMAIN p.decls[k] = 1..Len(p.decls[k]) /\ Len(p.decls[k]) \in Nat
    BY <2>1
  <2> HIDE DEF file
  <2> QED BY <2>2, <2>3
<1>7. ASSUME NEW k \in Kinds
      PROVE  tables[k] \in Seq(Entry) /\ Len(pool.tables[k]) <= Len(tables[k])
  <2> HIDE DEF rows
  <2> QED BY <1>1, <1>6
<1>8. tables \in [Kinds -> Seq(Entry)]
  BY <1>7
<1>9. Declared(pool, p, base) =
        [files |-> files, fileNames |-> [pool.fileNames EXCEPT ![p.name] = file],
         tables |-> tables, names |-> names]
  BY DEF Declared
<1> HIDE DEF file, files, tables, names
<1> QED BY <1>3, <1>4, <1>5, <1>7, <1>8, <1>9 DEF Pool, Grows

\* Resolving a file gives a pool with at least the old rows.
LEMMA ResolvedTyped ==
  ASSUME NEW pool \in Pool, NEW f \in DOMAIN pool.files
  PROVE  Resolved(pool, f) \in Pool /\ Grows(pool, Resolved(pool, f))
<1> DEFINE exts == pool.files[f].raw.decls["extension"]
           services == pool.files[f].raw.decls["service"]
           base == Len(pool.tables["extension"])
           to(i) == Extendee(pool, Visible(pool, f), exts[i])
           pushed(m) == { base + i : i \in { j \in DOMAIN exts : to(j) = m } }
           old == pool.tables
           new == [k \in Kinds |->
                     CASE k = "message" -> [m \in DOMAIN old[k] |->
                                              [old[k][m] EXCEPT !.extensions = @ \cup pushed(m)]]
                       [] k = "extension" -> old[k] \o [i \in DOMAIN exts |-> Row(exts[i], f, to(i))]
                       [] k = "service" -> old[k] \o [i \in DOMAIN services |-> Row(services[i], f, 0)]
                       [] OTHER -> old[k]]
<1>1. /\ pool.files \in Seq(FileInner) /\ pool.tables \in [Kinds -> Seq(Entry)]
      /\ pool.names \in [Names -> Definition]
  BY DEF Pool
<1>2. f \in Nat /\ exts \in Seq(Decl) /\ services \in Seq(Decl) /\ base \in Nat
  <2>1. f \in Nat /\ pool.files[f] \in FileInner
    BY <1>1
  <2>2. pool.files[f].raw \in Proto
    BY <2>1 DEF FileInner
  <2>3. "extension" \in Kinds /\ "service" \in Kinds
    BY DEF Kinds
  <2>4. exts \in Seq(Decl) /\ services \in Seq(Decl)
    BY <2>2, <2>3 DEF Proto
  <2> QED BY <1>1, <2>1, <2>3, <2>4
<1>3. DOMAIN exts = 1..Len(exts) /\ Len(exts) \in Nat /\ \A i \in DOMAIN exts : exts[i] \in Decl
  BY SMTT(60), <1>2
<1>4. ASSUME NEW i \in DOMAIN exts
      PROVE  to(i) \in Nat
  <2>1. exts[i].extendee \in Names
    BY SMTT(60), <1>3 DEF Decl
  <2>2. pool.names[exts[i].extendee].index \in Nat
    BY <2>1, <1>1 DEF Definition
  <2> QED BY <2>2 DEF Extendee
<1>5. ASSUME NEW i \in DOMAIN exts
      PROVE  Row(exts[i], f, to(i)) \in Entry
  <2> HIDE DEF exts, to
  <2> QED BY <1>2, <1>3, <1>4, RowTyped
<1>a. services \in Seq(Decl) /\ DOMAIN services = 1..Len(services) /\ Len(services) \in Nat
  BY <1>2
<1>b. ASSUME NEW i \in DOMAIN services
      PROVE  Row(services[i], f, 0) \in Entry
  <2> HIDE DEF services
  <2>1. services[i] \in Decl
    BY <1>a
  <2> QED BY <1>2, <2>1, RowTyped
<1> HIDE DEF exts, services, base, to
<1>6. \A m : pushed(m) \subseteq Nat \ {0}
  BY <1>2, <1>3
<1> HIDE DEF pushed
<1>7. ASSUME NEW m \in DOMAIN old["message"]
      PROVE  [old["message"][m] EXCEPT !.extensions = @ \cup pushed(m)] \in Entry
  <2>1. pool.tables["message"] \in Seq(Entry)
    BY <1>1 DEF Kinds
  <2>2. pool.tables["message"][m] \in Entry
    BY <2>1
  <2>3. pool.tables["message"][m].extensions \cup pushed(m) \in SUBSET (Nat \ {0})
    BY <2>2, <1>6 DEF Entry
  <2> QED BY <2>2, <2>3, EntryListing
<1>8. ASSUME NEW k \in Kinds
      PROVE  new[k] \in Seq(Entry) /\ Len(old[k]) <= Len(new[k])
  <2>1. old[k] \in Seq(Entry) /\ DOMAIN old[k] = 1..Len(old[k]) /\ Len(old[k]) \in Nat
    BY <1>1
  <2>2. CASE k = "message"
    <3>1. new[k] = [m \in DOMAIN old[k] |-> [old[k][m] EXCEPT !.extensions = @ \cup pushed(m)]]
      BY <2>2
    <3> DEFINE listed(m) == [old["message"][m] EXCEPT !.extensions = @ \cup pushed(m)]
    <3>2. new[k] = [m \in 1..Len(old[k]) |-> listed(m)]
      BY <2>1, <2>2, <3>1
    <3>3. \A m \in 1..Len(old[k]) : listed(m) \in Entry
      BY <1>7, <2>1, <2>2
    <3> HIDE DEF listed, new
    <3> QED BY <2>1, <3>2, <3>3
  <2>3. CASE k = "extension"
    <3> DEFINE rows == [i \in DOMAIN exts |-> Row(exts[i], f, to(i))]
    <3>1. new[k] = old[k] \o rows
      BY <2>3
    <3>2. rows \in Seq(Entry)
      BY <1>3, <1>5
    <3> HIDE DEF rows, new
    <3> QED BY <2>1, <3>1, <3>2
  <2>4. CASE k = "service"
    <3> DEFINE rows == [i \in DOMAIN services |-> Row(services[i], f, 0)]
    <3>1. new[k] = old[k] \o rows
      BY <2>4
    <3>2. rows \in Seq(Entry)
      BY <1>a, <1>b
    <3> HIDE DEF rows, new
    <3> QED BY <2>1, <3>1, <3>2
  <2>5. CASE k \notin {"message", "extension", "service"}
    BY <2>1, <2>5
  <2> QED BY <2>2, <2>3, <2>4, <2>5
<1>9. Resolved(pool, f) = [pool EXCEPT !.tables = new]
  BY DEF Resolved, PushedFrom, exts, services, base, to, pushed
<1>10. new \in [Kinds -> Seq(Entry)]
  BY <1>8
<1> HIDE DEF new
<1>11. Resolved(pool, f) = [files |-> pool.files, fileNames |-> pool.fileNames,
                            tables |-> new, names |-> pool.names]
  BY <1>9, PoolTablesUpdate
<1> QED BY <1>1, <1>8, <1>10, <1>11 DEF Pool, Grows

\* Undoing a build gives a pool again, with the tables as long as they were.
LEMMA RolledBackTyped ==
  ASSUME NEW pool \in Pool, NEW off \in Offsets, Within(off, pool)
  PROVE  RolledBack(pool, off) \in Pool /\ OffsetsOf(RolledBack(pool, off)) = off
<1> DEFINE keep(t, k) == SubSeq(t, 1, off.table[k])
           files == SubSeq(pool.files, 1, off.file)
           fileNames == [g \in FileNames |-> IF pool.fileNames[g] <= off.file
                                             THEN pool.fileNames[g] ELSE 0]
           row(m) == [pool.tables["message"][m] EXCEPT !.extensions =
                        { e \in @ : e <= off.table["message"] }]
           tables == [k \in Kinds |-> IF k = "message" THEN [m \in 1..off.table[k] |-> row(m)]
                                      ELSE keep(pool.tables[k], k)]
           back == RolledBack(pool, off)
<1>1. /\ pool.files \in Seq(FileInner) /\ pool.fileNames \in [FileNames -> Nat]
      /\ pool.tables \in [Kinds -> Seq(Entry)] /\ pool.names \in [Names -> Definition]
      /\ off.file \in 0..Len(pool.files)
      /\ \A k \in Kinds : off.table[k] \in 0..Len(pool.tables[k])
  BY DEF Pool, Offsets, Within
<1>2. files \in Seq(FileInner) /\ Len(files) = off.file
  BY <1>1
<1>3. fileNames \in [FileNames -> Nat]
  BY <1>1
<1>4. ASSUME NEW m \in 1..off.table["message"]
      PROVE  row(m) \in Entry
  <2>1. pool.tables["message"] \in Seq(Entry) /\ m \in 1..Len(pool.tables["message"])
    BY <1>1 DEF Kinds
  <2>2. pool.tables["message"][m] \in Entry
    BY <2>1
  <2>3. { e \in pool.tables["message"][m].extensions : e <= off.table["message"] }
          \in SUBSET (Nat \ {0})
    BY <2>2 DEF Entry
  <2> QED BY <2>2, <2>3, EntryListing
<1>5. ASSUME NEW k \in Kinds
      PROVE  tables[k] \in Seq(Entry) /\ Len(tables[k]) = off.table[k]
  <2> HIDE DEF row
  <2>1. CASE k = "message"
    <3>1. tables[k] = [m \in 1..off.table[k] |-> row(m)] /\ off.table[k] \in Nat
      BY <1>1, <2>1
    <3> QED BY <1>4, <2>1, <3>1
  <2>2. CASE k # "message"
    BY <1>1, <2>2
  <2> QED BY <2>1, <2>2
<1>6. tables \in [Kinds -> Seq(Entry)]
  BY SMTT(60), <1>5
<1>7. /\ back.files = files /\ back.fileNames = fileNames /\ back.tables = tables
      /\ back = [files |-> back.files, fileNames |-> back.fileNames,
                 tables |-> back.tables, names |-> back.names]
      /\ back.names = [n \in Names |-> back.names[n]]
      /\ \A n \in Names : back.names[n] \in {pool.names[n], NoDef}
  BY DEF RolledBack
<1>8. NoDef \in Definition
  BY DEF NoDef, Definition
<1>9. back.names \in [Names -> Definition]
  BY <1>1, <1>7, <1>8
<1>10. OffsetsOf(back) = [file |-> off.file, table |-> [k \in Kinds |-> off.table[k]]]
  <2> HIDE DEF tables, files, fileNames, back
  <2> QED BY <1>2, <1>5, <1>7 DEF OffsetsOf
<1>11. off = [file |-> off.file, table |-> [k \in Kinds |-> off.table[k]]]
  BY DEF Offsets
<1> HIDE DEF tables, files, fileNames, back
<1> QED BY <1>2, <1>3, <1>6, <1>7, <1>9, <1>10, <1>11 DEF back, Pool

\* Completing a build gives a pool with the same rows.
LEMMA CommittedTyped ==
  ASSUME NEW pool \in Pool, NEW off
  PROVE  Committed(pool, off) \in Pool
<1> DEFINE files == [i \in DOMAIN pool.files |-> IF i > off.file
                       THEN [pool.files[i] EXCEPT !.prost = TRUE] ELSE pool.files[i]]
<1>1. pool.files \in Seq(FileInner)
  BY DEF Pool
<1>2. \A i \in DOMAIN pool.files : files[i] \in FileInner
  BY <1>1, FileCompleted
<1>3. files \in Seq(FileInner)
  <2> DEFINE g(i) == IF i > off.file THEN [pool.files[i] EXCEPT !.prost = TRUE]
                     ELSE pool.files[i]
  <2>a. DOMAIN pool.files = 1..Len(pool.files) /\ Len(pool.files) \in Nat
    BY <1>1
  <2>1. files = [i \in 1..Len(pool.files) |-> g(i)]
    BY <2>a
  <2>2. \A i \in 1..Len(pool.files) : g(i) \in FileInner
    BY <2>a, <1>2
  <2> HIDE DEF g, files
  <2> QED BY <2>a, <2>1, <2>2
<1>4. Committed(pool, off) = [pool EXCEPT !.files = files]
  BY DEF Committed
<1> HIDE DEF files
<1>5. Committed(pool, off) = [files |-> files, fileNames |-> pool.fileNames,
                             tables |-> pool.tables, names |-> pool.names]
  BY <1>3, <1>4, PoolFilesUpdate
<1> QED BY <1>3, <1>5 DEF Pool

-----------------------------------------------------------------------------
(* The inductive invariant.                                                *)

\* The contents under construction are at least what the build started from.
BuildsGrow == \A h \in Handles : job[h].phase # "idle" => Within(job[h].off, Contents(h))

\* The later phases visit files from the first on.
VisitsFiles == \A h \in Handles : job[h].phase \in {"resolve", "options"} => job[h].at # 0

\* The types of what a build and its handle consist of.
Typed ==
  /\ arc \in [Handles -> Arcs \cup {NoArc}]
  /\ heap \in [Arcs -> Pool]
  /\ job \in [Handles -> Job]
  /\ rolledBack \in SUBSET Arcs

IInv == Typed /\ BuildersAreAlone /\ BuildsGrow /\ VisitsFiles

\* OptionsVisitor has clones of the pool only in a file, and is in one only in its phase.
VisitsClosed ==
  /\ visitor \in [Handles -> Visitor]
  /\ \A h \in Handles :
       /\ visitor[h].option = 0 => visitor[h].clones = {}
       /\ visitor[h].option # 0 => job[h].phase = "options"

SafeInv == IInv /\ VisitsClosed

\* What SnapshotsUnchanged says of a step.
SnapshotsKept ==
  \A h \in Settled :
     \/ job'[h].phase # "idle"
     \/ arc'[h] = NoArc
     \/ arc'[h] = arc[h] /\ heap'[arc[h]] = heap[arc[h]]

LEMMA AloneMeans ==
  BuildersAreAlone <=>
    \A h \in Handles : job[h].phase # "idle" =>
       arc[h] # NoArc /\ \A g \in Handles : arc[g] = arc[h] => g = h
BY DEF BuildersAreAlone, Unique, Holders, Live

LEMMA AloneMeansNext ==
  BuildersAreAlone' <=>
    \A h \in Handles : job'[h].phase # "idle" =>
       arc'[h] # NoArc /\ \A g \in Handles : arc'[g] = arc'[h] => g = h
BY DEF BuildersAreAlone, Unique, Holders, Live

LEMMA IdleTyped == Idle \in Job /\ Idle.phase = "idle"
  BY EmptyPoolTyped, OffsetsTyped DEF Idle, Job, Phases

LEMMA IInvInit == Init => IInv
BY EmptyPoolTyped, IdleTyped, AloneMeans
DEF Init, IInv, Typed, BuildsGrow, VisitsFiles

-----------------------------------------------------------------------------
(* Steps of a build, which change the contents of its own handle only.     *)

LEMMA BuildStep ==
  ASSUME IInv, NEW h \in Handles, job[h].phase # "idle",
         NEW pool \in Pool, NEW j \in Job,
         arc' = arc, heap' = [heap EXCEPT ![arc[h]] = pool],
         job' = [job EXCEPT ![h] = j], rolledBack' \in SUBSET Arcs,
         j.phase # "idle" => Within(j.off, pool),
         j.phase \in {"resolve", "options"} => j.at # 0
  PROVE  IInv' /\ SnapshotsKept
<1>1. /\ arc[h] \in Arcs
      /\ \A g \in Handles : arc[g] = arc[h] => g = h
  BY AloneMeans DEF IInv, Typed
<1>2. Typed'
  BY DEF IInv, Typed
<1>3. BuildersAreAlone'
  BY AloneMeans, AloneMeansNext DEF IInv, Typed
<1>4. BuildsGrow'
  <2> SUFFICES ASSUME NEW g \in Handles, job'[g].phase # "idle"
               PROVE  Within(job'[g].off, heap'[arc'[g]])
    BY DEF BuildsGrow, Contents
  <2>1. CASE g = h
    BY <1>1, <2>1 DEF IInv, Typed
  <2>2. CASE g # h
    <3>1. arc[g] # arc[h] /\ job'[g] = job[g]
      BY <1>1, <2>2 DEF IInv, Typed
    <3>2. heap'[arc'[g]] = heap[arc[g]]
      BY <3>1 DEF IInv, Typed
    <3> QED BY <3>1, <3>2 DEF IInv, BuildsGrow, Contents
  <2> QED BY <2>1, <2>2
<1>5. VisitsFiles'
  BY DEF IInv, Typed, VisitsFiles
<1>6. SnapshotsKept
  BY <1>1 DEF SnapshotsKept, Settled, IInv, Typed
<1> QED BY <1>2, <1>3, <1>4, <1>5, <1>6 DEF IInv

\* Steps of a build that leave the contents alone.
LEMMA QuietStep ==
  ASSUME IInv, NEW h \in Handles, job[h].phase # "idle", NEW j \in Job,
         UNCHANGED <<arc, heap, rolledBack>>,
         job' = [job EXCEPT ![h] = j],
         j.off = job[h].off,
         j.phase \in {"resolve", "options"} => j.at # 0
  PROVE  IInv' /\ SnapshotsKept
<1>1. arc[h] \in Arcs
  BY AloneMeans DEF IInv, Typed
<1>2. Contents(h) \in Pool /\ heap' = [heap EXCEPT ![arc[h]] = Contents(h)]
  BY <1>1 DEF IInv, Typed, Contents
<1>3. Within(j.off, Contents(h))
  BY DEF IInv, BuildsGrow
<1>4. rolledBack' \in SUBSET Arcs
  BY DEF IInv, Typed
<1> QED BY <1>2, <1>3, <1>4, BuildStep

LEMMA SkipFileStep ==
  ASSUME IInv, NEW h \in Handles, SkipFile(h)
  PROVE  IInv' /\ SnapshotsKept
<1> DEFINE q == Tail(job[h].queue)
           j == [job[h] EXCEPT !.queue = q]
<1>1. job[h] \in Job
  BY DEF IInv, Typed
<1>2. job[h].phase = "declare" /\ job[h].queue # << >> /\ UNCHANGED <<arc, heap, rolledBack>>
  BY DEF SkipFile
<1>3. job' = [job EXCEPT ![h] = j]
  BY DEF SkipFile
<1>4. j \in Job /\ j.off = job[h].off /\ j.phase = "declare"
  <2>1. q \in Seq(Proto)
    BY <1>1, <1>2 DEF Job
  <2> HIDE DEF q
  <2> QED BY SMTT(60), <1>1, <1>2, <2>1 DEF Job
<1> HIDE DEF j
<1>5. job[h].phase # "idle" /\ (j.phase \in {"resolve", "options"} => j.at # 0)
  BY <1>2, <1>4
<1> QED BY ZenonT(60), <1>2, <1>3, <1>4, <1>5, QuietStep

LEMMA UnknownSyntaxStep ==
  ASSUME IInv, NEW h \in Handles, UnknownSyntax(h)
  PROVE  IInv' /\ SnapshotsKept
<1> DEFINE j == [job[h] EXCEPT !.phase = "panicked"]
<1>1. job[h] \in Job
  BY DEF IInv, Typed
<1>2. job[h].phase = "declare" /\ UNCHANGED <<arc, heap, rolledBack>>
  BY DEF UnknownSyntax
<1>3. job' = [job EXCEPT ![h] = j]
  BY DEF UnknownSyntax
<1>4. j \in Job /\ j.off = job[h].off /\ j.phase = "panicked"
  BY <1>1 DEF Job, Phases
<1> HIDE DEF j
<1> QED BY <1>2, <1>3, <1>4, QuietStep

LEMMA OptionsFileStep ==
  ASSUME IInv, NEW h \in Handles, OptionsFile(h)
  PROVE  IInv' /\ SnapshotsKept
<1> DEFINE n == job[h].at + 1
           b == job[h].failed \/ OptionsFail(Contents(h), job[h].at)
           j == [job[h] EXCEPT !.at = n, !.failed = b]
<1>1. job[h] \in Job
  BY DEF IInv, Typed
<1>2. job[h].phase = "options" /\ UNCHANGED <<arc, heap, rolledBack>>
  BY DEF OptionsFile, OptionsVisited
<1>3. job' = [job EXCEPT ![h] = j]
  BY DEF OptionsFile, OptionsVisited
<1>a. b \in BOOLEAN
  OBVIOUS
<1>4. j \in Job /\ j.off = job[h].off /\ j.at # 0
  <2>1. n \in Nat \ {0}
    BY <1>1 DEF Job
  <2>2. j = [job[h] EXCEPT !.at = n, !.failed = b]
    OBVIOUS
  <2> HIDE DEF n, b, j
  <2> QED BY <1>1, <1>a, <2>1, <2>2 DEF Job
<1> HIDE DEF j
<1> QED BY <1>2, <1>3, <1>4, QuietStep

LEMMA EndPhaseStep ==
  ASSUME IInv, NEW h \in Handles, EndPhase(h)
  PROVE  IInv' /\ SnapshotsKept
<1> DEFINE j == [job[h] EXCEPT !.phase = IF job[h].failed THEN "rollback" ELSE NextPhase[@],
                               !.at = job[h].off.file + 1]
<1>1. job[h] \in Job
  BY DEF IInv, Typed
<1>2. job[h].phase \in {"declare", "resolve", "options"} /\ UNCHANGED <<arc, heap, rolledBack>>
  BY DEF EndPhase, NextPhase
<1>3. job' = [job EXCEPT ![h] = j]
  BY DEF EndPhase
<1>4. job[h].off.file + 1 \in Nat \ {0}
  BY <1>1 DEF Job, Offsets
<1>5. (IF job[h].failed THEN "rollback" ELSE NextPhase[job[h].phase]) \in Phases
  BY <1>2 DEF NextPhase, Phases
<1>6. j \in Job /\ j.off = job[h].off /\ j.at # 0
  BY <1>1, <1>4, <1>5 DEF Job
<1> HIDE DEF j
<1> QED BY <1>2, <1>3, <1>6, QuietStep

LEMMA DeclareFileStep ==
  ASSUME IInv, NEW h \in Handles, DeclareFile(h)
  PROVE  IInv' /\ SnapshotsKept
<1> DEFINE p == Head(job[h].queue)
           pool == Declared(Contents(h), p, Base(h))
           q == Tail(job[h].queue)
           n == [k \in Deferred |-> job[h].ahead[k] + Len(p.decls[k])]
           b == job[h].failed \/ DeclareFails(Contents(h), p, Base(h))
           j == [job[h] EXCEPT !.queue = q, !.ahead = n, !.failed = b]
<1>1. /\ job[h] \in Job /\ job[h].phase = "declare" /\ job[h].queue # << >>
      /\ arc' = arc /\ rolledBack' = rolledBack /\ rolledBack \in SUBSET Arcs
      /\ heap' = [heap EXCEPT ![arc[h]] = Declared(@, p, Base(h))]
      /\ job' = [job EXCEPT ![h] = j]
  BY DEF DeclareFile, IInv, Typed
<1>2. arc[h] \in Arcs /\ Contents(h) \in Pool
  BY <1>1, AloneMeans DEF IInv, Typed, Contents
<1>3. heap' = [heap EXCEPT ![arc[h]] = pool]
  BY <1>1, <1>2 DEF Contents, IInv, Typed
<1>4. p \in Proto /\ q \in Seq(Proto)
  BY <1>1 DEF Job
<1>5. Base(h) \in [Kinds -> Nat]
  BY <1>1, <1>2 DEF Base, Job, Pool
<1>6. pool \in Pool /\ Grows(Contents(h), pool)
  BY <1>2, <1>4, <1>5, DeclaredTyped
<1>7. Within(job[h].off, pool)
  BY <1>1, <1>2, <1>6, WithinGrows DEF IInv, BuildsGrow, Job
<1>8. \A k \in Deferred : Len(p.decls[k]) \in Nat
  <2>1. Deferred \subseteq Kinds
    BY DEF Deferred, Kinds
  <2> HIDE DEF p
  <2>2. \A k \in Kinds : p.decls[k] \in Seq(Decl)
    BY <1>4 DEF Proto
  <2> QED BY <2>1, <2>2
<1>a. b \in BOOLEAN
  OBVIOUS
<1>9. j \in Job /\ j.off = job[h].off /\ j.phase = "declare"
  <2>1. n \in [Deferred -> Nat]
    BY <1>1, <1>8 DEF Job
  <2> HIDE DEF p, q, n, b
  <2>2. job[h] \in Job /\ q \in Seq(Proto) /\ b \in BOOLEAN /\ job[h].phase = "declare"
    BY <1>1, <1>4, <1>a
  <2>3. j = [job[h] EXCEPT !.queue = q, !.ahead = n, !.failed = b]
    OBVIOUS
  <2> HIDE DEF j
  <2>4. j \in Job /\ j.off = job[h].off /\ j.phase = job[h].phase
    BY <2>1, <2>2, <2>3 DEF Job
  <2> QED BY <2>2, <2>4
<1> HIDE DEF j, pool, p
<1> QED BY <1>1, <1>3, <1>6, <1>7, <1>9, BuildStep

LEMMA ResolveFileStep ==
  ASSUME IInv, NEW h \in Handles, ResolveFile(h)
  PROVE  IInv' /\ SnapshotsKept
<1> DEFINE pool == Resolved(Contents(h), job[h].at)
           n == job[h].at + 1
           b == job[h].failed \/ ResolveFails(Contents(h), job[h].at)
           j == [job[h] EXCEPT !.at = n, !.failed = b]
<1>1. /\ job[h] \in Job /\ job[h].phase = "resolve" /\ job[h].at <= Len(Contents(h).files)
      /\ arc' = arc /\ rolledBack' = rolledBack /\ rolledBack \in SUBSET Arcs
      /\ heap' = [heap EXCEPT ![arc[h]] = Resolved(@, job[h].at)]
      /\ job' = [job EXCEPT ![h] = j]
  BY DEF ResolveFile, MoreFiles, IInv, Typed
<1>2. arc[h] \in Arcs /\ Contents(h) \in Pool
  BY <1>1, AloneMeans DEF IInv, Typed, Contents
<1>3. heap' = [heap EXCEPT ![arc[h]] = pool]
  BY <1>1, <1>2 DEF Contents, IInv, Typed
<1>4. job[h].at \in DOMAIN Contents(h).files
  <2>1. Contents(h).files \in Seq(FileInner)
    BY <1>2 DEF Pool
  <2>2. job[h].at \in Nat \ {0}
    BY <1>1 DEF IInv, VisitsFiles, Job
  <2> QED BY <1>1, <2>1, <2>2
<1>5. pool \in Pool /\ Grows(Contents(h), pool)
  BY <1>2, <1>4, ResolvedTyped
<1>6. Within(job[h].off, pool)
  BY <1>1, <1>2, <1>5, WithinGrows DEF IInv, BuildsGrow, Job
<1>a. b \in BOOLEAN
  OBVIOUS
<1>7. j \in Job /\ j.off = job[h].off /\ j.at # 0 /\ j.phase = "resolve"
  <2>1. n \in Nat \ {0}
    BY <1>1 DEF Job
  <2>2. j = [job[h] EXCEPT !.at = n, !.failed = b]
    OBVIOUS
  <2> HIDE DEF n, b, j
  <2> QED BY <1>1, <1>a, <2>1, <2>2 DEF Job
<1> HIDE DEF j, pool
<1> QED BY <1>1, <1>3, <1>5, <1>6, <1>7, BuildStep

\* Arc::get_mut of a build's contents succeeds, since the build is alone and no visit of
\* options is open.
LEMMA SoleWhenClosed ==
  ASSUME IInv, VisitsClosed, NEW h \in Handles, job[h].phase \in {"commit", "rollback"}
  PROVE  Sole(h)
<1>1. Unique(h)
  BY DEF IInv, BuildersAreAlone
<1>2. visitor[h].clones = {}
  BY DEF VisitsClosed
<1> QED BY <1>1, <1>2 DEF Sole

LEMMA GetMutStep ==
  ASSUME IInv, VisitsClosed, NEW h \in Handles, job[h].phase \in {"commit", "rollback"},
         NEW pool \in Pool, GetMut(h, pool), arc' = arc, rolledBack' \in SUBSET Arcs
  PROVE  IInv' /\ SnapshotsKept
<1>1. Sole(h)
  BY SoleWhenClosed
<1>2. heap' = [heap EXCEPT ![arc[h]] = pool] /\ job' = [job EXCEPT ![h] = Idle]
  BY <1>1 DEF GetMut
<1> QED BY <1>2, IdleTyped, BuildStep

LEMMA CommitStep ==
  ASSUME IInv, VisitsClosed, NEW h \in Handles, Commit(h)
  PROVE  IInv' /\ SnapshotsKept
<1>1. /\ job[h].phase = "commit" /\ GetMut(h, Committed(Contents(h), job[h].off))
      /\ arc' = arc /\ rolledBack' \in SUBSET Arcs
  BY DEF Commit, IInv, Typed
<1>2. arc[h] \in Arcs /\ Contents(h) \in Pool
  BY <1>1, AloneMeans DEF IInv, Typed, Contents
<1> QED BY <1>1, <1>2, CommittedTyped, GetMutStep

LEMMA RollbackStep ==
  ASSUME IInv, VisitsClosed, NEW h \in Handles, Rollback(h)
  PROVE  IInv' /\ SnapshotsKept
<1>1. /\ job[h].phase = "rollback" /\ GetMut(h, RolledBack(Contents(h), job[h].off))
      /\ arc' = arc /\ rolledBack' = rolledBack \cup {arc[h]}
  BY DEF Rollback
<1>2. arc[h] \in Arcs /\ Contents(h) \in Pool
  BY <1>1, AloneMeans DEF IInv, Typed, Contents
<1>3. job[h].off \in Offsets /\ Within(job[h].off, Contents(h))
  BY <1>1 DEF IInv, Typed, BuildsGrow, Job
<1>4. rolledBack' \in SUBSET Arcs
  BY <1>1, <1>2 DEF IInv, Typed
<1> QED BY <1>1, <1>2, <1>3, <1>4, RolledBackTyped, GetMutStep

-----------------------------------------------------------------------------
(* Steps that create, share, copy and free contents.                       *)

LEMMA NewStep ==
  ASSUME IInv, NEW h \in Handles, New(h)
  PROVE  IInv' /\ SnapshotsKept
<1>1. PICK a \in Free : /\ arc' = [arc EXCEPT ![h] = a]
                        /\ heap' = [heap EXCEPT ![a] = EmptyPool]
                        /\ rolledBack' = rolledBack \ {a}
  BY DEF New
<1>2. /\ arc[h] = NoArc /\ job' = job /\ a \in Arcs
      /\ \A g \in Handles : arc[g] # a
  BY DEF New, Live, Free, Holders
<1>3. Typed'
  BY <1>1, <1>2, EmptyPoolTyped DEF IInv, Typed
<1>4. BuildersAreAlone'
  BY <1>1, <1>2, AloneMeans, AloneMeansNext, ArcsAssumption DEF IInv, Typed
<1>5. ASSUME NEW g \in Handles, job[g].phase # "idle"
      PROVE  arc'[g] = arc[g] /\ heap'[arc[g]] = heap[arc[g]]
  <2>1. g # h
    BY <1>2, <1>5, AloneMeans DEF IInv
  <2>2. arc[g] # a /\ arc[g] \in Arcs
    BY <1>2, <1>5, AloneMeans DEF IInv, Typed
  <2> QED BY <1>1, <2>1, <2>2 DEF IInv, Typed
<1>6. BuildsGrow'
  BY <1>2, <1>5 DEF IInv, BuildsGrow, Contents
<1>7. VisitsFiles'
  BY <1>2 DEF IInv, VisitsFiles
<1>8. SnapshotsKept
  <2> SUFFICES ASSUME NEW g \in Handles, arc[g] # NoArc
               PROVE  arc'[g] = arc[g] /\ heap'[arc[g]] = heap[arc[g]]
    BY DEF SnapshotsKept, Settled, Live
  <2>1. g # h /\ arc[g] # a /\ arc[g] \in Arcs
    BY <1>2 DEF IInv, Typed
  <2> QED BY <1>1, <2>1 DEF IInv, Typed
<1> QED BY <1>3, <1>4, <1>6, <1>7, <1>8 DEF IInv

LEMMA CloneStep ==
  ASSUME IInv, NEW g \in Handles, NEW h \in Handles, Clone(g, h)
  PROVE  IInv' /\ SnapshotsKept
<1>1. /\ arc[g] # NoArc /\ job[g].phase = "idle" /\ arc[h] = NoArc
      /\ arc' = [arc EXCEPT ![h] = arc[g]]
      /\ heap' = heap /\ job' = job /\ rolledBack' = rolledBack
  BY DEF Clone, Live
<1>2. Typed'
  BY <1>1 DEF IInv, Typed
<1>3. BuildersAreAlone'
  BY <1>1, AloneMeans, AloneMeansNext DEF IInv, Typed
<1>4. \A b \in Handles : job[b].phase # "idle" => b # h
  BY <1>1, AloneMeans DEF IInv
<1>5. BuildsGrow'
  BY <1>1, <1>4 DEF IInv, Typed, BuildsGrow, Contents
<1>6. VisitsFiles'
  BY <1>1 DEF IInv, VisitsFiles
<1>7. SnapshotsKept
  BY <1>1 DEF SnapshotsKept, Settled, Live, IInv, Typed
<1> QED BY <1>2, <1>3, <1>5, <1>6, <1>7 DEF IInv

\* Freeing a handle takes nothing from the other handles.
LEMMA ReleaseStep ==
  ASSUME IInv, NEW h \in Handles, arc[h] # NoArc, Release(h),
         job' = job \/ job' = [job EXCEPT ![h] = Idle], job'[h].phase = "idle"
  PROVE  IInv' /\ SnapshotsKept
<1>1. /\ arc' = [arc EXCEPT ![h] = NoArc]
      /\ heap' = [heap EXCEPT ![arc[h]] = EmptyPool] \/ heap' = heap
      /\ rolledBack' \subseteq rolledBack
      /\ heap' # heap => \A g \in Handles : arc[g] = arc[h] => g = h
  BY DEF Release, Unique, Holders
<1>2. /\ arc[h] \in Arcs
      /\ \A g \in Handles : g # h => arc'[g] = arc[g] /\ job'[g] = job[g]
      /\ \A g \in Handles : g # h /\ arc[g] \in Arcs => heap'[arc[g]] = heap[arc[g]]
  BY <1>1 DEF IInv, Typed
<1>3. Typed'
  BY <1>1, <1>2, EmptyPoolTyped, IdleTyped DEF IInv, Typed
<1>4. BuildersAreAlone'
  BY <1>1, <1>2, AloneMeans, AloneMeansNext DEF IInv, Typed
<1>5. BuildsGrow'
  <2> SUFFICES ASSUME NEW g \in Handles, job'[g].phase # "idle"
               PROVE  Within(job'[g].off, heap'[arc'[g]])
    BY DEF BuildsGrow, Contents
  <2>1. g # h /\ job[g].phase # "idle"
    BY <1>2
  <2>2. arc[g] \in Arcs
    BY <2>1, AloneMeans DEF IInv, Typed
  <2> QED BY <1>2, <2>1, <2>2 DEF IInv, BuildsGrow, Contents
<1>6. VisitsFiles'
  BY <1>2 DEF IInv, VisitsFiles
<1>7. SnapshotsKept
  <2> SUFFICES ASSUME NEW g \in Handles, arc[g] # NoArc, g # h
               PROVE  arc'[g] = arc[g] /\ heap'[arc[g]] = heap[arc[g]]
    BY <1>1 DEF SnapshotsKept, Settled, Live, IInv, Typed
  <2> QED BY <1>2 DEF IInv, Typed
<1> QED BY <1>3, <1>4, <1>5, <1>6, <1>7 DEF IInv

LEMMA DropStep ==
  ASSUME IInv, NEW h \in Handles, Drop(h)
  PROVE  IInv' /\ SnapshotsKept
BY ReleaseStep DEF Drop, Live

LEMMA UnwindStep ==
  ASSUME IInv, NEW h \in Handles, Unwind(h)
  PROVE  IInv' /\ SnapshotsKept
<1>1. job[h].phase = "panicked" /\ Release(h) /\ job' = [job EXCEPT ![h] = Idle]
  BY DEF Unwind
<1>2. arc[h] # NoArc
  BY <1>1, AloneMeans DEF IInv
<1>3. job'[h].phase = "idle"
  BY <1>1, IdleTyped DEF IInv, Typed
<1> QED BY <1>1, <1>2, <1>3, ReleaseStep

LEMMA StartBuildStep ==
  ASSUME IInv, NEW h \in Handles, NEW batch \in Batches, StartBuild(h, batch)
  PROVE  IInv' /\ SnapshotsKept
<1> DEFINE off == OffsetsOf(Contents(h))
           j == [phase |-> "declare", queue |-> batch, off |-> off, at |-> 0,
                 ahead |-> [k \in Deferred |-> off.table[k]], failed |-> FALSE]
<1>1. /\ arc[h] # NoArc /\ job[h].phase = "idle" /\ MakeMut(h)
      /\ job' = [job EXCEPT ![h] = j]
  BY DEF StartBuild, Live
<1>2. arc[h] \in Arcs /\ Contents(h) \in Pool
  BY <1>1 DEF IInv, Typed, Contents
<1>3. off \in Offsets /\ Within(off, Contents(h))
  BY <1>2, OffsetsTyped
<1>4. j \in Job /\ j.off = off /\ j.phase = "declare"
  <2>1. [k \in Deferred |-> off.table[k]] \in [Deferred -> Nat]
    BY <1>3 DEF Offsets, Kinds, Deferred
  <2>2. batch \in Seq(Proto)
    BY BatchesAssumption
  <2> HIDE DEF off
  <2> QED BY <1>3, <2>1, <2>2 DEF Job, Phases
<1> HIDE DEF j, off
<1>5. PICK a \in Arcs :
        /\ arc' = [arc EXCEPT ![h] = a] /\ heap' = [heap EXCEPT ![a] = Contents(h)]
        /\ rolledBack' \in SUBSET Arcs
        /\ \A g \in Handles : arc[g] = a => g = h
  <2>1. CASE Unique(h)
    <3>1. arc' = arc /\ heap' = heap /\ rolledBack' = rolledBack
      BY <1>1, <2>1 DEF MakeMut
    <3>2. arc' = [arc EXCEPT ![h] = arc[h]] /\ heap' = [heap EXCEPT ![arc[h]] = Contents(h)]
      BY <1>2, <3>1 DEF IInv, Typed, Contents
    <3>3. \A g \in Handles : arc[g] = arc[h] => g = h
      BY <2>1 DEF Unique, Holders
    <3> QED BY <1>2, <3>1, <3>2, <3>3 DEF IInv, Typed
  <2>2. CASE ~Unique(h)
    <3>1. PICK a \in Free : /\ arc' = [arc EXCEPT ![h] = a]
                            /\ heap' = [heap EXCEPT ![a] = Contents(h)]
                            /\ rolledBack' = IF arc[h] \in rolledBack
                                             THEN rolledBack \cup {a} ELSE rolledBack \ {a}
      BY <1>1, <2>2 DEF MakeMut
    <3>2. a \in Arcs /\ \A g \in Handles : arc[g] # a
      BY DEF Free, Holders
    <3>3. rolledBack' \in SUBSET Arcs
      BY <3>1, <3>2 DEF IInv, Typed
    <3> QED BY <3>1, <3>2, <3>3
  <2> QED BY <2>1, <2>2
<1>6. /\ arc'[h] = a /\ heap'[a] = Contents(h) /\ job'[h] = j
      /\ \A g \in Handles : g # h => arc'[g] = arc[g] /\ job'[g] = job[g] /\ arc[g] # a
      /\ \A g \in Handles : g # h /\ arc[g] \in Arcs => heap'[arc[g]] = heap[arc[g]]
  BY <1>1, <1>5 DEF IInv, Typed
<1>7. Typed'
  BY <1>1, <1>2, <1>4, <1>5 DEF IInv, Typed
<1>8. BuildersAreAlone'
  <2>1. a # NoArc
    BY ArcsAssumption
  <2>2. \A g \in Handles : g # h /\ job[g].phase # "idle" =>
           arc[g] # NoArc /\ \A k \in Handles : arc[k] = arc[g] => k = g
    BY AloneMeans DEF IInv
  <2> QED BY <1>6, <2>1, <2>2, AloneMeansNext
<1>9. BuildsGrow'
  <2> SUFFICES ASSUME NEW g \in Handles, job'[g].phase # "idle"
               PROVE  Within(job'[g].off, heap'[arc'[g]])
    BY DEF BuildsGrow, Contents
  <2>1. CASE g = h
    BY <1>3, <1>4, <1>6, <2>1
  <2>2. CASE g # h
    <3>1. job[g].phase # "idle" /\ arc[g] \in Arcs
      BY <1>6, <2>2, AloneMeans DEF IInv, Typed
    <3> QED BY <1>6, <2>2, <3>1 DEF IInv, BuildsGrow, Contents
  <2> QED BY <2>1, <2>2
<1>10. VisitsFiles'
  BY <1>4, <1>6 DEF IInv, VisitsFiles
<1>11. SnapshotsKept
  <2> SUFFICES ASSUME NEW g \in Handles, arc[g] # NoArc, g # h
               PROVE  arc'[g] = arc[g] /\ heap'[arc[g]] = heap[arc[g]]
    BY <1>4, <1>6 DEF SnapshotsKept, Settled, Live
  <2> QED BY <1>6 DEF IInv, Typed
<1> QED BY <1>7, <1>8, <1>9, <1>10, <1>11 DEF IInv

-----------------------------------------------------------------------------
(* The theorems.                                                           *)

\* The steps of OptionsVisitor inside a file change nothing of the pools.
LEMMA VisitStep ==
  ASSUME NEW h \in Handles, OpenOptions(h) \/ SetOption(h)
  PROVE  UNCHANGED <<arc, heap, job, rolledBack>>
BY DEF OpenOptions, SetOption

LEMMA IInvStep ==
  IInv /\ VisitsClosed /\ [Next]_vars => IInv' /\ SnapshotsKept
<1> SUFFICES ASSUME IInv, VisitsClosed, [Next]_vars PROVE IInv' /\ SnapshotsKept
  OBVIOUS
<1>1. CASE UNCHANGED <<arc, heap, job, rolledBack>>
  <2>1. IInv'
    BY <1>1 DEF IInv, Typed, BuildersAreAlone, Live, Unique, Holders, BuildsGrow,
                Contents, VisitsFiles
  <2>2. SnapshotsKept
    BY <1>1 DEF SnapshotsKept
  <2> QED BY <2>1, <2>2
<1>2. CASE UNCHANGED vars
  BY <1>1, <1>2 DEF vars
<1>3. CASE \E h \in Handles : OpenOptions(h) \/ SetOption(h)
  BY <1>1, <1>3, VisitStep
<1>4. CASE Next
  BY <1>3, <1>4, NewStep, DropStep, CloneStep, StartBuildStep, SkipFileStep, DeclareFileStep,
     UnknownSyntaxStep, ResolveFileStep, OptionsFileStep, EndPhaseStep, CommitStep,
     RollbackStep, UnwindStep
  DEF Next
<1> QED BY <1>2, <1>4

\* A visit stays closed while its handle is not in the phase of the options.
LEMMA ClosedKept ==
  ASSUME VisitsClosed, NEW h \in Handles, visitor' = visitor, visitor[h].option = 0,
         \A g \in Handles : g # h => job'[g].phase = job[g].phase
  PROVE  VisitsClosed'
BY DEF VisitsClosed

LEMMA ClosedByPhase ==
  ASSUME VisitsClosed, NEW h \in Handles, job[h].phase # "options"
  PROVE  visitor[h].option = 0
BY DEF VisitsClosed

\* A step of one build changes the job of its handle only.
LEMMA OtherJobs ==
  ASSUME IInv, NEW h \in Handles, NEW j, job' = [job EXCEPT ![h] = j]
  PROVE  \A g \in Handles : g # h => job'[g].phase = job[g].phase
BY DEF IInv, Typed

LEMMA VisitsClosedStep == IInv /\ VisitsClosed /\ [Next]_vars => VisitsClosed'
<1> SUFFICES ASSUME IInv, VisitsClosed, [Next]_vars PROVE VisitsClosed'
  OBVIOUS
<1>1. CASE job' = job /\ visitor' = visitor
  BY <1>1 DEF VisitsClosed
<1>2. CASE UNCHANGED vars
  BY <1>1, <1>2 DEF vars
<1>3. ASSUME NEW h \in Handles, New(h) \/ Drop(h) \/ \E g \in Handles : Clone(g, h)
      PROVE  VisitsClosed'
  BY <1>1, <1>3 DEF New, Drop, Clone
<1>4. ASSUME NEW h \in Handles, NEW batch \in Batches, StartBuild(h, batch)
      PROVE  VisitsClosed'
  <2>1. visitor' = visitor /\ job[h].phase = "idle" /\ \E j : job' = [job EXCEPT ![h] = j]
    BY <1>4 DEF StartBuild
  <2> QED BY <2>1, ClosedByPhase, ClosedKept, OtherJobs
<1>5. ASSUME NEW h \in Handles,
             \/ SkipFile(h) \/ DeclareFile(h) \/ UnknownSyntax(h) \/ ResolveFile(h)
             \/ Commit(h) \/ Rollback(h)
      PROVE  VisitsClosed'
  <2>1. visitor' = visitor /\ job[h].phase # "options"
    BY <1>5 DEF SkipFile, DeclareFile, UnknownSyntax, ResolveFile, Commit, Rollback
  <2>2. \E j : job' = [job EXCEPT ![h] = j]
    BY <1>5 DEF SkipFile, DeclareFile, UnknownSyntax, ResolveFile, Commit, Rollback, GetMut
  <2> QED BY <2>1, <2>2, ClosedByPhase, ClosedKept, OtherJobs
<1>6. ASSUME NEW h \in Handles, EndPhase(h)
      PROVE  VisitsClosed'
  <2>1. visitor' = visitor /\ visitor[h].option = 0
    BY <1>6 DEF EndPhase
  <2>2. \E j : job' = [job EXCEPT ![h] = j]
    BY <1>6 DEF EndPhase
  <2> QED BY <2>1, <2>2, ClosedKept, OtherJobs
<1>7. ASSUME NEW h \in Handles, OpenOptions(h) \/ SetOption(h)
      PROVE  VisitsClosed'
  <2>1. PICK v \in Visitor : visitor' = [visitor EXCEPT ![h] = v] /\ v.option # 0
    <3>1. CASE OpenOptions(h)
      <4>1. PICK c \in SUBSET {"message", "extension"} :
              visitor' = [visitor EXCEPT ![h] = [option |-> 1, clones |-> c]]
        BY <3>1 DEF OpenOptions
      <4>2. [option |-> 1, clones |-> c] \in Visitor /\ [option |-> 1, clones |-> c].option # 0
        BY DEF Visitor
      <4> QED BY <4>1, <4>2
    <3>2. CASE SetOption(h)
      <4> DEFINE i == visitor[h].option
      <4>1. i \in Nat /\ i # 0 /\ visitor[h].clones \in SUBSET {"message", "extension"}
        BY <3>2 DEF SetOption, VisitsClosed, Visitor
      <4> DEFINE kept == visitor[h].clones \ {"extension"}
      <4>2. PICK c \in {{}, {"extension"}} :
              visitor' = [visitor EXCEPT ![h] = [option |-> i + 1, clones |-> kept \cup c]]
        BY <3>2 DEF SetOption
      <4>3. /\ [option |-> i + 1, clones |-> kept \cup c] \in Visitor
            /\ [option |-> i + 1, clones |-> kept \cup c].option # 0
        BY <4>1, <4>2 DEF Visitor
      <4> HIDE DEF i, kept
      <4> QED BY <4>2, <4>3
    <3> QED BY <1>7, <3>1, <3>2
  <2>2. job' = job /\ job[h].phase = "options"
    BY <1>7 DEF OpenOptions, SetOption
  <2> QED BY <2>1, <2>2 DEF VisitsClosed
<1>8. ASSUME NEW h \in Handles, OptionsFile(h) \/ Unwind(h)
      PROVE  VisitsClosed'
  <2>1. visitor' = [visitor EXCEPT ![h] = NoVisit]
    BY <1>8 DEF OptionsFile, Unwind
  <2>2. \E j : job' = [job EXCEPT ![h] = j]
    BY <1>8 DEF OptionsFile, OptionsVisited, Unwind
  <2>3. NoVisit \in Visitor /\ NoVisit.option = 0 /\ NoVisit.clones = {}
    BY DEF NoVisit, Visitor
  <2>4. \A g \in Handles : g # h => job'[g].phase = job[g].phase
    BY <2>2, OtherJobs
  <2> QED BY <2>1, <2>3, <2>4 DEF VisitsClosed
<1>9. CASE Next
  BY <1>3, <1>4, <1>5, <1>6, <1>7, <1>8, <1>9 DEF Next
<1> QED BY <1>2, <1>9

LEMMA Inductive == Spec => []SafeInv
<1>1. Init => SafeInv
  BY IInvInit DEF Init, SafeInv, VisitsClosed, NoVisit, Visitor
<1>2. SafeInv /\ [Next]_vars => SafeInv'
  BY IInvStep, VisitsClosedStep DEF SafeInv
<1> QED BY <1>1, <1>2, PTL DEF Spec

\* Every pool has well-typed contents at every step of every build, rollbacks
\* and panics included: build_files never visits a file outside the table, and
\* rollback never truncates a table that is shorter than its offset.
THEOREM TypeCorrect == Spec => []TypeOK
<1>1. SafeInv => TypeOK
  BY DEF SafeInv, IInv, Typed, VisitsClosed, TypeOK
<1> QED BY <1>1, Inductive, PTL

\* A build works on contents that no other handle shares.
THEOREM BuildsAreExclusive == Spec => []BuildersAreAlone
<1>1. SafeInv => BuildersAreAlone
  BY DEF SafeInv, IInv
<1> QED BY <1>1, Inductive, PTL

\* The Arc::get_mut(..).unwrap() calls of a build do not panic: no handle of the program
\* shares its contents, and OptionsVisitor has dropped every descriptor it took from them,
\* whether its options could be set or not.
THEOREM GetMutsDoNotPanic == Spec => []GetMutsSucceed
<1>1. SafeInv => GetMutsSucceed
  <2> SUFFICES ASSUME SafeInv, NEW h \in Handles, job[h].phase \in {"commit", "rollback"}
               PROVE  Sole(h)
    BY DEF GetMutsSucceed
  <2> QED BY SoleWhenClosed DEF SafeInv
<1> QED BY <1>1, Inductive, PTL

\* Clones and descriptors are snapshots: what other handles add, fail to add or
\* drop does not change the contents a settled handle sees.
THEOREM ClonesAreSnapshots == Spec => SnapshotsUnchanged
<1>1. SafeInv /\ [Next]_vars => [SnapshotsKept]_vars
  BY IInvStep DEF SafeInv
<1>2. [SnapshotsKept]_vars =>
        [\A h \in Settled :
           \/ job'[h].phase # "idle"
           \/ arc'[h] = NoArc
           \/ arc'[h] = arc[h] /\ heap'[arc[h]] = heap[arc[h]]]_vars
  BY DEF SnapshotsKept
<1> QED BY <1>1, <1>2, Inductive, PTL DEF Spec, SnapshotsUnchanged

-----------------------------------------------------------------------------
(***************************************************************************)
(* The contents.  The tables of every pool describe each other             *)
(* (NamesMatchTables), and the extension lists are exact in every pool     *)
(* that no rollback touched (ListsExactUntilRollback).                     *)
(*                                                                         *)
(* Two facts about the contents under construction carry the proof.  What  *)
(* rollback would leave of them is sound at every step ("Undoable"): a     *)
(* step only adds rows, files and names that lie past the offsets.  And as *)
(* long as no error was reported, they match up to the services and        *)
(* extensions of files that are not resolved yet ("Growing"): their names  *)
(* point at rows that will only be appended later, one file after the      *)
(* other.  "Slots" says where: slots[k][f] is the index before the first   *)
(* service or extension (the kind k) of file f.                            *)
(***************************************************************************)

\* The name has no definition, not one of kind "none" with other contents.
Tidy(pool) == \A n \in Names : pool.names[n].kind = "none" => pool.names[n] = NoDef

Sound(pool) == NamesMatch(pool) /\ Tidy(pool)

\* What file f declares of a kind.
Decls(pool, k, f) == pool.files[f].raw.decls[k]
Exts(pool, f) == pool.files[f].raw.decls["extension"]

\* The declaration has the name that the definition d is stored under.
Bears(d, decl, n) == IF d.member THEN n \in decl.members ELSE decl.name = n

\* The names of a declaration lead to row i of table k.
LeadsTo(d, k, member, i) == d.kind = k /\ d.index = i /\ d.member = member
Named(names, k, i, decl) ==
  /\ LeadsTo(names[decl.name], k, FALSE, i)
  /\ \A n \in decl.members : LeadsTo(names[n], k, TRUE, i)

HasRow(pool, n) ==
  LET d == pool.names[n]
  IN  /\ d.index \in DOMAIN pool.tables[d.kind]
      /\ pool.tables[d.kind][d.index].file = d.file
      /\ Bears(d, pool.tables[d.kind][d.index].decl, n)

\* The row is that of a service or extension whose file is not resolved yet.
HasSlot(pool, from, slots, n) ==
  LET d == pool.names[n]
  IN  /\ d.kind \in Deferred
      /\ d.file \in from..Len(pool.files)
      /\ Len(pool.tables[d.kind]) <= slots[d.kind][d.file]
      /\ \E i \in DOMAIN Decls(pool, d.kind, d.file) :
            /\ d.index = slots[d.kind][d.file] + i
            /\ Bears(d, Decls(pool, d.kind, d.file)[i], n)

\* Where the rows of one kind go, of the files numbered from "from" on.
SlotsOf(pool, k, from, slot) ==
  /\ slot \in [from..(Len(pool.files) + 1) -> Nat]
  /\ \A f \in from..Len(pool.files) :
        /\ slot[f + 1] = slot[f] + Len(Decls(pool, k, f))
        /\ \A g \in (f + 1)..(Len(pool.files) + 1) : slot[f] + Len(Decls(pool, k, f)) <= slot[g]

Slots(pool, from, slots) == \A k \in Deferred : SlotsOf(pool, k, from, slots[k])

FilesMatch(pool, from) ==
  /\ \A i \in DOMAIN pool.files :
        /\ pool.fileNames[pool.files[i].raw.name] = i
        /\ i < from => pool.files[i].prost
        /\ \A n \in pool.files[i].raw.packages : pool.names[n].kind = "package"
  /\ \A f \in FileNames : pool.fileNames[f] # 0 =>
        /\ pool.fileNames[f] \in DOMAIN pool.files
        /\ pool.files[pool.fileNames[f]].raw.name = f

NameMatches(pool, from, slots, n) ==
  LET d == pool.names[n]
  IN  CASE d.kind = "none" -> TRUE
        [] d.kind = "package" -> \E i \in DOMAIN pool.files : n \in pool.files[i].raw.packages
        [] OTHER -> HasRow(pool, n) \/ HasSlot(pool, from, slots, n)

\* The tables match, up to services and extensions that have a slot and no row.
Partial(pool, from, slots) ==
  /\ Tidy(pool)
  /\ \A n \in Names : NameMatches(pool, from, slots, n)
  /\ \A k \in Kinds : \A i \in DOMAIN pool.tables[k] :
        Named(pool.names, k, i, pool.tables[k][i].decl)
  /\ \A k \in Deferred : \A f \in from..Len(pool.files) : \A i \in DOMAIN Decls(pool, k, f) :
        Named(pool.names, k, slots[k][f] + i, Decls(pool, k, f)[i])
  /\ FilesMatch(pool, from)

\* How far the phases of a build have filled the slots.
Filled(pool, j, slots) ==
  LET from == j.off.file + 1
      end == Len(pool.files) + 1
  IN  /\ j.phase = "resolve" => j.at \in from..end
      /\ \A k \in Deferred :
           LET rows == Len(pool.tables[k])
           IN  /\ j.phase = "declare" => rows = slots[k][from] /\ j.ahead[k] = slots[k][end]
               /\ j.phase = "resolve" => rows = slots[k][j.at]
               /\ j.phase \in {"options", "commit"} => rows = slots[k][end]

Growing(pool, j) ==
  j.phase \in {"declare", "resolve", "options", "commit"} /\ ~j.failed =>
     \E slots : /\ Slots(pool, j.off.file + 1, slots)
                /\ Filled(pool, j, slots)
                /\ Partial(pool, j.off.file + 1, slots)

Undoable(pool, j) ==
  /\ Sound(RolledBack(pool, j.off))
  /\ j.phase = "declare" => \A k \in Deferred : j.off.table[k] <= j.ahead[k]

\* What a handle's contents are, settled or under construction.
Matched(pool, j) ==
  IF j.phase = "idle" THEN Sound(pool) ELSE Undoable(pool, j) /\ Growing(pool, j)

PoolsMatched == \A h \in Handles : Live(h) => Matched(Contents(h), job[h])

\* The extension lists, together with the range of what they were made from.
ListsMatch(pool) ==
  /\ ListsExact(pool)
  /\ \A e \in DOMAIN pool.tables["extension"] :
        pool.tables["extension"][e].extendee \in 0..Len(pool.tables["message"])

ListsMatched ==
  \A h \in Handles : Live(h) /\ arc[h] \notin rolledBack /\ ~job[h].failed =>
                        ListsMatch(Contents(h))

\* No error is left behind by a build, and none was reported by one that succeeds.
NoErrorsLeft == \A h \in Handles : job[h].phase \in {"idle", "commit"} => ~job[h].failed

ContentsInv == IInv /\ PoolsMatched /\ ListsMatched /\ NoErrorsLeft

-----------------------------------------------------------------------------
(* What the functions of PoolTables return, part by part.                  *)

Def(kind, member, index, file) ==
  [kind |-> kind, member |-> member, index |-> index, file |-> file]

\* The definition that a file adds for one of its packages or declarations.
IsOfPackage(a, p, file) == a.name \in p.packages /\ a.def = Def("package", FALSE, 0, file)

IsOfDecl(a, p, file, base, k, i) ==
  \E m \in BOOLEAN : /\ a.def = Def(k, m, base[k] + i, file)
                     /\ Bears(a.def, p.decls[k][i], a.name)

LEMMA AdditionsAre ==
  ASSUME NEW p \in Proto, NEW file \in Nat, NEW base \in [Kinds -> Nat],
         NEW a \in Additions(p, file, base)
  PROVE  \/ IsOfPackage(a, p, file)
         \/ \E k \in Kinds : \E i \in DOMAIN p.decls[k] : IsOfDecl(a, p, file, base, k, i)
<1> DEFINE of(k, i) == [name : {p.decls[k][i].name}, def : {Def(k, FALSE, base[k] + i, file)}]
                       \cup [name : p.decls[k][i].members, def : {Def(k, TRUE, base[k] + i, file)}]
           inner(k) == UNION { of(k, i) : i \in DOMAIN p.decls[k] }
<1>1. Additions(p, file, base) =
        [name : p.packages, def : {Def("package", FALSE, 0, file)}]
        \cup UNION { inner(k) : k \in Kinds }
  BY Zenon DEF Additions, Def
<1>2. CASE a \in [name : p.packages, def : {Def("package", FALSE, 0, file)}]
  BY <1>2 DEF IsOfPackage
<1>3. ASSUME NEW k \in Kinds, NEW i \in DOMAIN p.decls[k], a \in of(k, i)
      PROVE  IsOfDecl(a, p, file, base, k, i)
  <2>1. CASE a \in [name : {p.decls[k][i].name}, def : {Def(k, FALSE, base[k] + i, file)}]
    <3>1. a.def = Def(k, FALSE, base[k] + i, file) /\ a.name = p.decls[k][i].name
      BY <2>1
    <3>2. Bears(a.def, p.decls[k][i], a.name)
      BY <3>1 DEF Bears, Def
    <3> QED BY <3>1, <3>2 DEF IsOfDecl
  <2>2. CASE a \in [name : p.decls[k][i].members, def : {Def(k, TRUE, base[k] + i, file)}]
    <3>1. a.def = Def(k, TRUE, base[k] + i, file) /\ a.name \in p.decls[k][i].members
      BY <2>2
    <3>2. Bears(a.def, p.decls[k][i], a.name)
      BY <3>1 DEF Bears, Def
    <3> QED BY <3>1, <3>2 DEF IsOfDecl
  <2> QED BY <1>3, <2>1, <2>2
<1> HIDE DEF of
<1>4. ASSUME NEW k \in Kinds, a \in inner(k)
      PROVE  \E i \in DOMAIN p.decls[k] : a \in of(k, i)
  BY <1>4
<1> HIDE DEF inner
<1> QED BY <1>1, <1>2, <1>3, <1>4

LEMMA AdditionsInclude ==
  ASSUME NEW p \in Proto, NEW file \in Nat, NEW base \in [Kinds -> Nat]
  PROVE  /\ \A n \in p.packages : \E a \in Additions(p, file, base) :
              a.name = n /\ a.def = Def("package", FALSE, 0, file)
         /\ \A k \in Kinds : \A i \in DOMAIN p.decls[k] :
              /\ \E a \in Additions(p, file, base) :
                   a.name = p.decls[k][i].name /\ a.def = Def(k, FALSE, base[k] + i, file)
              /\ \A n \in p.decls[k][i].members : \E a \in Additions(p, file, base) :
                   a.name = n /\ a.def = Def(k, TRUE, base[k] + i, file)
<1> DEFINE of(k, i) == [name : {p.decls[k][i].name}, def : {Def(k, FALSE, base[k] + i, file)}]
                       \cup [name : p.decls[k][i].members, def : {Def(k, TRUE, base[k] + i, file)}]
           inner(k) == UNION { of(k, i) : i \in DOMAIN p.decls[k] }
           A(n, d) == [name |-> n, def |-> d]
<1>1. Additions(p, file, base) =
        [name : p.packages, def : {Def("package", FALSE, 0, file)}]
        \cup UNION { inner(k) : k \in Kinds }
  BY Zenon DEF Additions, Def
<1>2. ASSUME NEW n \in p.packages
      PROVE  \E a \in Additions(p, file, base) :
               a.name = n /\ a.def = Def("package", FALSE, 0, file)
  <2>1. A(n, Def("package", FALSE, 0, file)) \in Additions(p, file, base)
    BY <1>1
  <2> QED BY <2>1
<1>3. ASSUME NEW k \in Kinds, NEW i \in DOMAIN p.decls[k]
      PROVE  of(k, i) \subseteq Additions(p, file, base)
  <2> HIDE DEF of
  <2>1. of(k, i) \subseteq inner(k)
    OBVIOUS
  <2> HIDE DEF inner
  <2> QED BY <1>1, <2>1
<1>4. ASSUME NEW k \in Kinds, NEW i \in DOMAIN p.decls[k]
      PROVE  /\ \E a \in Additions(p, file, base) :
                  a.name = p.decls[k][i].name /\ a.def = Def(k, FALSE, base[k] + i, file)
             /\ \A n \in p.decls[k][i].members : \E a \in Additions(p, file, base) :
                  a.name = n /\ a.def = Def(k, TRUE, base[k] + i, file)
  <2>1. A(p.decls[k][i].name, Def(k, FALSE, base[k] + i, file)) \in of(k, i)
    OBVIOUS
  <2>2. \A n \in p.decls[k][i].members : A(n, Def(k, TRUE, base[k] + i, file)) \in of(k, i)
    OBVIOUS
  <2> HIDE DEF of
  <2> QED BY <1>3, <2>1, <2>2
<1> QED BY <1>2, <1>4

\* A name keeps its definition, or takes one that is added.
LEMMA WithNamesGives ==
  ASSUME NEW names, NEW adds, NEW n \in Names
  PROVE  LET new == WithNames(names, adds)
         IN  \/ new[n] = names[n] /\ (names[n] # NoDef \/ \A a \in adds : a.name # n)
             \/ names[n] = NoDef /\ \E a \in adds : a.name = n /\ new[n] = a.def
<1> DEFINE c == CHOOSE a \in adds : a.name = n
<1>1. WithNames(names, adds)[n] =
        IF names[n] = NoDef /\ \E a \in adds : a.name = n THEN c.def ELSE names[n]
  BY DEF WithNames
<1>2. (\E a \in adds : a.name = n) => c \in adds /\ c.name = n
  OBVIOUS
<1> HIDE DEF c
<1> QED BY <1>1, <1>2

\* The pool after a file was declared, part by part.
IsDeclared(next, pool, p, base, file) ==
  /\ next \in Pool
  /\ file \in Nat /\ file = Len(pool.files) + 1 /\ Len(next.files) = file
  /\ \A i \in DOMAIN pool.files : next.files[i] = pool.files[i]
  /\ next.files[file] = [raw |-> p, prost |-> FALSE]
  /\ next.fileNames = [pool.fileNames EXCEPT ![p.name] = file]
  /\ next.names = WithNames(pool.names, Additions(p, file, base))
  /\ \A k \in Deferred : next.tables[k] = pool.tables[k]
  /\ \A k \in Kinds \ Deferred :
       /\ Len(next.tables[k]) = Len(pool.tables[k]) + Len(p.decls[k])
       /\ \A i \in DOMAIN pool.tables[k] : next.tables[k][i] = pool.tables[k][i]
       /\ \A i \in DOMAIN p.decls[k] :
            next.tables[k][Len(pool.tables[k]) + i] = Row(p.decls[k][i], file, 0)

LEMMA DeclaredParts ==
  ASSUME NEW pool \in Pool, NEW p \in Proto, NEW base \in [Kinds -> Nat]
  PROVE  IsDeclared(Declared(pool, p, base), pool, p, base, Len(pool.files) + 1)
<1> DEFINE file == Len(pool.files) + 1
           rows(k) == [i \in DOMAIN p.decls[k] |-> Row(p.decls[k][i], file, 0)]
           next == Declared(pool, p, base)
<1>1. /\ next.files = Append(pool.files, [raw |-> p, prost |-> FALSE])
      /\ next.fileNames = [pool.fileNames EXCEPT ![p.name] = file]
      /\ next.names = WithNames(pool.names, Additions(p, file, base))
      /\ next.tables = [k \in Kinds |-> IF k \in Deferred THEN pool.tables[k]
                                        ELSE pool.tables[k] \o rows(k)]
  BY DEF Declared
<1>2. pool.files \in Seq(FileInner) /\ [raw |-> p, prost |-> FALSE] \in FileInner
  BY DEF Pool, FileInner
<1>3. /\ file \in Nat /\ Len(next.files) = file
      /\ \A i \in DOMAIN pool.files : next.files[i] = pool.files[i]
      /\ next.files[file] = [raw |-> p, prost |-> FALSE]
  <2> HIDE DEF next
  <2> QED BY <1>1, <1>2
<1>4. \A k \in Deferred : next.tables[k] = pool.tables[k]
  BY <1>1 DEF Kinds, Deferred
<1>5. ASSUME NEW k \in Kinds \ Deferred
      PROVE  /\ Len(next.tables[k]) = Len(pool.tables[k]) + Len(p.decls[k])
             /\ \A i \in DOMAIN pool.tables[k] : next.tables[k][i] = pool.tables[k][i]
             /\ \A i \in DOMAIN p.decls[k] :
                  next.tables[k][Len(pool.tables[k]) + i] = Row(p.decls[k][i], file, 0)
  <2>1. next.tables[k] = pool.tables[k] \o rows(k)
    BY <1>1
  <2>2. pool.tables[k] \in Seq(Entry) /\ p.decls[k] \in Seq(Decl)
    BY DEF Pool, Proto
  <2>3. \A i \in DOMAIN p.decls[k] : Row(p.decls[k][i], file, 0) \in Entry
    BY <1>3, <2>2, RowTyped
  <2>4. DOMAIN p.decls[k] = 1..Len(p.decls[k]) /\ Len(p.decls[k]) \in Nat
    BY <2>2
  <2>5. rows(k) \in Seq(Entry) /\ Len(rows(k)) = Len(p.decls[k])
    <3> HIDE DEF file
    <3> QED BY <2>3, <2>4
  <2>6. \A i \in DOMAIN p.decls[k] : rows(k)[i] = Row(p.decls[k][i], file, 0)
    OBVIOUS
  <2> DEFINE new == rows(k)
  <2>7. new \in Seq(Entry) /\ Len(new) = Len(p.decls[k]) /\ DOMAIN new = DOMAIN p.decls[k]
    BY <2>5
  <2>8. next.tables[k] = pool.tables[k] \o new
    BY <2>1
  <2>9. \A i \in DOMAIN new : new[i] = Row(p.decls[k][i], file, 0)
    BY <2>6
  <2> DEFINE old == pool.tables[k]
  <2>10. old \in Seq(Entry) /\ next.tables[k] = old \o new
    BY <2>2, <2>8
  <2> HIDE DEF rows, next, file, new, old
  <2>12. old \in Seq(Entry) /\ new \in Seq(Entry)
    BY <2>7, <2>10
  <2>11. /\ Len(old \o new) = Len(old) + Len(new)
         /\ \A i \in DOMAIN old : (old \o new)[i] = old[i]
         /\ \A i \in DOMAIN new : (old \o new)[Len(old) + i] = new[i]
    BY <2>12
  <2> QED BY <2>7, <2>9, <2>10, <2>11, Zenon DEF old
<1>6. next \in Pool
  BY DeclaredTyped
<1>7. file = Len(pool.files) + 1
  OBVIOUS
<1> HIDE DEF next, rows, file
<1>8. IsDeclared(next, pool, p, base, file)
  BY <1>1, <1>3, <1>4, <1>5, <1>6, <1>7 DEF IsDeclared
<1> QED BY <1>8 DEF next, file
\* Whether rollback keeps a name.
Stays(pool, off, n) ==
  LET d == pool.names[n]
  IN  IF d.kind = "package"
      THEN \E i \in 1..off.file : pool.files[i].prost /\ n \in pool.files[i].raw.packages
      ELSE d.kind # "none" /\ d.index <= off.table[d.kind]

LEMMA RolledBackParts ==
  ASSUME NEW pool \in Pool, NEW off \in Offsets, Within(off, pool)
  PROVE  LET back == RolledBack(pool, off)
         IN  /\ back \in Pool
             /\ Len(back.files) = off.file
             /\ \A i \in 1..off.file : back.files[i] = pool.files[i]
             /\ \A g \in FileNames : back.fileNames[g] =
                  IF pool.fileNames[g] <= off.file THEN pool.fileNames[g] ELSE 0
             /\ \A n \in Names : back.names[n] =
                  IF Stays(pool, off, n) THEN pool.names[n] ELSE NoDef
             /\ \A k \in Kinds :
                  /\ Len(back.tables[k]) = off.table[k]
                  /\ \A i \in 1..off.table[k] :
                       /\ back.tables[k][i].decl = pool.tables[k][i].decl
                       /\ back.tables[k][i].file = pool.tables[k][i].file
<1> DEFINE back == RolledBack(pool, off)
           files == SubSeq(pool.files, 1, off.file)
           row(m) == [pool.tables["message"][m] EXCEPT !.extensions =
                        { e \in @ : e <= off.table["message"] }]
           declares(n) == \E i \in DOMAIN files : files[i].prost /\ n \in files[i].raw.packages
           stays(n) == LET d == pool.names[n]
                       IN  IF d.kind = "package" THEN declares(n)
                           ELSE d.kind # "none" /\ d.index <= off.table[d.kind]
<1>1. /\ pool.files \in Seq(FileInner) /\ pool.tables \in [Kinds -> Seq(Entry)]
      /\ off.file \in 0..Len(pool.files)
      /\ \A k \in Kinds : off.table[k] \in 0..Len(pool.tables[k])
  BY DEF Pool, Offsets, Within
<1>2. back \in Pool /\ OffsetsOf(back) = off
  BY RolledBackTyped
<1>3. Len(back.files) = off.file /\ \A k \in Kinds : Len(back.tables[k]) = off.table[k]
  BY <1>2 DEF OffsetsOf
<1>4. /\ back.files = files
      /\ \A g \in FileNames : back.fileNames[g] =
           IF pool.fileNames[g] <= off.file THEN pool.fileNames[g] ELSE 0
      /\ \A n \in Names : back.names[n] = IF stays(n) THEN pool.names[n] ELSE NoDef
      /\ \A k \in Kinds : back.tables[k] =
           IF k = "message" THEN [m \in 1..off.table[k] |-> row(m)]
           ELSE SubSeq(pool.tables[k], 1, off.table[k])
  BY DEF RolledBack
<1>5. /\ DOMAIN files = 1..off.file
      /\ \A i \in 1..off.file : files[i] = pool.files[i]
  BY <1>1
<1>6. \A n \in Names : stays(n) <=> Stays(pool, off, n)
  BY <1>5 DEF Stays
<1>7. ASSUME NEW k \in Kinds, NEW i \in 1..off.table[k]
      PROVE  /\ back.tables[k][i].decl = pool.tables[k][i].decl
             /\ back.tables[k][i].file = pool.tables[k][i].file
  <2>1. pool.tables[k] \in Seq(Entry) /\ i \in 1..Len(pool.tables[k])
    BY <1>1
  <2>2. pool.tables[k][i] \in Entry
    BY <2>1
  <2>3. CASE k = "message"
    <3>1. back.tables[k] = [m \in 1..off.table[k] |-> row(m)]
      BY <1>4, <2>3
    <3>2. back.tables[k][i] = row(i)
      BY <3>1
    <3> QED BY <2>2, <2>3, <3>2 DEF Entry
  <2>4. CASE k # "message"
    <3>1. back.tables[k] = SubSeq(pool.tables[k], 1, off.table[k])
      BY <1>4, <2>4
    <3>2. off.table[k] \in 0..Len(pool.tables[k])
      BY <1>1
    <3>3. SubSeq(pool.tables[k], 1, off.table[k])[i] = pool.tables[k][i]
      BY <2>1, <3>2
    <3> QED BY <3>1, <3>3
  <2> QED BY <2>3, <2>4
<1> HIDE DEF back, files, stays
<1> QED BY <1>2, <1>3, <1>4, <1>5, <1>6, <1>7 DEF back

LEMMA CommittedParts ==
  ASSUME NEW pool \in Pool, NEW off \in Offsets
  PROVE  LET next == Committed(pool, off)
         IN  /\ next \in Pool
             /\ next.fileNames = pool.fileNames /\ next.names = pool.names
             /\ next.tables = pool.tables
             /\ Len(next.files) = Len(pool.files)
             /\ \A i \in DOMAIN pool.files :
                  /\ next.files[i].raw = pool.files[i].raw
                  /\ next.files[i].prost = (i > off.file \/ pool.files[i].prost)
<1> DEFINE next == Committed(pool, off)
           file(i) == IF i > off.file THEN [pool.files[i] EXCEPT !.prost = TRUE] ELSE pool.files[i]
<1>1. next \in Pool
  BY CommittedTyped
<1>2. pool.files \in Seq(FileInner)
  BY DEF Pool
<1>3. /\ next.fileNames = pool.fileNames /\ next.names = pool.names
      /\ next.tables = pool.tables /\ next.files = [i \in DOMAIN pool.files |-> file(i)]
  BY DEF Committed, Pool
<1>4. ASSUME NEW i \in DOMAIN pool.files
      PROVE  /\ next.files[i].raw = pool.files[i].raw
             /\ next.files[i].prost = (i > off.file \/ pool.files[i].prost)
  <2>1. pool.files[i] \in FileInner /\ next.files[i] = file(i)
    BY <1>2, <1>3
  <2>2. CASE i > off.file
    BY <2>1, <2>2 DEF FileInner
  <2>3. CASE ~(i > off.file)
    BY <2>1, <2>3 DEF FileInner
  <2> QED BY <2>2, <2>3
<1>5. Len(next.files) = Len(pool.files)
  <2>1. next.files \in Seq(FileInner) /\ DOMAIN next.files = DOMAIN pool.files
    BY <1>1, <1>3 DEF Pool
  <2> HIDE DEF next
  <2> QED BY <1>2, <2>1
<1> HIDE DEF next
<1> QED BY <1>1, <1>3, <1>4, <1>5 DEF next
\* File f has got its rows of kind k, behind the ones that were there.
AppendsRows(next, pool, k, f) ==
  /\ Len(next.tables[k]) = Len(pool.tables[k]) + Len(Decls(pool, k, f))
  /\ \A i \in DOMAIN pool.tables[k] : next.tables[k][i] = pool.tables[k][i]
  /\ \A i \in DOMAIN Decls(pool, k, f) :
       /\ next.tables[k][Len(pool.tables[k]) + i].decl = Decls(pool, k, f)[i]
       /\ next.tables[k][Len(pool.tables[k]) + i].file = f

\* The pool after file f was resolved, part by part.
IsResolved(next, pool, f, exts, to) ==
  LET base == Len(pool.tables["extension"])
  IN  /\ next \in Pool
      /\ next.files = pool.files /\ next.fileNames = pool.fileNames
      /\ next.names = pool.names
      /\ \A k \in Kinds \ ({"message"} \cup Deferred) : next.tables[k] = pool.tables[k]
      /\ AppendsRows(next, pool, "service", f)
      /\ Len(next.tables["message"]) = Len(pool.tables["message"])
      /\ \A m \in DOMAIN pool.tables["message"] :
           /\ next.tables["message"][m].decl = pool.tables["message"][m].decl
           /\ next.tables["message"][m].file = pool.tables["message"][m].file
           /\ next.tables["message"][m].extensions =
                pool.tables["message"][m].extensions
                \cup { base + i : i \in { j \in DOMAIN exts : to[j] = m } }
      /\ Len(next.tables["extension"]) = base + Len(exts)
      /\ \A i \in DOMAIN pool.tables["extension"] :
           next.tables["extension"][i] = pool.tables["extension"][i]
      /\ \A i \in DOMAIN exts : next.tables["extension"][base + i] = Row(exts[i], f, to[i])

\* The messages that the extensions of file f extend.
Extendees(pool, f) ==
  [i \in DOMAIN Exts(pool, f) |-> Extendee(pool, Visible(pool, f), Exts(pool, f)[i])]

LEMMA ResolvedParts ==
  ASSUME NEW pool \in Pool, NEW f \in DOMAIN pool.files
  PROVE  IsResolved(Resolved(pool, f), pool, f, Exts(pool, f), Extendees(pool, f))
<1> DEFINE next == Resolved(pool, f)
           exts == pool.files[f].raw.decls["extension"]
           services == pool.files[f].raw.decls["service"]
           base == Len(pool.tables["extension"])
           to(i) == Extendee(pool, Visible(pool, f), exts[i])
           pushed(m) == { base + i : i \in { j \in DOMAIN exts : to(j) = m } }
           old == pool.tables
           new == [k \in Kinds |->
                     CASE k = "message" -> [m \in DOMAIN old[k] |->
                                              [old[k][m] EXCEPT !.extensions = @ \cup pushed(m)]]
                       [] k = "extension" -> old[k] \o [i \in DOMAIN exts |-> Row(exts[i], f, to(i))]
                       [] k = "service" -> old[k] \o [i \in DOMAIN services |-> Row(services[i], f, 0)]
                       [] OTHER -> old[k]]
<1>1. /\ pool.files \in Seq(FileInner) /\ pool.tables \in [Kinds -> Seq(Entry)]
      /\ pool.names \in [Names -> Definition]
      /\ "message" \in Kinds /\ "extension" \in Kinds
  BY DEF Pool, Kinds
<1>2. next \in Pool
  BY ResolvedTyped
<1>3. next = [pool EXCEPT !.tables = new]
  BY DEF Resolved, PushedFrom
<1>4. exts \in Seq(Decl) /\ services \in Seq(Decl)
  <2>1. pool.files[f] \in FileInner
    BY <1>1
  <2> QED BY <1>1, <2>1 DEF FileInner, Proto, Kinds
<1> HIDE DEF exts, services, base, to, pushed, next
<1>5. next = [files |-> pool.files, fileNames |-> pool.fileNames,
              tables |-> new, names |-> pool.names]
  BY <1>3, PoolTablesUpdate
<1>6. next.tables = new
  BY <1>5
<1>7. \A k \in Kinds \ ({"message"} \cup Deferred) : next.tables[k] = pool.tables[k]
  BY <1>6 DEF Deferred
<1>8. /\ Len(next.tables["message"]) = Len(pool.tables["message"])
      /\ \A m \in DOMAIN pool.tables["message"] :
           /\ next.tables["message"][m].decl = pool.tables["message"][m].decl
           /\ next.tables["message"][m].file = pool.tables["message"][m].file
           /\ next.tables["message"][m].extensions =
                pool.tables["message"][m].extensions \cup pushed(m)
  <2>1. pool.tables["message"] \in Seq(Entry) /\ next.tables["message"] \in Seq(Entry)
    BY <1>1, <1>2 DEF Pool
  <2>2. next.tables["message"] = [m \in DOMAIN pool.tables["message"] |->
          [pool.tables["message"][m] EXCEPT !.extensions = @ \cup pushed(m)]]
    BY <1>1, <1>6
  <2>3. DOMAIN next.tables["message"] = DOMAIN pool.tables["message"]
    BY <2>2
  <2>4. Len(next.tables["message"]) = Len(pool.tables["message"])
    BY <2>1, <2>3
  <2>5. ASSUME NEW m \in DOMAIN pool.tables["message"]
        PROVE  /\ next.tables["message"][m].decl = pool.tables["message"][m].decl
               /\ next.tables["message"][m].file = pool.tables["message"][m].file
               /\ next.tables["message"][m].extensions =
                    pool.tables["message"][m].extensions \cup pushed(m)
    <3>1. pool.tables["message"][m] \in Entry
      BY <2>1
    <3>2. next.tables["message"][m] =
            [pool.tables["message"][m] EXCEPT !.extensions = @ \cup pushed(m)]
      BY <2>2
    <3> QED BY <3>1, <3>2 DEF Entry
  <2> QED BY <2>4, <2>5
<1>9. /\ Len(next.tables["extension"]) = base + Len(exts)
      /\ \A i \in DOMAIN pool.tables["extension"] :
           next.tables["extension"][i] = pool.tables["extension"][i]
      /\ \A i \in DOMAIN exts : next.tables["extension"][base + i] = Row(exts[i], f, to(i))
  <2> DEFINE rows == [i \in DOMAIN exts |-> Row(exts[i], f, to(i))]
             t == pool.tables["extension"]
  <2>1. next.tables["extension"] = t \o rows
    BY <1>1, <1>6
  <2>2. t \in Seq(Entry)
    BY <1>1
  <2>3. ASSUME NEW i \in DOMAIN exts
        PROVE  rows[i] \in Entry
    <3>1. exts[i] \in Decl
      BY <1>4
    <3>2. exts[i].extendee \in Names
      BY <3>1 DEF Decl
    <3>3. pool.names[exts[i].extendee].index \in Nat
      BY <3>2, <1>1 DEF Definition
    <3>4. to(i) \in Nat
      BY <3>3 DEF Extendee, to
    <3>5. f \in Nat
      BY <1>1
    <3>6. Row(exts[i], f, to(i)) \in Entry
      BY <3>1, <3>4, <3>5, RowTyped
    <3> QED BY <3>6
  <2>4. DOMAIN exts = 1..Len(exts) /\ Len(exts) \in Nat
    BY <1>4
  <2>5. rows \in Seq(Entry) /\ Len(rows) = Len(exts)
    BY <2>3, <2>4
  <2>6. \A i \in DOMAIN exts : rows[i] = Row(exts[i], f, to(i))
    OBVIOUS
  <2> HIDE DEF rows, t
  <2>7. /\ Len(t \o rows) = Len(t) + Len(rows)
        /\ \A i \in DOMAIN t : (t \o rows)[i] = t[i]
        /\ \A i \in DOMAIN rows : (t \o rows)[Len(t) + i] = rows[i]
    BY <2>2, <2>5
  <2>8. DOMAIN rows = DOMAIN exts
    BY <2>4, <2>5
  <2> QED BY <2>1, <2>5, <2>6, <2>7, <2>8, Zenon DEF t, base
<1>15. AppendsRows(next, pool, "service", f)
  <2> DEFINE rows == [i \in DOMAIN services |-> Row(services[i], f, 0)]
             t == pool.tables["service"]
  <2>1. next.tables["service"] = t \o rows
    BY <1>6 DEF Kinds
  <2>2. t \in Seq(Entry)
    BY <1>1 DEF Kinds
  <2>3. ASSUME NEW i \in DOMAIN services
        PROVE  rows[i] \in Entry /\ rows[i].decl = services[i] /\ rows[i].file = f
    <3>1. services[i] \in Decl /\ f \in Nat
      BY <1>1, <1>4
    <3>2. Row(services[i], f, 0) \in Entry
      BY <3>1, RowTyped
    <3> QED BY <3>2 DEF Row
  <2>4. DOMAIN services = 1..Len(services) /\ Len(services) \in Nat
    BY <1>4
  <2>5. rows \in Seq(Entry) /\ Len(rows) = Len(services)
    BY <2>3, <2>4
  <2>6. services = Decls(pool, "service", f)
    BY DEF Decls, services
  <2> HIDE DEF rows, t
  <2>7. /\ Len(t \o rows) = Len(t) + Len(rows)
        /\ \A i \in DOMAIN t : (t \o rows)[i] = t[i]
        /\ \A i \in DOMAIN rows : (t \o rows)[Len(t) + i] = rows[i]
    BY <2>2, <2>5
  <2>8. DOMAIN rows = DOMAIN services
    BY <2>4, <2>5
  <2> QED BY <2>1, <2>3, <2>5, <2>6, <2>7, <2>8, Zenon DEF t, AppendsRows
<1>10. /\ next.files = pool.files /\ next.fileNames = pool.fileNames
       /\ next.names = pool.names
  BY <1>5
<1> DEFINE target == [i \in DOMAIN exts |-> to(i)]
<1>11. \A i \in DOMAIN exts : target[i] = to(i)
  OBVIOUS
<1>12. \A m : pushed(m) = { base + i : i \in { j \in DOMAIN exts : target[j] = m } }
  BY <1>11 DEF pushed
<1>13. target = Extendees(pool, f) /\ exts = Exts(pool, f)
  BY DEF Extendees, Exts, exts, to
<1> HIDE DEF new, old, target
<1>14. IsResolved(next, pool, f, exts, target)
  BY <1>2, <1>7, <1>8, <1>9, <1>10, <1>11, <1>12, <1>15 DEF IsResolved, base
<1> QED BY <1>13, <1>14 DEF next

\* Resolving a file makes the rows of both kinds that wait for it.
LEMMA DeferredRows ==
  ASSUME NEW pool \in Pool, NEW f \in DOMAIN pool.files, NEW next, NEW to,
         IsResolved(next, pool, f, Exts(pool, f), to)
  PROVE  \A k \in Deferred : AppendsRows(next, pool, k, f)
<1> DEFINE base == Len(pool.tables["extension"])
           exts == Exts(pool, f)
<1>1. exts = Decls(pool, "extension", f)
  BY DEF Exts, Decls
<1>2. /\ Len(next.tables["extension"]) = base + Len(exts)
      /\ \A i \in DOMAIN pool.tables["extension"] :
           next.tables["extension"][i] = pool.tables["extension"][i]
      /\ \A i \in DOMAIN exts : next.tables["extension"][base + i] = Row(exts[i], f, to[i])
  BY DEF IsResolved
<1> HIDE DEF exts
<1>3. \A i \in DOMAIN exts : /\ next.tables["extension"][base + i].decl = exts[i]
                             /\ next.tables["extension"][base + i].file = f
  <2> HIDE DEF base
  <2>1. \A decl, file, m : Row(decl, file, m).decl = decl /\ Row(decl, file, m).file = file
    BY DEF Row
  <2> QED BY <1>2, <2>1
<1>4. AppendsRows(next, pool, "extension", f)
  <2> DEFINE rows == Decls(pool, "extension", f)
  <2>1. exts = rows
    BY <1>1
  <2>2. /\ Len(next.tables["extension"]) = base + Len(rows)
        /\ \A i \in DOMAIN rows : /\ next.tables["extension"][base + i].decl = rows[i]
                                  /\ next.tables["extension"][base + i].file = f
    BY <1>2, <1>3, <2>1
  <2> HIDE DEF rows
  <2> QED BY <1>2, <2>2 DEF AppendsRows, rows
<1> QED BY <1>4 DEF IsResolved, Deferred

\* A sound pool, in the terms of Partial.
LEMMA SoundMeans ==
  ASSUME NEW pool \in Pool
  PROVE  Sound(pool) <=>
           /\ Tidy(pool)
           /\ \A n \in Names :
                CASE pool.names[n].kind = "none" -> TRUE
                  [] pool.names[n].kind = "package" ->
                       \E i \in DOMAIN pool.files : n \in pool.files[i].raw.packages
                  [] OTHER -> HasRow(pool, n)
           /\ \A k \in Kinds : \A i \in DOMAIN pool.tables[k] :
                Named(pool.names, k, i, pool.tables[k][i].decl)
           /\ FilesMatch(pool, Len(pool.files) + 1)
<1>1. \A n \in Names : DefinitionMatches(pool, n) <=>
         CASE pool.names[n].kind = "none" -> TRUE
           [] pool.names[n].kind = "package" ->
                \E i \in DOMAIN pool.files : n \in pool.files[i].raw.packages
           [] OTHER -> HasRow(pool, n)
  BY DEF DefinitionMatches, HasRow, Bears
<1>2. \A k \in Kinds : \A i \in DOMAIN pool.tables[k] :
         RowIsNamed(pool, k, i) <=> Named(pool.names, k, i, pool.tables[k][i].decl)
  BY DEF RowIsNamed, Named, LeadsTo
<1>3. \A i \in DOMAIN pool.files : i < Len(pool.files) + 1
  BY DEF Pool
<1> QED BY <1>1, <1>2, <1>3 DEF Sound, NamesMatch, FilesMatch

\* Two pools that differ in their extension lists only.
Alike(pool, next) ==
  /\ Len(next.files) = Len(pool.files)
  /\ \A i \in DOMAIN pool.files : next.files[i] = pool.files[i]
  /\ \A g \in FileNames : next.fileNames[g] = pool.fileNames[g]
  /\ \A n \in Names : next.names[n] = pool.names[n]
  /\ \A k \in Kinds :
       /\ Len(next.tables[k]) = Len(pool.tables[k])
       /\ \A i \in DOMAIN pool.tables[k] :
            /\ next.tables[k][i].decl = pool.tables[k][i].decl
            /\ next.tables[k][i].file = pool.tables[k][i].file

LEMMA PoolTyped ==
  ASSUME NEW pool \in Pool
  PROVE  /\ pool.files \in Seq(FileInner) /\ Len(pool.files) \in Nat
         /\ DOMAIN pool.files = 1..Len(pool.files)
         /\ \A i \in DOMAIN pool.files : pool.files[i].raw \in Proto
         /\ \A g \in FileNames : pool.fileNames[g] \in Nat
         /\ \A n \in Names : pool.names[n] \in Definition
         /\ \A k \in Kinds :
              /\ pool.tables[k] \in Seq(Entry) /\ Len(pool.tables[k]) \in Nat
              /\ DOMAIN pool.tables[k] = 1..Len(pool.tables[k])
              /\ \A i \in DOMAIN pool.tables[k] : pool.tables[k][i] \in Entry
<1>1. /\ pool.files \in Seq(FileInner) /\ pool.tables \in [Kinds -> Seq(Entry)]
      /\ pool.fileNames \in [FileNames -> Nat] /\ pool.names \in [Names -> Definition]
  BY DEF Pool
<1>2. ASSUME NEW i \in DOMAIN pool.files
      PROVE  pool.files[i].raw \in Proto
  <2>1. pool.files[i] \in FileInner
    BY <1>1
  <2> QED BY <2>1 DEF FileInner
<1> QED BY <1>1, <1>2

LEMMA ProtoTyped ==
  ASSUME NEW p \in Proto
  PROVE  /\ p.name \in FileNames /\ p.packages \subseteq Names
         /\ \A k \in Kinds :
              /\ p.decls[k] \in Seq(Decl) /\ Len(p.decls[k]) \in Nat
              /\ DOMAIN p.decls[k] = 1..Len(p.decls[k])
              /\ \A i \in DOMAIN p.decls[k] :
                   /\ p.decls[k][i] \in Decl /\ p.decls[k][i].name \in Names
                   /\ p.decls[k][i].members \subseteq Names
                   /\ p.decls[k][i].extendee \in Names
<1>1. p.name \in FileNames /\ p.packages \subseteq Names /\ p.decls \in [Kinds -> Seq(Decl)]
  BY DEF Proto
<1>2. ASSUME NEW k \in Kinds, NEW i \in DOMAIN p.decls[k]
      PROVE  /\ p.decls[k][i] \in Decl /\ p.decls[k][i].name \in Names
             /\ p.decls[k][i].members \subseteq Names
             /\ p.decls[k][i].extendee \in Names
  <2>1. p.decls[k][i] \in Decl
    BY <1>1
  <2> QED BY <2>1 DEF Decl
<1> QED BY <1>1, <1>2

LEMMA AlikeSound ==
  ASSUME NEW pool \in Pool, NEW next \in Pool, Alike(pool, next), Sound(pool)
  PROVE  Sound(next)
<1>1. /\ DOMAIN next.files = DOMAIN pool.files
      /\ \A k \in Kinds : DOMAIN next.tables[k] = DOMAIN pool.tables[k]
  BY PoolTyped DEF Alike
<1>2. Tidy(next)
  BY SoundMeans DEF Tidy, Alike
<1>3. ASSUME NEW n \in Names
      PROVE  CASE next.names[n].kind = "none" -> TRUE
               [] next.names[n].kind = "package" ->
                    \E i \in DOMAIN next.files : n \in next.files[i].raw.packages
               [] OTHER -> HasRow(next, n)
  <2>1. next.names[n] = pool.names[n] /\ pool.names[n].kind \in Kinds \cup {"package", "none"}
    BY PoolTyped DEF Alike, Definition
  <2>2. CASE pool.names[n].kind = "none"
    BY <2>1, <2>2
  <2>3. CASE pool.names[n].kind = "package"
    <3>1. PICK i \in DOMAIN pool.files : n \in pool.files[i].raw.packages
      BY <2>3, SoundMeans
    <3> QED BY <1>1, <2>1, <2>3, <3>1 DEF Alike
  <2>4. CASE pool.names[n].kind \in Kinds
    <3>1. HasRow(pool, n)
      BY SMTT(60), <2>4, SoundMeans DEF Kinds
    <3> DEFINE k == pool.names[n].kind
               i == pool.names[n].index
    <3>3. k \in Kinds /\ i \in DOMAIN pool.tables[k]
      BY <2>4, <3>1 DEF HasRow
    <3>4. /\ i \in DOMAIN next.tables[k]
          /\ next.tables[k][i].decl = pool.tables[k][i].decl
          /\ next.tables[k][i].file = pool.tables[k][i].file
      BY ZenonT(60), <1>1, <3>3 DEF Alike
    <3>2. HasRow(next, n)
      BY <2>1, <3>1, <3>4 DEF HasRow
    <3> QED BY <2>1, <2>4, <3>2 DEF Kinds
  <2> QED BY <2>1, <2>2, <2>3, <2>4
<1>4. ASSUME NEW k \in Kinds, NEW i \in DOMAIN next.tables[k]
      PROVE  Named(next.names, k, i, next.tables[k][i].decl)
  <2>1. /\ next.tables[k][i].decl = pool.tables[k][i].decl
        /\ Named(pool.names, k, i, pool.tables[k][i].decl)
    BY <1>1, SoundMeans DEF Alike
  <2>2. pool.tables[k][i].decl \in Decl
    BY <1>1, PoolTyped DEF Entry
  <2>3. pool.tables[k][i].decl.name \in Names /\ pool.tables[k][i].decl.members \subseteq Names
    BY <2>2 DEF Decl
  <2> QED BY <2>1, <2>3 DEF Named, Alike
<1>5. FilesMatch(next, Len(next.files) + 1)
  <2>1. FilesMatch(pool, Len(pool.files) + 1)
    BY SoundMeans
  <2>2. \A i \in DOMAIN pool.files : /\ pool.files[i].raw.name \in FileNames
                                     /\ pool.files[i].raw.packages \subseteq Names
    BY PoolTyped, ProtoTyped
  <2> QED BY <1>1, <2>1, <2>2 DEF FilesMatch, Alike
<1> QED BY <1>2, <1>3, <1>4, <1>5, SoundMeans
\* A step that only adds past the offsets leaves what rollback would restore:
\* a name it defines is that of a new row, or of a package that no file from
\* before the build declares.
LEMMA UndoKept ==
  ASSUME NEW pool \in Pool, NEW next \in Pool, NEW off \in Offsets,
         Within(off, pool), Within(off, next),
         \A i \in 1..off.file : next.files[i] = pool.files[i],
         \A g \in FileNames : \/ next.fileNames[g] = pool.fileNames[g]
                              \/ /\ next.fileNames[g] > off.file
                                 /\ pool.fileNames[g] \notin 1..off.file,
         \A k \in Kinds : \A i \in 1..off.table[k] :
            /\ next.tables[k][i].decl = pool.tables[k][i].decl
            /\ next.tables[k][i].file = pool.tables[k][i].file,
         \A n \in Names : \/ next.names[n] = pool.names[n]
                          \/ /\ pool.names[n] = NoDef
                             /\ \/ next.names[n].kind = "package"
                                \/ /\ next.names[n].kind \in Kinds
                                   /\ next.names[n].index > off.table[next.names[n].kind],
         Sound(RolledBack(pool, off))
  PROVE  Sound(RolledBack(next, off))
<1> DEFINE back == RolledBack(pool, off)
           undone == RolledBack(next, off)
<1>1. /\ back \in Pool
      /\ Len(back.files) = off.file
      /\ \A i \in 1..off.file : back.files[i] = pool.files[i]
      /\ \A g \in FileNames : back.fileNames[g] =
           IF pool.fileNames[g] <= off.file THEN pool.fileNames[g] ELSE 0
      /\ \A n \in Names : back.names[n] = IF Stays(pool, off, n) THEN pool.names[n] ELSE NoDef
      /\ \A k \in Kinds :
           /\ Len(back.tables[k]) = off.table[k]
           /\ \A i \in 1..off.table[k] :
                /\ back.tables[k][i].decl = pool.tables[k][i].decl
                /\ back.tables[k][i].file = pool.tables[k][i].file
  BY RolledBackParts
<1>2. /\ undone \in Pool
      /\ Len(undone.files) = off.file
      /\ \A i \in 1..off.file : undone.files[i] = next.files[i]
      /\ \A g \in FileNames : undone.fileNames[g] =
           IF next.fileNames[g] <= off.file THEN next.fileNames[g] ELSE 0
      /\ \A n \in Names : undone.names[n] = IF Stays(next, off, n) THEN next.names[n] ELSE NoDef
      /\ \A k \in Kinds :
           /\ Len(undone.tables[k]) = off.table[k]
           /\ \A i \in 1..off.table[k] :
                /\ undone.tables[k][i].decl = next.tables[k][i].decl
                /\ undone.tables[k][i].file = next.tables[k][i].file
  BY RolledBackParts
<1> HIDE DEF back, undone
<1>3. /\ DOMAIN back.files = 1..off.file
      /\ \A k \in Kinds : DOMAIN back.tables[k] = 1..off.table[k]
      /\ off.file \in Nat /\ \A k \in Kinds : off.table[k] \in Nat
  BY <1>1, PoolTyped DEF Offsets
<1>4. ASSUME NEW g \in FileNames
      PROVE  undone.fileNames[g] = back.fileNames[g]
  <2>1. pool.fileNames[g] \in Nat /\ next.fileNames[g] \in Nat
    BY PoolTyped
  <2> QED BY <1>1, <1>2, <1>3, <2>1
<1>5. ASSUME NEW n \in Names
      PROVE  undone.names[n] = back.names[n]
  <2>1. CASE next.names[n] = pool.names[n]
    <3>1. Stays(next, off, n) <=> Stays(pool, off, n)
      BY <2>1 DEF Stays
    <3> QED BY <1>1, <1>2, <2>1, <3>1
  <2>2. CASE next.names[n] # pool.names[n]
    <3>1. pool.names[n] = NoDef
      BY <2>2
    <3>2. back.names[n] = NoDef
      BY <1>1, <3>1
    <3>3. ~Stays(next, off, n)
      <4>1. CASE next.names[n].kind = "package"
        <5>1. SUFFICES ASSUME NEW i \in 1..off.file, n \in next.files[i].raw.packages
                       PROVE  FALSE
          BY <4>1 DEF Stays
        <5>2. i \in DOMAIN back.files /\ n \in back.files[i].raw.packages
          BY <1>1, <1>3, <5>1
        <5>3. back.names[n].kind = "package"
          BY <1>1, <5>2, SoundMeans DEF FilesMatch, back
        <5> QED BY <3>2, <5>3 DEF NoDef
      <4>2. CASE /\ next.names[n].kind \in Kinds
                 /\ next.names[n].index > off.table[next.names[n].kind]
        <5>1. next.names[n].index \in Nat
          BY PoolTyped DEF Definition
        <5> QED BY <1>3, <4>2, <5>1 DEF Stays, Kinds
      <4> QED BY <2>2, <4>1, <4>2
    <3> QED BY <1>2, <3>2, <3>3
  <2> QED BY <2>1, <2>2
<1>6. Alike(back, undone)
  <2>1. Len(undone.files) = Len(back.files) /\ \A i \in DOMAIN back.files : undone.files[i] = back.files[i]
    BY <1>1, <1>2, <1>3
  <2>2. \A g \in FileNames : undone.fileNames[g] = back.fileNames[g]
    BY <1>4
  <2>3. \A n \in Names : undone.names[n] = back.names[n]
    BY <1>5
  <2>4. ASSUME NEW k \in Kinds
        PROVE  /\ Len(undone.tables[k]) = Len(back.tables[k])
               /\ \A i \in DOMAIN back.tables[k] :
                    /\ undone.tables[k][i].decl = back.tables[k][i].decl
                    /\ undone.tables[k][i].file = back.tables[k][i].file
    BY SMTT(60), <1>1, <1>2, <1>3
  <2> QED BY ONLY <2>1, <2>2, <2>3, <2>4 DEF Alike
<1> QED BY <1>1, <1>2, <1>6, AlikeSound DEF back, undone

\* At the start of a build nothing is to be undone.
LEMMA UndoStart ==
  ASSUME NEW pool \in Pool, Sound(pool)
  PROVE  Sound(RolledBack(pool, OffsetsOf(pool)))
<1> DEFINE off == OffsetsOf(pool)
           back == RolledBack(pool, off)
<1>1. /\ off \in Offsets /\ Within(off, pool) /\ off.file = Len(pool.files)
      /\ \A k \in Kinds : off.table[k] = Len(pool.tables[k])
  BY OffsetsTyped DEF OffsetsOf
<1> HIDE DEF off
<1>2. /\ back \in Pool
      /\ Len(back.files) = off.file
      /\ \A i \in 1..off.file : back.files[i] = pool.files[i]
      /\ \A g \in FileNames : back.fileNames[g] =
           IF pool.fileNames[g] <= off.file THEN pool.fileNames[g] ELSE 0
      /\ \A n \in Names : back.names[n] = IF Stays(pool, off, n) THEN pool.names[n] ELSE NoDef
      /\ \A k \in Kinds :
           /\ Len(back.tables[k]) = off.table[k]
           /\ \A i \in 1..off.table[k] :
                /\ back.tables[k][i].decl = pool.tables[k][i].decl
                /\ back.tables[k][i].file = pool.tables[k][i].file
  BY <1>1, RolledBackParts
<1> HIDE DEF back
<1>3. FilesMatch(pool, off.file + 1)
  BY <1>1, SoundMeans
<1>4. ASSUME NEW g \in FileNames
      PROVE  back.fileNames[g] = pool.fileNames[g]
  <2>1. pool.fileNames[g] \in Nat /\ (pool.fileNames[g] # 0 => pool.fileNames[g] \in 1..off.file)
    BY <1>1, <1>3, PoolTyped DEF FilesMatch
  <2> QED BY <1>1, <1>2, <2>1
<1>5. ASSUME NEW n \in Names
      PROVE  back.names[n] = pool.names[n]
  <2>1. pool.names[n].kind \in Kinds \cup {"package", "none"}
    BY PoolTyped DEF Definition
  <2>2. CASE pool.names[n].kind = "none"
    <3>1. pool.names[n] = NoDef
      BY <2>2, SoundMeans DEF Tidy
    <3> QED BY <1>2, <3>1
  <2>3. CASE pool.names[n].kind = "package"
    <3>1. PICK i \in DOMAIN pool.files : n \in pool.files[i].raw.packages
      BY <2>3, SoundMeans
    <3>2. i \in 1..off.file /\ pool.files[i].prost
      BY <1>1, <1>3, <3>1, PoolTyped DEF FilesMatch
    <3> QED BY <1>2, <2>3, <3>1, <3>2 DEF Stays
  <2>4. CASE pool.names[n].kind \in Kinds
    <3>1. pool.names[n].index \in DOMAIN pool.tables[pool.names[n].kind]
      BY <2>4, SoundMeans DEF HasRow, Kinds
    <3>2. pool.names[n].index <= off.table[pool.names[n].kind]
      BY <1>1, <2>4, <3>1, PoolTyped
    <3> QED BY <1>2, <2>4, <3>2 DEF Stays, Kinds
  <2> QED BY <2>1, <2>2, <2>3, <2>4
<1>6. Alike(pool, back)
  BY <1>1, <1>2, <1>4, <1>5, PoolTyped DEF Alike
<1> QED BY <1>2, <1>6, AlikeSound DEF back, off
LEMMA UndoDeclared ==
  ASSUME NEW pool \in Pool, NEW p \in Proto, NEW base \in [Kinds -> Nat],
         NEW off \in Offsets, Within(off, pool),
         \A k \in Kinds : off.table[k] <= base[k],
         pool.fileNames[p.name] \notin 1..off.file,
         Sound(RolledBack(pool, off))
  PROVE  Sound(RolledBack(Declared(pool, p, base), off))
<1> DEFINE next == Declared(pool, p, base)
           file == Len(pool.files) + 1
<1>1. IsDeclared(next, pool, p, base, file)
  BY DeclaredParts
<1>2. Within(off, next)
  BY DeclaredTyped, WithinGrows
<1> HIDE DEF next, file
<1>3. /\ off.file \in Nat /\ off.file <= Len(pool.files)
      /\ \A k \in Kinds : off.table[k] \in Nat /\ off.table[k] <= Len(pool.tables[k])
  BY DEF Offsets, Within
<1>4. \A i \in 1..off.file : next.files[i] = pool.files[i]
  BY <1>1, <1>3, PoolTyped DEF IsDeclared
<1>5. \A g \in FileNames : \/ next.fileNames[g] = pool.fileNames[g]
                           \/ /\ next.fileNames[g] > off.file
                              /\ pool.fileNames[g] \notin 1..off.file
  <2>1. file > off.file
    BY <1>3, PoolTyped DEF file
  <2>2. pool.fileNames \in [FileNames -> Nat]
    BY DEF Pool
  <2> QED BY <1>1, <2>1, <2>2 DEF IsDeclared
<1>6. \A k \in Kinds : \A i \in 1..off.table[k] :
        /\ next.tables[k][i].decl = pool.tables[k][i].decl
        /\ next.tables[k][i].file = pool.tables[k][i].file
  <2> SUFFICES ASSUME NEW k \in Kinds, NEW i \in 1..off.table[k]
               PROVE  next.tables[k][i] = pool.tables[k][i]
    OBVIOUS
  <2>1. i \in DOMAIN pool.tables[k]
    BY <1>3, PoolTyped
  <2> QED BY <1>1, <2>1 DEF IsDeclared
<1>7. ASSUME NEW n \in Names
      PROVE  \/ next.names[n] = pool.names[n]
             \/ /\ pool.names[n] = NoDef
                /\ \/ next.names[n].kind = "package"
                   \/ /\ next.names[n].kind \in Kinds
                      /\ next.names[n].index > off.table[next.names[n].kind]
  <2>1. CASE pool.names[n] = NoDef /\ \E a \in Additions(p, file, base) :
                                         a.name = n /\ next.names[n] = a.def
    <3>1. PICK a \in Additions(p, file, base) : next.names[n] = a.def
      BY <2>1
    <3>2. CASE IsOfPackage(a, p, file)
      BY <2>1, <3>1, <3>2 DEF IsOfPackage, Def
    <3>3. ASSUME NEW k \in Kinds, NEW i \in DOMAIN p.decls[k], IsOfDecl(a, p, file, base, k, i)
          PROVE  next.names[n].kind \in Kinds
                 /\ next.names[n].index > off.table[next.names[n].kind]
      <4>1. next.names[n].kind = k /\ next.names[n].index = base[k] + i
        BY <3>1, <3>3 DEF IsOfDecl, Def
      <4>2. i \in Nat \ {0} /\ base[k] \in Nat /\ off.table[k] <= base[k]
        BY ProtoTyped
      <4> QED BY <1>3, <4>1, <4>2
    <3>4. file \in Nat
      BY <1>1 DEF IsDeclared
    <3> QED BY <2>1, <3>2, <3>3, <3>4, AdditionsAre
  <2> QED BY <1>1, <2>1, WithNamesGives DEF IsDeclared
<1> QED BY <1>1, <1>2, <1>4, <1>5, <1>6, <1>7, UndoKept DEF next, IsDeclared

LEMMA UndoResolved ==
  ASSUME NEW pool \in Pool, NEW f \in DOMAIN pool.files,
         NEW off \in Offsets, Within(off, pool), Sound(RolledBack(pool, off))
  PROVE  Sound(RolledBack(Resolved(pool, f), off))
<1> DEFINE next == Resolved(pool, f)
           exts == Exts(pool, f)
           to == Extendees(pool, f)
<1>1. IsResolved(next, pool, f, exts, to)
  BY ResolvedParts
<1>2. Within(off, next)
  BY ResolvedTyped, WithinGrows
<1>4. \A k \in Deferred : AppendsRows(next, pool, k, f)
  BY <1>1, DeferredRows
<1> HIDE DEF next, exts, to
<1>3. \A k \in Kinds : \A i \in 1..off.table[k] :
        /\ next.tables[k][i].decl = pool.tables[k][i].decl
        /\ next.tables[k][i].file = pool.tables[k][i].file
  <2> SUFFICES ASSUME NEW k \in Kinds, NEW i \in 1..off.table[k]
               PROVE  /\ next.tables[k][i].decl = pool.tables[k][i].decl
                      /\ next.tables[k][i].file = pool.tables[k][i].file
    OBVIOUS
  <2>1. i \in DOMAIN pool.tables[k]
    BY PoolTyped DEF Offsets, Within
  <2>2. CASE k = "message"
    BY <1>1, <2>1, <2>2 DEF IsResolved
  <2>3. CASE k \in Deferred
    <3>1. AppendsRows(next, pool, k, f)
      BY <1>4, <2>3
    <3> QED BY <2>1, <3>1 DEF AppendsRows
  <2> QED BY <1>1, <2>2, <2>3 DEF IsResolved
<1> QED BY <1>1, <1>2, <1>3, UndoKept DEF next, IsResolved
-----------------------------------------------------------------------------
(* How the tables of a pool under construction match.                      *)

\* When no name clashes, every name of the file leads where it should, and the
\* names that were defined before keep their definition.
LEMMA DeclaredNames ==
  ASSUME NEW pool \in Pool, NEW p \in Proto, NEW base \in [Kinds -> Nat],
         NEW next, NEW file, IsDeclared(next, pool, p, base, file),
         ~DeclareFails(pool, p, base)
  PROVE  /\ \A n \in Names : pool.names[n].kind # "none" => next.names[n] = pool.names[n]
         /\ \A n \in Names :
              \/ next.names[n] = pool.names[n]
              \/ n \in p.packages /\ next.names[n].kind = "package"
              \/ \E k \in Kinds : \E i \in DOMAIN p.decls[k] :
                   /\ next.names[n].kind = k /\ next.names[n].index = base[k] + i
                   /\ next.names[n].file = file
                   /\ Bears(next.names[n], p.decls[k][i], n)
         /\ \A n \in p.packages : next.names[n].kind = "package"
         /\ \A k \in Kinds : \A i \in DOMAIN p.decls[k] :
              Named(next.names, k, base[k] + i, p.decls[k][i])
<1> DEFINE adds == Additions(p, file, base)
<1>1. /\ file \in Nat /\ next.names = WithNames(pool.names, adds)
      /\ ~NameClash(pool.names, adds)
  BY DEF IsDeclared, DeclareFails
<1>2. \A a \in adds : a.name \in Names
  BY <1>1, AdditionsTyped
<1>3. ASSUME NEW a \in adds
      PROVE  /\ pool.names[a.name] = NoDef \/ BothPackages(pool.names[a.name], a.def)
             /\ \A b \in adds : b.name = a.name => b = a
  BY <1>1 DEF NameClash
<1>a. ASSUME NEW a \in adds
      PROVE  \/ IsOfPackage(a, p, file)
             \/ \E k \in Kinds : \E i \in DOMAIN p.decls[k] : IsOfDecl(a, p, file, base, k, i)
  BY <1>1, AdditionsAre
<1>b. /\ \A n \in p.packages : \E a \in adds :
           a.name = n /\ a.def = Def("package", FALSE, 0, file)
      /\ \A k \in Kinds : \A i \in DOMAIN p.decls[k] :
           /\ \E a \in adds :
                a.name = p.decls[k][i].name /\ a.def = Def(k, FALSE, base[k] + i, file)
           /\ \A n \in p.decls[k][i].members : \E a \in adds :
                a.name = n /\ a.def = Def(k, TRUE, base[k] + i, file)
  BY ZenonT(60), <1>1, AdditionsInclude
<1> HIDE DEF adds
<1>4. ASSUME NEW n \in Names
      PROVE  \/ next.names[n] = pool.names[n] /\ (pool.names[n] # NoDef \/ \A a \in adds : a.name # n)
             \/ pool.names[n] = NoDef /\ \E a \in adds : a.name = n /\ next.names[n] = a.def
  BY <1>1, WithNamesGives
<1>5. ASSUME NEW n \in Names, pool.names[n].kind # "none"
      PROVE  next.names[n] = pool.names[n]
  BY <1>4, <1>5 DEF NoDef
<1>6. ASSUME NEW n \in Names
      PROVE  \/ next.names[n] = pool.names[n]
             \/ n \in p.packages /\ next.names[n].kind = "package"
             \/ \E k \in Kinds : \E i \in DOMAIN p.decls[k] :
                  /\ next.names[n].kind = k /\ next.names[n].index = base[k] + i
                  /\ next.names[n].file = file
                  /\ Bears(next.names[n], p.decls[k][i], n)
  <2>1. CASE next.names[n] = pool.names[n]
    BY <2>1
  <2>2. CASE next.names[n] # pool.names[n]
    <3>1. PICK a \in adds : a.name = n /\ next.names[n] = a.def
      BY <1>4, <2>2
    <3>2. CASE IsOfPackage(a, p, file)
      BY <3>1, <3>2 DEF IsOfPackage, Def
    <3>3. ASSUME NEW k \in Kinds, NEW i \in DOMAIN p.decls[k], IsOfDecl(a, p, file, base, k, i)
          PROVE  /\ next.names[n].kind = k /\ next.names[n].index = base[k] + i
                 /\ next.names[n].file = file
                 /\ Bears(next.names[n], p.decls[k][i], n)
      BY <3>1, <3>3 DEF IsOfDecl, Def
    <3> QED BY <1>a, <3>2, <3>3
  <2> QED BY <2>1, <2>2
<1>7. ASSUME NEW n \in p.packages
      PROVE  next.names[n].kind = "package"
  <2>1. PICK a \in adds : a.name = n /\ a.def = Def("package", FALSE, 0, file)
    BY <1>b
  <2>2. n \in Names
    BY <1>2, <2>1
  <2>3. CASE pool.names[n] = NoDef
    <3>1. PICK b \in adds : b.name = n /\ next.names[n] = b.def
      BY <1>4, <2>1, <2>2, <2>3
    <3>2. b = a
      BY <1>3, <2>1, <3>1
    <3> QED BY <2>1, <3>1, <3>2 DEF Def
  <2>4. CASE pool.names[n] # NoDef
    <3>1. pool.names[n].kind = "package"
      BY <1>3, <2>1, <2>4 DEF BothPackages
    <3> QED BY <1>5, <2>2, <3>1
  <2> QED BY <2>3, <2>4
<1>8. ASSUME NEW k \in Kinds, NEW i \in DOMAIN p.decls[k], NEW m \in BOOLEAN,
             NEW a \in adds, a.def = Def(k, m, base[k] + i, file)
      PROVE  LeadsTo(next.names[a.name], k, m, base[k] + i)
  <2>1. a.name \in Names
    BY <1>2
  <2>2. pool.names[a.name] = NoDef
    <3>1. a.def.kind # "package"
      BY <1>8 DEF Def, Kinds
    <3> QED BY <1>3, <3>1 DEF BothPackages
  <2>3. PICK b \in adds : b.name = a.name /\ next.names[a.name] = b.def
    BY <1>4, <2>1, <2>2
  <2>4. b = a
    BY <1>3, <2>3
  <2> QED BY <1>8, <2>3, <2>4 DEF Def, LeadsTo
<1>9. ASSUME NEW k \in Kinds, NEW i \in DOMAIN p.decls[k]
      PROVE  Named(next.names, k, base[k] + i, p.decls[k][i])
  <2>1. LeadsTo(next.names[p.decls[k][i].name], k, FALSE, base[k] + i)
    BY ZenonT(60), <1>8, <1>b
  <2>2. \A n \in p.decls[k][i].members : LeadsTo(next.names[n], k, TRUE, base[k] + i)
    BY ZenonT(60), <1>8, <1>b
  <2> QED BY <2>1, <2>2 DEF Named
<1> QED BY <1>5, <1>6, <1>7, <1>9
\* A sound pool is where a build starts: nothing is waiting for its row.
LEMMA GrowStart ==
  ASSUME NEW pool \in Pool, Sound(pool)
  PROVE  \E slots : /\ Slots(pool, Len(pool.files) + 1, slots)
                    /\ \A k \in Deferred :
                         slots[k][Len(pool.files) + 1] = Len(pool.tables[k])
                    /\ Partial(pool, Len(pool.files) + 1, slots)
<1> DEFINE from == Len(pool.files) + 1
           slots == [k \in Deferred |-> [g \in from..from |-> Len(pool.tables[k])]]
<1>1. /\ from \in Nat /\ from..Len(pool.files) = {}
      /\ \A k \in Deferred : Len(pool.tables[k]) \in Nat
  BY PoolTyped DEF Kinds, Deferred
<1>2. \A k \in Deferred : slots[k] \in [from..from -> Nat] /\ slots[k][from] = Len(pool.tables[k])
  BY <1>1
<1>3. Slots(pool, from, slots)
  <2> HIDE DEF slots
  <2> QED BY <1>1, <1>2 DEF Slots, SlotsOf
<1>4. Partial(pool, from, slots)
  <2>1. \A n \in Names : NameMatches(pool, from, slots, n)
    BY SoundMeans DEF NameMatches
  <2> HIDE DEF slots, from
  <2> QED BY <1>1, <2>1, SoundMeans DEF Partial, from
<1> HIDE DEF slots
<1> QED BY <1>2, <1>3, <1>4

LEMMA PastTheFirst ==
  ASSUME NEW a \in Nat, NEW b \in Nat, NEW i \in 1..(a + b), i \notin 1..a
  PROVE  \E g \in 1..b : i = a + g
<1>1. i - a \in 1..b /\ i = a + (i - a)
  OBVIOUS
<1> QED BY <1>1

\* Declaring a file without a clash: it gets the last slot of each kind.
SlotGoesOn(k, pool, next, file, from, slot, count, new) ==
  /\ file \in Nat /\ file = Len(pool.files) + 1 /\ Len(pool.files) \in Nat /\ Len(next.files) = file
  /\ from \in 1..file /\ SlotsOf(pool, k, from, slot)
  /\ \A f \in 1..Len(pool.files) :
        Decls(next, k, f) = Decls(pool, k, f) /\ Len(Decls(pool, k, f)) \in Nat
  /\ count \in Nat /\ Len(Decls(next, k, file)) = count
  /\ new \in [from..(file + 1) -> Nat]
  /\ \A g \in from..file : new[g] = slot[g]
  /\ new[file + 1] = slot[file] + count
LEMMA SlotAdded ==
  ASSUME NEW k, NEW pool, NEW next, NEW file, NEW from, NEW slot, NEW count, NEW new,
         SlotGoesOn(k, pool, next, file, from, slot, count, new)
  PROVE  SlotsOf(next, k, from, new)
<1>0. /\ file \in Nat /\ file = Len(pool.files) + 1 /\ Len(pool.files) \in Nat /\ Len(next.files) = file
      /\ from \in 1..file /\ SlotsOf(pool, k, from, slot)
      /\ \A f \in 1..Len(pool.files) :
            Decls(next, k, f) = Decls(pool, k, f) /\ Len(Decls(pool, k, f)) \in Nat
      /\ count \in Nat /\ Len(Decls(next, k, file)) = count
      /\ new \in [from..(file + 1) -> Nat]
      /\ \A g \in from..file : new[g] = slot[g]
      /\ new[file + 1] = slot[file] + count
  BY DEF SlotGoesOn
<1> USE <1>0
<1>1. /\ slot \in [from..file -> Nat] /\ Len(pool.files) = file - 1
      /\ \A f \in from..(file - 1) :
           /\ slot[f + 1] = slot[f] + Len(Decls(pool, k, f))
           /\ \A g \in (f + 1)..file : slot[f] + Len(Decls(pool, k, f)) <= slot[g]
  <2>1. Len(pool.files) = file - 1 /\ Len(pool.files) + 1 = file
    OBVIOUS
  <2> QED BY <2>1 DEF SlotsOf
<1>2. ASSUME NEW f \in from..file
      PROVE  /\ new[f + 1] = new[f] + Len(Decls(next, k, f))
             /\ \A g \in (f + 1)..(file + 1) : new[f] + Len(Decls(next, k, f)) <= new[g]
  <2>1. CASE f = file
    <3>1. new[f] = slot[file] /\ slot[file] \in Nat
      BY <1>1, <2>1
    <3>2. \A g \in (f + 1)..(file + 1) : g = file + 1
      BY <2>1
    <3> QED BY <2>1, <3>1, <3>2
  <2>2. CASE f # file
    <3>1. f \in from..(file - 1) /\ f + 1 \in from..file /\ f \in 1..(file - 1)
      BY <2>2
    <3>2. new[f] = slot[f] /\ new[f + 1] = slot[f + 1]
      BY <3>1
    <3>3. Decls(next, k, f) = Decls(pool, k, f) /\ Len(Decls(pool, k, f)) \in Nat
      BY <1>1, <3>1
    <3>4. \A g \in (f + 1)..file : slot[f] + Len(Decls(pool, k, f)) <= new[g]
      BY <1>1, <3>1
    <3>5. slot[f] + Len(Decls(pool, k, f)) <= new[file + 1]
      <4>1. slot[f] + Len(Decls(pool, k, f)) <= slot[file]
        <5>1. file \in (f + 1)..file
          BY <3>1
        <5> QED BY <1>1, <3>1, <5>1
      <4>2. slot[f] \in Nat /\ slot[file] \in Nat
        <5>1. slot \in [from..file -> Nat]
          BY <1>1
        <5>2. f \in from..file /\ file \in from..file
          BY <3>1
        <5> QED BY ONLY <5>1, <5>2, Zenon
      <4>3. new[file + 1] = slot[file] + count /\ count \in Nat
        OBVIOUS
      <4> QED BY ONLY <3>3, <4>1, <4>2, <4>3
    <3>6. \A g \in (f + 1)..(file + 1) : g = file + 1 \/ g \in (f + 1)..file
      <4>1. file \in Nat /\ f \in Nat
        BY <3>1
      <4> QED BY ONLY <4>1
    <3>7. new[f + 1] = new[f] + Len(Decls(next, k, f))
      BY <1>1, <3>1, <3>2, <3>3
    <3>8. ASSUME NEW g \in (f + 1)..(file + 1)
          PROVE  new[f] + Len(Decls(next, k, f)) <= new[g]
      <4>1. CASE g = file + 1
        BY <3>2, <3>3, <3>5, <4>1
      <4>2. CASE g \in (f + 1)..file
        BY <3>2, <3>3, <3>4, <4>2
      <4> QED BY <3>6, <4>1, <4>2
    <3> QED BY <3>7, <3>8
  <2> QED BY <2>1, <2>2
<1> QED BY <1>2 DEF SlotsOf

\* A slot is not before the first one.
LEMMA SlotsRise ==
  ASSUME NEW k, NEW pool, NEW file \in Nat, file = Len(pool.files) + 1, NEW from \in 1..file,
         Len(pool.files) \in Nat, NEW slot, SlotsOf(pool, k, from, slot),
         \A f \in 1..Len(pool.files) : Len(Decls(pool, k, f)) \in Nat
  PROVE  slot[from] <= slot[file]
<1>1. slot \in [from..file -> Nat]
  BY DEF SlotsOf
<1>2. CASE from = file
  BY <1>1, <1>2
<1>3. CASE from # file
  <2>1. from \in from..Len(pool.files) /\ file \in (from + 1)..file
        /\ from \in 1..Len(pool.files)
    BY <1>3
  <2>2. slot[from] + Len(Decls(pool, k, from)) <= slot[file]
    BY <2>1 DEF SlotsOf
  <2>3. slot[from] \in Nat /\ slot[file] \in Nat /\ Len(Decls(pool, k, from)) \in Nat
    BY <1>1, <2>1
  <2> QED BY <2>2, <2>3
<1> QED BY <1>2, <1>3

LEMMA GrowDeclared ==
  ASSUME NEW pool \in Pool, NEW p \in Proto, NEW base \in [Kinds -> Nat],
         NEW from \in Nat \ {0}, from <= Len(pool.files) + 1,
         NEW slots, Slots(pool, from, slots), Partial(pool, from, slots),
         \A k \in Deferred : /\ base[k] = slots[k][Len(pool.files) + 1]
                             /\ Len(pool.tables[k]) = slots[k][from],
         \A k \in Kinds \ Deferred : base[k] = Len(pool.tables[k]),
         ~DeclareFails(pool, p, base)
  PROVE  LET next == Declared(pool, p, base)
         IN  \E new : /\ Slots(next, from, new)
                      /\ \A k \in Deferred :
                           /\ new[k][from] = slots[k][from]
                           /\ new[k][Len(next.files) + 1] = base[k] + Len(p.decls[k])
                      /\ Partial(next, from, new)
<1> DEFINE next == Declared(pool, p, base)
           file == Len(pool.files) + 1
           count(k) == Len(p.decls[k])
           added(k) == [g \in from..(file + 1) |->
                          IF g = file + 1 THEN slots[k][file] + count(k) ELSE slots[k][g]]
           new == [k \in Deferred |-> added(k)]
<1>1. IsDeclared(next, pool, p, base, file)
  BY DeclaredParts
<1>2. /\ next \in Pool /\ file \in Nat \ {0} /\ Len(next.files) = file
      /\ Len(pool.files) \in Nat /\ from \in 1..file
      /\ DOMAIN pool.files = 1..Len(pool.files) /\ DOMAIN next.files = 1..file
      /\ \A i \in DOMAIN pool.files : next.files[i] = pool.files[i]
      /\ next.files[file] = [raw |-> p, prost |-> FALSE]
      /\ \A k \in Deferred : next.tables[k] = pool.tables[k]
  BY <1>1, PoolTyped DEF IsDeclared
<1>3. Deferred \subseteq Kinds /\ \A k \in Kinds : count(k) \in Nat
  BY ProtoTyped DEF Kinds, Deferred
<1> HIDE DEF next, file, count
<1>4. \A k \in Kinds :
        /\ \A f \in 1..Len(pool.files) :
             Decls(next, k, f) = Decls(pool, k, f) /\ Len(Decls(pool, k, f)) \in Nat
        /\ Decls(next, k, file) = p.decls[k]
  BY SMTT(60), <1>2, PoolTyped, ProtoTyped DEF Decls
<1>5. \A k \in Deferred : slots[k] \in [from..file -> Nat]
  BY DEF Slots, SlotsOf, file
<1>6. file = Len(pool.files) + 1 /\ \A k \in Deferred : base[k] = slots[k][file]
  BY DEF file
<1>7. ASSUME NEW k \in Deferred
      PROVE  /\ new[k] \in [from..(file + 1) -> Nat]
             /\ \A g \in from..file : new[k][g] = slots[k][g]
             /\ new[k][file + 1] = slots[k][file] + count(k)
  <2>1. new[k] = added(k) /\ count(k) \in Nat /\ slots[k] \in [from..file -> Nat]
    BY <1>3, <1>5
  <2>2. /\ added(k) \in [from..(file + 1) -> Nat]
        /\ \A g \in from..file : added(k)[g] = slots[k][g]
        /\ added(k)[file + 1] = slots[k][file] + count(k)
    BY <1>2, <2>1
  <2> QED BY <2>1, <2>2, Zenon
<1> HIDE DEF new
<1>8. Slots(next, from, new)
  <2> SUFFICES ASSUME NEW k \in Deferred PROVE SlotsOf(next, k, from, new[k])
    BY DEF Slots
  <2>1. SlotsOf(pool, k, from, slots[k])
    BY DEF Slots
  <2>2. /\ \A f \in 1..Len(pool.files) :
             Decls(next, k, f) = Decls(pool, k, f) /\ Len(Decls(pool, k, f)) \in Nat
        /\ Len(Decls(next, k, file)) = count(k) /\ count(k) \in Nat
    BY <1>3, <1>4 DEF count
  <2>3. /\ new[k] \in [from..(file + 1) -> Nat]
        /\ \A g \in from..file : new[k][g] = slots[k][g]
        /\ new[k][file + 1] = slots[k][file] + count(k)
    BY <1>7
  <2>4. /\ file \in Nat /\ from \in 1..file /\ file = Len(pool.files) + 1
        /\ Len(pool.files) \in Nat /\ Len(next.files) = file
    BY <1>2, <1>6
  <2>5. SlotGoesOn(k, pool, next, file, from, slots[k], count(k), new[k])
    BY ONLY <2>1, <2>2, <2>3, <2>4, Zenon DEF SlotGoesOn
  <2> QED BY ONLY <2>5, SlotAdded, ZenonT(60)
<1>9. /\ \A n \in Names : pool.names[n].kind # "none" => next.names[n] = pool.names[n]
      /\ \A n \in Names :
           \/ next.names[n] = pool.names[n]
           \/ n \in p.packages /\ next.names[n].kind = "package"
           \/ \E k \in Kinds : \E i \in DOMAIN p.decls[k] :
                /\ next.names[n].kind = k /\ next.names[n].index = base[k] + i
                /\ next.names[n].file = file
                /\ Bears(next.names[n], p.decls[k][i], n)
      /\ \A n \in p.packages : next.names[n].kind = "package"
      /\ \A k \in Kinds : \A i \in DOMAIN p.decls[k] :
           Named(next.names, k, base[k] + i, p.decls[k][i])
  BY <1>1, DeclaredNames
<1>10. ASSUME NEW k \in Kinds, NEW i, NEW d \in Decl, Named(pool.names, k, i, d)
       PROVE  Named(next.names, k, i, d)
  <2>1. d.name \in Names /\ d.members \subseteq Names
    BY DEF Decl
  <2>2. k # "none"
    BY DEF Kinds
  <2>3. ASSUME NEW n \in Names, NEW m, LeadsTo(pool.names[n], k, m, i)
        PROVE  LeadsTo(next.names[n], k, m, i)
    <3>1. next.names[n] = pool.names[n]
      BY <1>9, <2>2, <2>3 DEF LeadsTo
    <3> QED BY <2>3, <3>1
  <2> QED BY <1>10, <2>1, <2>3 DEF Named
<1>11. ASSUME NEW k \in Kinds \ Deferred
       PROVE  /\ Len(next.tables[k]) = Len(pool.tables[k]) + Len(p.decls[k])
              /\ DOMAIN pool.tables[k] \subseteq DOMAIN next.tables[k]
              /\ \A i \in DOMAIN pool.tables[k] : next.tables[k][i] = pool.tables[k][i]
              /\ \A i \in DOMAIN p.decls[k] :
                   /\ base[k] + i \in DOMAIN next.tables[k]
                   /\ next.tables[k][base[k] + i] = Row(p.decls[k][i], file, 0)
              /\ \A i \in DOMAIN next.tables[k] \ DOMAIN pool.tables[k] :
                   \E g \in DOMAIN p.decls[k] : i = base[k] + g
  <2>1. /\ Len(next.tables[k]) = Len(pool.tables[k]) + Len(p.decls[k])
        /\ \A i \in DOMAIN pool.tables[k] : next.tables[k][i] = pool.tables[k][i]
        /\ \A i \in DOMAIN p.decls[k] :
             next.tables[k][Len(pool.tables[k]) + i] = Row(p.decls[k][i], file, 0)
    BY <1>1 DEF IsDeclared
  <2>2. /\ DOMAIN next.tables[k] = 1..Len(next.tables[k])
        /\ DOMAIN pool.tables[k] = 1..Len(pool.tables[k]) /\ Len(pool.tables[k]) \in Nat
        /\ DOMAIN p.decls[k] = 1..Len(p.decls[k]) /\ Len(p.decls[k]) \in Nat
        /\ base[k] = Len(pool.tables[k])
    BY <1>2, PoolTyped, ProtoTyped
  <2> DEFINE a == Len(pool.tables[k])
             b == Len(p.decls[k])
  <2>3. /\ a \in Nat /\ b \in Nat /\ base[k] = a
        /\ DOMAIN pool.tables[k] = 1..a /\ DOMAIN p.decls[k] = 1..b
    BY <2>2
  <2>4. DOMAIN next.tables[k] = 1..(a + b)
    BY <2>1, <2>2, Zenon
  <2>5. \A i \in 1..b : next.tables[k][a + i] = Row(p.decls[k][i], file, 0)
    BY <2>1, <2>3, Zenon
  <2> HIDE DEF a, b
  <2>6. 1..a \subseteq 1..(a + b) /\ \A i \in 1..b : a + i \in 1..(a + b)
    BY <2>3
  <2>7. ASSUME NEW i \in DOMAIN next.tables[k] \ DOMAIN pool.tables[k]
        PROVE  \E g \in DOMAIN p.decls[k] : i = base[k] + g
    <3>1. i \in 1..(a + b) /\ i \notin 1..a
      BY <2>3, <2>4
    <3>2. \E g \in 1..b : i = a + g
      BY <2>3, <3>1, PastTheFirst
    <3> QED BY <2>3, <3>2
  <2>8. ASSUME NEW i \in DOMAIN p.decls[k]
        PROVE  /\ base[k] + i \in DOMAIN next.tables[k]
               /\ next.tables[k][base[k] + i] = Row(p.decls[k][i], file, 0)
    BY <2>3, <2>4, <2>5, <2>6, Zenon
  <2>9. DOMAIN pool.tables[k] \subseteq DOMAIN next.tables[k]
    BY <2>3, <2>4, <2>6, Zenon
  <2> QED BY <2>1, <2>7, <2>8, <2>9
<1>12. Tidy(next)
  <2> SUFFICES ASSUME NEW n \in Names, next.names[n].kind = "none"
               PROVE  next.names[n] = NoDef
    BY DEF Tidy
  <2>1. next.names[n] = pool.names[n]
    BY <1>9 DEF Kinds
  <2> QED BY <2>1 DEF Partial, Tidy
<1>13. ASSUME NEW n \in Names
       PROVE  NameMatches(next, from, new, n)
  <2>1. CASE next.names[n] = pool.names[n]
    <3>1. pool.names[n].kind \in Kinds \cup {"package", "none"}
      BY PoolTyped DEF Definition
    <3>2. NameMatches(pool, from, slots, n)
      BY DEF Partial
    <3>3. CASE pool.names[n].kind = "none"
      BY <2>1, <3>3 DEF NameMatches
    <3>4. CASE pool.names[n].kind = "package"
      <4>1. PICK i \in DOMAIN pool.files : n \in pool.files[i].raw.packages
        BY <3>2, <3>4 DEF NameMatches
      <4>2. i \in DOMAIN next.files /\ n \in next.files[i].raw.packages
        BY <1>2, <1>6, <4>1
      <4> QED BY <2>1, <3>4, <4>2 DEF NameMatches
    <3>5. CASE HasRow(pool, n) /\ pool.names[n].kind \in Kinds
      <4> DEFINE k == pool.names[n].kind
                 i == pool.names[n].index
      <4>1. k \in Kinds /\ i \in DOMAIN pool.tables[k]
        BY <3>5 DEF HasRow
      <4>2. i \in DOMAIN next.tables[k] /\ next.tables[k][i] = pool.tables[k][i]
        BY <1>2, <1>11, <4>1
      <4>3. HasRow(next, n)
        BY <2>1, <3>5, <4>2 DEF HasRow
      <4> QED BY <2>1, <3>5, <4>3 DEF NameMatches, Kinds
    <3>6. CASE HasSlot(pool, from, slots, n)
      <4> DEFINE f == pool.names[n].file
                 k == pool.names[n].kind
      <4>1. f \in from..Len(pool.files) /\ k \in Deferred
        BY <3>6 DEF HasSlot
      <4>2. /\ f \in from..file /\ f \in 1..Len(pool.files)
            /\ f \in from..Len(next.files)
        BY <1>2, <1>6, <4>1
      <4>3. /\ new[k][f] = slots[k][f] /\ Decls(next, k, f) = Decls(pool, k, f)
            /\ next.tables[k] = pool.tables[k]
        BY <1>2, <1>3, <1>4, <1>7, <4>1, <4>2
      <4>4. HasSlot(next, from, new, n)
        BY <2>1, <3>6, <4>2, <4>3 DEF HasSlot
      <4> QED BY <2>1, <4>1, <4>4 DEF NameMatches, Deferred
    <3> QED BY <3>1, <3>2, <3>3, <3>4, <3>5, <3>6 DEF NameMatches
  <2>2. CASE n \in p.packages /\ next.names[n].kind = "package"
    <3>1. file \in DOMAIN next.files /\ n \in next.files[file].raw.packages
      BY <1>2, <2>2
    <3> QED BY <2>2, <3>1 DEF NameMatches
  <2>3. ASSUME NEW k \in Kinds, NEW i \in DOMAIN p.decls[k],
               next.names[n].kind = k, next.names[n].index = base[k] + i,
               next.names[n].file = file, Bears(next.names[n], p.decls[k][i], n)
        PROVE  NameMatches(next, from, new, n)
    <3>1. CASE k \in Deferred
      <4>1. slots[k][from] <= slots[k][file]
        <5>1. /\ SlotsOf(pool, k, from, slots[k])
              /\ \A f \in 1..Len(pool.files) : Len(Decls(pool, k, f)) \in Nat
          BY <1>4, <3>1 DEF Slots
        <5>2. file \in Nat /\ from \in 1..file /\ file = Len(pool.files) + 1 /\ Len(pool.files) \in Nat
          BY <1>2, <1>6
        <5> QED BY ONLY <5>1, <5>2, SlotsRise
      <4>2. file \in from..Len(next.files) /\ file \in from..file
        BY <1>2
      <4>3. new[k][file] = slots[k][file] /\ base[k] = slots[k][file]
        BY <1>6, <1>7, <3>1, <4>2
      <4>4. Len(next.tables[k]) <= new[k][file]
        BY <1>2, <3>1, <4>1, <4>3
      <4>5. Decls(next, k, file) = p.decls[k]
        BY <1>4
      <4>6. HasSlot(next, from, new, n)
        BY <2>3, <3>1, <4>2, <4>3, <4>4, <4>5 DEF HasSlot
      <4> QED BY <2>3, <3>1, <4>6 DEF NameMatches, Deferred
    <3>2. CASE k \notin Deferred
      <4>1. /\ base[k] + i \in DOMAIN next.tables[k]
            /\ next.tables[k][base[k] + i] = Row(p.decls[k][i], file, 0)
        BY <1>11, <3>2
      <4>2. HasRow(next, n)
        BY <2>3, <4>1 DEF HasRow, Row
      <4> QED BY <2>3, <4>2 DEF NameMatches, Kinds
    <3> QED BY <3>1, <3>2
  <2> QED BY <1>9, <2>1, <2>2, <2>3
<1>14. ASSUME NEW k \in Kinds, NEW i \in DOMAIN next.tables[k]
       PROVE  Named(next.names, k, i, next.tables[k][i].decl)
  <2>1. ASSUME i \in DOMAIN pool.tables[k], next.tables[k][i] = pool.tables[k][i]
        PROVE  Named(next.names, k, i, next.tables[k][i].decl)
    <3>1. pool.tables[k][i].decl \in Decl
      BY <2>1, PoolTyped DEF Entry
    <3>2. Named(pool.names, k, i, pool.tables[k][i].decl)
      BY <2>1 DEF Partial
    <3> QED BY <1>10, <2>1, <3>1, <3>2
  <2>2. CASE k \in Deferred
    BY <1>2, <2>1, <2>2
  <2>3. CASE k \notin Deferred /\ i \in DOMAIN pool.tables[k]
    BY <1>11, <2>1, <2>3
  <2>4. CASE k \notin Deferred /\ i \notin DOMAIN pool.tables[k]
    <3>1. PICK g \in DOMAIN p.decls[k] : i = base[k] + g
      BY <1>11, <2>4
    <3>2. next.tables[k][i] = Row(p.decls[k][g], file, 0)
      BY <1>11, <2>4, <3>1
    <3>3. next.tables[k][i].decl = p.decls[k][g]
      BY <3>2 DEF Row
    <3> QED BY <1>9, <3>1, <3>3
  <2> QED BY <2>2, <2>3, <2>4
<1>15. ASSUME NEW k \in Deferred, NEW f \in from..file, NEW i \in DOMAIN Decls(next, k, f)
       PROVE  Named(next.names, k, new[k][f] + i, Decls(next, k, f)[i])
  <2>1. CASE f = file
    <3>1. base[k] = new[k][file]
      BY <1>6, <1>7, <2>1
    <3>2. Decls(next, k, f) = p.decls[k]
      BY <1>3, <1>4, <2>1
    <3> QED BY <1>3, <1>9, <2>1, <3>1, <3>2
  <2>2. CASE f # file
    <3>1. f \in from..Len(pool.files) /\ f \in 1..Len(pool.files)
      BY <1>2, <1>6, <2>2
    <3>2. Decls(next, k, f) = Decls(pool, k, f) /\ new[k][f] = slots[k][f]
      BY <1>3, <1>4, <1>7, <3>1
    <3>3. Decls(pool, k, f)[i] \in Decl
      BY <1>2, <1>3, <3>1, <3>2, PoolTyped, ProtoTyped DEF Decls
    <3>4. Named(pool.names, k, slots[k][f] + i, Decls(pool, k, f)[i])
      BY <3>1, <3>2 DEF Partial
    <3> QED BY <1>3, <1>10, <3>2, <3>3, <3>4
  <2> QED BY <2>1, <2>2
<1>16. FilesMatch(next, from)
  <2>1. /\ FilesMatch(pool, from)
        /\ next.fileNames = [pool.fileNames EXCEPT ![p.name] = file]
        /\ pool.fileNames[p.name] = 0 /\ pool.fileNames \in [FileNames -> Nat]
        /\ p.name \in FileNames /\ p.packages \subseteq Names
    BY <1>1, ProtoTyped DEF Partial, IsDeclared, DeclareFails, Pool
  <2>2. ASSUME NEW i \in DOMAIN next.files
        PROVE  /\ next.fileNames[next.files[i].raw.name] = i
               /\ i < from => next.files[i].prost
               /\ \A n \in next.files[i].raw.packages : next.names[n].kind = "package"
    <3>1. CASE i = file
      BY <1>2, <1>9, <2>1, <3>1
    <3>2. CASE i # file
      <4>1. i \in DOMAIN pool.files /\ next.files[i] = pool.files[i] /\ i # 0
        BY <1>2, <1>6, <3>2
      <4>2. /\ pool.files[i].raw.name \in FileNames
            /\ pool.files[i].raw.packages \subseteq Names
        BY <4>1, PoolTyped, ProtoTyped
      <4>3. /\ pool.fileNames[pool.files[i].raw.name] = i
            /\ i < from => pool.files[i].prost
            /\ \A n \in pool.files[i].raw.packages : pool.names[n].kind = "package"
        BY <2>1, <4>1 DEF FilesMatch
      <4>4. pool.files[i].raw.name # p.name
        BY <2>1, <4>1, <4>3
      <4>5. next.fileNames[pool.files[i].raw.name] = i
        BY <2>1, <4>2, <4>3, <4>4
      <4>6. \A n \in pool.files[i].raw.packages : next.names[n].kind = "package"
        BY <1>9, <4>2, <4>3
      <4> QED BY <4>1, <4>3, <4>5, <4>6
    <3> QED BY <3>1, <3>2
  <2>3. ASSUME NEW g \in FileNames, next.fileNames[g] # 0
        PROVE  /\ next.fileNames[g] \in DOMAIN next.files
               /\ next.files[next.fileNames[g]].raw.name = g
    <3>1. CASE g = p.name
      BY <1>2, <2>1, <3>1
    <3>2. CASE g # p.name
      <4>1. next.fileNames[g] = pool.fileNames[g]
        BY <2>1, <3>2
      <4>2. pool.fileNames[g] \in DOMAIN pool.files /\ pool.files[pool.fileNames[g]].raw.name = g
        BY <2>1, <2>3, <4>1 DEF FilesMatch
      <4> QED BY SMTT(60), <1>2, <1>6, <4>1, <4>2
    <3> QED BY <3>1, <3>2
  <2> QED BY <2>2, <2>3 DEF FilesMatch
<1>17. Partial(next, from, new)
  BY <1>2, <1>12, <1>13, <1>14, <1>15, <1>16 DEF Partial
<1>18. \A k \in Deferred : /\ new[k][from] = slots[k][from]
                           /\ new[k][Len(next.files) + 1] = base[k] + Len(p.decls[k])
  BY <1>2, <1>6, <1>7 DEF count
<1> QED BY <1>8, <1>17, <1>18 DEF next

\* Resolving the next file: its services and extensions take the rows of its slots.
LEMMA GrowResolved ==
  ASSUME NEW pool \in Pool, NEW from \in Nat \ {0},
         NEW slots, Slots(pool, from, slots), Partial(pool, from, slots),
         NEW f \in from..Len(pool.files), \A k \in Deferred : Len(pool.tables[k]) = slots[k][f]
  PROVE  /\ Slots(Resolved(pool, f), from, slots)
         /\ Partial(Resolved(pool, f), from, slots)
         /\ \A k \in Deferred : Len(Resolved(pool, f).tables[k]) = slots[k][f + 1]
<1> DEFINE next == Resolved(pool, f)
           to == Extendees(pool, f)
           rows(k) == Len(pool.tables[k])
           count(k) == Len(Decls(pool, k, f))
<1>1. f \in DOMAIN pool.files /\ f \in Nat \ {0} /\ Deferred \subseteq Kinds /\ "message" \in Kinds
  BY PoolTyped DEF Kinds, Deferred
<1>2. IsResolved(next, pool, f, Exts(pool, f), to)
  BY <1>1, ResolvedParts
<1>a. \A k \in Deferred : AppendsRows(next, pool, k, f)
  BY <1>1, <1>2, DeferredRows
<1>3. \A k \in Deferred : count(k) \in Nat /\ DOMAIN Decls(pool, k, f) = 1..count(k)
  BY <1>1, PoolTyped, ProtoTyped DEF Decls
<1> HIDE DEF next, to, rows, count
<1>4. /\ next \in Pool /\ next.files = pool.files /\ next.fileNames = pool.fileNames
      /\ next.names = pool.names
      /\ \A k \in Kinds \ ({"message"} \cup Deferred) : next.tables[k] = pool.tables[k]
      /\ Len(next.tables["message"]) = Len(pool.tables["message"])
      /\ \A m \in DOMAIN pool.tables["message"] :
           /\ next.tables["message"][m].decl = pool.tables["message"][m].decl
           /\ next.tables["message"][m].file = pool.tables["message"][m].file
  BY <1>2 DEF IsResolved
<1>b. DOMAIN next.tables["message"] = DOMAIN pool.tables["message"]
  BY <1>1, <1>4, PoolTyped
<1>5. ASSUME NEW k \in Deferred
      PROVE  /\ rows(k) \in Nat /\ rows(k) = slots[k][f]
             /\ DOMAIN pool.tables[k] = 1..rows(k)
             /\ DOMAIN next.tables[k] = 1..(rows(k) + count(k))
             /\ \A i \in DOMAIN pool.tables[k] : next.tables[k][i] = pool.tables[k][i]
  BY <1>1, <1>4, <1>a, PoolTyped DEF rows, count, AppendsRows
<1>6. \A k \in Deferred : \A g : Decls(next, k, g) = Decls(pool, k, g)
  BY <1>4 DEF Decls
<1>7. Slots(next, from, slots)
  BY <1>4, <1>6 DEF Slots, SlotsOf
<1>8. ASSUME NEW k \in Deferred
      PROVE  /\ slots[k][f + 1] = rows(k) + count(k)
             /\ slots[k] \in [from..(Len(pool.files) + 1) -> Nat]
             /\ \A g \in from..Len(pool.files) :
                  \A h \in (g + 1)..(Len(pool.files) + 1) :
                     slots[k][g] + Len(Decls(pool, k, g)) <= slots[k][h]
  <2>1. SlotsOf(pool, k, from, slots[k])
    BY DEF Slots
  <2> QED BY <1>5, <2>1 DEF SlotsOf, count
<1>9. ASSUME NEW k \in Kinds, NEW i \in DOMAIN pool.tables[k]
      PROVE  /\ i \in DOMAIN next.tables[k]
             /\ next.tables[k][i].decl = pool.tables[k][i].decl
             /\ next.tables[k][i].file = pool.tables[k][i].file
  <2>1. CASE k = "message"
    BY <1>4, <1>b, <2>1
  <2>2. CASE k \in Deferred
    <3>1. i \in 1..(rows(k) + count(k))
      BY <1>3, <1>5, <2>2
    <3> QED BY <1>5, <2>2, <3>1
  <2>3. CASE k \notin {"message"} \cup Deferred
    BY <1>4, <2>3
  <2> QED BY <2>1, <2>2, <2>3
<1>10. ASSUME NEW k \in Deferred, NEW i \in 1..count(k)
       PROVE  /\ rows(k) + i \in DOMAIN next.tables[k]
              /\ next.tables[k][rows(k) + i].decl = Decls(pool, k, f)[i]
              /\ next.tables[k][rows(k) + i].file = f
  <2>1. rows(k) + i \in 1..(rows(k) + count(k))
    BY <1>3, <1>5
  <2>2. /\ next.tables[k][rows(k) + i].decl = Decls(pool, k, f)[i]
        /\ next.tables[k][rows(k) + i].file = f
    BY <1>3, <1>a DEF AppendsRows, rows
  <2> QED BY <1>5, <2>1, <2>2
<1>11. ASSUME NEW n \in Names
       PROVE  NameMatches(next, from, slots, n)
  <2>1. /\ next.names[n] = pool.names[n] /\ NameMatches(pool, from, slots, n)
        /\ pool.names[n].kind \in Kinds \cup {"package", "none"}
    BY <1>4, PoolTyped DEF Partial, Definition
  <2>2. CASE pool.names[n].kind \in {"package", "none"}
    BY <1>4, <2>1, <2>2 DEF NameMatches
  <2>3. CASE HasRow(pool, n) /\ pool.names[n].kind \in Kinds
    <3> DEFINE k == pool.names[n].kind
               i == pool.names[n].index
    <3>1. k \in Kinds /\ i \in DOMAIN pool.tables[k]
      BY <2>3 DEF HasRow
    <3>2. /\ i \in DOMAIN next.tables[k]
          /\ next.tables[k][i].decl = pool.tables[k][i].decl
          /\ next.tables[k][i].file = pool.tables[k][i].file
      BY <1>9, <3>1
    <3>3. HasRow(next, n)
      BY <2>1, <2>3, <3>2 DEF HasRow
    <3> QED BY SMTT(60), <2>1, <2>3, <3>3 DEF NameMatches, Kinds
  <2>4. CASE HasSlot(pool, from, slots, n)
    <3> DEFINE d == pool.names[n]
               g == d.file
               k == d.kind
    <3>1. /\ k \in Deferred /\ g \in from..Len(pool.files) /\ rows(k) <= slots[k][g]
      BY <2>4 DEF HasSlot, rows
    <3>2. PICK i \in DOMAIN Decls(pool, k, g) :
            d.index = slots[k][g] + i /\ Bears(d, Decls(pool, k, g)[i], n)
      BY <2>4 DEF HasSlot
    <3>a. k # "none" /\ k # "package"
      BY <3>1 DEF Deferred
    <3>3. CASE g = f
      <4>1. i \in 1..count(k) /\ d.index = rows(k) + i /\ Bears(d, Decls(pool, k, f)[i], n)
        BY <1>3, <1>5, <3>1, <3>2, <3>3
      <4>2. HasRow(next, n)
        BY <1>10, <2>1, <3>1, <3>3, <4>1 DEF HasRow
      <4> QED BY <2>1, <3>a, <4>2 DEF NameMatches
    <3>4. CASE g > f
      <4>1. g \in (f + 1)..(Len(pool.files) + 1) /\ f \in from..Len(pool.files)
        BY <1>1, <3>1, <3>4
      <4>2. rows(k) + count(k) <= slots[k][g]
        BY <1>5, <1>8, <3>1, <4>1 DEF count
      <4>3. Len(next.tables[k]) <= slots[k][g]
        <5>1. Len(next.tables[k]) = rows(k) + count(k)
          BY <1>a, <3>1 DEF AppendsRows, rows, count
        <5> QED BY <4>2, <5>1
      <4>4. HasSlot(next, from, slots, n)
        <5>1. next.names[n] = d /\ Len(next.files) = Len(pool.files)
          BY <1>4, <2>1
        <5>2. i \in DOMAIN Decls(next, k, g) /\ Bears(d, Decls(next, k, g)[i], n)
          BY <1>6, <3>1, <3>2
        <5> QED BY <3>1, <3>2, <4>3, <5>1, <5>2 DEF HasSlot
      <4> QED BY <2>1, <3>a, <4>4 DEF NameMatches
    <3>5. CASE g < f
      <4>1. f \in (g + 1)..(Len(pool.files) + 1)
        BY <1>1, <3>1, <3>5, PoolTyped
      <4>2. slots[k][g] + Len(Decls(pool, k, g)) <= rows(k)
        <5>1. slots[k][g] + Len(Decls(pool, k, g)) <= slots[k][f]
          BY <1>8, <3>1, <4>1
        <5>2. slots[k][f] = rows(k)
          BY <1>5, <3>1
        <5> QED BY <5>1, <5>2
      <4>3. g \in DOMAIN pool.files
        BY SMTT(60), <3>1, PoolTyped
      <4>4. Len(Decls(pool, k, g)) \in Nat /\ DOMAIN Decls(pool, k, g) = 1..Len(Decls(pool, k, g))
        BY <1>1, <3>1, <4>3, PoolTyped, ProtoTyped DEF Decls
      <4>5. slots[k][g] \in Nat
        BY <1>8, <3>1, PoolTyped
      <4> QED BY <1>5, <3>1, <3>2, <4>2, <4>4, <4>5
    <3>6. g \in Int /\ f \in Int
      BY <1>1, <3>1
    <3> QED BY <3>3, <3>4, <3>5, <3>6
  <2> QED BY <2>1, <2>2, <2>3, <2>4 DEF NameMatches
<1>12. ASSUME NEW k \in Kinds, NEW i \in DOMAIN next.tables[k]
       PROVE  Named(next.names, k, i, next.tables[k][i].decl)
  <2>1. CASE i \in DOMAIN pool.tables[k]
    BY <1>4, <1>9, <2>1 DEF Partial
  <2>2. CASE i \notin DOMAIN pool.tables[k]
    <3>1. k \in Deferred
      BY <1>4, <1>b, <2>2
    <3>2. i \in 1..(rows(k) + count(k)) /\ i \notin 1..rows(k)
      BY <1>5, <2>2, <3>1
    <3>3. PICK g \in 1..count(k) : i = rows(k) + g
      <4>1. rows(k) \in Nat /\ count(k) \in Nat
        BY <1>3, <1>5, <3>1
      <4> QED BY <3>2, <4>1, PastTheFirst
    <3>4. Named(pool.names, k, slots[k][f] + g, Decls(pool, k, f)[g])
      BY <1>3, <3>1, <3>3 DEF Partial
    <3> QED BY <1>4, <1>5, <1>10, <3>1, <3>3, <3>4
  <2> QED BY <2>1, <2>2
<1>13. \A k \in Deferred : \A g \in from..Len(next.files) : \A i \in DOMAIN Decls(next, k, g) :
          Named(next.names, k, slots[k][g] + i, Decls(next, k, g)[i])
  BY <1>4, <1>6 DEF Partial
<1>14. Tidy(next) /\ FilesMatch(next, from)
  BY <1>4 DEF Partial, Tidy, FilesMatch
<1>15. Partial(next, from, slots)
  BY <1>11, <1>12, <1>13, <1>14 DEF Partial
<1>16. \A k \in Deferred : Len(next.tables[k]) = slots[k][f + 1]
  BY <1>8, <1>a DEF AppendsRows, rows, count
<1> QED BY <1>7, <1>15, <1>16 DEF next

\* Every file resolved: completing the build gives a sound pool.
LEMMA GrowCommitted ==
  ASSUME NEW pool \in Pool, NEW off \in Offsets,
         NEW slots, Slots(pool, off.file + 1, slots), Partial(pool, off.file + 1, slots),
         \A k \in Deferred : Len(pool.tables[k]) = slots[k][Len(pool.files) + 1]
  PROVE  Sound(Committed(pool, off))
<1> DEFINE next == Committed(pool, off)
           from == off.file + 1
<1>1. /\ next \in Pool
      /\ next.fileNames = pool.fileNames /\ next.names = pool.names
      /\ next.tables = pool.tables
      /\ Len(next.files) = Len(pool.files)
      /\ \A i \in DOMAIN pool.files :
           /\ next.files[i].raw = pool.files[i].raw
           /\ next.files[i].prost = (i > off.file \/ pool.files[i].prost)
  BY CommittedParts
<1>2. off.file \in Nat /\ from = off.file + 1
  BY DEF Offsets
<1> HIDE DEF next, from
<1>3. DOMAIN next.files = DOMAIN pool.files /\ DOMAIN pool.files = 1..Len(pool.files)
  BY <1>1, PoolTyped
<1>4. Tidy(next)
  BY <1>1 DEF Partial, Tidy
<1>5. ASSUME NEW n \in Names
      PROVE  CASE next.names[n].kind = "none" -> TRUE
               [] next.names[n].kind = "package" ->
                    \E i \in DOMAIN next.files : n \in next.files[i].raw.packages
               [] OTHER -> HasRow(next, n)
  <2>1. ~HasSlot(pool, from, slots, n)
    <3> SUFFICES ASSUME HasSlot(pool, from, slots, n) PROVE FALSE
      OBVIOUS
    <3> DEFINE g == pool.names[n].file
               k == pool.names[n].kind
               end == Len(pool.files) + 1
    <3>1. k \in Deferred /\ g \in from..Len(pool.files) /\ slots[k][end] <= slots[k][g]
      BY DEF HasSlot
    <3>2. PICK i \in DOMAIN Decls(pool, k, g) : TRUE
      BY DEF HasSlot
    <3>3. g \in DOMAIN pool.files /\ k \in Kinds
      BY SMTT(60), <1>2, <3>1, PoolTyped DEF Kinds, Deferred
    <3>4. Len(Decls(pool, k, g)) \in Nat /\ DOMAIN Decls(pool, k, g) = 1..Len(Decls(pool, k, g))
      BY <3>3, PoolTyped, ProtoTyped DEF Decls
    <3>5. end \in (g + 1)..end
      BY <1>2, <3>1, PoolTyped
    <3>8. SlotsOf(pool, k, from, slots[k])
      BY <1>2, <3>1 DEF Slots
    <3>6. slots[k][g] + Len(Decls(pool, k, g)) <= slots[k][end]
      BY <3>1, <3>5, <3>8 DEF SlotsOf
    <3>7. slots[k][g] \in Nat /\ slots[k][end] \in Nat
      <4>1. slots[k] \in [from..end -> Nat]
        BY <3>8 DEF SlotsOf
      <4>2. g \in from..end /\ end \in from..end
        BY SMTT(60), <1>2, <3>1, PoolTyped
      <4> QED BY <4>1, <4>2
    <3> HIDE DEF g, k, end
    <3> QED BY <3>1, <3>2, <3>4, <3>6, <3>7
  <2>2. NameMatches(pool, from, slots, n)
    BY <1>2 DEF Partial
  <2>3. HasRow(pool, n) => HasRow(next, n)
    BY <1>1 DEF HasRow
  <2> QED BY <1>1, <1>3, <2>1, <2>2, <2>3 DEF NameMatches
<1>6. \A k \in Kinds : \A i \in DOMAIN next.tables[k] :
         Named(next.names, k, i, next.tables[k][i].decl)
  BY <1>1 DEF Partial
<1>7. FilesMatch(next, Len(next.files) + 1)
  <2>1. FilesMatch(pool, off.file + 1)
    BY DEF Partial
  <2>2. \A i \in DOMAIN next.files : next.files[i].prost
    <3> SUFFICES ASSUME NEW i \in DOMAIN next.files PROVE next.files[i].prost
      OBVIOUS
    <3>1. i \in Int /\ (i < off.file + 1 => pool.files[i].prost)
      BY <1>3, <2>1 DEF FilesMatch
    <3>2. i > off.file \/ pool.files[i].prost
      BY <1>2, <3>1
    <3> QED BY <1>1, <1>3, <3>2, Zenon
  <2> QED BY <1>1, <1>3, <2>1, <2>2 DEF FilesMatch
<1> QED BY <1>1, <1>4, <1>5, <1>6, <1>7, SoundMeans DEF next
-----------------------------------------------------------------------------
(* The extension lists.                                                    *)

LEMMA ListsDeclared ==
  ASSUME NEW pool \in Pool, NEW p \in Proto, NEW base \in [Kinds -> Nat], ListsMatch(pool)
  PROVE  ListsMatch(Declared(pool, p, base))
<1> DEFINE next == Declared(pool, p, base)
           file == Len(pool.files) + 1
           old == Len(pool.tables["message"])
           count == Len(p.decls["message"])
<1>1. IsDeclared(next, pool, p, base, file)
  BY DeclaredParts
<1> HIDE DEF next, file, old, count
<1>2. /\ "message" \in Kinds \ Deferred /\ "extension" \in Kinds \cap Deferred
      /\ old \in Nat /\ count \in Nat
      /\ DOMAIN pool.tables["message"] = 1..old /\ DOMAIN p.decls["message"] = 1..count
  BY PoolTyped, ProtoTyped DEF old, count, Kinds, Deferred
<1>3. /\ Len(next.tables["message"]) = old + count
      /\ \A m \in 1..old : next.tables["message"][m] = pool.tables["message"][m]
      /\ \A i \in 1..count :
           next.tables["message"][old + i] = Row(p.decls["message"][i], file, 0)
      /\ next.tables["extension"] = pool.tables["extension"]
  BY <1>1, <1>2 DEF IsDeclared, old, count
<1>4. DOMAIN next.tables["message"] = 1..(old + count)
  BY <1>1, <1>2, <1>3, PoolTyped DEF IsDeclared
<1>5. \A e \in DOMAIN next.tables["extension"] :
         next.tables["extension"][e].extendee \in 0..old
  BY <1>3 DEF ListsMatch, old
<1>6. ASSUME NEW m \in 1..(old + count)
      PROVE  next.tables["message"][m].extensions =
               { e \in DOMAIN next.tables["extension"] :
                    next.tables["extension"][e].extendee = m }
  <2>1. CASE m \in 1..old
    <3>1. pool.tables["message"][m].extensions =
            { e \in DOMAIN pool.tables["extension"] : pool.tables["extension"][e].extendee = m }
      BY <1>2, <2>1 DEF ListsMatch, ListsExact
    <3>2. next.tables["message"][m] = pool.tables["message"][m]
      BY <1>3, <2>1
    <3> QED BY <1>3, <3>1, <3>2
  <2>2. CASE m \notin 1..old
    <3>1. PICK i \in 1..count : m = old + i
      BY <1>2, <2>2, PastTheFirst
    <3>4. next.tables["message"][m] = Row(p.decls["message"][i], file, 0)
      BY <1>3, <3>1
    <3>2. next.tables["message"][m].extensions = {}
      BY <3>4 DEF Row
    <3>3. m \notin 0..old
      BY <1>2, <2>2
    <3> QED BY <1>5, <3>2, <3>3
  <2> QED BY <2>1, <2>2
<1>7. ASSUME NEW e \in DOMAIN next.tables["extension"]
      PROVE  next.tables["extension"][e].extendee \in 0..(old + count)
  <2>1. next.tables["extension"][e].extendee \in 0..old
    BY <1>5
  <2> QED BY <1>2, <2>1
<1> QED BY <1>3, <1>4, <1>6, <1>7 DEF ListsMatch, ListsExact, next

\* Resolving a file without an error: each of its extensions extends a message
\* of the pool, which lists it.
LEMMA ListsResolved ==
  ASSUME NEW pool \in Pool, NEW f \in DOMAIN pool.files, ListsMatch(pool),
         ~ResolveFails(pool, f),
         \A n \in Names : pool.names[n].kind = "message" =>
                            pool.names[n].index \in DOMAIN pool.tables["message"]
  PROVE  ListsMatch(Resolved(pool, f))
<1> DEFINE next == Resolved(pool, f)
           exts == Exts(pool, f)
           to == Extendees(pool, f)
           rows == Len(pool.tables["extension"])
           count == Len(exts)
           old == Len(pool.tables["message"])
<1>1. IsResolved(next, pool, f, exts, to)
  BY ResolvedParts
<1>2. "extension" \in Kinds /\ "message" \in Kinds
  BY DEF Kinds
<1>3. /\ count \in Nat /\ DOMAIN exts = 1..count
      /\ \A i \in 1..count : exts[i] \in Decl /\ exts[i].extendee \in Names
  BY <1>2, PoolTyped, ProtoTyped DEF Exts
<1>4. ASSUME NEW i \in 1..count
      PROVE  to[i] \in 1..old
  <2>1. NumberFits(pool, Visible(pool, f), exts[i])
    BY <1>3 DEF ResolveFails, Exts
  <2>2. to[i] = Extendee(pool, Visible(pool, f), exts[i])
    BY SMTT(60), <1>3 DEF Extendees
  <2>3. /\ to[i] = pool.names[exts[i].extendee].index
        /\ pool.names[exts[i].extendee].kind = "message"
    BY <2>1, <2>2 DEF NumberFits, Extendee, Found
  <2>4. to[i] \in DOMAIN pool.tables["message"]
    BY <1>3, <2>3
  <2> QED BY <1>2, <2>4, PoolTyped
<1> HIDE DEF next, exts, to, rows, count, old
<1>5. /\ rows \in Nat /\ old \in Nat
      /\ DOMAIN pool.tables["extension"] = 1..rows /\ DOMAIN pool.tables["message"] = 1..old
      /\ next \in Pool /\ Len(next.tables["extension"]) = rows + count
      /\ Len(next.tables["message"]) = old
      /\ \A i \in 1..rows : next.tables["extension"][i] = pool.tables["extension"][i]
      /\ \A i \in 1..count : next.tables["extension"][rows + i] = Row(exts[i], f, to[i])
  BY <1>1, <1>2, <1>3, PoolTyped DEF IsResolved, rows, old, count
<1>6. ASSUME NEW i \in 1..count
      PROVE  next.tables["extension"][rows + i].extendee = to[i]
  <2>1. next.tables["extension"][rows + i] = Row(exts[i], f, to[i])
    BY <1>5
  <2> QED BY <2>1 DEF Row
<1>11. rows \in Nat /\ count \in Nat
  BY <1>3, <1>5
<1>7. DOMAIN next.tables["extension"] = 1..(rows + count) /\ DOMAIN next.tables["message"] = 1..old
  BY <1>2, <1>5, PoolTyped
<1>8. ASSUME NEW m \in 1..old
      PROVE  next.tables["message"][m].extensions =
               pool.tables["message"][m].extensions
               \cup { rows + i : i \in { j \in 1..count : to[j] = m } }
  BY ZenonT(60), <1>1, <1>3, <1>5 DEF IsResolved, rows
<1>9. ASSUME NEW m \in 1..old
      PROVE  next.tables["message"][m].extensions =
               { e \in 1..(rows + count) : next.tables["extension"][e].extendee = m }
  <2>1. pool.tables["message"][m].extensions =
          { e \in 1..rows : pool.tables["extension"][e].extendee = m }
    BY <1>5 DEF ListsMatch, ListsExact
  <2>2. ASSUME NEW e \in 1..(rows + count), next.tables["extension"][e].extendee = m
        PROVE  e \in next.tables["message"][m].extensions
    <3>1. CASE e \in 1..rows
      BY <1>5, <1>8, <2>1, <2>2, <3>1
    <3>2. CASE e \notin 1..rows
      <4>1. PICK i \in 1..count : e = rows + i
        BY <1>11, <3>2, PastTheFirst
      <4>2. to[i] = m
        BY <1>6, <2>2, <4>1
      <4> QED BY <1>8, <4>1, <4>2
    <3> QED BY <3>1, <3>2
  <2>3. ASSUME NEW e \in next.tables["message"][m].extensions
        PROVE  e \in 1..(rows + count) /\ next.tables["extension"][e].extendee = m
    <3>1. CASE e \in pool.tables["message"][m].extensions
      <4>1. e \in 1..rows /\ pool.tables["extension"][e].extendee = m
        BY <2>1, <3>1
      <4>2. e \in 1..(rows + count)
        BY <1>3, <1>5, <4>1
      <4> QED BY <1>5, <4>1, <4>2
    <3>2. ASSUME NEW i \in 1..count, to[i] = m, e = rows + i
          PROVE  e \in 1..(rows + count) /\ next.tables["extension"][e].extendee = m
      <4>1. rows + i \in 1..(rows + count)
        BY <1>3, <1>5
      <4> QED BY <1>6, <3>2, <4>1
    <3> QED BY <1>8, <3>1, <3>2
  <2> QED BY <2>2, <2>3
<1>10. ASSUME NEW e \in 1..(rows + count)
       PROVE  next.tables["extension"][e].extendee \in 0..old
  <2>1. CASE e \in 1..rows
    BY <1>5, <2>1 DEF ListsMatch, old
  <2>2. CASE e \notin 1..rows
    <3>1. PICK i \in 1..count : e = rows + i
      BY <1>11, <2>2, PastTheFirst
    <3>2. next.tables["extension"][e].extendee \in 1..old
      BY <1>4, <1>6, <3>1
    <3> QED BY <1>5, <3>2
  <2> QED BY <2>1, <2>2
<1> QED BY <1>5, <1>7, <1>9, <1>10 DEF ListsMatch, ListsExact, next

LEMMA ListsCommitted ==
  ASSUME NEW pool \in Pool, NEW off \in Offsets, ListsMatch(pool)
  PROVE  ListsMatch(Committed(pool, off))
BY CommittedParts DEF ListsMatch, ListsExact

LEMMA EmptyPoolMatches == Sound(EmptyPool) /\ ListsMatch(EmptyPool)
<1>1. /\ EmptyPool.files = << >> /\ EmptyPool.fileNames = [f \in FileNames |-> 0]
      /\ EmptyPool.tables = [k \in Kinds |-> << >>] /\ EmptyPool.names = [n \in Names |-> NoDef]
  BY DEF EmptyPool
<1>2. \A k \in Kinds : DOMAIN EmptyPool.tables[k] = {}
  BY <1>1
<1>3. \A n \in Names : EmptyPool.names[n] = NoDef /\ NoDef.kind = "none"
  BY <1>1 DEF NoDef
<1>4. DOMAIN EmptyPool.files = {}
  BY <1>1
<1>5. Sound(EmptyPool)
  BY <1>1, <1>2, <1>3, <1>4 DEF Sound, NamesMatch, Tidy, DefinitionMatches
<1>6. ListsMatch(EmptyPool)
  BY <1>2 DEF ListsMatch, ListsExact, Kinds
<1> QED BY <1>5, <1>6
-----------------------------------------------------------------------------
(* Steps.                                                                  *)

\* After the step, handle g holds what f held before it.
Same(f, g) ==
  /\ Live(f) /\ heap'[arc'[g]] = heap[arc[f]]
  /\ arc[f] \in rolledBack => arc'[g] \in rolledBack'
  /\ job'[g] = job[f] \/ (job'[g].phase = "idle" /\ job[f].phase = "idle")

\* After the step, what handle g holds matches.
Right(g) ==
  /\ Matched(heap'[arc'[g]], job'[g])
  /\ arc'[g] \notin rolledBack' /\ ~job'[g].failed => ListsMatch(heap'[arc'[g]])

LEMMA ContentsStep ==
  ASSUME ContentsInv, IInv', NEW h \in Handles, NEW j \in Job,
         job' = [job EXCEPT ![h] = j], j.phase \in {"idle", "commit"} => ~j.failed,
         \A g \in Handles : arc'[g] # NoArc => Right(g) \/ \E f \in Handles : Same(f, g)
  PROVE  ContentsInv'
<1>1. ASSUME NEW g \in Handles, arc'[g] # NoArc
      PROVE  Right(g)
  <2>1. CASE \E f \in Handles : Same(f, g)
    <3>1. PICK f \in Handles : Same(f, g)
      BY <2>1
    <3>2. Matched(heap[arc[f]], job[f])
      BY <3>1 DEF ContentsInv, PoolsMatched, Contents, Same
    <3>3. Matched(heap'[arc'[g]], job'[g])
      BY <3>1, <3>2 DEF Matched, Same
    <3>4. ASSUME arc'[g] \notin rolledBack', ~job'[g].failed
          PROVE  ListsMatch(heap'[arc'[g]])
      <4>1. arc[f] \notin rolledBack /\ ~job[f].failed
        BY <3>1, <3>4 DEF Same, ContentsInv, NoErrorsLeft
      <4> QED BY <3>1, <4>1 DEF Same, ContentsInv, ListsMatched, Contents
    <3> QED BY <3>3, <3>4 DEF Right
  <2> QED BY <1>1, <2>1
<1>2. PoolsMatched' /\ ListsMatched'
  BY <1>1 DEF PoolsMatched, ListsMatched, Right, Live, Contents
<1>3. NoErrorsLeft'
  BY DEF ContentsInv, NoErrorsLeft, IInv, Typed
<1> QED BY <1>2, <1>3 DEF ContentsInv

\* A step of a build, which changes the contents of its own handle only.
LEMMA BuildContentsStep ==
  ASSUME ContentsInv, IInv', NEW h \in Handles, job[h].phase # "idle",
         NEW pool \in Pool, NEW j \in Job,
         arc' = arc, heap' = [heap EXCEPT ![arc[h]] = pool],
         job' = [job EXCEPT ![h] = j], rolledBack \subseteq rolledBack',
         j.phase \in {"idle", "commit"} => ~j.failed,
         Matched(pool, j),
         arc[h] \notin rolledBack' /\ ~j.failed => ListsMatch(pool)
  PROVE  ContentsInv'
<1>1. /\ arc[h] \in Arcs
      /\ \A g \in Handles : arc[g] = arc[h] => g = h
  BY AloneMeans DEF ContentsInv, IInv, Typed
<1>2. Right(h)
  BY <1>1 DEF Right, ContentsInv, IInv, Typed
<1>3. ASSUME NEW g \in Handles, g # h, arc'[g] # NoArc
      PROVE  Same(g, g)
  BY <1>1, <1>3 DEF Same, Live, ContentsInv, IInv, Typed
<1>4. \A g \in Handles : arc'[g] # NoArc => Right(g) \/ \E f \in Handles : Same(f, g)
  BY <1>2, <1>3
<1> QED BY <1>4, ContentsStep

\* What is known of a build whose handle takes a step.
LEMMA BuildMeans ==
  ASSUME ContentsInv, NEW h \in Handles, job[h].phase # "idle"
  PROVE  /\ arc[h] \in Arcs /\ Contents(h) \in Pool /\ job[h] \in Job
         /\ job[h].off \in Offsets /\ job[h].off.file \in Nat /\ job[h].at \in Nat
         /\ Within(job[h].off, Contents(h))
         /\ Undoable(Contents(h), job[h]) /\ Growing(Contents(h), job[h])
         /\ arc[h] \notin rolledBack /\ ~job[h].failed => ListsMatch(Contents(h))
         /\ Unique(h) /\ (job[h].phase = "commit" => ~job[h].failed)
<1>1. arc[h] \in Arcs /\ Live(h) /\ job[h] \in Job /\ Unique(h)
  BY AloneMeans DEF ContentsInv, IInv, Typed, BuildersAreAlone, Live
<1>2. Contents(h) \in Pool
  BY <1>1 DEF ContentsInv, IInv, Typed, Contents
<1>3. Within(job[h].off, Contents(h))
  BY DEF ContentsInv, IInv, BuildsGrow
<1>4. Matched(Contents(h), job[h])
  BY <1>1 DEF ContentsInv, PoolsMatched
<1>5. arc[h] \notin rolledBack /\ ~job[h].failed => ListsMatch(Contents(h))
  BY <1>1 DEF ContentsInv, ListsMatched
<1>6. job[h].off \in Offsets /\ job[h].off.file \in Nat /\ job[h].at \in Nat
  BY <1>1 DEF Job, Offsets
<1>7. job[h].phase = "commit" => ~job[h].failed
  BY DEF ContentsInv, NoErrorsLeft
<1> QED BY <1>1, <1>2, <1>3, <1>4, <1>5, <1>6, <1>7 DEF Matched

\* Steps of a build that leave the contents alone.
LEMMA QuietContentsStep ==
  ASSUME ContentsInv, IInv', NEW h \in Handles, job[h].phase # "idle", NEW j \in Job,
         UNCHANGED <<arc, heap, rolledBack>>, job' = [job EXCEPT ![h] = j],
         j.phase # "idle", job[h].failed => j.failed, j.phase = "commit" => ~j.failed,
         Undoable(Contents(h), j), Growing(Contents(h), j)
  PROVE  ContentsInv'
<1>1. /\ arc[h] \in Arcs /\ Contents(h) \in Pool
      /\ arc[h] \notin rolledBack /\ ~j.failed => ListsMatch(Contents(h))
  BY BuildMeans
<1>2. heap' = [heap EXCEPT ![arc[h]] = Contents(h)]
  BY <1>1 DEF ContentsInv, IInv, Typed, Contents
<1>3. Matched(Contents(h), j)
  BY DEF Matched
<1> QED BY <1>1, <1>2, <1>3, BuildContentsStep
LEMMA SkipFileContents ==
  ASSUME ContentsInv, NEW h \in Handles, SkipFile(h)
  PROVE  ContentsInv'
<1> DEFINE j == [job[h] EXCEPT !.queue = Tail(@)]
<1>1. /\ IInv' /\ job[h].phase = "declare" /\ job[h].queue # << >>
      /\ UNCHANGED <<arc, heap, rolledBack>> /\ job' = [job EXCEPT ![h] = j]
  BY SkipFileStep DEF SkipFile, ContentsInv
<1>2. job[h] \in Job /\ Undoable(Contents(h), job[h]) /\ Growing(Contents(h), job[h])
  BY <1>1, BuildMeans
<1>3. /\ j \in Job /\ j.off = job[h].off /\ j.phase = job[h].phase /\ j.at = job[h].at
      /\ j.ahead = job[h].ahead /\ j.failed = job[h].failed
  <2> DEFINE q == Tail(job[h].queue)
  <2>1. q \in Seq(Proto) /\ j = [job[h] EXCEPT !.queue = q]
    BY <1>1, <1>2 DEF Job
  <2> HIDE DEF q, j
  <2> QED BY <1>2, <2>1 DEF Job
<1> HIDE DEF j
<1>4. Undoable(Contents(h), j)
  BY <1>2, <1>3 DEF Undoable
<1>5. Growing(Contents(h), j)
  BY <1>2, <1>3 DEF Growing, Filled
<1> QED BY <1>1, <1>3, <1>4, <1>5, QuietContentsStep

LEMMA UnknownSyntaxContents ==
  ASSUME ContentsInv, NEW h \in Handles, UnknownSyntax(h)
  PROVE  ContentsInv'
<1> DEFINE j == [job[h] EXCEPT !.phase = "panicked"]
<1>1. /\ IInv' /\ job[h].phase = "declare"
      /\ UNCHANGED <<arc, heap, rolledBack>> /\ job' = [job EXCEPT ![h] = j]
  BY UnknownSyntaxStep DEF UnknownSyntax, ContentsInv
<1>2. job[h] \in Job /\ Undoable(Contents(h), job[h])
  BY <1>1, BuildMeans
<1>3. j \in Job /\ j.off = job[h].off /\ j.phase = "panicked" /\ j.failed = job[h].failed
  BY <1>2 DEF Job, Phases
<1> HIDE DEF j
<1>4. Undoable(Contents(h), j) /\ Growing(Contents(h), j)
  BY <1>2, <1>3 DEF Undoable, Growing
<1> QED BY <1>1, <1>3, <1>4, QuietContentsStep

LEMMA OptionsFileContents ==
  ASSUME ContentsInv, NEW h \in Handles, OptionsFile(h)
  PROVE  ContentsInv'
<1> DEFINE n == job[h].at + 1
           b == job[h].failed \/ OptionsFail(Contents(h), job[h].at)
           j == [job[h] EXCEPT !.at = n, !.failed = b]
<1>1. /\ IInv' /\ job[h].phase = "options"
      /\ UNCHANGED <<arc, heap, rolledBack>> /\ job' = [job EXCEPT ![h] = j]
  BY OptionsFileStep DEF OptionsFile, OptionsVisited, ContentsInv
<1>2. /\ job[h] \in Job /\ job[h].at \in Nat
      /\ Undoable(Contents(h), job[h]) /\ Growing(Contents(h), job[h])
  BY <1>1, BuildMeans
<1>3. n \in Nat /\ b \in BOOLEAN /\ (job[h].failed => b)
  BY <1>2
<1>4. j = [job[h] EXCEPT !.at = n, !.failed = b]
  OBVIOUS
<1> HIDE DEF n, b, j
<1>5. /\ j \in Job /\ j.off = job[h].off /\ j.phase = "options" /\ j.failed = b
      /\ j.ahead = job[h].ahead
  BY <1>1, <1>2, <1>3, <1>4 DEF Job
<1>6. Undoable(Contents(h), j)
  BY <1>1, <1>2, <1>5 DEF Undoable
<1>7. Growing(Contents(h), j)
  BY <1>1, <1>2, <1>3, <1>5 DEF Growing, Filled
<1> QED BY <1>1, <1>3, <1>5, <1>6, <1>7, QuietContentsStep

\* A phase that ends without an error has filled what it had to fill.
LEMMA EndPhaseContents ==
  ASSUME ContentsInv, NEW h \in Handles, EndPhase(h)
  PROVE  ContentsInv'
<1> DEFINE phase == IF job[h].failed THEN "rollback" ELSE NextPhase[job[h].phase]
           from == job[h].off.file + 1
           end == Len(Contents(h).files) + 1
           j == [job[h] EXCEPT !.phase = IF job[h].failed THEN "rollback" ELSE NextPhase[@],
                               !.at = from]
<1>1. /\ IInv' /\ job[h].phase \in {"declare", "resolve", "options"} /\ ~MoreFiles(h)
      /\ UNCHANGED <<arc, heap, rolledBack>> /\ job' = [job EXCEPT ![h] = j]
  BY EndPhaseStep DEF EndPhase, ContentsInv, NextPhase
<1>2. /\ job[h] \in Job /\ job[h].at \in Nat /\ job[h].off.file \in Nat
      /\ Contents(h) \in Pool /\ Within(job[h].off, Contents(h))
      /\ Undoable(Contents(h), job[h]) /\ Growing(Contents(h), job[h])
  BY <1>1, BuildMeans
<1>3. from \in Nat /\ end \in Nat /\ from <= end
  BY <1>2, PoolTyped DEF Within
<1>4. /\ phase \in Phases /\ phase \notin {"idle", "declare"}
      /\ ~job[h].failed => \/ job[h].phase = "declare" /\ phase = "resolve"
                           \/ job[h].phase = "resolve" /\ phase = "options"
                           \/ job[h].phase = "options" /\ phase = "commit"
      /\ job[h].failed => phase = "rollback"
  BY <1>1 DEF Phases, NextPhase
<1>5. j = [job[h] EXCEPT !.phase = phase, !.at = from]
  OBVIOUS
<1> HIDE DEF phase, j
<1>6. /\ j \in Job /\ j.off = job[h].off /\ j.phase = phase /\ j.failed = job[h].failed
      /\ j.at = from /\ j.ahead = job[h].ahead
  BY <1>2, <1>3, <1>4, <1>5 DEF Job
<1>7. Undoable(Contents(h), j)
  BY <1>2, <1>4, <1>6 DEF Undoable
<1>8. Growing(Contents(h), j)
  <2> SUFFICES ASSUME ~job[h].failed
               PROVE  \E slots :
                         /\ Slots(Contents(h), j.off.file + 1, slots)
                         /\ Filled(Contents(h), j, slots)
                         /\ Partial(Contents(h), j.off.file + 1, slots)
    BY <1>6 DEF Growing
  <2>1. PICK slots :
                         /\ Slots(Contents(h), from, slots)
                         /\ Filled(Contents(h), job[h], slots)
                         /\ Partial(Contents(h), from, slots)
    BY <1>1, <1>2 DEF Growing
  <2>2. Filled(Contents(h), j, slots)
    <3>1. CASE job[h].phase = "declare"
      <4>1. j.phase = "resolve" /\ from \in from..end
        BY <1>3, <1>4, <1>6, <3>1
      <4> QED BY <1>6, <2>1, <3>1, <4>1 DEF Filled
    <3>2. CASE job[h].phase = "resolve"
      <4>1. j.phase = "options" /\ job[h].at > Len(Contents(h).files)
        BY <1>1, <1>2, <1>4, <1>6, <3>2, PoolTyped DEF MoreFiles
      <4>2. /\ job[h].at \in from..end
            /\ \A k \in Deferred : Len(Contents(h).tables[k]) = slots[k][job[h].at]
        BY <2>1, <3>2 DEF Filled
      <4>3. job[h].at = end
        BY <1>2, <1>3, <4>1, <4>2, PoolTyped
      <4> QED BY <1>6, <4>1, <4>2, <4>3 DEF Filled
    <3>3. CASE job[h].phase = "options"
      <4>1. j.phase = "commit"
        BY <1>4, <1>6, <3>3
      <4> QED BY <1>6, <2>1, <3>3, <4>1 DEF Filled
    <3> QED BY <1>1, <3>1, <3>2, <3>3
  <2> QED BY <1>6, <2>1, <2>2
<1> QED BY <1>1, <1>4, <1>6, <1>7, <1>8, QuietContentsStep
LEMMA DeclareFileContents ==
  ASSUME ContentsInv, NEW h \in Handles, DeclareFile(h)
  PROVE  ContentsInv'
<1> DEFINE p == Head(job[h].queue)
           old == Contents(h)
           pool == Declared(old, p, Base(h))
           q == Tail(job[h].queue)
           n == [k \in Deferred |-> job[h].ahead[k] + Len(p.decls[k])]
           b == job[h].failed \/ DeclareFails(old, p, Base(h))
           j == [job[h] EXCEPT !.queue = q, !.ahead = n, !.failed = b]
           from == job[h].off.file + 1
<1>1. /\ IInv' /\ job[h].phase = "declare" /\ job[h].queue # << >>
      /\ ~AlreadyIn(old, job[h].off, p)
      /\ arc' = arc /\ rolledBack' = rolledBack
      /\ heap' = [heap EXCEPT ![arc[h]] = Declared(@, p, Base(h))]
      /\ job' = [job EXCEPT ![h] = j]
  BY DeclareFileStep DEF DeclareFile, ContentsInv
<1>2. /\ job[h] \in Job /\ arc[h] \in Arcs /\ job[h].off \in Offsets /\ job[h].off.file \in Nat
      /\ old \in Pool /\ Within(job[h].off, old)
      /\ Undoable(old, job[h]) /\ Growing(old, job[h])
      /\ arc[h] \notin rolledBack /\ ~job[h].failed => ListsMatch(old)
  BY <1>1, BuildMeans
<1>3. heap' = [heap EXCEPT ![arc[h]] = pool]
  BY <1>1, <1>2 DEF Contents, ContentsInv, IInv, Typed
<1>4. p \in Proto /\ q \in Seq(Proto)
  BY <1>1, <1>2 DEF Job
<1>5. /\ Base(h) \in [Kinds -> Nat] /\ Deferred \subseteq Kinds
      /\ \A k \in Deferred : Base(h)[k] = job[h].ahead[k]
      /\ \A k \in Kinds \ Deferred : Base(h)[k] = Len(old.tables[k])
  <2>1. \A k \in Kinds : Len(old.tables[k]) \in Nat
    BY <1>2, PoolTyped
  <2>2. Deferred \subseteq Kinds /\ \A k \in Deferred : job[h].ahead[k] \in Nat
    BY <1>2 DEF Job, Kinds, Deferred
  <2> QED BY <2>1, <2>2 DEF Base
<1>6. n \in [Deferred -> Nat] /\ \A k \in Deferred : n[k] >= job[h].ahead[k]
  <2>1. \A k \in Deferred : Len(p.decls[k]) \in Nat /\ job[h].ahead[k] \in Nat
    BY <1>2, <1>4, <1>5, ProtoTyped DEF Job
  <2> HIDE DEF p
  <2> QED BY <2>1
<1>7. b \in BOOLEAN /\ (job[h].failed => b) /\ (~b => ~DeclareFails(old, p, Base(h)))
  BY <1>2 DEF Job
<1>8. j = [job[h] EXCEPT !.queue = q, !.ahead = n, !.failed = b]
  OBVIOUS
<1>9. pool \in Pool
  BY <1>2, <1>4, <1>5, DeclaredTyped
<1>10. /\ pool = Declared(old, p, Base(h))
       /\ \A k \in Deferred : n[k] = job[h].ahead[k] + Len(p.decls[k])
  OBVIOUS
<1> HIDE DEF p, q, n, b, j, pool, old
<1>11. /\ j \in Job /\ j.off = job[h].off /\ j.phase = "declare" /\ j.failed = b
       /\ j.ahead = n
  BY <1>1, <1>2, <1>4, <1>6, <1>7, <1>8 DEF Job
<1>12. \A k \in Kinds : job[h].off.table[k] <= Base(h)[k]
  BY <1>1, <1>2, <1>5 DEF Within, Undoable
<1>13. Undoable(pool, j)
  <2>1. old.fileNames[p.name] \notin 1..job[h].off.file
    BY <1>1 DEF AlreadyIn
  <2>2. Sound(RolledBack(pool, job[h].off))
    BY <1>2, <1>4, <1>5, <1>10, <1>12, <2>1, UndoDeclared DEF Undoable
  <2>3. \A k \in Deferred : job[h].off.table[k] <= n[k]
    <3> SUFFICES ASSUME NEW k \in Deferred PROVE job[h].off.table[k] <= n[k]
      OBVIOUS
    <3>1. /\ job[h].off.table[k] \in Nat /\ n[k] \in Nat /\ job[h].ahead[k] \in Nat
          /\ job[h].off.table[k] <= job[h].ahead[k] /\ n[k] >= job[h].ahead[k]
      BY <1>2, <1>5, <1>6, <1>12 DEF Offsets, Job
    <3> QED BY <3>1
  <2> QED BY <1>11, <2>2, <2>3 DEF Undoable
<1>14. Growing(pool, j)
  <2> SUFFICES ASSUME ~b
               PROVE  \E slots :
                         /\ Slots(pool, from, slots)
                         /\ Filled(pool, j, slots)
                         /\ Partial(pool, from, slots)
    BY <1>11 DEF Growing
  <2>1. PICK slots :
                         /\ Slots(old, from, slots)
                         /\ Filled(old, job[h], slots)
                         /\ Partial(old, from, slots)
    BY <1>1, <1>2, <1>7 DEF Growing
  <2>2. from \in Nat \ {0} /\ from <= Len(old.files) + 1
    BY <1>2, PoolTyped DEF Within
  <2>3. \A k \in Deferred : /\ Base(h)[k] = slots[k][Len(old.files) + 1]
                           /\ Len(old.tables[k]) = slots[k][from]
    BY <1>1, <1>5, <2>1 DEF Filled
  <2>4. PICK new :
          /\ Slots(pool, from, new)
          /\ \A k \in Deferred :
               /\ new[k][from] = slots[k][from]
               /\ new[k][Len(pool.files) + 1] = Base(h)[k] + Len(p.decls[k])
          /\ Partial(pool, from, new)
    <3> HIDE DEF from
    <3>1. pool = Declared(old, p, Base(h)) /\ Base(h) \in [Kinds -> Nat]
      BY <1>4, <1>5, <1>10
    <3>2. \A k \in Kinds \ Deferred : Base(h)[k] = Len(old.tables[k])
      BY <1>5
    <3>3. /\ old \in Pool /\ p \in Proto /\ ~DeclareFails(old, p, Base(h))
      BY <1>2, <1>4, <1>7, <1>10
    <3> DEFINE next == Declared(old, p, Base(h))
    <3>4. \E new : /\ Slots(next, from, new)
                   /\ \A k \in Deferred :
                        /\ new[k][from] = slots[k][from]
                        /\ new[k][Len(next.files) + 1] = Base(h)[k] + Len(p.decls[k])
                   /\ Partial(next, from, new)
      BY ONLY ZenonT(60), <2>1, <2>2, <2>3, <3>1, <3>2, <3>3, GrowDeclared
    <3>5. pool = next
      BY <3>1
    <3> HIDE DEF next
    <3> QED BY <3>4, <3>5
  <2>5. \A k \in Deferred : pool.tables[k] = old.tables[k]
    <3>1. IsDeclared(pool, old, p, Base(h), Len(old.files) + 1)
      BY <1>2, <1>4, <1>5, <1>10, DeclaredParts
    <3> QED BY <3>1 DEF IsDeclared
  <2>6. Filled(pool, j, new)
    BY <1>5, <1>10, <1>11, <2>3, <2>4, <2>5 DEF Filled
  <2> QED BY <2>4, <2>6
<1>15. arc[h] \notin rolledBack /\ ~j.failed => ListsMatch(pool)
  BY <1>2, <1>4, <1>5, <1>7, <1>10, <1>11, ListsDeclared
<1>16. Matched(pool, j)
  BY <1>11, <1>13, <1>14 DEF Matched
<1> QED BY <1>1, <1>3, <1>9, <1>11, <1>15, <1>16, BuildContentsStep

LEMMA ResolveFileContents ==
  ASSUME ContentsInv, NEW h \in Handles, ResolveFile(h)
  PROVE  ContentsInv'
<1> DEFINE old == Contents(h)
           f == job[h].at
           pool == Resolved(old, f)
           n == f + 1
           b == job[h].failed \/ ResolveFails(old, f)
           j == [job[h] EXCEPT !.at = n, !.failed = b]
           from == job[h].off.file + 1
<1>1. /\ IInv' /\ job[h].phase = "resolve" /\ f <= Len(old.files) /\ f # 0
      /\ arc' = arc /\ rolledBack' = rolledBack
      /\ heap' = [heap EXCEPT ![arc[h]] = Resolved(@, f)]
      /\ job' = [job EXCEPT ![h] = j]
  BY ResolveFileStep DEF ResolveFile, MoreFiles, ContentsInv, IInv, VisitsFiles
<1>2. /\ job[h] \in Job /\ arc[h] \in Arcs /\ job[h].off \in Offsets /\ job[h].off.file \in Nat
      /\ old \in Pool /\ Within(job[h].off, old) /\ f \in Nat
      /\ Undoable(old, job[h]) /\ Growing(old, job[h])
      /\ arc[h] \notin rolledBack /\ ~job[h].failed => ListsMatch(old)
  BY <1>1, BuildMeans
<1>3. heap' = [heap EXCEPT ![arc[h]] = pool]
  BY <1>1, <1>2 DEF Contents, ContentsInv, IInv, Typed
<1>4. f \in DOMAIN old.files
  BY <1>1, <1>2, PoolTyped
<1>5. pool \in Pool /\ pool = Resolved(old, f)
  BY <1>2, <1>4, ResolvedTyped
<1>6. n \in Nat /\ b \in BOOLEAN /\ (job[h].failed => b) /\ (~b => ~ResolveFails(old, f))
  BY <1>2 DEF Job
<1>7. j = [job[h] EXCEPT !.at = n, !.failed = b] /\ n = f + 1
  OBVIOUS
<1> HIDE DEF n, b, j, pool, old
<1>8. /\ j \in Job /\ j.off = job[h].off /\ j.phase = "resolve" /\ j.failed = b
      /\ j.at = n
  BY <1>1, <1>2, <1>6, <1>7 DEF Job
<1>9. Undoable(pool, j)
  BY <1>2, <1>4, <1>5, <1>8, UndoResolved DEF Undoable
<1>10. ASSUME ~b
       PROVE  \E slots :
                 /\ Slots(old, from, slots)
                 /\ f \in from..Len(old.files)
                 /\ \A k \in Deferred : Len(old.tables[k]) = slots[k][f]
                 /\ Partial(old, from, slots)
  <2>1. PICK slots :
                         /\ Slots(old, from, slots)
                         /\ Filled(old, job[h], slots)
                         /\ Partial(old, from, slots)
    BY <1>1, <1>2, <1>6, <1>10 DEF Growing
  <2>2. f \in from..(Len(old.files) + 1) /\ \A k \in Deferred : Len(old.tables[k]) = slots[k][f]
    BY <1>1, <2>1 DEF Filled
  <2>3. f \in from..Len(old.files)
    BY <1>1, <1>2, <2>2, PoolTyped
  <2> QED BY <2>1, <2>2, <2>3
<1>11. Len(pool.files) = Len(old.files)
  BY <1>2, <1>4, <1>5, ResolvedParts DEF IsResolved
<1>12. Growing(pool, j)
  <2> SUFFICES ASSUME ~b
               PROVE  \E slots :
                         /\ Slots(pool, from, slots)
                         /\ Filled(pool, j, slots)
                         /\ Partial(pool, from, slots)
    BY <1>8 DEF Growing
  <2>1. PICK slots :
                 /\ Slots(old, from, slots)
                 /\ f \in from..Len(old.files)
                 /\ \A k \in Deferred : Len(old.tables[k]) = slots[k][f]
                 /\ Partial(old, from, slots)
    BY <1>10
  <2>2. from \in Nat \ {0}
    BY <1>2
  <2>3. /\ Slots(pool, from, slots) /\ Partial(pool, from, slots)
        /\ \A k \in Deferred : Len(pool.tables[k]) = slots[k][f + 1]
    <3> HIDE DEF from, f
    <3> QED BY SMTT(60), <1>2, <1>5, <2>1, <2>2, GrowResolved
  <2>4. n \in from..(Len(pool.files) + 1)
    BY SMTT(60), <1>2, <1>7, <1>11, <2>1, PoolTyped
  <2>5. Filled(pool, j, slots)
    BY <1>7, <1>8, <2>3, <2>4 DEF Filled
  <2> QED BY <1>11, <2>1, <2>3, <2>5
<1>13. ASSUME arc[h] \notin rolledBack, ~b
       PROVE  ListsMatch(pool)
  <2>1. PICK slots : Partial(old, from, slots)
    BY SMTT(60), <1>10, <1>13
  <2>2. ASSUME NEW m \in Names, old.names[m].kind = "message"
        PROVE  old.names[m].index \in DOMAIN old.tables["message"]
    BY <2>1, <2>2 DEF Partial, NameMatches, HasRow, HasSlot, Deferred
  <2> HIDE DEF f
  <2> QED BY <1>2, <1>4, <1>5, <1>6, <1>13, <2>2, ListsResolved
<1>14. Matched(pool, j)
  BY <1>8, <1>9, <1>12 DEF Matched
<1> QED BY <1>1, <1>3, <1>5, <1>8, <1>13, <1>14, BuildContentsStep

\* The last step of a build that succeeds.
LEMMA CommitContents ==
  ASSUME ContentsInv, VisitsClosed, NEW h \in Handles, Commit(h)
  PROVE  ContentsInv'
<1> DEFINE old == Contents(h)
           pool == Committed(old, job[h].off)
<1>1. /\ IInv' /\ job[h].phase = "commit" /\ GetMut(h, pool)
      /\ arc' = arc /\ rolledBack' = rolledBack
  BY CommitStep DEF Commit, ContentsInv
<1>2. /\ job[h].off \in Offsets /\ old \in Pool /\ Growing(old, job[h])
      /\ ~job[h].failed
      /\ arc[h] \notin rolledBack /\ ~job[h].failed => ListsMatch(old)
  BY <1>1, BuildMeans
<1>3. heap' = [heap EXCEPT ![arc[h]] = pool] /\ job' = [job EXCEPT ![h] = Idle]
  BY <1>1, SoleWhenClosed DEF GetMut, ContentsInv
<1>4. pool \in Pool
  BY <1>2, CommittedTyped
<1>5. PICK slots :
        /\ Slots(old, job[h].off.file + 1, slots)
        /\ \A k \in Deferred : Len(old.tables[k]) = slots[k][Len(old.files) + 1]
        /\ Partial(old, job[h].off.file + 1, slots)
  BY <1>1, <1>2 DEF Growing, Filled
<1> HIDE DEF old
<1>6. Sound(pool)
  BY <1>2, <1>5, GrowCommitted
<1>7. Matched(pool, Idle)
  BY <1>6, IdleTyped DEF Matched
<1>8. arc[h] \notin rolledBack => ListsMatch(pool)
  BY <1>1, <1>2, ListsCommitted
<1>9. Idle \in Job /\ ~Idle.failed
  BY IdleTyped DEF Idle
<1> HIDE DEF pool
<1> QED BY <1>1, <1>3, <1>4, <1>7, <1>8, <1>9, BuildContentsStep

\* Undoing a build that fails.
LEMMA RollbackContents ==
  ASSUME ContentsInv, VisitsClosed, NEW h \in Handles, Rollback(h)
  PROVE  ContentsInv'
<1> DEFINE pool == RolledBack(Contents(h), job[h].off)
<1>1. /\ IInv' /\ job[h].phase = "rollback" /\ GetMut(h, pool)
      /\ arc' = arc /\ rolledBack' = rolledBack \cup {arc[h]}
  BY RollbackStep DEF Rollback, ContentsInv
<1>2. /\ job[h].off \in Offsets /\ Contents(h) \in Pool
      /\ Within(job[h].off, Contents(h)) /\ Undoable(Contents(h), job[h])
  BY <1>1, BuildMeans
<1>3. heap' = [heap EXCEPT ![arc[h]] = pool] /\ job' = [job EXCEPT ![h] = Idle]
  BY <1>1, SoleWhenClosed DEF GetMut, ContentsInv
<1>4. pool \in Pool
  BY <1>2, RolledBackTyped
<1>5. Matched(pool, Idle)
  BY <1>2, IdleTyped DEF Matched, Undoable
<1>6. Idle \in Job /\ ~Idle.failed /\ rolledBack \subseteq rolledBack' /\ arc[h] \in rolledBack'
  BY <1>1, IdleTyped DEF Idle
<1> HIDE DEF pool
<1> QED BY <1>1, <1>3, <1>4, <1>5, <1>6, BuildContentsStep

-----------------------------------------------------------------------------
(* Steps that create, share, copy and free contents.                       *)

LEMMA NewContents ==
  ASSUME ContentsInv, NEW h \in Handles, New(h)
  PROVE  ContentsInv'
<1>1. PICK a \in Free : /\ arc' = [arc EXCEPT ![h] = a]
                        /\ heap' = [heap EXCEPT ![a] = EmptyPool]
                        /\ rolledBack' = rolledBack \ {a}
  BY DEF New
<1>2. /\ arc[h] = NoArc /\ job' = job /\ a \in Arcs /\ job[h] \in Job
      /\ \A g \in Handles : arc[g] # a
      /\ IInv'
  BY NewStep DEF New, Live, Free, Holders, ContentsInv, IInv, Typed
<1>3. job[h].phase = "idle" /\ ~job[h].failed
  BY <1>2, AloneMeans DEF ContentsInv, IInv, NoErrorsLeft
<1>4. arc'[h] = a /\ heap'[a] = EmptyPool
  BY <1>1, <1>2 DEF ContentsInv, IInv, Typed
<1>5. Right(h)
  BY <1>2, <1>3, <1>4, EmptyPoolMatches DEF Right, Matched
<1>6. ASSUME NEW g \in Handles, g # h, arc'[g] # NoArc
      PROVE  Same(g, g)
  BY <1>1, <1>2, <1>6 DEF Same, Live, ContentsInv, IInv, Typed
<1>7. job' = [job EXCEPT ![h] = job[h]]
  BY <1>2 DEF ContentsInv, IInv, Typed
<1>8. job[h].phase \in {"idle", "commit"} => ~job[h].failed
  BY <1>3
<1> QED BY <1>2, <1>5, <1>6, <1>7, <1>8, ContentsStep

LEMMA CloneContents ==
  ASSUME ContentsInv, NEW h \in Handles, NEW f \in Handles, Clone(f, h)
  PROVE  ContentsInv'
<1>1. /\ arc[f] # NoArc /\ job[f].phase = "idle" /\ arc[h] = NoArc
      /\ arc' = [arc EXCEPT ![h] = arc[f]]
      /\ heap' = heap /\ job' = job /\ rolledBack' = rolledBack
      /\ IInv' /\ job[h] \in Job
  BY CloneStep DEF Clone, Live, ContentsInv, IInv, Typed
<1>2. job[h].phase = "idle" /\ ~job[h].failed
  BY <1>1, AloneMeans DEF ContentsInv, IInv, NoErrorsLeft
<1>3. Same(f, h)
  BY <1>1, <1>2 DEF Same, Live, ContentsInv, IInv, Typed
<1>4. ASSUME NEW g \in Handles, g # h, arc'[g] # NoArc
      PROVE  Same(g, g)
  BY <1>1, <1>4 DEF Same, Live, ContentsInv, IInv, Typed
<1>5. job' = [job EXCEPT ![h] = job[h]]
  BY <1>1 DEF ContentsInv, IInv, Typed
<1>6. job[h].phase \in {"idle", "commit"} => ~job[h].failed
  BY <1>2
<1>7. \A g \in Handles : arc'[g] # NoArc => Right(g) \/ \E b \in Handles : Same(b, g)
  BY <1>3, <1>4
<1> QED BY <1>1, <1>5, <1>6, <1>7, ContentsStep

LEMMA ReleaseContents ==
  ASSUME ContentsInv, IInv', NEW h \in Handles, arc[h] # NoArc, Release(h), NEW j \in Job,
         job' = [job EXCEPT ![h] = j], j.phase = "idle", ~j.failed
  PROVE  ContentsInv'
<1>1. /\ arc' = [arc EXCEPT ![h] = NoArc]
      /\ heap' = [heap EXCEPT ![arc[h]] = EmptyPool] \/ heap' = heap
      /\ heap' # heap => \A g \in Handles : arc[g] = arc[h] => g = h
      /\ rolledBack' = rolledBack \/
           (rolledBack' = rolledBack \ {arc[h]} /\ \A g \in Handles : arc[g] = arc[h] => g = h)
  BY DEF Release, Unique, Holders
<1>2. ASSUME NEW g \in Handles, arc'[g] # NoArc
      PROVE  Same(g, g)
  <2>1. g # h /\ arc'[g] = arc[g] /\ job'[g] = job[g]
    BY <1>1, <1>2 DEF ContentsInv, IInv, Typed
  <2>2. heap'[arc[g]] = heap[arc[g]]
    BY <1>1, <1>2, <2>1 DEF ContentsInv, IInv, Typed
  <2> QED BY <1>1, <1>2, <2>1, <2>2 DEF Same, Live
<1>3. j.phase \in {"idle", "commit"} => ~j.failed
  OBVIOUS
<1> QED BY <1>2, <1>3, ContentsStep

LEMMA DropContents ==
  ASSUME ContentsInv, NEW h \in Handles, Drop(h)
  PROVE  ContentsInv'
<1>1. arc[h] # NoArc /\ job[h].phase = "idle" /\ Release(h) /\ job' = job /\ IInv'
  BY DropStep DEF Drop, Live, ContentsInv
<1>2. job[h] \in Job /\ ~job[h].failed /\ job' = [job EXCEPT ![h] = job[h]]
  BY <1>1 DEF ContentsInv, IInv, Typed, NoErrorsLeft
<1> QED BY <1>1, <1>2, ReleaseContents

LEMMA UnwindContents ==
  ASSUME ContentsInv, NEW h \in Handles, Unwind(h)
  PROVE  ContentsInv'
<1>1. job[h].phase = "panicked" /\ Release(h) /\ job' = [job EXCEPT ![h] = Idle] /\ IInv'
  BY UnwindStep DEF Unwind, ContentsInv
<1>2. arc[h] # NoArc
  BY <1>1, AloneMeans DEF ContentsInv, IInv
<1>3. Idle \in Job /\ Idle.phase = "idle" /\ ~Idle.failed
  BY IdleTyped DEF Idle
<1> QED BY <1>1, <1>2, <1>3, ReleaseContents

\* A build starts from sound contents, its own copy if they were shared.
LEMMA StartBuildContents ==
  ASSUME ContentsInv, NEW h \in Handles, NEW batch \in Batches, StartBuild(h, batch)
  PROVE  ContentsInv'
<1> DEFINE old == Contents(h)
           off == OffsetsOf(old)
           j == [phase |-> "declare", queue |-> batch, off |-> off, at |-> 0,
                 ahead |-> [k \in Deferred |-> off.table[k]], failed |-> FALSE]
<1>1. /\ arc[h] # NoArc /\ job[h].phase = "idle" /\ MakeMut(h)
      /\ job' = [job EXCEPT ![h] = j] /\ IInv'
  BY StartBuildStep DEF StartBuild, Live, ContentsInv
<1>2. arc[h] \in Arcs /\ old \in Pool /\ Sound(old)
  BY <1>1 DEF ContentsInv, IInv, Typed, Contents, PoolsMatched, Live, Matched
<1>3. /\ off \in Offsets /\ Deferred \subseteq Kinds /\ off.file = Len(old.files)
      /\ \A k \in Deferred : off.table[k] = Len(old.tables[k])
  BY <1>2, OffsetsTyped DEF OffsetsOf, Kinds, Deferred
<1>4. /\ j \in Job /\ j.off = off /\ j.phase = "declare" /\ ~j.failed
      /\ \A k \in Deferred : j.ahead[k] = off.table[k]
  <2>1. [k \in Deferred |-> off.table[k]] \in [Deferred -> Nat]
    BY <1>3 DEF Offsets
  <2>2. batch \in Seq(Proto)
    BY BatchesAssumption
  <2> HIDE DEF off
  <2> QED BY <1>3, <2>1, <2>2 DEF Job, Phases
<1>5. Sound(RolledBack(old, off))
  BY <1>2, UndoStart
<1>6. arc[h] \notin rolledBack => ListsMatch(old)
  BY <1>1 DEF ContentsInv, ListsMatched, NoErrorsLeft, Live
<1> HIDE DEF j, off
<1>7. Undoable(old, j)
  BY <1>3, <1>4, <1>5 DEF Undoable, Offsets
<1>8. Growing(old, j)
  <2>1. PICK slots :
            /\ Slots(old, Len(old.files) + 1, slots)
            /\ \A k \in Deferred : slots[k][Len(old.files) + 1] = Len(old.tables[k])
            /\ Partial(old, Len(old.files) + 1, slots)
    BY <1>2, GrowStart
  <2>2. Filled(old, j, slots)
    BY <1>3, <1>4, <2>1 DEF Filled
  <2> QED BY <1>3, <1>4, <2>1, <2>2 DEF Growing
<1>9. PICK a \in Arcs :
        /\ arc' = [arc EXCEPT ![h] = a] /\ heap' = [heap EXCEPT ![a] = old]
        /\ arc[h] \in rolledBack => a \in rolledBack'
        /\ \A b \in Arcs : b # a => (b \in rolledBack' <=> b \in rolledBack)
        /\ \A g \in Handles : arc[g] = a => g = h
  <2>1. CASE Unique(h)
    <3>1. arc' = arc /\ heap' = heap /\ rolledBack' = rolledBack
      BY <1>1, <2>1 DEF MakeMut
    <3>2. arc' = [arc EXCEPT ![h] = arc[h]] /\ heap' = [heap EXCEPT ![arc[h]] = old]
      BY <1>2, <3>1 DEF ContentsInv, IInv, Typed, Contents
    <3>3. \A g \in Handles : arc[g] = arc[h] => g = h
      BY <2>1 DEF Unique, Holders
    <3> QED BY <1>2, <3>1, <3>2, <3>3
  <2>2. CASE ~Unique(h)
    <3>1. PICK a \in Free : /\ arc' = [arc EXCEPT ![h] = a]
                            /\ heap' = [heap EXCEPT ![a] = old]
                            /\ rolledBack' = IF arc[h] \in rolledBack
                                             THEN rolledBack \cup {a} ELSE rolledBack \ {a}
      BY <1>1, <2>2 DEF MakeMut
    <3>2. a \in Arcs /\ \A g \in Handles : arc[g] # a
      BY DEF Free, Holders
    <3> QED BY <3>1, <3>2
  <2> QED BY <2>1, <2>2
<1> HIDE DEF old
<1>10. Right(h)
  <2>1. arc'[h] = a /\ heap'[a] = old /\ job'[h] = j
    BY <1>1, <1>9 DEF ContentsInv, IInv, Typed
  <2>2. Matched(old, j)
    BY <1>4, <1>7, <1>8 DEF Matched
  <2> QED BY <1>6, <1>9, <2>1, <2>2 DEF Right
<1>11. ASSUME NEW g \in Handles, g # h, arc'[g] # NoArc
       PROVE  Same(g, g)
  <2>1. arc'[g] = arc[g] /\ job'[g] = job[g] /\ arc[g] \in Arcs /\ arc[g] # a
    BY <1>1, <1>9, <1>11 DEF ContentsInv, IInv, Typed
  <2>2. heap'[arc[g]] = heap[arc[g]]
    BY <1>9, <2>1 DEF ContentsInv, IInv, Typed
  <2> QED BY <1>9, <1>11, <2>1, <2>2 DEF Same, Live
<1>12. j.phase \in {"idle", "commit"} => ~j.failed
  BY <1>4
<1> QED BY <1>1, <1>4, <1>10, <1>11, <1>12, ContentsStep

-----------------------------------------------------------------------------
(* The theorems.                                                           *)

LEMMA ContentsInit == Init => ContentsInv
<1> SUFFICES ASSUME Init PROVE ContentsInv
  OBVIOUS
<1>1. IInv
  BY IInvInit
<1>2. \A h \in Handles : ~Live(h) /\ job[h] = Idle
  BY DEF Init, Live
<1>3. ~Idle.failed
  BY DEF Idle
<1> QED BY <1>1, <1>2, <1>3 DEF ContentsInv, PoolsMatched, ListsMatched, NoErrorsLeft

LEMMA ContentsNext == ContentsInv /\ VisitsClosed /\ [Next]_vars => ContentsInv'
<1> SUFFICES ASSUME ContentsInv, VisitsClosed, [Next]_vars PROVE ContentsInv'
  OBVIOUS
<1>1. CASE UNCHANGED <<arc, heap, job, rolledBack>>
  <2>1. IInv'
    BY IInvStep DEF ContentsInv
  <2> QED BY <1>1, <2>1 DEF ContentsInv, PoolsMatched, ListsMatched, NoErrorsLeft, Live, Contents
<1>2. CASE UNCHANGED vars
  BY <1>1, <1>2 DEF vars
<1>3. CASE \E h \in Handles : OpenOptions(h) \/ SetOption(h)
  BY <1>1, <1>3, VisitStep
<1>4. CASE Next
  BY <1>3, <1>4, NewContents, DropContents, CloneContents, StartBuildContents, SkipFileContents,
     DeclareFileContents, UnknownSyntaxContents, ResolveFileContents, OptionsFileContents,
     EndPhaseContents, CommitContents, RollbackContents, UnwindContents
  DEF Next
<1> QED BY <1>2, <1>4

LEMMA ContentsInductive == Spec => []ContentsInv
<1>1. SafeInv => VisitsClosed
  BY DEF SafeInv
<1> QED BY <1>1, Inductive, ContentsInit, ContentsNext, PTL DEF Spec

\* The name table, the file table and the tables of every settled pool describe
\* each other exactly, after any history of builds that succeed, fail half way
\* and are rolled back, or panic: lookups by name never miss a declaration, find
\* a stale one or index outside a table.
THEOREM TablesMatch == Spec => []NamesMatchTables
<1>1. ContentsInv => NamesMatchTables
  BY DEF ContentsInv, PoolsMatched, NamesMatchTables, Settled, Matched, Sound
<1> QED BY <1>1, ContentsInductive, PTL

\* MessageDescriptor::extensions lists exactly the extensions of the message, in
\* every settled pool whose contents no rollback touched.
THEOREM ListsExactBeforeRollback == Spec => []ListsExactUntilRollback
<1>1. ContentsInv => ListsExactUntilRollback
  BY DEF ContentsInv, ListsMatched, NoErrorsLeft, ListsExactUntilRollback, Settled, ListsMatch
<1> QED BY <1>1, ContentsInductive, PTL
=============================================================================
