------------------------- MODULE PoolRegistryProofs -------------------------
(***************************************************************************)
(* DescriptorPool implements PoolRegistry, for every number of handles and *)
(* every set of batches: a pool only changes by whole batches, each of     *)
(* which is, with the pool, closed under its references.                   *)
(*                                                                         *)
(* The invariant adds to ContentsInv an account of every build.  The rows  *)
(* of the tables are the declarations of the files, no more and no fewer   *)
(* ("Described"), so that names which do not clash in the name table do    *)
(* not clash in the files.  The files that were added are a prefix of some *)
(* batch ("Traced"), all of it when the build commits.  And each reference *)
(* that a phase has resolved resolves by the rules of PoolRegistry         *)
(* ("Resolving"), because the search through imports (Visible) stays       *)
(* within every set of files that is closed under public imports: an       *)
(* induction over the imports of a file and over the depth of the search.  *)
(*                                                                         *)
(* The last part turns to the builds that are refused: RefusalInv adds to  *)
(* the invariant that an error has a reason by the rules of PoolRegistry   *)
(* (AllReasoned), and that a pool at rest, and all that was there when a   *)
(* build began, has the imports and extended messages that it names.  It   *)
(* needs the search to find enough, where the first part needed it to find *)
(* not too much: the fold over the imports gathers all of them.            *)
(***************************************************************************)
EXTENDS DescriptorPoolProofs, FoldTheorems

-----------------------------------------------------------------------------
(* The imports that are searched.                                          *)

\* The files and the map of their names describe each other.
FilesIndexed(pool) ==
  /\ \A i \in DOMAIN pool.files : pool.fileNames[pool.files[i].raw.name] = i
  /\ \A f \in FileNames : pool.fileNames[f] # 0 =>
        /\ pool.fileNames[f] \in DOMAIN pool.files
        /\ pool.files[pool.fileNames[f]].raw.name = f

\* The files with a name in the set, and the mark of a search that does not end.
Reached(pool, S) == {Endless} \cup { g \in DOMAIN pool.files : pool.files[g].raw.name \in S }

\* A set of names that has what its files import publicly.
HasPublicImports(pool, S) ==
  \A g \in DOMAIN pool.files :
     pool.files[g].raw.name \in S => Registry!PublicImports(pool.files[g].raw) \subseteq S

LEMMA ImportsAre ==
  ASSUME NEW pool \in Pool, FilesIndexed(pool), NEW g \in DOMAIN pool.files
  PROVE  LET deps == pool.files[g].raw.deps
             imports == Imports(pool, g)
         IN  /\ DOMAIN imports = 1..Len(deps) /\ Len(deps) \in Nat /\ DOMAIN deps = 1..Len(deps)
             /\ \A i \in 1..Len(deps) :
                  /\ imports[i].known <=> pool.fileNames[deps[i]] # 0
                  /\ imports[i].public <=> i \in pool.files[g].raw.public
                  /\ imports[i].known => /\ imports[i].file \in DOMAIN pool.files
                                         /\ pool.files[imports[i].file].raw.name = deps[i]
<1> DEFINE deps == pool.files[g].raw.deps
           imports == Imports(pool, g)
<1>1. deps \in Seq(FileNames)
  BY PoolTyped DEF Proto
<1>2. DOMAIN deps = 1..Len(deps) /\ Len(deps) \in Nat /\ \A i \in 1..Len(deps) :
          deps[i] \in FileNames
  BY <1>1
<1>3. imports = [i \in 1..Len(deps) |-> [file |-> pool.fileNames[deps[i]],
                                         known |-> pool.fileNames[deps[i]] # 0,
                                         public |-> i \in pool.files[g].raw.public]]
  BY DEF Imports
<1> HIDE DEF deps, imports
<1>4. ASSUME NEW i \in 1..Len(deps)
      PROVE  /\ imports[i].known <=> pool.fileNames[deps[i]] # 0
             /\ imports[i].public <=> i \in pool.files[g].raw.public
             /\ imports[i].known => /\ imports[i].file \in DOMAIN pool.files
                                    /\ pool.files[imports[i].file].raw.name = deps[i]
  <2>1. /\ imports[i].file = pool.fileNames[deps[i]]
        /\ imports[i].known = (pool.fileNames[deps[i]] # 0)
        /\ imports[i].public = (i \in pool.files[g].raw.public)
    BY <1>3
  <2> QED BY <1>2, <2>1 DEF FilesIndexed
<1>5. DOMAIN imports = 1..Len(deps)
  BY <1>3
<1> QED BY <1>2, <1>4, <1>5 DEF deps, imports

\* A public import of a file that is reached is reached.
LEMMA PublicImportReached ==
  ASSUME NEW pool \in Pool, FilesIndexed(pool), NEW S, HasPublicImports(pool, S),
         NEW g \in Reached(pool, S) \cap DOMAIN pool.files, NEW i \in DOMAIN Imports(pool, g),
         Imports(pool, g)[i].known, Imports(pool, g)[i].public
  PROVE  Imports(pool, g)[i].file \in Reached(pool, S) \cap DOMAIN pool.files
<1>1. g # Endless /\ pool.files[g].raw.name \in S
  BY PoolTyped DEF Reached, Endless
<1>2. i \in DOMAIN pool.files[g].raw.deps /\ i \in pool.files[g].raw.public
  BY ImportsAre
<1>3. pool.files[g].raw.deps[i] \in S
  BY <1>1, <1>2 DEF HasPublicImports, Registry!PublicImports
<1>4. /\ Imports(pool, g)[i].file \in DOMAIN pool.files
      /\ pool.files[Imports(pool, g)[i].file].raw.name = pool.files[g].raw.deps[i]
  BY ImportsAre
<1> QED BY <1>3, <1>4 DEF Reached

\* One level of the search stays among the files that are reached, if the next does.
LEMMA EnteredWithin ==
  ASSUME NEW pool \in Pool, FilesIndexed(pool), NEW S, HasPublicImports(pool, S),
         NEW g \in Reached(pool, S) \cap DOMAIN pool.files, NEW enter,
         NEW seen \in SUBSET Reached(pool, S),
         \A acc \in SUBSET Reached(pool, S), m \in Reached(pool, S) \cap DOMAIN pool.files :
            enter[m][acc] \in SUBSET Reached(pool, S)
  PROVE  Entered(pool, enter, seen, g) \in SUBSET Reached(pool, S)
<1> DEFINE T == Reached(pool, S)
           imports == Imports(pool, g)
           L == Len(pool.files[g].raw.deps)
           step(acc, d) == IF ~d.known \/ ~d.public THEN acc
                           ELSE IF d.file \in acc THEN enter[d.file][acc]
                           ELSE acc \cup {d.file}
           op == [p \in (SUBSET T) \X (1..L) |-> step(p[1], imports[p[2]])]
           iter == CHOOSE d : d = [s \in SUBSET (DOMAIN imports) |->
                     IF s = {} THEN seen ELSE step(d[s \ {Max(s)}], imports[Max(s)])]
<1>1. L \in Nat /\ DOMAIN imports = 1..L
  BY ImportsAre
<1>2. Entered(pool, enter, seen, g) = iter[DOMAIN imports]
  BY DEF Entered, FoldLeft, MapThenFoldSet
<1>3. ASSUME NEW acc \in SUBSET T, NEW i \in 1..L PROVE step(acc, imports[i]) \in SUBSET T
  <2>1. CASE ~imports[i].known \/ ~imports[i].public
    BY <2>1
  <2>2. CASE ~(~imports[i].known \/ ~imports[i].public)
    <3>1. imports[i].file \in T \cap DOMAIN pool.files
      BY <1>1, <2>2, PublicImportReached
    <3> HIDE DEF T, imports
    <3>2. enter[imports[i].file][acc] \in SUBSET T /\ acc \cup {imports[i].file} \in SUBSET T
      BY <3>1 DEF T
    <3> QED BY <2>2, <3>2
  <2> QED BY <2>1, <2>2
<1> HIDE DEF T, imports, L
<1>4. op \in [(SUBSET T) \X (1..L) -> SUBSET T]
  <2> HIDE DEF step
  <2> QED BY <1>3
<1>5. \A acc \in SUBSET T, i \in 1..L : op[<<acc, i>>] = step(acc, imports[i])
  <2> HIDE DEF step
  <2> QED OBVIOUS
<1>6. seen \in SUBSET T
  BY DEF T
<1>7. PICK d : IsFold(d, L, SUBSET T, op, seen)
  <2> HIDE DEF op, iter
  <2> QED BY <1>1, <1>4, <1>6, FoldExists
<1> HIDE DEF op
<1>8. ASSUME NEW s \in SUBSET (1..L), s # {}
      PROVE  d[s] = step(d[s \ {Max(s)}], imports[Max(s)])
  <2> HIDE DEF step
  <2>1. Max(s) \in 1..L /\ s \ {Max(s)} \in SUBSET (1..L)
    BY <1>1, <1>8, LastIsIn
  <2>2. d[s \ {Max(s)}] \in SUBSET T
    BY <1>7, <2>1 DEF IsFold
  <2>3. d[s] = op[<<d[s \ {Max(s)}], Max(s)>>]
    BY <1>7, <1>8 DEF IsFold
  <2> QED BY <1>5, <2>1, <2>2, <2>3
<1>9. d = [s \in SUBSET (DOMAIN imports) |->
             IF s = {} THEN seen ELSE step(d[s \ {Max(s)}], imports[Max(s)])]
  <2> HIDE DEF step
  <2> QED BY <1>1, <1>7, <1>8 DEF IsFold
<1>10. iter = [s \in SUBSET (DOMAIN imports) |->
                IF s = {} THEN seen ELSE step(iter[s \ {Max(s)}], imports[Max(s)])]
  BY <1>9, Zenon
<1> HIDE DEF iter, step
<1>11. ASSUME NEW s \in SUBSET (1..L)
       PROVE  iter[s] = IF s = {} THEN seen
                        ELSE IF iter[s \ {Max(s)}] \in SUBSET T
                             THEN op[<<iter[s \ {Max(s)}], Max(s)>>] ELSE iter[s]
  <2>1. CASE s = {}
    BY <1>1, <1>10, <2>1
  <2>2. CASE s # {}
    <3>1. Max(s) \in 1..L
      BY <1>1, <2>2, LastIsIn
    <3>2. iter[s] = step(iter[s \ {Max(s)}], imports[Max(s)])
      BY <1>1, <1>10, <2>2
    <3> QED BY <1>5, <2>2, <3>1, <3>2
  <2> QED BY <2>1, <2>2
<1>12. iter[1..L] \in SUBSET T
  BY <1>1, <1>4, <1>6, <1>11, FoldStays
<1> QED BY <1>1, <1>2, <1>12 DEF T

\* The function for a recursion less than k deep, from that for one less than k - 1 deep.
Depth(pool, k, enter) ==
  [g \in DOMAIN pool.files |-> [seen \in SUBSET (DOMAIN pool.files \cup {Endless}) |->
     IF k = 0 THEN seen \cup {Endless} ELSE Entered(pool, enter, seen, g)]]

\* The search is defined at every depth.
LEMMA WalkExists ==
  ASSUME NEW pool, NEW N \in Nat
  PROVE  \E w : w = [k \in 0..N |-> Depth(pool, k, w[k - 1])]
<1> DEFINE Walk(w, n) == w = [k \in 0..n |-> Depth(pool, k, w[k - 1])]
           S == { n \in Nat : \E w : Walk(w, n) }
<1>1. \A enter, other : Depth(pool, 0, enter) = Depth(pool, 0, other)
  BY DEF Depth
<1>2. 0 \in S
  <2> DEFINE w == [k \in 0..0 |-> Depth(pool, 0, pool)]
  <2>1. w = [k \in 0..0 |-> Depth(pool, k, w[k - 1])]
    <3>1. \A k \in 0..0 : k = 0
      OBVIOUS
    <3>2. \A k \in 0..0 : Depth(pool, 0, pool) = Depth(pool, k, w[k - 1])
      <4> HIDE DEF w
      <4> QED BY <1>1, <3>1
    <3> QED BY <3>2
  <2> HIDE DEF w
  <2> QED BY <2>1
<1>3. ASSUME NEW n \in Nat, n \in S PROVE n + 1 \in S
  <2>1. PICK v : Walk(v, n)
    BY <1>3
  <2> DEFINE w == [k \in 0..n + 1 |-> IF k \in 0..n THEN v[k] ELSE Depth(pool, k, v[k - 1])]
  <2>2. ASSUME NEW k \in 0..n + 1 PROVE w[k] = Depth(pool, k, w[k - 1])
    <3>1. w[k] = IF k \in 0..n THEN v[k] ELSE Depth(pool, k, v[k - 1])
      OBVIOUS
    <3>2. w[k] = Depth(pool, k, v[k - 1])
      BY <2>1, <3>1
    <3>3. CASE k = 0
      <4> HIDE DEF w
      <4> QED BY <1>1, <3>2, <3>3
    <3>4. CASE k # 0
      <4>1. k - 1 \in 0..n /\ k - 1 \in 0..n + 1
        BY <3>4
      <4>2. w[k - 1] = v[k - 1]
        BY <4>1
      <4> HIDE DEF w
      <4> QED BY <3>2, <4>2
    <3> QED BY <3>3, <3>4
  <2>3. w = [k \in 0..n + 1 |-> w[k]]
    OBVIOUS
  <2> HIDE DEF w
  <2>4. Walk(w, n + 1)
    BY <2>2, <2>3
  <2> HIDE DEF Walk
  <2> QED BY <2>4
<1>4. N \in S
  <2> HIDE DEF S
  <2> QED BY <1>2, <1>3, SetInduction
<1> QED BY <1>4

\* The search for public imports stays among the files that are reached.
LEMMA PublicDependenciesWithin ==
  ASSUME NEW pool \in Pool, FilesIndexed(pool), NEW S, HasPublicImports(pool, S),
         NEW f \in Reached(pool, S) \cap DOMAIN pool.files, NEW found \in SUBSET Reached(pool, S)
  PROVE  PublicDependencies(pool, found, f) \in SUBSET Reached(pool, S)
<1> DEFINE N == Len(pool.files) + 1
           T == Reached(pool, S)
           walk == CHOOSE w : w = [k \in 0..N |-> Depth(pool, k, w[k - 1])]
           In(k) == \A acc \in SUBSET T, m \in T \cap DOMAIN pool.files :
               walk[k][m][acc] \in SUBSET T
           K == { k \in Nat : k <= N => In(k) }
<1>1. N \in Nat /\ T \subseteq DOMAIN pool.files \cup {Endless} /\ Endless \in T
  BY PoolTyped DEF Reached
<1>2. PublicDependencies(pool, found, f) = walk[N][f][found]
  BY DEF PublicDependencies, Depth
<1> HIDE DEF N
<1>3. walk = [k \in 0..N |-> Depth(pool, k, walk[k - 1])]
  BY <1>1, WalkExists, Zenon
<1> HIDE DEF walk, T
<1>4. ASSUME NEW k \in 0..N, NEW acc \in SUBSET T, NEW m \in T \cap DOMAIN pool.files
      PROVE  walk[k][m][acc] = IF k = 0 THEN acc \cup {Endless}
                               ELSE Entered(pool, walk[k - 1], acc, m)
  <2>1. walk[k] = Depth(pool, k, walk[k - 1])
    BY <1>3
  <2>2. acc \in SUBSET (DOMAIN pool.files \cup {Endless})
    BY <1>1
  <2> QED BY <2>1, <2>2 DEF Depth
<1>5. In(0)
  <2> SUFFICES ASSUME NEW acc \in SUBSET T, NEW m \in T \cap DOMAIN pool.files
               PROVE  walk[0][m][acc] \in SUBSET T
    OBVIOUS
  <2>1. 0 \in 0..N
    BY <1>1
  <2>2. walk[0][m][acc] = acc \cup {Endless}
    BY <1>4, <2>1
  <2> QED BY <1>1, <2>2
<1>6. ASSUME NEW k \in Nat, k + 1 <= N, In(k) PROVE In(k + 1)
  <2> SUFFICES ASSUME NEW acc \in SUBSET T, NEW m \in T \cap DOMAIN pool.files
               PROVE  walk[k + 1][m][acc] \in SUBSET T
    OBVIOUS
  <2>1. k + 1 \in 0..N /\ k + 1 # 0 /\ (k + 1) - 1 = k
    BY <1>1, <1>6
  <2>2. walk[k + 1][m][acc] = Entered(pool, walk[k], acc, m)
    <3>1. walk[k + 1][m][acc] = IF k + 1 = 0 THEN acc \cup {Endless}
                                ELSE Entered(pool, walk[(k + 1) - 1], acc, m)
      BY <1>4, <2>1
    <3> QED BY <2>1, <3>1
  <2> DEFINE enter == walk[k]
  <2>3. \A a \in SUBSET Reached(pool, S), g \in Reached(pool, S) \cap DOMAIN pool.files :
           enter[g][a] \in SUBSET Reached(pool, S)
    BY <1>6 DEF T
  <2>4. walk[k + 1][m][acc] = Entered(pool, enter, acc, m)
    BY <2>2
  <2> HIDE DEF enter
  <2>5. Entered(pool, enter, acc, m) \in SUBSET Reached(pool, S)
    BY <2>3, EnteredWithin DEF T
  <2> QED BY <2>4, <2>5 DEF T
<1>7. In(N)
  <2> HIDE DEF In
  <2>1. \A k \in Nat : k \in K => k + 1 \in K
    BY <1>1, <1>6
  <2>2. 0 \in K
    BY <1>5
  <2>3. N \in K
    <3> HIDE DEF K
    <3> QED BY <1>1, <2>1, <2>2, SetInduction
  <2> QED BY <1>1, <2>3
<1> QED BY <1>2, <1>7 DEF T

\* What a file sees stays within every set of names that has the file, its imports and
\* what its files import publicly.
LEMMA VisibleWithin ==
  ASSUME NEW pool \in Pool, FilesIndexed(pool), NEW S, HasPublicImports(pool, S),
         NEW f \in Reached(pool, S) \cap DOMAIN pool.files,
         \A i \in DOMAIN pool.files[f].raw.deps : pool.files[f].raw.deps[i] \in S
  PROVE  Visible(pool, f) \in SUBSET Reached(pool, S)
<1> DEFINE T == Reached(pool, S)
           imports == Imports(pool, f)
           L == Len(pool.files[f].raw.deps)
           step(acc, d) == IF d.known THEN PublicDependencies(pool, acc \cup {d.file}, d.file)
                           ELSE acc
           op == [p \in (SUBSET T) \X (1..L) |-> step(p[1], imports[p[2]])]
           iter == CHOOSE d : d = [s \in SUBSET (DOMAIN imports) |->
                     IF s = {} THEN {f} ELSE step(d[s \ {Max(s)}], imports[Max(s)])]
<1>1. L \in Nat /\ DOMAIN imports = 1..L
  BY ImportsAre
<1>2. Visible(pool, f) = iter[DOMAIN imports]
  BY DEF Visible, FoldLeft, MapThenFoldSet
<1>3. ASSUME NEW acc \in SUBSET T, NEW i \in 1..L PROVE step(acc, imports[i]) \in SUBSET T
  <2>1. CASE ~imports[i].known
    BY <2>1
  <2>2. CASE imports[i].known
    <3>1. imports[i].file \in DOMAIN pool.files /\ pool.files[imports[i].file].raw.name \in S
      BY <1>1, <2>2, ImportsAre
    <3>2. imports[i].file \in T \cap DOMAIN pool.files
      BY <3>1 DEF Reached
    <3> HIDE DEF T, imports
    <3>3. acc \cup {imports[i].file} \in SUBSET T
      BY <3>2
    <3>4. PublicDependencies(pool, acc \cup {imports[i].file}, imports[i].file) \in SUBSET T
      BY <3>2, <3>3, PublicDependenciesWithin DEF T
    <3> QED BY <2>2, <3>4
  <2> QED BY <2>1, <2>2
<1> HIDE DEF T, imports, L
<1>4. op \in [(SUBSET T) \X (1..L) -> SUBSET T]
  <2> HIDE DEF step
  <2> QED BY <1>3
<1>5. \A acc \in SUBSET T, i \in 1..L : op[<<acc, i>>] = step(acc, imports[i])
  <2> HIDE DEF step
  <2> QED OBVIOUS
<1>6. {f} \in SUBSET T
  BY DEF T
<1>7. PICK d : IsFold(d, L, SUBSET T, op, {f})
  <2> HIDE DEF op, iter
  <2> QED BY <1>1, <1>4, <1>6, FoldExists
<1> HIDE DEF op
<1>8. ASSUME NEW s \in SUBSET (1..L), s # {}
      PROVE  d[s] = step(d[s \ {Max(s)}], imports[Max(s)])
  <2> HIDE DEF step
  <2>1. Max(s) \in 1..L /\ s \ {Max(s)} \in SUBSET (1..L)
    BY <1>1, <1>8, LastIsIn
  <2>2. d[s \ {Max(s)}] \in SUBSET T
    BY <1>7, <2>1 DEF IsFold
  <2>3. d[s] = op[<<d[s \ {Max(s)}], Max(s)>>]
    BY <1>7, <1>8 DEF IsFold
  <2> QED BY <1>5, <2>1, <2>2, <2>3
<1>9. d = [s \in SUBSET (DOMAIN imports) |->
             IF s = {} THEN {f} ELSE step(d[s \ {Max(s)}], imports[Max(s)])]
  <2> HIDE DEF step
  <2> QED BY <1>1, <1>7, <1>8 DEF IsFold
<1>10. iter = [s \in SUBSET (DOMAIN imports) |->
                IF s = {} THEN {f} ELSE step(iter[s \ {Max(s)}], imports[Max(s)])]
  BY <1>9, Zenon
<1> HIDE DEF iter, step
<1>11. ASSUME NEW s \in SUBSET (1..L)
       PROVE  iter[s] = IF s = {} THEN {f}
                        ELSE IF iter[s \ {Max(s)}] \in SUBSET T
                             THEN op[<<iter[s \ {Max(s)}], Max(s)>>] ELSE iter[s]
  <2>1. CASE s = {}
    BY <1>1, <1>10, <2>1
  <2>2. CASE s # {}
    <3>1. Max(s) \in 1..L
      BY <1>1, <2>2, LastIsIn
    <3>2. iter[s] = step(iter[s \ {Max(s)}], imports[Max(s)])
      BY <1>1, <1>10, <2>2
    <3> QED BY <1>5, <2>2, <3>1, <3>2
  <2> QED BY <2>1, <2>2
<1>12. iter[1..L] \in SUBSET T
  BY <1>1, <1>4, <1>6, <1>11, FoldStays
<1> QED BY <1>1, <1>2, <1>12 DEF T

-----------------------------------------------------------------------------
(* The account of a build.                                                 *)

\* The declarations have rows of the file in a run that ends at row "top" at the latest.
HasRows(pool, k, f, top) ==
  \E b \in 0..top : /\ b + Len(Decls(pool, k, f)) <= top
                    /\ \A i \in DOMAIN Decls(pool, k, f) :
                         /\ pool.tables[k][b + i].decl = Decls(pool, k, f)[i]
                         /\ pool.tables[k][b + i].file = f

\* The row stands for a declaration of the file it names, one of the first "files".
RowDeclared(pool, k, r, files) ==
  /\ pool.tables[k][r].file \in 1..files
  /\ \E i \in DOMAIN Decls(pool, k, pool.tables[k][r].file) :
        Decls(pool, k, pool.tables[k][r].file)[i] = pool.tables[k][r].decl

\* The row of an extension refers to the message whose name the declaration gives, if any.
ExtendeeNamed(pool, e, messages) ==
  LET row == pool.tables["extension"][e]
  IN  row.extendee # 0 => /\ row.extendee <= messages
                          /\ LeadsTo(pool.names[row.decl.extendee], "message", FALSE, row.extendee)

\* Up to the offsets, the rows of the tables and the declarations of the files are the
\* same, except for the services and extensions of files from number "resolved" on, which
\* have no rows.
Described(pool, off, resolved) ==
  /\ \A k \in Kinds : \A f \in 1..off.file :
        (k \in Deferred => f < resolved) => HasRows(pool, k, f, off.table[k])
  /\ \A k \in Kinds : \A r \in 1..off.table[k] : RowDeclared(pool, k, r, off.file)
  /\ \A e \in 1..off.table["extension"] : ExtendeeNamed(pool, e, off.table["message"])

\* The build has reported no error.
Succeeding(j) == j.phase \in {"declare", "resolve", "options", "commit"} /\ ~j.failed

\* The file before which the services and extensions have their rows.
ResolvedTo(pool, j) ==
  CASE j.phase = "declare" -> j.off.file + 1
    [] j.phase = "resolve" -> j.at
    [] OTHER -> Len(pool.files) + 1

\* The rows of before the build stay those of its files, which is what a rollback leaves,
\* and as long as the build succeeds so are those that it adds.
RowsDescribed(pool, j) ==
  IF j.phase = "idle" THEN Described(pool, OffsetsOf(pool), Len(pool.files) + 1)
  ELSE /\ Described(pool, j.off, j.off.file + 1)
       /\ Succeeding(j) => Described(pool, OffsetsOf(pool), ResolvedTo(pool, j))

\* The file was in the pool before the build, or the build has added it.
Taken(pool, off, p) ==
  \/ AlreadyIn(pool, off, p)
  \/ /\ p.knownSyntax
     /\ pool.fileNames[p.name] \in (off.file + 1)..Len(pool.files)
     /\ pool.files[pool.fileNames[p.name]].raw = p

\* The queue is the batch without its first n files.
Follows(queue, b, n) ==
  /\ Len(queue) = Len(b) - n
  /\ \A i \in DOMAIN queue : queue[i] = b[n + i]

\* The build has declared the first n files of the batch: each of them is taken, and what it
\* has added are these files and no others, each once.
TracedTo(pool, j, b, n) ==
  /\ Follows(j.queue, b, n)
  /\ j.phase # "declare" => n = Len(b)
  /\ \A i \in 1..n : Taken(pool, j.off, b[i])
  /\ \A f \in (j.off.file + 1)..Len(pool.files) : \E i \in 1..n : b[i] = pool.files[f].raw
  /\ \A i, k \in 1..n : b[i].name = b[k].name => AlreadyIn(pool, j.off, b[i]) \/ i = k

\* A build that succeeds is the build of some batch.
Traced(pool, j) ==
  Succeeding(j) => \E b \in Batches : \E n \in 0..Len(b) : TracedTo(pool, j, b, n)

\* The files that the pool holds.
Protos(pool) == ProtosUpTo(pool, Len(pool.files))

\* The references of a file resolve by the rules of PoolRegistry.
RefsResolve(pool, f) ==
  LET p == pool.files[f].raw
      sees == Registry!VisibleFrom(Protos(pool), p)
  IN  /\ \A i \in DOMAIN p.deps : Registry!FileOf(Protos(pool), p.deps[i]) # {}
      /\ p.public \cup p.weak \subseteq DOMAIN p.deps
      /\ \A r \in p.refs : \E q \in sees : Registry!Declares(q, r.filter, r.name)
      /\ \A i \in DOMAIN p.decls["extension"] : Registry!ExtensionFits(sees, p.decls["extension"][i])

\* So do its options.
OptionsResolve(pool, f) ==
  LET p == pool.files[f].raw
      sees == Registry!VisibleFrom(Protos(pool), p)
  IN  /\ \A i \in DOMAIN p.options : Registry!IsFileOption(sees, p.options[i])
      /\ IsInjective(p.options)

\* The references and options of the files that the phases have visited resolve.
Resolving(pool, j) ==
  Succeeding(j) =>
    \A f \in (j.off.file + 1)..Len(pool.files) :
       /\ (j.phase = "resolve" /\ f < j.at) \/ j.phase \in {"options", "commit"}
              => RefsResolve(pool, f)
       /\ (j.phase = "options" /\ f < j.at) \/ j.phase = "commit" => OptionsResolve(pool, f)

\* Every file that the search finds may be referred to, by the rule of PoolRegistry.
LEMMA VisibleIsSeen ==
  ASSUME NEW pool \in Pool, FilesIndexed(pool), NEW f \in DOMAIN pool.files,
         NEW g \in DOMAIN pool.files, g \in Visible(pool, f)
  PROVE  pool.files[g].raw \in Registry!VisibleFrom(Protos(pool), pool.files[f].raw)
<1> DEFINE p == pool.files[f].raw
           q == pool.files[g].raw
           direct == {p.name} \cup { p.deps[i] : i \in DOMAIN p.deps }
           closed(S) == \A r \in Protos(pool) :
                           r.name \in S \ {p.name} => Registry!PublicImports(r) \subseteq S
           names == { S \in SUBSET { r.name : r \in Protos(pool) } : direct \subseteq S /\ closed(S) }
<1>1. \A h \in DOMAIN pool.files : pool.files[h].raw \in Protos(pool) /\ h \in Nat \ {0}
  BY PoolTyped DEF Protos, ProtosUpTo
<1>2. ASSUME NEW S \in names PROVE q.name \in S
  <2>1. direct \subseteq S /\ closed(S)
    OBVIOUS
  <2>2. HasPublicImports(pool, S)
    <3> SUFFICES ASSUME NEW h \in DOMAIN pool.files, pool.files[h].raw.name \in S,
                        NEW n \in Registry!PublicImports(pool.files[h].raw)
                 PROVE  n \in S
      BY DEF HasPublicImports
    <3>1. CASE pool.files[h].raw.name = p.name
      <4>1. h = f
        BY <3>1 DEF FilesIndexed
      <4>2. n \in { p.deps[i] : i \in DOMAIN p.deps }
        BY <4>1 DEF Registry!PublicImports
      <4> QED BY <2>1, <4>2
    <3>2. CASE pool.files[h].raw.name # p.name
      BY <1>1, <2>1, <3>2
    <3> QED BY <3>1, <3>2
  <2>3. f \in Reached(pool, S)
    BY <2>1 DEF Reached
  <2>4. \A i \in DOMAIN p.deps : p.deps[i] \in S
    BY <2>1
  <2>5. Visible(pool, f) \in SUBSET Reached(pool, S)
    <3> HIDE DEF names
    <3> QED BY <2>2, <2>3, <2>4, VisibleWithin
  <2> QED BY <1>1, <2>5 DEF Reached, Endless
<1>3. q \in Protos(pool)
  BY <1>1
<1>4. Registry!VisibleFrom(Protos(pool), p) = { r \in Protos(pool) : \A S \in names : r.name \in S }
  BY DEF Registry!VisibleFrom
<1> HIDE DEF names
<1> QED BY <1>2, <1>3, <1>4

\* A definition that is no member's leads to a declaration of its file.
NameDeclared(pool, n) ==
  LET d == pool.names[n]
  IN  /\ d.file \in DOMAIN pool.files
      /\ \E i \in DOMAIN Decls(pool, d.kind, d.file) : Decls(pool, d.kind, d.file)[i].name = n

LEMMA NameLeadsToDeclaration ==
  ASSUME NEW pool \in Pool, NEW from \in Nat \ {0}, NEW slots, Partial(pool, from, slots),
         NEW resolved, Described(pool, OffsetsOf(pool), resolved),
         NEW n \in Names, pool.names[n].kind \in Kinds, ~pool.names[n].member
  PROVE  NameDeclared(pool, n)
<1> DEFINE d == pool.names[n]
<1>1. HasRow(pool, n) \/ HasSlot(pool, from, slots, n)
  BY SMTT(60) DEF Partial, NameMatches, Kinds
<1>2. CASE HasRow(pool, n)
  <2>1. /\ d.index \in DOMAIN pool.tables[d.kind]
        /\ pool.tables[d.kind][d.index].file = d.file
        /\ pool.tables[d.kind][d.index].decl.name = n
    <3>1. /\ d.index \in DOMAIN pool.tables[d.kind]
          /\ pool.tables[d.kind][d.index].file = d.file
          /\ Bears(d, pool.tables[d.kind][d.index].decl, n)
      BY ZenonT(60), <1>2 DEF HasRow
    <3> QED BY ZenonT(60), <3>1 DEF Bears
  <2>2. d.index \in 1..OffsetsOf(pool).table[d.kind] /\ OffsetsOf(pool).file = Len(pool.files)
    BY <2>1, PoolTyped DEF OffsetsOf
  <2>3. RowDeclared(pool, d.kind, d.index, Len(pool.files))
    BY <2>2 DEF Described
  <2>4. d.file \in DOMAIN pool.files
    BY ZenonT(60), <2>1, <2>3, PoolTyped DEF RowDeclared
  <2> QED BY ZenonT(60), <2>1, <2>3, <2>4 DEF RowDeclared, NameDeclared
<1>3. CASE HasSlot(pool, from, slots, n)
  <2>1. d.file \in from..Len(pool.files)
    BY <1>3 DEF HasSlot
  <2>2. PICK i \in DOMAIN Decls(pool, d.kind, d.file) : Decls(pool, d.kind, d.file)[i].name = n
    BY <1>3 DEF HasSlot, Bears
  <2>3. d.file \in DOMAIN pool.files
    BY <2>1, PoolTyped
  <2> QED BY <2>2, <2>3 DEF NameDeclared
<1> QED BY <1>1, <1>2, <1>3

\* What resolve_name finds is declared by a file that may be referred to.
FoundIn(pool, f, n) ==
  /\ NameDeclared(pool, n)
  /\ pool.files[pool.names[n].file].raw
       \in Registry!VisibleFrom(Protos(pool), pool.files[f].raw)

LEMMA FoundIsDeclared ==
  ASSUME NEW pool \in Pool, NEW from \in Nat \ {0}, NEW slots, Partial(pool, from, slots),
         NEW resolved, Described(pool, OffsetsOf(pool), resolved),
         NEW f \in DOMAIN pool.files, NEW n \in Names, NEW filter \in SUBSET Kinds,
         Found(pool, Visible(pool, f), n, filter)
  PROVE  FoundIn(pool, f, n) /\ pool.names[n].kind \in filter /\ ~pool.names[n].member
<1>1. /\ pool.names[n].file \in Visible(pool, f)
      /\ pool.names[n].kind \in filter /\ ~pool.names[n].member
  BY DEF Found
<1>2. NameDeclared(pool, n)
  BY <1>1, NameLeadsToDeclaration
<1>3. FilesIndexed(pool)
  BY DEF Partial, FilesMatch, FilesIndexed
<1> QED BY <1>1, <1>2, <1>3, VisibleIsSeen DEF FoundIn, NameDeclared

\* A file that is resolved without an error refers to what PoolRegistry lets it refer to.
LEMMA ResolvedRefers ==
  ASSUME NEW pool \in Pool, NEW from \in Nat \ {0}, NEW slots, Partial(pool, from, slots),
         NEW resolved, Described(pool, OffsetsOf(pool), resolved),
         NEW f \in DOMAIN pool.files, ~ResolveFails(pool, f)
  PROVE  RefsResolve(pool, f)
<1> DEFINE p == pool.files[f].raw
           visible == Visible(pool, f)
           sees == Registry!VisibleFrom(Protos(pool), p)
           exts == p.decls["extension"]
<1>1. /\ \A i \in DOMAIN p.deps : pool.fileNames[p.deps[i]] # 0
      /\ p.public \cup p.weak \subseteq DOMAIN p.deps
      /\ \A r \in p.refs : Found(pool, visible, r.name, r.filter)
      /\ \A i \in DOMAIN exts : NumberFits(pool, visible, exts[i])
  BY DEF ResolveFails
<1>2. p \in Proto /\ p.deps \in Seq(FileNames)
  BY SMTT(60), PoolTyped DEF Proto
<1>3. \A i \in DOMAIN p.deps : Registry!FileOf(Protos(pool), p.deps[i]) # {}
  <2> SUFFICES ASSUME NEW i \in DOMAIN p.deps
               PROVE  Registry!FileOf(Protos(pool), p.deps[i]) # {}
    OBVIOUS
  <2>1. p.deps[i] \in FileNames
    BY SMTT(60), <1>2
  <2>2. /\ pool.fileNames[p.deps[i]] \in DOMAIN pool.files
        /\ pool.files[pool.fileNames[p.deps[i]]].raw.name = p.deps[i]
    BY ZenonT(60), <1>1, <2>1 DEF Partial, FilesMatch
  <2>3. pool.files[pool.fileNames[p.deps[i]]].raw \in Protos(pool)
    BY <2>2, PoolTyped DEF Protos, ProtosUpTo
  <2> QED BY <2>2, <2>3 DEF Registry!FileOf
<1>4. \A r \in p.refs : \E q \in sees : Registry!Declares(q, r.filter, r.name)
  <2> SUFFICES ASSUME NEW r \in p.refs
               PROVE  \E q \in sees : Registry!Declares(q, r.filter, r.name)
    OBVIOUS
  <2>1. r.name \in Names /\ r.filter \in SUBSET Kinds
    BY <1>2 DEF Proto
  <2> DEFINE n == r.name
             filter == r.filter
             d == pool.names[n]
             q == pool.files[d.file].raw
  <2>2. n \in Names /\ filter \in SUBSET Kinds /\ Found(pool, visible, n, filter)
    BY <1>1, <2>1
  <2> HIDE DEF n, filter
  <2>3. FoundIn(pool, f, n) /\ d.kind \in filter
    BY <2>2, FoundIsDeclared
  <2>4. PICK i \in DOMAIN Decls(pool, d.kind, d.file) : Decls(pool, d.kind, d.file)[i].name = n
    BY SMTT(60), <2>3 DEF FoundIn, NameDeclared
  <2>5. Registry!Declares(q, filter, n)
    BY <2>2, <2>3, <2>4 DEF Registry!Declares, Decls, Registry!Kinds, Kinds
  <2>6. q \in sees
    BY SMTT(60), <2>3 DEF FoundIn
  <2> QED BY <2>5, <2>6 DEF n, filter
<1>5. \A i \in DOMAIN exts : Registry!ExtensionFits(sees, exts[i])
  <2> SUFFICES ASSUME NEW i \in DOMAIN exts
               PROVE  Registry!ExtensionFits(sees, exts[i])
    OBVIOUS
  <2> DEFINE x == exts[i]
             n == x.extendee
             d == pool.names[n]
             q == pool.files[d.file].raw
  <2>1. n \in Names /\ "extension" \in Kinds /\ {"message"} \in SUBSET Kinds
    BY SMTT(60), <1>2, ProtoTyped DEF Kinds
  <2>2. Extendee(pool, visible, x) # 0
        /\ x.number \in pool.tables["message"][Extendee(pool, visible, x)].decl.ranges
    BY ZenonT(60), <1>1 DEF NumberFits
  <2>3. Found(pool, visible, n, {"message"}) /\ Extendee(pool, visible, x) = d.index
    BY <2>2 DEF Extendee
  <2> HIDE DEF n, x
  <2>4. FoundIn(pool, f, n) /\ d.kind = "message" /\ ~d.member
    BY <2>1, <2>3, FoundIsDeclared
  <2>5. HasRow(pool, n)
    BY <2>1, <2>4 DEF Partial, NameMatches, HasSlot, Deferred
  <2>6. /\ d.index \in DOMAIN pool.tables["message"]
        /\ pool.tables["message"][d.index].file = d.file
        /\ pool.tables["message"][d.index].decl.name = n
    BY <2>4, <2>5 DEF HasRow, Bears
  <2>7. RowDeclared(pool, "message", d.index, Len(pool.files))
    <3>1. /\ d.index \in 1..OffsetsOf(pool).table["message"]
          /\ OffsetsOf(pool).file = Len(pool.files) /\ "message" \in Kinds
      BY SMTT(60), <2>6, PoolTyped DEF OffsetsOf, Kinds
    <3> QED BY SMTT(60), <3>1 DEF Described
  <2>8. PICK k \in DOMAIN q.decls["message"] :
               q.decls["message"][k] = pool.tables["message"][d.index].decl
    BY <2>6, <2>7 DEF RowDeclared, Decls
  <2>9. q \in sees
    BY SMTT(60), <2>4 DEF FoundIn
  <2>10. /\ q.decls["message"][k].name = x.extendee
         /\ x.number \in q.decls["message"][k].ranges
    BY ZenonT(60), <2>2, <2>3, <2>6, <2>8 DEF n
  <2>11. Registry!ExtensionFits(sees, x)
    BY ZenonT(60), <2>9, <2>10 DEF Registry!ExtensionFits
  <2> QED BY <2>11 DEF x
<1> QED BY SMTT(60), <1>1, <1>3, <1>4, <1>5 DEF RefsResolve

\* A file whose options are set without an error uses options that PoolRegistry lets it use.
LEMMA InterpretedOptions ==
  ASSUME NEW pool \in Pool, NEW from \in Nat \ {0}, NEW slots, Partial(pool, from, slots),
         \A n \in Names : pool.names[n].kind \in Kinds => HasRow(pool, n),
         NEW resolved, Described(pool, OffsetsOf(pool), resolved),
         NEW f \in DOMAIN pool.files, ~OptionsFail(pool, f)
  PROVE  OptionsResolve(pool, f)
<1> DEFINE p == pool.files[f].raw
           visible == Visible(pool, f)
           sees == Registry!VisibleFrom(Protos(pool), p)
           top == pool.names[FileOptions]
<1>1. /\ \A i \in DOMAIN p.options : OptionFound(pool, visible, p.options[i])
      /\ IsInjective(p.options)
  BY DEF OptionsFail
<1>2. p \in Proto /\ p.options \in Seq(Names)
  BY PoolTyped DEF Proto
<1> SUFFICES ASSUME NEW i \in DOMAIN p.options
             PROVE  Registry!IsFileOption(sees, p.options[i])
  BY <1>1 DEF OptionsResolve
<1> DEFINE n == p.options[i]
           d == pool.names[n]
           q == pool.files[d.file].raw
           row == pool.tables["extension"][d.index]
<1>3. /\ n \in Names /\ {"extension"} \in SUBSET Kinds /\ "message" \in Kinds
      /\ "extension" \in Kinds /\ FileOptions \in Names
  BY SMTT(60), <1>2, NamesAssumption DEF Kinds
<1>4. /\ Found(pool, visible, n, {"extension"})
      /\ top.kind = "message" /\ ~top.member /\ row.extendee = top.index
  BY <1>1 DEF OptionFound
<1>5. FoundIn(pool, f, n) /\ d.kind = "extension" /\ ~d.member
  <2> HIDE DEF n
  <2> QED BY <1>3, <1>4, FoundIsDeclared
<1> HIDE DEF n
<1>6. HasRow(pool, n) /\ HasRow(pool, FileOptions)
  BY SMTT(60), <1>3, <1>4, <1>5
<1>7. /\ d.index \in DOMAIN pool.tables["extension"]
      /\ row.file = d.file /\ row.decl.name = n
  BY ZenonT(60), <1>5, <1>6 DEF HasRow, Bears
<1>8. /\ top.index \in DOMAIN pool.tables["message"]
      /\ pool.tables["message"][top.index].decl.name = FileOptions
  BY <1>4, <1>6 DEF HasRow, Bears
<1>9. /\ d.index \in 1..OffsetsOf(pool).table["extension"]
      /\ OffsetsOf(pool).file = Len(pool.files)
  BY <1>3, <1>7, PoolTyped DEF OffsetsOf
<1>10. /\ RowDeclared(pool, "extension", d.index, Len(pool.files))
       /\ ExtendeeNamed(pool, d.index, OffsetsOf(pool).table["message"])
  BY SMTT(60), <1>3, <1>9 DEF Described
<1>11. PICK k \in DOMAIN q.decls["extension"] : q.decls["extension"][k] = row.decl
  BY ZenonT(60), <1>7, <1>10 DEF RowDeclared, Decls
<1>12. row.decl.extendee = FileOptions
  <2>1. top.index # 0
    BY SMTT(60), <1>3, <1>8, PoolTyped
  <2> DEFINE m == row.decl.extendee
  <2>2. LeadsTo(pool.names[m], "message", FALSE, top.index)
    BY <1>4, <1>10, <2>1 DEF ExtendeeNamed
  <2>3. m \in Names
    BY <1>3, <1>7, PoolTyped DEF Entry, Decl
  <2> HIDE DEF m
  <2>4. pool.names[m].kind \in Kinds
    BY <1>3, <2>2 DEF LeadsTo
  <2>5. pool.tables["message"][top.index].decl.name = m
    BY <2>2, <2>3, <2>4 DEF LeadsTo, HasRow, Bears
  <2> QED BY <1>8, <2>5 DEF m
<1>13. q \in sees
  BY SMTT(60), <1>5 DEF FoundIn
<1>14. Registry!IsFileOption(sees, n)
  BY <1>7, <1>11, <1>12, <1>13 DEF Registry!IsFileOption
<1> QED BY <1>14 DEF n
-----------------------------------------------------------------------------
(* What the steps of a build keep of the rows.                             *)

\* What lies within the offsets is kept, lists and marks apart.
KeepsUpTo(pool, next, off) ==
  /\ \A f \in 1..off.file : next.files[f].raw = pool.files[f].raw
  /\ \A k \in Kinds : \A r \in 1..off.table[k] :
        /\ next.tables[k][r].decl = pool.tables[k][r].decl
        /\ next.tables[k][r].file = pool.tables[k][r].file
  /\ \A e \in 1..off.table["extension"] :
        next.tables["extension"][e].extendee = pool.tables["extension"][e].extendee
  /\ \A n \in Names : pool.names[n].kind = "message" /\ pool.names[n].index <= off.table["message"]
                         => next.names[n] = pool.names[n]

LEMMA DescribedKept ==
  ASSUME NEW pool \in Pool, NEW off \in Offsets, Within(off, pool), NEW next \in Pool,
         KeepsUpTo(pool, next, off), NEW x, Described(pool, off, x)
  PROVE  Described(next, off, x)
<1>1. /\ off.file \in Nat /\ \A k \in Kinds : off.table[k] \in Nat
      /\ "extension" \in Kinds /\ "message" \in Kinds
  BY DEF Offsets, Kinds
<1>2. \A k \in Kinds : \A f \in 1..off.file : Decls(next, k, f) = Decls(pool, k, f)
  BY DEF KeepsUpTo, Decls
<1>3. \A k \in Kinds : \A f \in 1..off.file :
        /\ Len(Decls(pool, k, f)) \in Nat /\ DOMAIN Decls(pool, k, f) = 1..Len(Decls(pool, k, f))
  <2>1. \A f \in 1..off.file : f \in DOMAIN pool.files
    BY <1>1, PoolTyped DEF Within
  <2> QED BY <2>1, PoolTyped, ProtoTyped DEF Decls
<1>4. ASSUME NEW k \in Kinds, NEW f \in 1..off.file, HasRows(pool, k, f, off.table[k])
      PROVE  HasRows(next, k, f, off.table[k])
  <2>1. PICK b \in 0..off.table[k] :
               /\ b + Len(Decls(pool, k, f)) <= off.table[k]
               /\ \A i \in DOMAIN Decls(pool, k, f) :
                    /\ pool.tables[k][b + i].decl = Decls(pool, k, f)[i]
                    /\ pool.tables[k][b + i].file = f
    BY <1>4 DEF HasRows
  <2>2. \A i \in DOMAIN Decls(pool, k, f) : b + i \in 1..off.table[k]
    BY <1>1, <1>3, <2>1
  <2>3. \A i \in DOMAIN Decls(pool, k, f) :
           /\ next.tables[k][b + i].decl = Decls(pool, k, f)[i]
           /\ next.tables[k][b + i].file = f
    BY <2>1, <2>2 DEF KeepsUpTo
  <2> QED BY <1>2, <2>1, <2>3 DEF HasRows
<1>5. ASSUME NEW k \in Kinds, NEW r \in 1..off.table[k], RowDeclared(pool, k, r, off.file)
      PROVE  RowDeclared(next, k, r, off.file)
  BY <1>2, <1>5 DEF RowDeclared, KeepsUpTo
<1>6. ASSUME NEW e \in 1..off.table["extension"], ExtendeeNamed(pool, e, off.table["message"])
      PROVE  ExtendeeNamed(next, e, off.table["message"])
  <2> DEFINE row == pool.tables["extension"][e]
  <2>1. /\ next.tables["extension"][e].extendee = row.extendee
        /\ next.tables["extension"][e].decl = row.decl
    BY <1>1 DEF KeepsUpTo
  <2>2. row.decl.extendee \in Names
    <3>1. e \in DOMAIN pool.tables["extension"]
      BY <1>1, PoolTyped DEF Within
    <3>2. row \in Entry
      BY <1>1, <3>1, PoolTyped
    <3> QED BY <3>2 DEF Entry, Decl
  <2> HIDE DEF row
  <2>3. CASE row.extendee = 0
    BY <2>1, <2>3 DEF ExtendeeNamed
  <2>4. CASE row.extendee # 0
    <3>1. /\ row.extendee <= off.table["message"]
          /\ LeadsTo(pool.names[row.decl.extendee], "message", FALSE, row.extendee)
      BY <1>6, <2>4 DEF ExtendeeNamed, row
    <3>2. next.names[row.decl.extendee] = pool.names[row.decl.extendee]
      BY <2>2, <3>1 DEF LeadsTo, KeepsUpTo
    <3> QED BY <2>1, <3>1, <3>2 DEF ExtendeeNamed
  <2> QED BY <2>3, <2>4
<1> QED BY <1>4, <1>5, <1>6 DEF Described

LEMMA DeclaredKeeps ==
  ASSUME NEW pool \in Pool, NEW off \in Offsets, Within(off, pool), NEW p, NEW base, NEW file,
         NEW next, IsDeclared(next, pool, p, base, file)
  PROVE  KeepsUpTo(pool, next, off)
<1>1. /\ off.file \in Nat /\ off.file <= Len(pool.files)
      /\ \A k \in Kinds : off.table[k] \in Nat /\ off.table[k] <= Len(pool.tables[k])
      /\ "extension" \in Kinds
  BY DEF Offsets, Within, Kinds
<1>2. /\ 1..off.file \subseteq DOMAIN pool.files
      /\ \A k \in Kinds : 1..off.table[k] \subseteq DOMAIN pool.tables[k]
  BY <1>1, PoolTyped
<1>3. \A f \in DOMAIN pool.files : next.files[f] = pool.files[f]
  BY DEF IsDeclared
<1>4. \A k \in Kinds : \A r \in DOMAIN pool.tables[k] : next.tables[k][r] = pool.tables[k][r]
  BY DEF IsDeclared, Kinds, Deferred
<1>5. \A n \in Names : pool.names[n].kind = "message" => next.names[n] = pool.names[n]
  BY WithNamesGives DEF IsDeclared, NoDef
<1> QED BY <1>1, <1>2, <1>3, <1>4, <1>5 DEF KeepsUpTo

LEMMA ResolvedKeeps ==
  ASSUME NEW pool \in Pool, NEW off \in Offsets, Within(off, pool), NEW f, NEW exts, NEW to,
         NEW next, IsResolved(next, pool, f, exts, to)
  PROVE  KeepsUpTo(pool, next, off)
<1>1. \A k \in Kinds : 1..off.table[k] \subseteq DOMAIN pool.tables[k]
  BY PoolTyped DEF Offsets, Within
<1>2. /\ next.files = pool.files /\ next.names = pool.names
      /\ \A k \in Kinds \ {"message"} : \A r \in DOMAIN pool.tables[k] :
            next.tables[k][r] = pool.tables[k][r]
      /\ \A r \in DOMAIN pool.tables["message"] :
            /\ next.tables["message"][r].decl = pool.tables["message"][r].decl
            /\ next.tables["message"][r].file = pool.tables["message"][r].file
  BY DEF IsResolved, AppendsRows, Kinds, Deferred
<1>3. "extension" \in Kinds \ {"message"}
  BY DEF Kinds
<1> QED BY <1>1, <1>2, <1>3 DEF KeepsUpTo

LEMMA CommittedKeeps ==
  ASSUME NEW pool \in Pool, NEW off \in Offsets, NEW top \in Offsets, Within(top, pool)
  PROVE  KeepsUpTo(pool, Committed(pool, off), top)
<1>1. 1..top.file \subseteq DOMAIN pool.files
  BY PoolTyped DEF Offsets, Within
<1> QED BY <1>1, CommittedParts DEF KeepsUpTo

LEMMA RolledBackKeeps ==
  ASSUME NEW pool \in Pool, NEW off \in Offsets, Within(off, pool)
  PROVE  KeepsUpTo(pool, RolledBack(pool, off), off)
<1> DEFINE back == RolledBack(pool, off)
           old == pool.tables["extension"]
           n == off.table["extension"]
<1>1. /\ "extension" \in Kinds /\ old \in Seq(Entry) /\ n \in 0..Len(old)
  BY PoolTyped DEF Offsets, Within, Kinds
<1>2. back.tables["extension"] = SubSeq(old, 1, n)
  BY <1>1 DEF RolledBack
<1>3. \A e \in 1..n : back.tables["extension"][e] = old[e]
  <2> HIDE DEF back, old, n
  <2> QED BY <1>1, <1>2
<1>4. /\ \A f \in 1..off.file : back.files[f] = pool.files[f]
      /\ \A m \in Names : Stays(pool, off, m) => back.names[m] = pool.names[m]
      /\ \A k \in Kinds : \A r \in 1..off.table[k] :
           /\ back.tables[k][r].decl = pool.tables[k][r].decl
           /\ back.tables[k][r].file = pool.tables[k][r].file
  BY RolledBackParts
<1>5. \A m \in Names : pool.names[m].kind = "message" /\ pool.names[m].index <= off.table["message"]
                          => Stays(pool, off, m)
  BY DEF Stays
<1> HIDE DEF back
<1> QED BY <1>3, <1>4, <1>5 DEF KeepsUpTo, back

LEMMA HasRowsLonger ==
  ASSUME NEW pool, NEW k, NEW f, NEW top \in Nat, NEW more \in Nat, top <= more,
         Len(Decls(pool, k, f)) \in Nat, HasRows(pool, k, f, top)
  PROVE  HasRows(pool, k, f, more)
<1>1. PICK b \in 0..top :
             /\ b + Len(Decls(pool, k, f)) <= top
             /\ \A i \in DOMAIN Decls(pool, k, f) :
                  /\ pool.tables[k][b + i].decl = Decls(pool, k, f)[i]
                  /\ pool.tables[k][b + i].file = f
  BY DEF HasRows
<1>2. b \in 0..more /\ b + Len(Decls(pool, k, f)) <= more
  BY <1>1
<1> QED BY <1>1, <1>2 DEF HasRows

LEMMA RowDeclaredLonger ==
  ASSUME NEW pool, NEW k, NEW r, NEW files \in Nat, NEW more \in Nat, files <= more,
         RowDeclared(pool, k, r, files)
  PROVE  RowDeclared(pool, k, r, more)
BY DEF RowDeclared

LEMMA ExtendeeNamedLonger ==
  ASSUME NEW pool \in Pool, NEW e \in DOMAIN pool.tables["extension"], NEW top \in Nat,
         NEW more \in Nat, top <= more, ExtendeeNamed(pool, e, top)
  PROVE  ExtendeeNamed(pool, e, more)
<1>1. pool.tables["extension"][e].extendee \in Nat
  <2>1. pool.tables["extension"][e] \in Entry
    BY PoolTyped DEF Kinds
  <2> QED BY <2>1 DEF Entry
<1> DEFINE x == pool.tables["extension"][e].extendee
           found == LeadsTo(pool.names[pool.tables["extension"][e].decl.extendee],
                            "message", FALSE, pool.tables["extension"][e].extendee)
<1>2. x # 0 => x <= top /\ found
  BY DEF ExtendeeNamed
<1>3. x \in Nat /\ (x <= top => x <= more)
  <2> HIDE DEF x
  <2>1. x \in Nat
    BY <1>1 DEF x
  <2> QED BY <2>1
<1>4. x # 0 => x <= more /\ found
  <2> HIDE DEF x, found
  <2> QED BY <1>2, <1>3
<1> QED BY <1>4 DEF ExtendeeNamed

\* A declared file has its rows, services and extensions apart, and each new row is of that file.
LEMMA DescribedDeclared ==
  ASSUME NEW pool \in Pool, NEW p \in Proto, NEW base, NEW file, NEW next,
         IsDeclared(next, pool, p, base, file), NEW x \in Nat, x <= file,
         Described(pool, OffsetsOf(pool), x)
  PROVE  Described(next, OffsetsOf(next), x)
<1> DEFINE off == OffsetsOf(pool)
           top == OffsetsOf(next)
<1>1. /\ off \in Offsets /\ Within(off, pool) /\ next \in Pool
      /\ off.file = Len(pool.files) /\ top.file = file /\ file = Len(pool.files) + 1
      /\ Len(pool.files) \in Nat
      /\ \A k \in Kinds : off.table[k] = Len(pool.tables[k]) /\ top.table[k] = Len(next.tables[k])
      /\ "extension" \in Kinds /\ "message" \in Kinds
  BY OffsetsTyped, PoolTyped DEF OffsetsOf, IsDeclared, Kinds
<1>2. Described(next, off, x)
  BY <1>1, DeclaredKeeps, DescribedKept
<1>3. /\ \A k \in Deferred : next.tables[k] = pool.tables[k]
      /\ next.files[file].raw = p /\ "extension" \in Deferred
  BY DEF IsDeclared, Deferred
<1>4. \A k \in Kinds : Len(p.decls[k]) \in Nat /\ DOMAIN p.decls[k] = 1..Len(p.decls[k])
  BY ProtoTyped
<1>5. \A k \in Kinds \ Deferred : Len(next.tables[k]) = Len(pool.tables[k]) + Len(p.decls[k])
  BY DEF IsDeclared
<1>11. ASSUME NEW k \in Kinds \ Deferred, NEW i \in DOMAIN p.decls[k]
       PROVE  /\ next.tables[k][Len(pool.tables[k]) + i].decl = p.decls[k][i]
              /\ next.tables[k][Len(pool.tables[k]) + i].file = file
  <2>1. next.tables[k][Len(pool.tables[k]) + i] = Row(p.decls[k][i], file, 0)
    BY DEF IsDeclared
  <2> QED BY <2>1 DEF Row
<1>6. \A k \in Kinds : /\ Len(pool.tables[k]) \in Nat /\ Len(next.tables[k]) \in Nat
                       /\ Len(pool.tables[k]) <= Len(next.tables[k])
  <2> SUFFICES ASSUME NEW k \in Kinds
               PROVE  /\ Len(pool.tables[k]) \in Nat /\ Len(next.tables[k]) \in Nat
                      /\ Len(pool.tables[k]) <= Len(next.tables[k])
    OBVIOUS
  <2>1. Len(pool.tables[k]) \in Nat /\ Len(next.tables[k]) \in Nat
    BY <1>1, PoolTyped
  <2>2. CASE k \in Deferred
    BY <1>3, <2>1, <2>2
  <2>3. CASE k \notin Deferred
    <3> DEFINE a == Len(pool.tables[k])
               c == Len(p.decls[k])
               n == Len(next.tables[k])
    <3>1. a \in Nat /\ c \in Nat /\ n = a + c
      BY <1>4, <1>5, <2>1, <2>3
    <3>2. a <= n
      <4> HIDE DEF a, c, n
      <4> QED BY <3>1
    <3> QED BY <2>1, <3>2
  <2> QED BY <2>1, <2>2, <2>3
<1>12. ASSUME NEW k \in Kinds \ Deferred, NEW r \in Nat, r <= Len(next.tables[k])
       PROVE  /\ Len(pool.tables[k]) \in 0..Len(next.tables[k])
              /\ Len(pool.tables[k]) + Len(p.decls[k]) <= Len(next.tables[k])
              /\ ~(r <= Len(pool.tables[k])) =>
                    \E i \in DOMAIN p.decls[k] : r = Len(pool.tables[k]) + i
  <2> DEFINE a == Len(pool.tables[k])
             c == Len(p.decls[k])
             n == Len(next.tables[k])
  <2>1. a \in Nat /\ c \in Nat /\ n = a + c /\ r <= n
    BY <1>4, <1>5, <1>6, <1>12
  <2>2. DOMAIN p.decls[k] = 1..c
    BY <1>4
  <2> HIDE DEF a, c, n
  <2>3. a \in 0..n /\ a + c <= n
    BY <2>1
  <2>4. ASSUME ~(r <= a) PROVE \E i \in 1..c : r = a + i
    <3>1. r - a \in 1..c /\ r = a + (r - a)
      BY <2>1, <2>4
    <3> QED BY <3>1
  <2> QED BY <2>2, <2>3, <2>4 DEF a, c, n
<1> HIDE DEF off, top
<1>7. ASSUME NEW k \in Kinds, NEW f \in 1..file, k \in Deferred => f < x
      PROVE  HasRows(next, k, f, Len(next.tables[k]))
  <2>1. CASE f = file
    <3>1. k \notin Deferred
      BY <1>1, <1>7, <2>1
    <3>2. Decls(next, k, f) = p.decls[k]
      BY <1>3, <2>1 DEF Decls
    <3>3. /\ Len(pool.tables[k]) \in 0..Len(next.tables[k])
          /\ Len(pool.tables[k]) + Len(p.decls[k]) <= Len(next.tables[k])
      <4>1. 0 \in Nat /\ 0 <= Len(next.tables[k])
        BY <1>6
      <4> QED BY <1>12, <3>1, <4>1
    <3>4. \A i \in DOMAIN p.decls[k] :
             /\ next.tables[k][Len(pool.tables[k]) + i].decl = p.decls[k][i]
             /\ next.tables[k][Len(pool.tables[k]) + i].file = f
      BY <1>11, <2>1, <3>1
    <3> QED BY <3>2, <3>3, <3>4 DEF HasRows
  <2>2. CASE f # file
    <3>1. f \in 1..off.file
      BY <1>1, <2>2
    <3>2. HasRows(next, k, f, Len(pool.tables[k]))
      BY <1>1, <1>2, <1>7, <3>1 DEF Described
    <3>3. Len(Decls(next, k, f)) \in Nat
      <4>1. f \in DOMAIN next.files
        BY <1>1, PoolTyped DEF IsDeclared
      <4> QED BY <1>1, <4>1, PoolTyped, ProtoTyped DEF Decls
    <3> QED BY <1>6, <3>2, <3>3, HasRowsLonger
  <2> QED BY <2>1, <2>2
<1>8. ASSUME NEW k \in Kinds, NEW r \in 1..Len(next.tables[k])
      PROVE  RowDeclared(next, k, r, file)
  <2>1. CASE r <= Len(pool.tables[k])
    <3>1. RowDeclared(next, k, r, off.file)
      BY <1>1, <1>2, <1>6, <2>1 DEF Described
    <3> QED BY <1>1, <3>1, RowDeclaredLonger
  <2>2. CASE ~(r <= Len(pool.tables[k]))
    <3>1. k \notin Deferred
      BY <1>3, <1>6, <2>2
    <3>2. PICK i \in DOMAIN p.decls[k] : r = Len(pool.tables[k]) + i
      <4>1. r \in Nat /\ r <= Len(next.tables[k])
        BY <1>6
      <4> QED BY <1>12, <2>2, <3>1, <4>1
    <3>4. next.tables[k][r].decl = p.decls[k][i] /\ next.tables[k][r].file = file
      BY <1>11, <3>1, <3>2
    <3>5. file \in 1..file
      BY <1>1
    <3>6. Decls(next, k, file) = p.decls[k]
      BY <1>3 DEF Decls
    <3> QED BY <3>2, <3>4, <3>5, <3>6 DEF RowDeclared
  <2> QED BY <2>1, <2>2
<1>9. ASSUME NEW e \in 1..Len(next.tables["extension"])
      PROVE  ExtendeeNamed(next, e, Len(next.tables["message"]))
  <2>1. ExtendeeNamed(next, e, Len(pool.tables["message"]))
    BY <1>1, <1>2, <1>3 DEF Described
  <2>2. e \in DOMAIN next.tables["extension"]
    BY <1>1, PoolTyped
  <2> QED BY <1>1, <1>6, <2>1, <2>2, ExtendeeNamedLonger
<1>10. Described(next, top, x)
  BY <1>1, <1>7, <1>8, <1>9 DEF Described
<1> QED BY <1>10 DEF top

\* A resolved file has the rows of its services and extensions too.
LEMMA DescribedResolved ==
  ASSUME NEW pool \in Pool, NEW f \in DOMAIN pool.files, NEW to, NEW next,
         IsResolved(next, pool, f, Exts(pool, f), to),
         \A i \in DOMAIN Exts(pool, f) : to[i] # 0 =>
            /\ to[i] <= Len(pool.tables["message"])
            /\ LeadsTo(pool.names[Exts(pool, f)[i].extendee], "message", FALSE, to[i]),
         Described(pool, OffsetsOf(pool), f)
  PROVE  Described(next, OffsetsOf(next), f + 1)
<1> DEFINE off == OffsetsOf(pool)
           top == OffsetsOf(next)
           exts == Exts(pool, f)
           rows == Len(pool.tables["extension"])
<1>1. /\ off \in Offsets /\ Within(off, pool) /\ next \in Pool
      /\ next.files = pool.files /\ next.names = pool.names
      /\ off.file = Len(pool.files) /\ top.file = Len(pool.files) /\ Len(pool.files) \in Nat
      /\ \A k \in Kinds : off.table[k] = Len(pool.tables[k]) /\ top.table[k] = Len(next.tables[k])
      /\ "extension" \in Kinds /\ "message" \in Kinds /\ f \in 1..Len(pool.files)
  BY OffsetsTyped, PoolTyped DEF OffsetsOf, IsResolved, Kinds
<1>2. Described(next, off, f)
  BY <1>1, ResolvedKeeps, DescribedKept
<1>3. /\ Len(exts) \in Nat /\ DOMAIN exts = 1..Len(exts) /\ rows \in Nat
  BY <1>1, PoolTyped, ProtoTyped DEF Exts
<1>4. Len(next.tables["extension"]) = rows + Len(exts)
  BY DEF IsResolved
<1>13. ASSUME NEW i \in DOMAIN exts
       PROVE  /\ next.tables["extension"][rows + i].decl = exts[i]
              /\ next.tables["extension"][rows + i].file = f
              /\ next.tables["extension"][rows + i].extendee = to[i]
  <2>1. next.tables["extension"][rows + i] = Row(exts[i], f, to[i])
    BY DEF IsResolved
  <2> QED BY <2>1 DEF Row
<1>5. \A k \in Kinds \ Deferred : Len(next.tables[k]) = Len(pool.tables[k])
  BY DEF IsResolved, Kinds, Deferred
<1>14. ASSUME NEW k \in Deferred
       PROVE  /\ AppendsRows(next, pool, k, f)
              /\ Len(next.tables[k]) = Len(pool.tables[k]) + Len(Decls(pool, k, f))
              /\ Len(Decls(pool, k, f)) \in Nat
              /\ DOMAIN Decls(pool, k, f) = 1..Len(Decls(pool, k, f))
              /\ k \in Kinds
  <2>1. k \in Kinds
    BY DEF Kinds, Deferred
  <2>2. AppendsRows(next, pool, k, f)
    BY DeferredRows
  <2>3. /\ Len(Decls(pool, k, f)) \in Nat
        /\ DOMAIN Decls(pool, k, f) = 1..Len(Decls(pool, k, f))
    BY <1>1, <2>1, PoolTyped, ProtoTyped DEF Decls
  <2> QED BY <2>1, <2>2, <2>3 DEF AppendsRows
<1>6. \A k \in Kinds : /\ Len(pool.tables[k]) \in Nat /\ Len(next.tables[k]) \in Nat
                       /\ Len(pool.tables[k]) <= Len(next.tables[k])
  <2> SUFFICES ASSUME NEW k \in Kinds
               PROVE  /\ Len(pool.tables[k]) \in Nat /\ Len(next.tables[k]) \in Nat
                      /\ Len(pool.tables[k]) <= Len(next.tables[k])
    OBVIOUS
  <2>1. Len(pool.tables[k]) \in Nat /\ Len(next.tables[k]) \in Nat
    BY <1>1, PoolTyped
  <2>2. CASE k \in Deferred
    <3> DEFINE a == Len(pool.tables[k])
               c == Len(Decls(pool, k, f))
               n == Len(next.tables[k])
    <3>1. a \in Nat /\ c \in Nat /\ n = a + c
      BY <1>14, <2>1, <2>2
    <3>2. a <= n
      <4> HIDE DEF a, c, n
      <4> QED BY <3>1
    <3> QED BY <2>1, <3>2
  <2>3. CASE k \notin Deferred
    BY SMTT(60), <1>5, <2>1, <2>3
  <2> QED BY <2>1, <2>2, <2>3
<1>7. \A k \in Kinds : Decls(next, k, f) = Decls(pool, k, f)
  BY <1>1 DEF Decls
<1> HIDE DEF off, top, exts, rows
<1>15. ASSUME NEW k \in Deferred, NEW r \in 1..Len(next.tables[k]), ~(r <= Len(pool.tables[k]))
       PROVE  \E i \in DOMAIN Decls(pool, k, f) :
                 /\ next.tables[k][r].decl = Decls(pool, k, f)[i]
                 /\ next.tables[k][r].file = f
  <2> DEFINE a == Len(pool.tables[k])
             c == Len(Decls(pool, k, f))
             n == Len(next.tables[k])
             i == r - a
  <2>1. a \in Nat /\ c \in Nat /\ n = a + c /\ r \in 1..n /\ ~(r <= a)
    BY <1>6, <1>14, <1>15
  <2>2. i \in 1..c /\ r = a + i
    <3> HIDE DEF a, c, n
    <3> QED BY <2>1
  <2>3. i \in DOMAIN Decls(pool, k, f)
    BY <1>14, <2>2
  <2> HIDE DEF i
  <2> QED BY <1>14, <2>2, <2>3 DEF AppendsRows, a
<1>8. ASSUME NEW k \in Kinds, NEW g \in 1..Len(pool.files), k \in Deferred => g < f + 1
      PROVE  HasRows(next, k, g, Len(next.tables[k]))
  <2>1. CASE k \in Deferred /\ g = f
    <3> DEFINE a == Len(pool.tables[k])
               c == Len(Decls(pool, k, f))
               n == Len(next.tables[k])
    <3>1. a \in 0..n /\ a + c <= n
      <4>1. a \in Nat /\ c \in Nat /\ n = a + c
        BY <1>6, <1>14, <2>1
      <4> HIDE DEF a, c, n
      <4> QED BY <4>1
    <3>2. \A i \in DOMAIN Decls(pool, k, f) :
             /\ next.tables[k][a + i].decl = Decls(pool, k, f)[i]
             /\ next.tables[k][a + i].file = f
      BY <1>14, <2>1 DEF AppendsRows
    <3> QED BY <1>7, <2>1, <3>1, <3>2 DEF HasRows
  <2>2. CASE ~(k \in Deferred /\ g = f)
    <3>1. k \in Deferred => g < f
      BY <1>1, <1>8, <2>2
    <3>2. HasRows(next, k, g, Len(pool.tables[k]))
      BY <1>1, <1>2, <3>1 DEF Described
    <3>3. Len(Decls(next, k, g)) \in Nat
      <4>1. g \in DOMAIN next.files
        BY <1>1, PoolTyped
      <4> QED BY <1>1, <4>1, PoolTyped, ProtoTyped DEF Decls
    <3> QED BY <1>6, <3>2, <3>3, HasRowsLonger
  <2> QED BY <2>1, <2>2
<1>9. ASSUME NEW e \in 1..Len(next.tables["extension"]), ~(e <= rows)
      PROVE  \E i \in DOMAIN exts : /\ next.tables["extension"][e].decl = exts[i]
                                    /\ next.tables["extension"][e].file = f
                                    /\ next.tables["extension"][e].extendee = to[i]
  <2> DEFINE i == e - rows
  <2>1. i \in DOMAIN exts /\ e = rows + i
    BY <1>3, <1>4, <1>9
  <2> HIDE DEF i
  <2> QED BY <1>13, <2>1
<1>10. ASSUME NEW k \in Kinds, NEW r \in 1..Len(next.tables[k])
       PROVE  RowDeclared(next, k, r, Len(pool.files))
  <2>1. CASE r <= Len(pool.tables[k])
    BY <1>1, <1>2, <1>6, <2>1 DEF Described
  <2>2. CASE ~(r <= Len(pool.tables[k]))
    <3>1. k \in Deferred
      BY <1>5, <1>6, <2>2
    <3>2. PICK i \in DOMAIN Decls(pool, k, f) :
               /\ next.tables[k][r].decl = Decls(pool, k, f)[i]
               /\ next.tables[k][r].file = f
      BY <1>15, <2>2, <3>1
    <3> QED BY <1>1, <1>7, <3>2 DEF RowDeclared
  <2> QED BY <2>1, <2>2
<1>11. ASSUME NEW e \in 1..Len(next.tables["extension"])
       PROVE  ExtendeeNamed(next, e, Len(next.tables["message"]))
  <2>1. Len(next.tables["message"]) = Len(pool.tables["message"])
    BY <1>1, <1>5 DEF Deferred
  <2>2. CASE e <= rows
    BY <1>1, <1>2, <1>3, <2>1, <2>2 DEF Described, rows
  <2>3. CASE ~(e <= rows)
    <3>1. PICK i \in DOMAIN exts : /\ next.tables["extension"][e].decl = exts[i]
                                   /\ next.tables["extension"][e].extendee = to[i]
      BY <1>9, <2>3
    <3> QED BY <1>1, <2>1, <3>1 DEF ExtendeeNamed, exts
  <2> QED BY <2>2, <2>3
<1>12. Described(next, top, f + 1)
  BY <1>1, <1>8, <1>10, <1>11 DEF Described
<1> QED BY <1>12 DEF top

\* An occurrence of a name is a name of one declaration of the file.
LEMMA OccursIn ==
  ASSUME NEW p, NEW o \in Registry!Occurrences(p)
  PROVE  \E k \in Kinds : \E i \in DOMAIN p.decls[k] :
            \E n \in p.decls[k][i].members \cup {p.decls[k][i].name} : o = <<p, k, i, n>>
<1> DEFINE of(k, i) == {<<p, k, i, n>> : n \in p.decls[k][i].members \cup {p.decls[k][i].name}}
           inner(k) == UNION { of(k, i) : i \in DOMAIN p.decls[k] }
<1>1. o \in UNION { inner(k) : k \in Kinds }
  BY Zenon DEF Registry!Occurrences, Registry!Kinds, Kinds
<1> HIDE DEF inner
<1>2. PICK k \in Kinds : o \in inner(k)
  BY <1>1
<1>3. PICK i \in DOMAIN p.decls[k] : o \in of(k, i)
  BY <1>2 DEF inner
<1> QED BY <1>3

\* Where a declaration of a file has its row.
RowsFrom(pool, k, f, b) ==
  \A i \in DOMAIN Decls(pool, k, f) :
     /\ b + i \in DOMAIN pool.tables[k]
     /\ pool.tables[k][b + i].decl = Decls(pool, k, f)[i]
     /\ pool.tables[k][b + i].file = f

LEMMA RowsPlaced ==
  ASSUME NEW pool \in Pool, Described(pool, OffsetsOf(pool), Len(pool.files) + 1),
         NEW k \in Kinds, NEW f \in DOMAIN pool.files
  PROVE  \E b \in Nat : RowsFrom(pool, k, f, b)
<1> DEFINE top == Len(pool.tables[k])
           ds == Decls(pool, k, f)
<1>1. /\ f \in 1..Len(pool.files) /\ Len(pool.files) \in Nat /\ f < Len(pool.files) + 1
      /\ OffsetsOf(pool).file = Len(pool.files) /\ OffsetsOf(pool).table[k] = top
  BY PoolTyped DEF OffsetsOf
<1>2. top \in Nat /\ DOMAIN pool.tables[k] = 1..top
  BY PoolTyped
<1>3. Len(ds) \in Nat /\ DOMAIN ds = 1..Len(ds)
  BY PoolTyped, ProtoTyped DEF Decls
<1>4. HasRows(pool, k, f, top)
  BY <1>1 DEF Described
<1>5. PICK b \in 0..top : /\ b + Len(ds) <= top
                          /\ \A i \in DOMAIN ds : /\ pool.tables[k][b + i].decl = ds[i]
                                                  /\ pool.tables[k][b + i].file = f
  BY <1>4 DEF HasRows
<1>6. ASSUME NEW i \in DOMAIN ds PROVE b + i \in DOMAIN pool.tables[k]
  <2> HIDE DEF top, ds
  <2> QED BY <1>2, <1>3, <1>5
<1>7. b \in Nat
  BY <1>2, <1>5
<1> QED BY <1>5, <1>6, <1>7 DEF RowsFrom

\* The occurrence is in declaration i of kind k of file f.
OccursAt(pool, o, k, f, i) ==
  /\ i \in DOMAIN Decls(pool, k, f)
  /\ o[4] \in Decls(pool, k, f)[i].members \cup {Decls(pool, k, f)[i].name}
  /\ o = <<pool.files[f].raw, k, i, o[4]>>

\* The name of the occurrence leads to row r of table k, which is of file f.
Placed(pool, o, k, f, r) ==
  /\ pool.names[o[4]].kind = k /\ pool.names[o[4]].index = r
  /\ pool.tables[k][r].file = f

LEMMA OccurrencePlaced ==
  ASSUME NEW pool \in Pool, NEW from, NEW slots, Partial(pool, from, slots),
         NEW k \in Kinds, NEW f \in DOMAIN pool.files, NEW b \in Nat, RowsFrom(pool, k, f, b),
         NEW i, NEW o, OccursAt(pool, o, k, f, i)
  PROVE  Placed(pool, o, k, f, b + i)
<1> DEFINE d == Decls(pool, k, f)[i]
           n == o[4]
<1>1. /\ b + i \in DOMAIN pool.tables[k]
      /\ pool.tables[k][b + i].decl = d
      /\ pool.tables[k][b + i].file = f
  BY DEF RowsFrom, OccursAt
<1>2. Named(pool.names, k, b + i, d)
  BY <1>1 DEF Partial
<1>3. n \in d.members \cup {d.name}
  BY DEF OccursAt
<1> HIDE DEF d, n
<1>4. pool.names[n].kind = k /\ pool.names[n].index = b + i
  BY <1>2, <1>3 DEF LeadsTo, Named
<1> QED BY <1>1, <1>4 DEF Placed, n

\* No name occurs twice in the files of a pool whose tables match.
LEMMA NamesAreDistinct ==
  ASSUME NEW pool \in Pool, NEW from, NEW slots, Partial(pool, from, slots),
         Described(pool, OffsetsOf(pool), Len(pool.files) + 1)
  PROVE  Registry!NamesDistinct(Protos(pool))
<1> DEFINE all == UNION { Registry!Occurrences(p) : p \in Protos(pool) }
           packages == UNION { p.packages : p \in Protos(pool) }
<1>1. \A p \in Protos(pool) : \E f \in DOMAIN pool.files : p = pool.files[f].raw
  BY SMTT(60), PoolTyped DEF Protos, ProtosUpTo
<1>2. ASSUME NEW o \in all
      PROVE  \E k \in Kinds, f \in DOMAIN pool.files, i \in Nat : OccursAt(pool, o, k, f, i)
  <2>1. PICK p \in Protos(pool) : o \in Registry!Occurrences(p)
    OBVIOUS
  <2>2. PICK f \in DOMAIN pool.files : p = pool.files[f].raw
    BY <1>1
  <2>3. PICK k \in Kinds : \E i \in DOMAIN p.decls[k] :
            \E n \in p.decls[k][i].members \cup {p.decls[k][i].name} : o = <<p, k, i, n>>
    BY <2>1, OccursIn
  <2>4. PICK i \in DOMAIN p.decls[k] :
            \E n \in p.decls[k][i].members \cup {p.decls[k][i].name} : o = <<p, k, i, n>>
    BY <2>3
  <2>5. i \in Nat
    <3>1. p \in Proto
      BY <2>2, PoolTyped
    <3>2. DOMAIN p.decls[k] = 1..Len(p.decls[k]) /\ Len(p.decls[k]) \in Nat
      BY <3>1, ProtoTyped
    <3> HIDE DEF packages
    <3> QED BY <3>2
  <2> QED BY <2>2, <2>4, <2>5 DEF Decls, OccursAt
<1> HIDE DEF all
<1>3. ASSUME NEW o \in all PROVE o[4] \notin packages
  <2>1. PICK k \in Kinds, f \in DOMAIN pool.files, i \in Nat : OccursAt(pool, o, k, f, i)
    BY <1>2
  <2>2. PICK b \in Nat : RowsFrom(pool, k, f, b)
    BY RowsPlaced
  <2>3. pool.names[o[4]].kind = k
    BY <2>1, <2>2, OccurrencePlaced DEF Placed
  <2>4. ASSUME o[4] \in packages PROVE FALSE
    <3>1. PICK g \in DOMAIN pool.files : o[4] \in pool.files[g].raw.packages
      BY <1>1, <2>4
    <3>2. pool.names[o[4]].kind = "package"
      BY <3>1 DEF Partial, FilesMatch
    <3> QED BY <2>3, <3>2 DEF Kinds
  <2> QED BY <2>4
<1>4. ASSUME NEW o \in all, NEW q \in all, q[4] = o[4] PROVE q = o
  <2>1. PICK k \in Kinds, f \in DOMAIN pool.files, i \in Nat : OccursAt(pool, o, k, f, i)
    BY <1>2
  <2>2. PICK l \in Kinds, g \in DOMAIN pool.files, j \in Nat : OccursAt(pool, q, l, g, j)
    BY <1>2
  <2>3. PICK b \in Nat : RowsFrom(pool, k, f, b)
    BY RowsPlaced
  <2>4. PICK c \in Nat : RowsFrom(pool, l, g, c)
    BY RowsPlaced
  <2>5. Placed(pool, o, k, f, b + i)
    BY <2>1, <2>3, OccurrencePlaced
  <2>6. Placed(pool, q, l, g, c + j)
    BY <2>2, <2>4, OccurrencePlaced
  <2>7. l = k /\ g = f
    BY <1>4, <2>5, <2>6 DEF Placed
  <2>8. Placed(pool, q, k, f, b + j)
    BY <2>2, <2>3, <2>7, OccurrencePlaced
  <2>9. b + j = b + i
    BY <1>4, <2>5, <2>8 DEF Placed
  <2>10. j = i
    BY SMTT(60), <2>9
  <2> QED BY <1>4, <2>1, <2>2, <2>7, <2>10 DEF OccursAt
<1>5. ASSUME NEW p \in Protos(pool), NEW k \in Kinds, NEW i \in DOMAIN p.decls[k]
      PROVE  p.decls[k][i].name \notin p.decls[k][i].members
  <2>1. PICK f \in DOMAIN pool.files : p = pool.files[f].raw
    BY <1>1
  <2>2. PICK b \in Nat : RowsFrom(pool, k, f, b)
    BY RowsPlaced
  <2> DEFINE d == p.decls[k][i]
  <2>3. b + i \in DOMAIN pool.tables[k] /\ pool.tables[k][b + i].decl = d
    BY <2>1, <2>2 DEF RowsFrom, Decls
  <2>4. Named(pool.names, k, b + i, d)
    BY <2>3 DEF Partial
  <2> HIDE DEF d
  <2>5. d.name \notin d.members
    BY <2>4 DEF Named, LeadsTo
  <2> QED BY <2>5 DEF d
<1>6. Registry!Kinds = Kinds
  BY SMTT(60) DEF Registry!Kinds, Kinds
<1> QED BY <1>3, <1>4, <1>5, <1>6 DEF Registry!NamesDistinct, all

\* In the phases after all services and extensions have their rows, so have all names.
LEMMA AllHaveRows ==
  ASSUME NEW pool \in Pool, NEW off \in Offsets,
         NEW slots, Slots(pool, off.file + 1, slots), Partial(pool, off.file + 1, slots),
         \A k \in Deferred : Len(pool.tables[k]) = slots[k][Len(pool.files) + 1],
         NEW n \in Names, pool.names[n].kind \in Kinds
  PROVE  HasRow(pool, n)
<1> DEFINE next == Committed(pool, off)
<1>1. /\ next \in Pool /\ next.names = pool.names /\ next.tables = pool.tables
  BY CommittedParts
<1>2. Sound(next)
  BY GrowCommitted
<1> HIDE DEF next
<1>3. HasRow(next, n)
  BY <1>1, <1>2, SoundMeans DEF Kinds
<1> QED BY <1>1, <1>3 DEF HasRow

\* PoolRegistry accepts the batch, and with it has the files of the pool.
Accepted(pool, off, b) ==
  LET old == ProtosUpTo(pool, off.file)
  IN  /\ Registry!WellFormed(old, b)
      /\ old \cup Registry!NewFiles(old, b) = Protos(pool)

LEMMA BatchAccepted ==
  ASSUME NEW pool \in Pool, NEW j \in Job, Within(j.off, pool), j.phase = "commit", ~j.failed,
         NEW slots, Partial(pool, j.off.file + 1, slots),
         Described(pool, OffsetsOf(pool), Len(pool.files) + 1),
         NEW b \in Batches, TracedTo(pool, j, b, Len(b)), Resolving(pool, j)
  PROVE  Accepted(pool, j.off, b)
<1> DEFINE n == j.off.file
           end == Len(pool.files)
           old == ProtosUpTo(pool, n)
           new == Registry!NewPositions(old, b)
           added == Registry!NewFiles(old, b)
           In(p) == AlreadyIn(pool, j.off, p)
<1>1. /\ n \in Nat /\ end \in Nat /\ n <= end /\ DOMAIN pool.files = 1..end
  BY PoolTyped DEF Within, Job, Offsets
<1>2. b \in Seq(Proto) /\ DOMAIN b = 1..Len(b) /\ Len(b) \in Nat
          /\ \A i \in DOMAIN b : b[i] \in Proto
  BY BatchesAssumption
<1>3. \A p : In(p) <=> pool.fileNames[p.name] \in 1..n
  BY DEF AlreadyIn
<1>4. /\ \A f \in 1..end : pool.fileNames[pool.files[f].raw.name] = f
      /\ \A g \in FileNames : pool.fileNames[g] # 0 =>
            /\ pool.fileNames[g] \in 1..end
            /\ pool.files[pool.fileNames[g]].raw.name = g
  BY <1>1 DEF Partial, FilesMatch
<1>5. /\ \A i \in 1..Len(b) : Taken(pool, j.off, b[i])
      /\ \A f \in (n + 1)..end : \E i \in 1..Len(b) : b[i] = pool.files[f].raw
      /\ \A i, k \in 1..Len(b) : b[i].name = b[k].name => In(b[i]) \/ i = k
  BY DEF TracedTo
<1>6. old = { pool.files[f].raw : f \in 1..n } /\ Protos(pool)
          = { pool.files[f].raw : f \in 1..end }
  BY DEF ProtosUpTo, Protos
<1> HIDE DEF old, n, end, In
<1>7. ASSUME NEW p \in Proto
      PROVE  Registry!FileOf(old, p.name) = {} <=> ~In(p)
  <2>1. p.name \in FileNames
    BY ProtoTyped
  <2>2. ASSUME In(p) PROVE Registry!FileOf(old, p.name) # {}
    <3> DEFINE f == pool.fileNames[p.name]
    <3>1. f \in 1..n /\ f # 0
      BY <1>1, <1>3, <2>2
    <3>2. pool.files[f].raw.name = p.name
      BY <1>4, <2>1, <3>1
    <3>3. pool.files[f].raw \in old
      BY <1>6, <3>1
    <3> QED BY <3>2, <3>3 DEF Registry!FileOf
  <2>3. ASSUME NEW q \in Registry!FileOf(old, p.name) PROVE In(p)
    <3>1. PICK f \in 1..n : q = pool.files[f].raw
      BY <1>6 DEF Registry!FileOf
    <3>2. q.name = p.name
      BY DEF Registry!FileOf
    <3>3. f \in 1..end
      BY <1>1
    <3>4. pool.fileNames[p.name] = f
      BY <1>4, <3>1, <3>2, <3>3
    <3> QED BY <1>3, <3>4
  <2> QED BY <2>2, <2>3
<1>8. new = { i \in DOMAIN b : ~In(b[i]) }
  BY <1>2, <1>7 DEF Registry!NewPositions
<1> HIDE DEF new
<1>9. ASSUME NEW i \in new
      PROVE  /\ b[i].knownSyntax
             /\ \E f \in (n + 1)..end : b[i] = pool.files[f].raw
  BY <1>2, <1>5, <1>8, <1>3 DEF Taken, In, n, end
<1>10. ASSUME NEW f \in (n + 1)..end
       PROVE  \E i \in new : b[i] = pool.files[f].raw
  <2>1. PICK i \in 1..Len(b) : b[i] = pool.files[f].raw
    BY <1>5
  <2>2. f \in 1..end /\ f \notin 1..n
    BY <1>1
  <2>3. ~In(b[i])
    BY <1>3, <1>4, <2>1, <2>2
  <2> QED BY <1>2, <1>8, <2>1, <2>3
<1>11. added = { b[i] : i \in new }
  BY DEF Registry!NewFiles, new
<1>12. added = { pool.files[f].raw : f \in (n + 1)..end }
  BY <1>9, <1>10, <1>11
<1> HIDE DEF added
<1>13. old \cup added = Protos(pool)
  <2>1. 1..end = (1..n) \cup ((n + 1)..end)
    BY <1>1
  <2> QED BY <1>6, <1>12, <2>1
<1>14. \A i, k \in new : b[i].name = b[k].name => i = k
  BY <1>2, <1>5, <1>8
<1>15. Registry!NamesDistinct(old \cup added)
  BY <1>13, NamesAreDistinct
<1>16. ASSUME NEW p \in added
       PROVE  Registry!ReferencesResolve(old \cup added, p)
  <2>1. PICK f \in (n + 1)..end : p = pool.files[f].raw
    BY <1>12
  <2>2. RefsResolve(pool, f) /\ OptionsResolve(pool, f)
    BY <2>1 DEF Resolving, Succeeding, n, end
  <2>3. Registry!ReferencesResolve(Protos(pool), p)
    BY <2>1, <2>2
    DEF RefsResolve, OptionsResolve, Registry!ReferencesResolve, Registry!IsInjective, IsInjective
  <2> QED BY <1>13, <2>3
<1>17. Registry!WellFormed(old, b)
  BY <1>9, <1>14, <1>15, <1>16 DEF Registry!WellFormed, new, added
<1> QED BY <1>13, <1>17 DEF Accepted, old, n, added
-----------------------------------------------------------------------------
(* How the steps of a build keep account of its batch.                     *)

\* What a build keeps account of: the rows of the tables, the batch they came from, and the
\* references that were resolved.
Accounted(pool, j) == RowsDescribed(pool, j) /\ Traced(pool, j) /\ Resolving(pool, j)

\* A build that has failed, or panicked, has nothing to keep but the rows of before it.
LEMMA FailedAccounted ==
  ASSUME NEW pool, NEW j, j.phase # "idle", ~Succeeding(j),
         Described(pool, j.off, j.off.file + 1)
  PROVE  Accounted(pool, j)
BY DEF Accounted, RowsDescribed, Traced, Resolving

LEMMA SettledAccounted ==
  ASSUME NEW pool, NEW j, j.phase = "idle",
         Described(pool, OffsetsOf(pool), Len(pool.files) + 1)
  PROVE  Accounted(pool, j)
BY DEF Accounted, RowsDescribed, Traced, Resolving, Succeeding

LEMMA StartAccounted ==
  ASSUME NEW pool \in Pool, Described(pool, OffsetsOf(pool), Len(pool.files) + 1),
         NEW b \in Batches, NEW j, j.phase = "declare", j.queue = b, ~j.failed,
         j.off = OffsetsOf(pool)
  PROVE  Accounted(pool, j)
<1>1. j.off.file = Len(pool.files) /\ Len(pool.files) \in Nat /\ Succeeding(j)
  BY PoolTyped DEF OffsetsOf, Succeeding
<1>2. RowsDescribed(pool, j)
  BY <1>1 DEF RowsDescribed, ResolvedTo
<1>3. Traced(pool, j)
  <2>1. Len(b) \in Nat /\ 0 \in 0..Len(b) /\ DOMAIN b = 1..Len(b)
    BY BatchesAssumption
  <2>2. \A f \in (j.off.file + 1)..Len(pool.files) : FALSE
    BY <1>1
  <2>3. Len(j.queue) = Len(b) - 0 /\ \A i \in DOMAIN j.queue : j.queue[i] = b[0 + i]
    BY <2>1
  <2>4. \A i \in 1..0 : FALSE
    OBVIOUS
  <2>5. TracedTo(pool, j, b, 0)
    BY <2>2, <2>3, <2>4 DEF TracedTo, Follows
  <2> QED BY <2>1, <2>5 DEF Traced
<1>4. Resolving(pool, j)
  BY <1>1 DEF Resolving
<1> QED BY <1>2, <1>3, <1>4 DEF Accounted

\* The head of the queue is the next file of the batch.
HeadIn(queue, b, n) ==
  /\ n + 1 \in 0..Len(b) /\ n + 1 \in DOMAIN b /\ b[n + 1] = Head(queue)
  /\ Follows(Tail(queue), b, n + 1)
  /\ 1..n + 1 = (1..n) \cup {n + 1}

LEMMA NextOfBatch ==
  ASSUME NEW queue \in Seq(Proto), queue # << >>, NEW b \in Seq(Proto), NEW n \in 0..Len(b),
         Follows(queue, b, n)
  PROVE  HeadIn(queue, b, n)
<1> DEFINE q == Tail(queue)
<1>1. /\ Len(queue) \in Nat /\ Len(b) \in Nat /\ Len(queue) # 0 /\ n \in Nat
      /\ DOMAIN queue = 1..Len(queue) /\ DOMAIN b = 1..Len(b) /\ Head(queue) = queue[1]
      /\ Len(queue) = Len(b) - n
  BY DEF Follows
<1>2. q \in Seq(Proto) /\ Len(q) = Len(queue) - 1 /\ DOMAIN q = 1..Len(q)
      /\ \A i \in 1..Len(q) : q[i] = queue[i + 1]
  OBVIOUS
<1> HIDE DEF q
<1>3. ASSUME NEW i \in DOMAIN q PROVE i + 1 \in DOMAIN queue /\ n + (i + 1) = n + 1 + i
  <2> DEFINE all == Len(queue)
             left == Len(q)
  <2>1. all \in Nat /\ left = all - 1 /\ i \in 1..left /\ n \in Nat /\ DOMAIN queue = 1..all
    BY <1>1, <1>2
  <2> HIDE DEF all, left
  <2> QED BY SMTT(60), <2>1
<1>4. \A i \in DOMAIN q : q[i] = b[n + 1 + i]
  BY SMTT(60), <1>2, <1>3 DEF Follows
<1>5. 1 \in DOMAIN queue /\ Len(q) = Len(b) - (n + 1) /\ n + 1 \in 0..Len(b) /\ n + 1 \in DOMAIN b
  <2> DEFINE all == Len(queue)
             left == Len(q)
             end == Len(b)
  <2>1. /\ all \in Nat /\ end \in Nat /\ all # 0 /\ n \in Nat /\ all = end - n /\ left = all - 1
        /\ DOMAIN queue = 1..all /\ DOMAIN b = 1..end
    BY <1>1, <1>2
  <2> HIDE DEF all, left, end
  <2>2. 1 \in DOMAIN queue /\ left = end - (n + 1) /\ n + 1 \in 0..end /\ n + 1 \in DOMAIN b
    BY <2>1
  <2> QED BY <2>2 DEF left, end
<1>6. b[n + 1] = Head(queue)
  BY <1>1, <1>5 DEF Follows
<1>7. 1..n + 1 = (1..n) \cup {n + 1}
  OBVIOUS
<1> QED BY <1>4, <1>5, <1>6, <1>7 DEF q, HeadIn, Follows

LEMMA SkipAccounted ==
  ASSUME NEW pool \in Pool, NEW j \in Job, NEW next \in Job, j.phase = "declare", j.queue # << >>,
         AlreadyIn(pool, j.off, Head(j.queue)), next.phase = "declare", next.off = j.off,
         next.failed = j.failed, next.at = j.at, next.queue = Tail(j.queue), Accounted(pool, j)
  PROVE  Accounted(pool, next)
<1>1. RowsDescribed(pool, next)
  BY DEF Accounted, RowsDescribed, Succeeding, ResolvedTo
<1>2. Resolving(pool, next)
  BY DEF Resolving
<1>3. Traced(pool, next)
  <2> SUFFICES ASSUME ~j.failed
               PROVE  \E b \in Batches : \E n \in 0..Len(b) : TracedTo(pool, next, b, n)
    BY DEF Traced, Succeeding
  <2>0. PICK b \in Batches : \E n \in 0..Len(b) : TracedTo(pool, j, b, n)
    BY DEF Accounted, Traced, Succeeding
  <2>1. PICK n \in 0..Len(b) : TracedTo(pool, j, b, n)
    BY <2>0
  <2>2. b \in Seq(Proto) /\ j.queue \in Seq(Proto)
    BY BatchesAssumption DEF Job
  <2>3. HeadIn(j.queue, b, n)
    BY <2>1, <2>2, NextOfBatch DEF TracedTo
  <2>4. /\ \A i \in 1..n : Taken(pool, j.off, b[i])
        /\ \A f \in (j.off.file + 1)..Len(pool.files) : \E i \in 1..n : b[i] = pool.files[f].raw
        /\ \A i, k \in 1..n : b[i].name = b[k].name => AlreadyIn(pool, j.off, b[i]) \/ i = k
    BY <2>1 DEF TracedTo
  <2>5. AlreadyIn(pool, j.off, b[n + 1])
    BY <2>3 DEF HeadIn
  <2>6. \A i, k \in 1..n + 1 : b[i].name = b[k].name => AlreadyIn(pool, j.off, b[i]) \/ i = k
    <3> SUFFICES ASSUME NEW i \in 1..n + 1, NEW k \in 1..n + 1, b[i].name = b[k].name, i # k
                 PROVE  AlreadyIn(pool, j.off, b[i])
      OBVIOUS
    <3>1. CASE i = n + 1 \/ k = n + 1
      BY <2>5, <3>1 DEF AlreadyIn
    <3>2. CASE i \in 1..n /\ k \in 1..n
      BY <2>4, <3>2
    <3> QED BY <2>3, <3>1, <3>2 DEF HeadIn
  <2>7. TracedTo(pool, next, b, n + 1)
    BY <2>3, <2>4, <2>5, <2>6 DEF TracedTo, Taken, HeadIn
  <2> QED BY <2>3, <2>7 DEF HeadIn
<1> QED BY <1>1, <1>2, <1>3 DEF Accounted

\* A file that is declared is the next of the batch.
LEMMA DeclareTraced ==
  ASSUME NEW pool \in Pool, NEW p \in Proto, NEW base, NEW file, NEW more,
         IsDeclared(more, pool, p, base, file), pool.fileNames[p.name] = 0, p.knownSyntax,
         NEW j \in Job, NEW next \in Job, Within(j.off, pool), j.phase = "declare",
         j.queue # << >>, p = Head(j.queue), next.phase = "declare", next.off = j.off,
         next.queue = Tail(j.queue), NEW b \in Batches, NEW n \in 0..Len(b),
         TracedTo(pool, j, b, n)
  PROVE  n + 1 \in 0..Len(b) /\ TracedTo(more, next, b, n + 1)
<1> DEFINE queue == j.queue
           off == j.off
           end == Len(pool.files)
<1>1. b \in Seq(Proto) /\ queue \in Seq(Proto) /\ off.file \in Nat /\ end \in Nat
          /\ off.file <= end
  BY BatchesAssumption, PoolTyped DEF Job, Offsets, Within
<1>2. /\ \A i \in 1..n : Taken(pool, off, b[i])
      /\ \A f \in (off.file + 1)..end : \E i \in 1..n : b[i] = pool.files[f].raw
      /\ \A i, k \in 1..n : b[i].name = b[k].name => AlreadyIn(pool, off, b[i]) \/ i = k
  BY DEF TracedTo
<1>3. HeadIn(queue, b, n)
  BY <1>1, NextOfBatch DEF TracedTo
<1>4. /\ n + 1 \in 0..Len(b) /\ n + 1 \in DOMAIN b /\ b[n + 1] = p
      /\ Follows(next.queue, b, n + 1)
      /\ 1..n + 1 = (1..n) \cup {n + 1}
  BY <1>3 DEF HeadIn
<1> HIDE DEF queue, off, end
<1>5. /\ file = end + 1 /\ Len(more.files) = file /\ p.name \in FileNames
      /\ \A f \in 1..end : more.files[f] = pool.files[f]
      /\ more.files[file].raw = p
      /\ more.fileNames = [pool.fileNames EXCEPT ![p.name] = file]
      /\ pool.fileNames \in [FileNames -> Nat]
  BY PoolTyped, ProtoTyped DEF IsDeclared, Pool, end
<1>6. ASSUME NEW q, Taken(pool, off, q)
      PROVE  /\ q.name # p.name /\ Taken(more, off, q)
             /\ AlreadyIn(pool, off, q) => AlreadyIn(more, off, q)
  <2>1. CASE AlreadyIn(pool, off, q)
    <3>1. pool.fileNames[q.name] # 0 /\ q.name # p.name
      BY <1>1, <2>1 DEF AlreadyIn
    <3>2. more.fileNames[q.name] = pool.fileNames[q.name]
      BY <1>5, <3>1
    <3> QED BY <2>1, <3>1, <3>2 DEF AlreadyIn, Taken
  <2>2. CASE ~AlreadyIn(pool, off, q)
    <3>1. /\ q.knownSyntax /\ pool.fileNames[q.name] \in (off.file + 1)..end
          /\ pool.files[pool.fileNames[q.name]].raw = q
      BY <1>6, <2>2 DEF Taken, end
    <3>2. pool.fileNames[q.name] # 0 /\ q.name # p.name
      BY <1>1, <3>1
    <3>3. more.fileNames[q.name] = pool.fileNames[q.name]
      BY <1>5, <3>2
    <3>4. more.fileNames[q.name] \in (off.file + 1)..Len(more.files)
              /\ more.fileNames[q.name] \in 1..end
      BY <1>1, <1>5, <3>1, <3>3
    <3>5. more.files[more.fileNames[q.name]].raw = q
      BY <1>5, <3>1, <3>3, <3>4
    <3> QED BY <3>1, <3>2, <3>4, <3>5, <2>2 DEF Taken
  <2> QED BY <2>1, <2>2
<1>7. ASSUME NEW i \in 1..n + 1 PROVE Taken(more, off, b[i])
  <2>1. CASE i \in 1..n
    BY <1>2, <1>6, <2>1
  <2>2. CASE i = n + 1
    <3>1. more.fileNames[p.name] = file
      BY <1>5
    <3>2. file \in (off.file + 1)..Len(more.files)
      BY <1>1, <1>5
    <3> QED BY <1>4, <1>5, <2>2, <3>1, <3>2 DEF Taken
  <2> QED BY <1>4, <2>1, <2>2
<1>8. ASSUME NEW f \in (off.file + 1)..Len(more.files)
      PROVE  \E i \in 1..n + 1 : b[i] = more.files[f].raw
  <2>1. CASE f = file
    BY <1>4, <1>5, <2>1
  <2>2. CASE f # file
    <3>1. f \in (off.file + 1)..end /\ f \in 1..end
      BY <1>1, <1>5, <2>2
    <3>2. PICK i \in 1..n : b[i] = pool.files[f].raw
      BY <1>2, <3>1
    <3>3. i \in 1..n + 1
      BY <1>4
    <3> QED BY <1>5, <3>1, <3>2, <3>3
  <2> QED BY <2>1, <2>2
<1>9. ASSUME NEW i \in 1..n + 1, NEW k \in 1..n + 1, b[i].name = b[k].name, i # k
      PROVE  AlreadyIn(more, off, b[i])
  <2>1. CASE i \in 1..n /\ k \in 1..n
    BY <1>2, <1>6, <1>9, <2>1
  <2>2. CASE i = n + 1 /\ k \in 1..n
    BY <1>2, <1>4, <1>6, <1>9, <2>2
  <2>3. CASE i \in 1..n /\ k = n + 1
    BY <1>2, <1>4, <1>6, <1>9, <2>3
  <2> QED BY <1>4, <1>9, <2>1, <2>2, <2>3
<1>10. TracedTo(more, next, b, n + 1)
  BY <1>4, <1>7, <1>8, <1>9 DEF TracedTo, off
<1> QED BY <1>4, <1>10

LEMMA DeclareAccounted ==
  ASSUME NEW pool \in Pool, NEW base \in [Kinds -> Nat], NEW p \in Proto,
         NEW j \in Job, NEW next \in Job, Within(j.off, pool), Accounted(pool, j),
         j.phase = "declare", j.queue # << >>, p = Head(j.queue), p.knownSyntax,
         next.phase = "declare", next.off = j.off, next.queue = Tail(j.queue),
         next.failed \in BOOLEAN, j.failed \/ DeclareFails(pool, p, base) => next.failed
  PROVE  Accounted(Declared(pool, p, base), next)
<1> DEFINE file == Len(pool.files) + 1
           more == Declared(pool, p, base)
<1>1. IsDeclared(more, pool, p, base, file)
  BY DeclaredParts
<1>2. j.off \in Offsets /\ j.off.file \in Nat /\ j.off.file + 1 \in Nat /\ j.off.file + 1 <= file
      /\ more \in Pool
  BY SMTT(60), <1>1, PoolTyped DEF Job, Offsets, Within, IsDeclared
<1> HIDE DEF file, more
<1>3. Described(more, next.off, next.off.file + 1)
  <2>1. Described(pool, j.off, j.off.file + 1)
    BY DEF Accounted, RowsDescribed
  <2> QED BY <1>1, <1>2, <2>1, DeclaredKeeps, DescribedKept
<1>4. CASE next.failed
  BY <1>3, <1>4, FailedAccounted DEF Succeeding, more
<1>5. CASE ~next.failed
  <2>1. /\ Succeeding(j) /\ Succeeding(next) /\ pool.fileNames[p.name] = 0
    BY <1>5 DEF Succeeding, DeclareFails
  <2>2. Described(pool, OffsetsOf(pool), j.off.file + 1)
    BY <2>1 DEF Accounted, RowsDescribed, ResolvedTo
  <2>3. Described(more, OffsetsOf(more), next.off.file + 1)
    BY <1>1, <1>2, <2>2, DescribedDeclared
  <2>4. RowsDescribed(more, next)
    BY <1>3, <2>3 DEF RowsDescribed, ResolvedTo
  <2>5. PICK b \in Batches : \E n \in 0..Len(b) : TracedTo(pool, j, b, n)
    BY <2>1 DEF Accounted, Traced
  <2>6. PICK n \in 0..Len(b) : TracedTo(pool, j, b, n)
    BY <2>5
  <2>7. n + 1 \in 0..Len(b) /\ TracedTo(more, next, b, n + 1)
    BY <1>1, <2>1, <2>6, DeclareTraced
  <2>8. Traced(more, next)
    BY <2>7 DEF Traced
  <2>9. Resolving(more, next)
    BY DEF Resolving
  <2> QED BY <2>4, <2>8, <2>9 DEF Accounted, more
<1> QED BY <1>4, <1>5

\* After the declarations the files stay, and with them their batch.
LEMMA TracedKept ==
  ASSUME NEW pool, NEW more, more.files = pool.files, more.fileNames = pool.fileNames,
         NEW j, NEW next, next.off = j.off, next.queue = j.queue, next.phase # "declare",
         j.phase # "declare" \/ j.queue = << >>, Succeeding(j), Traced(pool, j)
  PROVE  Traced(more, next)
<1>1. PICK b \in Batches : \E n \in 0..Len(b) : TracedTo(pool, j, b, n)
  BY DEF Traced
<1>2. PICK n \in 0..Len(b) : TracedTo(pool, j, b, n)
  BY <1>1
<1>3. n = Len(b)
  <2>1. CASE j.phase # "declare"
    BY <1>2, <2>1 DEF TracedTo
  <2>2. CASE j.queue = << >>
    <3> DEFINE end == Len(b)
    <3>1. Len(j.queue) = end - n /\ Len(j.queue) = 0 /\ end \in Nat
      BY <1>2, <2>2, BatchesAssumption DEF TracedTo, Follows
    <3> HIDE DEF end
    <3>2. n = end
      BY <3>1
    <3> QED BY <3>2 DEF end
  <2> QED BY <2>1, <2>2
<1>4. TracedTo(more, next, b, n)
  BY <1>2, <1>3 DEF TracedTo, Taken, AlreadyIn
<1> QED BY <1>4 DEF Traced

LEMMA RefsKept ==
  ASSUME NEW pool, NEW more, more.files = pool.files, NEW f, RefsResolve(pool, f)
  PROVE  RefsResolve(more, f)
<1>1. Protos(more) = Protos(pool)
  BY DEF Protos, ProtosUpTo
<1> QED BY <1>1 DEF RefsResolve

\* What the rows of the extensions of a file that is resolved refer to.
LEMMA ExtendeesNamed ==
  ASSUME NEW pool \in Pool, NEW from, NEW slots, Partial(pool, from, slots),
         NEW f \in DOMAIN pool.files, NEW i \in DOMAIN Exts(pool, f), Extendees(pool, f)[i] # 0
  PROVE  /\ Extendees(pool, f)[i] <= Len(pool.tables["message"])
         /\ LeadsTo(pool.names[Exts(pool, f)[i].extendee], "message", FALSE, Extendees(pool, f)[i])
<1> DEFINE x == Exts(pool, f)[i]
           n == x.extendee
           d == pool.names[n]
<1>1. Extendees(pool, f)[i] = Extendee(pool, Visible(pool, f), x)
  BY DEF Extendees
<1>2. Found(pool, Visible(pool, f), n, {"message"}) /\ Extendees(pool, f)[i] = d.index
  BY <1>1 DEF Extendee
<1>3. n \in Names /\ "extension" \in Kinds /\ "message" \in Kinds
  BY PoolTyped, ProtoTyped DEF Exts, Kinds
<1>4. d.kind = "message" /\ ~d.member
  BY <1>2 DEF Found
<1> HIDE DEF n
<1>5. d.member = FALSE
  BY <1>3, <1>4, PoolTyped DEF Definition
<1>6. HasRow(pool, n)
  BY <1>3, <1>4 DEF Partial, NameMatches, HasSlot, Deferred
<1>7. d.index \in DOMAIN pool.tables["message"]
  BY <1>4, <1>6 DEF HasRow
<1>8. d.index <= Len(pool.tables["message"])
  BY <1>3, <1>7, PoolTyped
<1> QED BY <1>2, <1>4, <1>5, <1>8 DEF LeadsTo, n

LEMMA ResolveAccounted ==
  ASSUME NEW pool \in Pool, NEW f \in DOMAIN pool.files, NEW j \in Job, NEW next \in Job,
         Within(j.off, pool), Growing(pool, j), Accounted(pool, j),
         j.phase = "resolve", j.at = f, next.phase = "resolve", next.at = f + 1,
         next.off = j.off, next.queue = j.queue,
         next.failed \in BOOLEAN, j.failed \/ ResolveFails(pool, f) => next.failed
  PROVE  Accounted(Resolved(pool, f), next)
<1> DEFINE more == Resolved(pool, f)
<1>1. IsResolved(more, pool, f, Exts(pool, f), Extendees(pool, f))
  BY ResolvedParts
<1>2. /\ more \in Pool /\ more.files = pool.files /\ more.fileNames = pool.fileNames
      /\ j.off \in Offsets /\ j.off.file + 1 \in Nat \ {0} /\ f \in Nat
             /\ DOMAIN pool.files = 1..Len(pool.files)
  BY SMTT(60), <1>1, PoolTyped DEF Job, Offsets, IsResolved
<1> HIDE DEF more
<1>3. Described(more, next.off, next.off.file + 1)
  <2>1. Described(pool, j.off, j.off.file + 1)
    BY DEF Accounted, RowsDescribed
  <2> QED BY <1>1, <1>2, <2>1, ResolvedKeeps, DescribedKept
<1>4. CASE next.failed
  BY <1>3, <1>4, FailedAccounted DEF Succeeding, more
<1>5. CASE ~next.failed
  <2>1. Succeeding(j) /\ Succeeding(next) /\ ~ResolveFails(pool, f) /\ ~j.failed
    BY <1>5 DEF Succeeding
  <2>2. PICK slots : Partial(pool, j.off.file + 1, slots)
    BY <2>1 DEF Growing
  <2>3. Described(pool, OffsetsOf(pool), f)
    BY <2>1 DEF Accounted, RowsDescribed, ResolvedTo
  <2>4. Described(more, OffsetsOf(more), f + 1)
    BY <1>1, <2>2, <2>3, ExtendeesNamed, DescribedResolved
  <2>5. RowsDescribed(more, next)
    BY <1>3, <2>4 DEF RowsDescribed, ResolvedTo
  <2>6. Traced(more, next)
    BY <1>2, <2>1, TracedKept DEF Accounted
  <2>7. RefsResolve(pool, f)
    BY <1>2, <2>1, <2>2, <2>3, ResolvedRefers
  <2>8. ASSUME NEW g \in (next.off.file + 1)..Len(more.files), g < next.at
        PROVE  RefsResolve(more, g)
    <3>1. g = f \/ g < f
      BY <1>2, <2>8 DEF Job, Offsets
    <3>2. RefsResolve(pool, g)
      BY <1>2, <2>1, <2>7, <3>1 DEF Accounted, Resolving
    <3> QED BY <1>2, <3>2, RefsKept
  <2>9. Resolving(more, next)
    BY <2>8 DEF Resolving
  <2> QED BY <2>5, <2>6, <2>9 DEF Accounted, more
<1> QED BY <1>4, <1>5

LEMMA OptionsAccounted ==
  ASSUME NEW pool \in Pool, NEW f \in DOMAIN pool.files, NEW j \in Job, NEW next \in Job,
         Growing(pool, j), Accounted(pool, j),
         j.phase = "options", j.at = f, next.phase = "options", next.at = f + 1,
         next.off = j.off, next.queue = j.queue,
         next.failed \in BOOLEAN, j.failed \/ OptionsFail(pool, f) => next.failed
  PROVE  Accounted(pool, next)
<1>1. j.off \in Offsets /\ j.off.file + 1 \in Nat \ {0} /\ f \in Nat
  BY PoolTyped DEF Job, Offsets
<1>2. CASE next.failed
  BY <1>2, FailedAccounted DEF Succeeding, Accounted, RowsDescribed
<1>3. CASE ~next.failed
  <2>1. Succeeding(j) /\ Succeeding(next) /\ ~OptionsFail(pool, f) /\ ~j.failed
    BY <1>3 DEF Succeeding
  <2>2. PICK slots :
           /\ Slots(pool, j.off.file + 1, slots)
           /\ \A k \in Deferred : Len(pool.tables[k]) = slots[k][Len(pool.files) + 1]
           /\ Partial(pool, j.off.file + 1, slots)
    BY <2>1 DEF Growing, Filled
  <2>3. \A n \in Names : pool.names[n].kind \in Kinds => HasRow(pool, n)
    BY <1>1, <2>2, AllHaveRows
  <2>4. RowsDescribed(pool, next)
    BY <2>1 DEF Accounted, RowsDescribed, ResolvedTo
  <2>5. Described(pool, OffsetsOf(pool), Len(pool.files) + 1)
    BY <2>1 DEF Accounted, RowsDescribed, ResolvedTo
  <2>6. OptionsResolve(pool, f)
    BY <1>1, <2>1, <2>2, <2>3, <2>5, InterpretedOptions
  <2>7. Traced(pool, next)
    BY <2>1, TracedKept DEF Accounted
  <2>8. ASSUME NEW g \in (next.off.file + 1)..Len(pool.files)
        PROVE  RefsResolve(pool, g) /\ (g < next.at => OptionsResolve(pool, g))
    <3>1. g < next.at => g = f \/ g < f
      BY <1>1 DEF Job, Offsets
    <3> QED BY <2>1, <2>6, <3>1 DEF Accounted, Resolving
  <2>9. Resolving(pool, next)
    BY <2>8 DEF Resolving
  <2> QED BY <2>4, <2>7, <2>9 DEF Accounted
<1> QED BY <1>2, <1>3

\* A phase that ends without an error has visited every new file.
LEMMA EndAccounted ==
  ASSUME NEW pool \in Pool, NEW j \in Job, NEW next \in Job,
         Growing(pool, j), Accounted(pool, j), j.phase \in {"declare", "resolve", "options"},
         IF j.phase = "declare" THEN j.queue = << >> ELSE j.at > Len(pool.files),
         next.phase = IF j.failed THEN "rollback" ELSE NextPhase[j.phase],
         next.at = j.off.file + 1, next.off = j.off, next.queue = j.queue,
         next.failed = j.failed
  PROVE  Accounted(pool, next)
<1> DEFINE end == Len(pool.files) + 1
           from == j.off.file + 1
<1>1. /\ Len(pool.files) \in Nat /\ from \in Nat /\ j.off.file \in Nat /\ j.at \in Nat
             /\ end \in Nat
  BY PoolTyped DEF Job, Offsets
<1>2. CASE j.failed
  BY <1>2, FailedAccounted DEF Succeeding, Accounted, RowsDescribed
<1>3. CASE ~j.failed
  <2>1. Succeeding(j) /\ Succeeding(next)
    BY <1>3 DEF Succeeding, NextPhase
  <2>2. /\ Described(pool, next.off, next.off.file + 1)
        /\ Described(pool, OffsetsOf(pool), ResolvedTo(pool, j))
    BY <2>1 DEF Accounted, RowsDescribed, Succeeding
  <2>3. Traced(pool, next)
    <3>1. next.phase # "declare" /\ (j.phase # "declare" \/ j.queue = << >>)
      BY <1>3 DEF NextPhase
    <3> QED BY <2>1, <3>1, TracedKept DEF Accounted
  <2>4. CASE j.phase = "declare"
    <3>1. next.phase = "resolve"
      BY <1>3, <2>4 DEF NextPhase
    <3>2. RowsDescribed(pool, next)
      BY <2>2, <2>4, <3>1 DEF RowsDescribed, ResolvedTo
    <3>3. \A g \in from..Len(pool.files) : ~(g < from)
      BY <1>1
    <3>4. Resolving(pool, next)
      BY <3>1, <3>3 DEF Resolving
    <3> QED BY <2>3, <3>2, <3>4 DEF Accounted
  <2>5. CASE j.phase = "resolve"
    <3>1. next.phase = "options" /\ j.at > Len(pool.files)
      BY <1>3, <2>5 DEF NextPhase
    <3>2. j.at \in from..end
      BY <1>3, <2>5 DEF Growing, Filled
    <3>3. j.at = end
      BY <1>1, <3>1, <3>2
    <3>4. RowsDescribed(pool, next)
      BY <2>2, <2>5, <3>1, <3>3 DEF RowsDescribed, ResolvedTo
    <3>5. \A g \in from..Len(pool.files) : ~(g < from) /\ g < j.at
      BY <1>1, <3>3
    <3>6. Resolving(pool, next)
      BY <2>1, <2>5, <3>1, <3>5 DEF Accounted, Resolving
    <3> QED BY <2>3, <3>4, <3>6 DEF Accounted
  <2>6. CASE j.phase = "options"
    <3>1. next.phase = "commit" /\ j.at > Len(pool.files)
      BY <1>3, <2>6 DEF NextPhase
    <3>2. RowsDescribed(pool, next)
      BY <2>2, <2>6, <3>1 DEF RowsDescribed, ResolvedTo
    <3>3. \A g \in from..Len(pool.files) : g < j.at
      BY <1>1, <3>1
    <3>4. Resolving(pool, next)
      BY <2>1, <2>6, <3>1, <3>3 DEF Accounted, Resolving
    <3> QED BY <2>3, <3>2, <3>4 DEF Accounted
  <2> QED BY <2>4, <2>5, <2>6
<1> QED BY <1>2, <1>3

\* A build that succeeds, or that is undone, leaves rows that stand for declarations.
LEMMA CommitDescribes ==
  ASSUME NEW pool \in Pool, NEW off \in Offsets,
         Described(pool, OffsetsOf(pool), Len(pool.files) + 1)
  PROVE  LET next == Committed(pool, off)
         IN  /\ Described(next, OffsetsOf(next), Len(next.files) + 1)
             /\ Protos(next) = Protos(pool)
<1> DEFINE next == Committed(pool, off)
           top == OffsetsOf(pool)
<1>1. /\ next \in Pool /\ Len(next.files) = Len(pool.files) /\ next.tables = pool.tables
      /\ \A i \in DOMAIN pool.files : next.files[i].raw = pool.files[i].raw
  BY CommittedParts
<1>2. top \in Offsets /\ Within(top, pool) /\ DOMAIN pool.files = 1..Len(pool.files)
  BY OffsetsTyped, PoolTyped
<1>3. KeepsUpTo(pool, next, top)
  BY <1>2, CommittedKeeps
<1>4. OffsetsOf(next) = top
  BY <1>1 DEF OffsetsOf
<1>5. Protos(next) = Protos(pool)
  BY <1>1, <1>2 DEF Protos, ProtosUpTo
<1> HIDE DEF next
<1>6. Described(next, top, Len(pool.files) + 1)
  <2> HIDE DEF top
  <2> QED BY <1>1, <1>2, <1>3, DescribedKept DEF top
<1> QED BY <1>1, <1>4, <1>5, <1>6 DEF next

LEMMA RollbackDescribes ==
  ASSUME NEW pool \in Pool, NEW off \in Offsets, Within(off, pool),
         Described(pool, off, off.file + 1)
  PROVE  LET back == RolledBack(pool, off)
         IN  /\ Described(back, OffsetsOf(back), Len(back.files) + 1)
             /\ Protos(back) = ProtosUpTo(pool, off.file)
<1> DEFINE back == RolledBack(pool, off)
<1>1. /\ back \in Pool /\ OffsetsOf(back) = off /\ Len(back.files) = off.file
      /\ \A i \in 1..off.file : back.files[i] = pool.files[i]
  BY RolledBackTyped, RolledBackParts
<1>2. KeepsUpTo(pool, back, off)
  BY RolledBackKeeps
<1> HIDE DEF back
<1>3. Described(back, off, off.file + 1)
  BY <1>1, <1>2, DescribedKept
<1>4. Protos(back) = ProtosUpTo(pool, off.file)
  BY <1>1 DEF Protos, ProtosUpTo
<1> QED BY <1>1, <1>3, <1>4 DEF back

LEMMA EmptyDescribes ==
  Described(EmptyPool, OffsetsOf(EmptyPool), Len(EmptyPool.files) + 1) /\ Protos(EmptyPool) = {}
<1>1. /\ EmptyPool.files = << >> /\ EmptyPool.tables = [k \in Kinds |-> << >>]
  BY DEF EmptyPool
<1>2. OffsetsOf(EmptyPool).file = 0 /\ \A k \in Kinds : OffsetsOf(EmptyPool).table[k] = 0
  BY <1>1 DEF OffsetsOf
<1>3. \A i \in 1..0 : FALSE
  OBVIOUS
<1>4. "extension" \in Kinds
  BY DEF Kinds
<1>5. Protos(EmptyPool) = {}
  BY <1>1, <1>3 DEF Protos, ProtosUpTo
<1>6. Described(EmptyPool, OffsetsOf(EmptyPool), Len(EmptyPool.files) + 1)
  BY <1>2, <1>3, <1>4 DEF Described
<1> QED BY <1>5, <1>6

\* ... for every handle.
AllAccounted == \A h \in Handles : Live(h) => Accounted(Contents(h), job[h])

\* The inductive invariant of the refinement.
RegistryInv == ContentsInv /\ AllAccounted

-----------------------------------------------------------------------------
(* What the registry sees of a step.                                       *)

\* The files a handle holds: those of before the build, while one runs.
Seen(pool, j) == ProtosUpTo(pool, IF j.phase = "idle" THEN Len(pool.files) ELSE j.off.file)

LEMMA HeldAre ==
  /\ \A g \in Handles : Held[g] = IF arc[g] = NoArc THEN Registry!NoPool
                                  ELSE Registry!Holding(Seen(heap[arc[g]], job[g]))
  /\ \A g \in Handles : Held'[g] = IF arc'[g] = NoArc THEN Registry!NoPool
                                   ELSE Registry!Holding(Seen(heap'[arc'[g]], job'[g]))
  /\ Held' = [g \in Handles |-> Held'[g]] /\ Held = [g \in Handles |-> Held[g]]
BY DEF Held, Live, Contents, Seen, Registry!NoPool, Registry!Holding

\* A step of handle h is not noticed by the other handles.
Untouched(h) ==
  \A g \in Handles \ {h} : /\ arc'[g] = NoArc <=> arc[g] = NoArc
                           /\ arc'[g] # NoArc => Same(g, g)

LEMMA SameSeen ==
  ASSUME NEW f \in Handles, NEW g \in Handles, Same(f, g)
  PROVE  Seen(heap'[arc'[g]], job'[g]) = Seen(heap[arc[f]], job[f])
BY DEF Same, Seen

LEMMA SameAccounted ==
  ASSUME AllAccounted, NEW f \in Handles, NEW g \in Handles, Same(f, g)
  PROVE  Accounted(heap'[arc'[g]], job'[g])
<1>1. Accounted(heap[arc[f]], job[f])
  BY DEF AllAccounted, Same, Contents
<1>2. CASE job'[g] = job[f]
  BY <1>1, <1>2 DEF Same
<1>3. CASE job'[g].phase = "idle" /\ job[f].phase = "idle"
  <2>1. Described(heap[arc[f]], OffsetsOf(heap[arc[f]]), Len(heap[arc[f]].files) + 1)
    BY <1>1, <1>3 DEF Accounted, RowsDescribed
  <2> QED BY <1>3, <2>1, SettledAccounted DEF Same
<1> QED BY <1>2, <1>3 DEF Same

LEMMA HeldChanges ==
  ASSUME NEW h \in Handles, Untouched(h)
  PROVE  Held' = [Held EXCEPT ![h] = Held'[h]]
<1>1. ASSUME NEW g \in Handles \ {h} PROVE Held'[g] = Held[g]
  <2>1. CASE arc'[g] = NoArc
    BY <2>1, HeldAre DEF Untouched
  <2>2. CASE arc'[g] # NoArc
    BY <2>2, HeldAre, SameSeen DEF Untouched
  <2> QED BY <2>1, <2>2
<1> DEFINE old == Held
           new == Held'
<1>2. new = [g \in Handles |-> new[g]] /\ old = [g \in Handles |-> old[g]]
  BY HeldAre
<1>3. \A g \in Handles \ {h} : new[g] = old[g]
  BY <1>1
<1> HIDE DEF old, new
<1>4. new = [old EXCEPT ![h] = new[h]]
  BY <1>2, <1>3
<1> QED BY <1>4 DEF old, new

LEMMA HeldStays ==
  ASSUME NEW h \in Handles, Untouched(h), Held'[h] = Held[h]
  PROVE  Held' = Held
<1> DEFINE old == Held
           new == Held'
<1>1. /\ new = [old EXCEPT ![h] = new[h]] /\ new[h] = old[h]
      /\ old = [g \in Handles |-> old[g]]
  BY HeldChanges, HeldAre
<1> HIDE DEF old, new
<1>2. new = old
  BY <1>1
<1> QED BY <1>2 DEF old, new

\* A step of handle h that the registry allows, and that keeps account of the batches.
Allowed(h) ==
  /\ Untouched(h)
  /\ arc'[h] # NoArc => Accounted(heap'[arc'[h]], job'[h])
  /\ Registry!Next \/ UNCHANGED Held

LEMMA AllowedKeeps ==
  ASSUME RegistryInv, ContentsInv', NEW h \in Handles, Allowed(h)
  PROVE  RegistryInv' /\ (Registry!Next \/ UNCHANGED Held)
<1>1. ASSUME NEW g \in Handles, arc'[g] # NoArc
      PROVE  Accounted(heap'[arc'[g]], job'[g])
  <2>1. CASE g = h
    BY <1>1, <2>1 DEF Allowed
  <2>2. CASE g # h
    BY <1>1, <2>2, SameAccounted DEF Allowed, Untouched, RegistryInv
  <2> QED BY <2>1, <2>2
<1> QED BY <1>1 DEF RegistryInv, AllAccounted, Live, Contents, Allowed

\* A step of a build, which its handle takes alone.
LEMMA BuildUntouched ==
  ASSUME ContentsInv, NEW h \in Handles, job[h].phase # "idle", NEW pool \in Pool, NEW j,
         arc' = arc, heap' = [heap EXCEPT ![arc[h]] = pool], job' = [job EXCEPT ![h] = j],
         rolledBack \subseteq rolledBack'
  PROVE  /\ Untouched(h) /\ arc[h] # NoArc /\ arc'[h] # NoArc
         /\ heap'[arc'[h]] = pool /\ job'[h] = j
<1>1. /\ arc[h] \in Arcs /\ arc[h] # NoArc
      /\ \A g \in Handles : arc[g] = arc[h] => g = h
  BY AloneMeans DEF ContentsInv, IInv, Typed
<1>2. heap'[arc'[h]] = pool /\ job'[h] = j
  BY <1>1 DEF ContentsInv, IInv, Typed
<1>3. ASSUME NEW g \in Handles \ {h}, arc'[g] # NoArc
      PROVE  Same(g, g)
  BY <1>1, <1>3 DEF Same, Live, ContentsInv, IInv, Typed
<1> QED BY <1>1, <1>2, <1>3 DEF Untouched

LEMMA BuildAllowed ==
  ASSUME ContentsInv, NEW h \in Handles, job[h].phase # "idle", NEW pool \in Pool, NEW j,
         arc' = arc, heap' = [heap EXCEPT ![arc[h]] = pool], job' = [job EXCEPT ![h] = j],
         rolledBack \subseteq rolledBack', Accounted(pool, j),
         Seen(pool, j) = ProtosUpTo(Contents(h), job[h].off.file)
  PROVE  Allowed(h)
<1>1. /\ Untouched(h) /\ arc[h] # NoArc /\ arc'[h] # NoArc
      /\ heap'[arc'[h]] = pool /\ job'[h] = j
  BY BuildUntouched
<1>2. Seen(pool, j) = Seen(heap[arc[h]], job[h])
  BY DEF Seen, Contents
<1>3. Held'[h] = Held[h]
  BY <1>1, <1>2, HeldAre
<1>4. Held' = Held
  BY <1>1, <1>3, HeldStays
<1> QED BY <1>1, <1>4 DEF Allowed

\* What is known of a build whose handle takes a step.
LEMMA BuildAccounted ==
  ASSUME RegistryInv, NEW h \in Handles, job[h].phase # "idle"
  PROVE  /\ Accounted(Contents(h), job[h])
         /\ Described(Contents(h), job[h].off, job[h].off.file + 1)
<1>1. Live(h)
  BY AloneMeans DEF RegistryInv, ContentsInv, IInv, Live
<1> QED BY <1>1 DEF RegistryInv, AllAccounted, Accounted, RowsDescribed

\* A step that leaves the contents alone.
LEMMA QuietAllowed ==
  ASSUME RegistryInv, NEW h \in Handles, job[h].phase # "idle", NEW j,
         UNCHANGED <<arc, heap, rolledBack>>, job' = [job EXCEPT ![h] = j],
         j.phase # "idle", j.off = job[h].off, Accounted(Contents(h), j)
  PROVE  Allowed(h)
<1>1. ContentsInv
  BY DEF RegistryInv
<1>2. /\ arc[h] \in Arcs /\ Contents(h) \in Pool
  BY <1>1, BuildMeans
<1>3. heap' = [heap EXCEPT ![arc[h]] = Contents(h)]
  BY <1>1, <1>2 DEF ContentsInv, IInv, Typed, Contents
<1>4. Seen(Contents(h), j) = ProtosUpTo(Contents(h), job[h].off.file)
  BY DEF Seen
<1> QED BY <1>1, <1>2, <1>3, <1>4, BuildAllowed

LEMMA SkipFileAllowed ==
  ASSUME RegistryInv, NEW h \in Handles, SkipFile(h)
  PROVE  Allowed(h)
<1> DEFINE q == Tail(job[h].queue)
           j == [job[h] EXCEPT !.queue = q]
<1>1. /\ job[h].phase = "declare" /\ job[h].queue # << >> /\ ContentsInv
      /\ AlreadyIn(Contents(h), job[h].off, Head(job[h].queue))
      /\ UNCHANGED <<arc, heap, rolledBack>> /\ job' = [job EXCEPT ![h] = j]
  BY DEF SkipFile, RegistryInv
<1>2. job[h] \in Job /\ Contents(h) \in Pool
  BY <1>1, BuildMeans
<1>3. q \in Seq(Proto) /\ j = [job[h] EXCEPT !.queue = q]
  BY <1>1, <1>2 DEF Job
<1>4. q = Tail(job[h].queue)
  OBVIOUS
<1> HIDE DEF q, j
<1>5. /\ j \in Job /\ j.phase = job[h].phase /\ j.off = job[h].off /\ j.failed = job[h].failed
      /\ j.at = job[h].at /\ j.queue = q
  BY <1>2, <1>3 DEF Job
<1>6. Accounted(Contents(h), j)
  BY <1>1, <1>2, <1>4, <1>5, BuildAccounted, SkipAccounted
<1> QED BY <1>1, <1>5, <1>6, QuietAllowed

LEMMA UnknownSyntaxAllowed ==
  ASSUME RegistryInv, NEW h \in Handles, UnknownSyntax(h)
  PROVE  Allowed(h)
<1> DEFINE j == [job[h] EXCEPT !.phase = "panicked"]
<1>1. /\ job[h].phase = "declare" /\ ContentsInv
      /\ UNCHANGED <<arc, heap, rolledBack>> /\ job' = [job EXCEPT ![h] = j]
  BY DEF UnknownSyntax, RegistryInv
<1>2. job[h] \in Job
  BY <1>1, BuildMeans
<1>3. j.phase = "panicked" /\ j.off = job[h].off
  BY <1>2 DEF Job
<1> HIDE DEF j
<1>4. Accounted(Contents(h), j)
  BY <1>1, <1>3, BuildAccounted, FailedAccounted DEF Succeeding
<1> QED BY <1>1, <1>3, <1>4, QuietAllowed

LEMMA OptionsFileAllowed ==
  ASSUME RegistryInv, NEW h \in Handles, OptionsFile(h)
  PROVE  Allowed(h)
<1> DEFINE f == job[h].at
           n == f + 1
           b == job[h].failed \/ OptionsFail(Contents(h), f)
           j == [job[h] EXCEPT !.at = n, !.failed = b]
<1>1. /\ job[h].phase = "options" /\ f <= Len(Contents(h).files) /\ f # 0 /\ ContentsInv
      /\ UNCHANGED <<arc, heap, rolledBack>> /\ job' = [job EXCEPT ![h] = j]
  BY DEF OptionsFile, OptionsVisited, MoreFiles, RegistryInv, ContentsInv, IInv, VisitsFiles
<1>2. /\ job[h] \in Job /\ Contents(h) \in Pool /\ f \in Nat /\ Growing(Contents(h), job[h])
  BY <1>1, BuildMeans
<1>3. f \in DOMAIN Contents(h).files
  BY <1>1, <1>2, PoolTyped
<1>4. n \in Nat /\ n = f + 1 /\ b \in BOOLEAN /\ (job[h].failed \/ OptionsFail(Contents(h), f) => b)
  BY <1>2
<1>5. j = [job[h] EXCEPT !.at = n, !.failed = b]
  OBVIOUS
<1> HIDE DEF n, b, j
<1>6. /\ j \in Job /\ j.phase = "options" /\ j.off = job[h].off /\ j.failed = b
      /\ j.at = n /\ j.queue = job[h].queue
  BY <1>1, <1>2, <1>4, <1>5 DEF Job
<1>7. Accounted(Contents(h), j)
  <2> DEFINE pool == Contents(h)
             old == job[h]
  <2>1. /\ pool \in Pool /\ f \in DOMAIN pool.files /\ old \in Job /\ j \in Job
        /\ Growing(pool, old) /\ Accounted(pool, old) /\ old.phase = "options" /\ old.at = f
        /\ j.phase = "options" /\ j.at = f + 1 /\ j.off = old.off /\ j.queue = old.queue
        /\ j.failed \in BOOLEAN /\ (old.failed \/ OptionsFail(pool, f) => j.failed)
    BY <1>1, <1>2, <1>3, <1>4, <1>6, BuildAccounted
  <2> HIDE DEF pool, old, f
  <2>2. Accounted(pool, j)
    BY <2>1, OptionsAccounted
  <2> QED BY <2>2 DEF pool
<1> QED BY <1>1, <1>6, <1>7, QuietAllowed

LEMMA EndPhaseAllowed ==
  ASSUME RegistryInv, NEW h \in Handles, EndPhase(h)
  PROVE  Allowed(h)
<1> DEFINE phase == IF job[h].failed THEN "rollback" ELSE NextPhase[job[h].phase]
           from == job[h].off.file + 1
           j == [job[h] EXCEPT !.phase = IF job[h].failed THEN "rollback" ELSE NextPhase[@],
                               !.at = from]
<1>1. /\ job[h].phase \in {"declare", "resolve", "options"} /\ ~MoreFiles(h) /\ ContentsInv
      /\ UNCHANGED <<arc, heap, rolledBack>> /\ job' = [job EXCEPT ![h] = j]
  BY DEF EndPhase, RegistryInv, NextPhase
<1>2. /\ job[h] \in Job /\ Contents(h) \in Pool /\ job[h].at \in Nat /\ from \in Nat
      /\ Growing(Contents(h), job[h])
  BY <1>1, BuildMeans
<1>3. IF job[h].phase = "declare" THEN job[h].queue = << >>
      ELSE job[h].at > Len(Contents(h).files)
  BY <1>1, <1>2, PoolTyped DEF MoreFiles
<1>4. phase \in Phases /\ phase # "idle"
  BY <1>1 DEF Phases, NextPhase
<1>5. /\ j = [job[h] EXCEPT !.phase = phase, !.at = from] /\ from = job[h].off.file + 1
      /\ phase = IF job[h].failed THEN "rollback" ELSE NextPhase[job[h].phase]
  OBVIOUS
<1> HIDE DEF phase, from, j
<1>6. /\ j \in Job /\ j.phase = phase /\ j.off = job[h].off /\ j.failed = job[h].failed
      /\ j.at = from /\ j.queue = job[h].queue
  BY <1>2, <1>4, <1>5 DEF Job
<1>7. Accounted(Contents(h), j)
  <2> DEFINE pool == Contents(h)
             old == job[h]
  <2>1. /\ pool \in Pool /\ old \in Job /\ j \in Job
        /\ Growing(pool, old) /\ Accounted(pool, old)
        /\ old.phase \in {"declare", "resolve", "options"}
        /\ IF old.phase = "declare" THEN old.queue = << >> ELSE old.at > Len(pool.files)
        /\ j.phase = IF old.failed THEN "rollback" ELSE NextPhase[old.phase]
        /\ j.at = old.off.file + 1 /\ j.off = old.off /\ j.queue = old.queue
        /\ j.failed = old.failed
    BY <1>1, <1>2, <1>3, <1>5, <1>6, BuildAccounted
  <2> HIDE DEF pool, old
  <2>2. Accounted(pool, j)
    BY <2>1, EndAccounted
  <2> QED BY <2>2 DEF pool
<1> QED BY <1>1, <1>4, <1>6, <1>7, QuietAllowed

LEMMA DeclareFileAllowed ==
  ASSUME RegistryInv, NEW h \in Handles, DeclareFile(h)
  PROVE  Allowed(h)
<1> DEFINE p == Head(job[h].queue)
           old == Contents(h)
           pool == Declared(old, p, Base(h))
           q == Tail(job[h].queue)
           n == [k \in Deferred |-> job[h].ahead[k] + Len(p.decls[k])]
           b == job[h].failed \/ DeclareFails(old, p, Base(h))
           j == [job[h] EXCEPT !.queue = q, !.ahead = n, !.failed = b]
<1>1. /\ job[h].phase = "declare" /\ job[h].queue # << >> /\ ContentsInv /\ p.knownSyntax
      /\ arc' = arc /\ rolledBack' = rolledBack
      /\ heap' = [heap EXCEPT ![arc[h]] = Declared(@, p, Base(h))]
      /\ job' = [job EXCEPT ![h] = j]
  BY DEF DeclareFile, RegistryInv
<1>2. /\ job[h] \in Job /\ arc[h] \in Arcs /\ job[h].off.file \in Nat
      /\ old \in Pool /\ Within(job[h].off, old)
  BY <1>1, BuildMeans
<1>3. heap' = [heap EXCEPT ![arc[h]] = pool]
  BY <1>1, <1>2 DEF Contents, ContentsInv, IInv, Typed
<1>4. p \in Proto /\ q \in Seq(Proto) /\ p = Head(job[h].queue) /\ q = Tail(job[h].queue)
  BY <1>1, <1>2 DEF Job
<1>5. Base(h) \in [Kinds -> Nat]
  <2>1. \A k \in Kinds : Len(old.tables[k]) \in Nat
    BY <1>2, PoolTyped
  <2>2. \A k \in Deferred : job[h].ahead[k] \in Nat
    BY <1>2 DEF Job
  <2> QED BY <2>1, <2>2 DEF Base
<1>6. n \in [Deferred -> Nat]
  <2>1. \A k \in Deferred : Len(p.decls[k]) \in Nat
    BY <1>4, ProtoTyped DEF Kinds, Deferred
  <2>2. \A k \in Deferred : job[h].ahead[k] \in Nat
    BY <1>2 DEF Job
  <2> HIDE DEF p
  <2> QED BY <2>1, <2>2
<1>7. b \in BOOLEAN /\ (job[h].failed \/ DeclareFails(old, p, Base(h)) => b)
  BY <1>2 DEF Job
<1>8. j = [job[h] EXCEPT !.queue = q, !.ahead = n, !.failed = b]
  OBVIOUS
<1>9. IsDeclared(pool, old, p, Base(h), Len(old.files) + 1)
  BY <1>2, <1>4, <1>5, DeclaredParts
<1>10. pool = Declared(old, p, Base(h))
  OBVIOUS
<1> HIDE DEF p, q, n, b, j, pool, old
<1>11. /\ j \in Job /\ j.off = job[h].off /\ j.phase = "declare" /\ j.failed = b
       /\ j.queue = q
  BY <1>1, <1>2, <1>4, <1>6, <1>7, <1>8 DEF Job
<1>12. Accounted(old, job[h])
  BY <1>1, BuildAccounted DEF old
<1>13. Accounted(pool, j)
  <2> DEFINE i == job[h]
             base == Base(h)
  <2>1. /\ old \in Pool /\ base \in [Kinds -> Nat] /\ p \in Proto /\ i \in Job /\ j \in Job
        /\ Within(i.off, old) /\ Accounted(old, i) /\ i.phase = "declare" /\ i.queue # << >>
        /\ p = Head(i.queue) /\ p.knownSyntax /\ j.phase = "declare" /\ j.off = i.off
        /\ j.queue = Tail(i.queue) /\ j.failed \in BOOLEAN
        /\ (i.failed \/ DeclareFails(old, p, base) => j.failed)
        /\ pool = Declared(old, p, base)
    BY <1>1, <1>2, <1>4, <1>5, <1>7, <1>10, <1>11, <1>12
  <2> HIDE DEF i, base
  <2> QED BY <2>1, DeclareAccounted
<1>14. pool \in Pool /\ Seen(pool, j) = ProtosUpTo(old, job[h].off.file)
  <2>1. \A i \in 1..job[h].off.file : pool.files[i] = old.files[i]
    BY <1>2, <1>9, PoolTyped DEF IsDeclared, Within
  <2> QED BY <1>9, <1>11, <2>1 DEF IsDeclared, Seen, ProtosUpTo
<1> QED BY <1>1, <1>3, <1>13, <1>14, BuildAllowed DEF old

LEMMA ResolveFileAllowed ==
  ASSUME RegistryInv, NEW h \in Handles, ResolveFile(h)
  PROVE  Allowed(h)
<1> DEFINE old == Contents(h)
           f == job[h].at
           pool == Resolved(old, f)
           n == f + 1
           b == job[h].failed \/ ResolveFails(old, f)
           j == [job[h] EXCEPT !.at = n, !.failed = b]
<1>1. /\ job[h].phase = "resolve" /\ f <= Len(old.files) /\ f # 0 /\ ContentsInv
      /\ arc' = arc /\ rolledBack' = rolledBack
      /\ heap' = [heap EXCEPT ![arc[h]] = Resolved(@, f)]
      /\ job' = [job EXCEPT ![h] = j]
  BY DEF ResolveFile, MoreFiles, RegistryInv, ContentsInv, IInv, VisitsFiles
<1>2. /\ job[h] \in Job /\ arc[h] \in Arcs /\ f \in Nat
      /\ old \in Pool /\ Within(job[h].off, old) /\ Growing(old, job[h])
  BY <1>1, BuildMeans
<1>3. heap' = [heap EXCEPT ![arc[h]] = pool]
  BY <1>1, <1>2 DEF Contents, ContentsInv, IInv, Typed
<1>4. f \in DOMAIN old.files
  BY <1>1, <1>2, PoolTyped
<1>5. pool \in Pool /\ pool.files = old.files /\ pool = Resolved(old, f)
  BY <1>2, <1>4, ResolvedTyped, ResolvedParts DEF IsResolved
<1>6. n \in Nat /\ b \in BOOLEAN /\ (job[h].failed \/ ResolveFails(old, f) => b)
  BY <1>2 DEF Job
<1>7. j = [job[h] EXCEPT !.at = n, !.failed = b] /\ n = f + 1
  OBVIOUS
<1> HIDE DEF n, b, j, pool, old
<1>8. /\ j \in Job /\ j.off = job[h].off /\ j.phase = "resolve" /\ j.failed = b
      /\ j.at = n /\ j.queue = job[h].queue
  BY <1>1, <1>2, <1>6, <1>7 DEF Job
<1>9. Accounted(old, job[h])
  BY <1>1, BuildAccounted DEF old
<1>10. Accounted(pool, j)
  <2> DEFINE i == job[h]
  <2>1. /\ old \in Pool /\ f \in DOMAIN old.files /\ i \in Job /\ j \in Job
        /\ Within(i.off, old) /\ Growing(old, i) /\ Accounted(old, i) /\ i.phase = "resolve"
        /\ i.at = f /\ j.phase = "resolve" /\ j.at = f + 1 /\ j.off = i.off
        /\ j.queue = i.queue /\ j.failed \in BOOLEAN
        /\ (i.failed \/ ResolveFails(old, f) => j.failed)
        /\ pool = Resolved(old, f)
    BY <1>1, <1>2, <1>4, <1>5, <1>6, <1>7, <1>8, <1>9
  <2> HIDE DEF i, f
  <2> QED BY <2>1, ResolveAccounted
<1>11. Seen(pool, j) = ProtosUpTo(old, job[h].off.file)
  BY <1>5, <1>8 DEF Seen, ProtosUpTo
<1> QED BY <1>1, <1>3, <1>5, <1>10, <1>11, BuildAllowed DEF old

LEMMA RollbackAllowed ==
  ASSUME RegistryInv, VisitsClosed, NEW h \in Handles, Rollback(h)
  PROVE  Allowed(h)
<1> DEFINE old == Contents(h)
           off == job[h].off
           pool == RolledBack(old, off)
<1>1. /\ job[h].phase = "rollback" /\ GetMut(h, pool) /\ ContentsInv
      /\ arc' = arc /\ rolledBack' = rolledBack \cup {arc[h]}
  BY DEF Rollback, RegistryInv
<1>2. /\ Unique(h) /\ off \in Offsets /\ old \in Pool /\ Within(off, old)
  BY <1>1, BuildMeans
<1>3. heap' = [heap EXCEPT ![arc[h]] = pool] /\ job' = [job EXCEPT ![h] = Idle]
  BY <1>1, SoleWhenClosed DEF GetMut, ContentsInv
<1>4. pool \in Pool
  BY <1>2, RolledBackTyped
<1>5. Described(old, off, off.file + 1)
  BY <1>1, BuildAccounted
<1>6. /\ Described(pool, OffsetsOf(pool), Len(pool.files) + 1)
      /\ Protos(pool) = ProtosUpTo(old, off.file)
  <2> HIDE DEF old, off
  <2> QED BY <1>2, <1>5, RollbackDescribes
<1> HIDE DEF pool
<1>7. Accounted(pool, Idle)
  BY <1>6, IdleTyped, SettledAccounted
<1>8. Seen(pool, Idle) = ProtosUpTo(old, off.file)
  BY <1>6, IdleTyped DEF Seen, Protos
<1>9. rolledBack \subseteq rolledBack'
  BY <1>1
<1> QED BY <1>1, <1>3, <1>4, <1>7, <1>8, <1>9, BuildAllowed

LEMMA HoldingMore ==
  ASSUME NEW protos, NEW more
  PROVE  Registry!Holding(more) = [Registry!Holding(protos) EXCEPT !.protos = more]
<1>1. ASSUME NEW live
      PROVE  [live |-> live, protos |-> more] = [[live |-> live, protos |-> protos] EXCEPT !.protos = more]
  OBVIOUS
<1>2. [live |-> TRUE, protos |-> more] = [[live |-> TRUE, protos |-> protos] EXCEPT !.protos = more]
  BY <1>1, Zenon
<1> QED BY <1>2, Zenon DEF Registry!Holding

\* The step with which the registry adds the batch.
LEMMA CommitAllowed ==
  ASSUME RegistryInv, VisitsClosed, NEW h \in Handles, Commit(h)
  PROVE  Allowed(h)
<1> DEFINE old == Contents(h)
           off == job[h].off
           pool == Committed(old, off)
<1>1. /\ job[h].phase = "commit" /\ GetMut(h, pool) /\ ContentsInv
      /\ arc' = arc /\ rolledBack' = rolledBack
  BY DEF Commit, RegistryInv
<1>2. /\ Unique(h) /\ off \in Offsets /\ old \in Pool /\ Within(off, old)
      /\ Growing(old, job[h]) /\ ~job[h].failed /\ job[h] \in Job
  BY <1>1, BuildMeans
<1>3. heap' = [heap EXCEPT ![arc[h]] = pool] /\ job' = [job EXCEPT ![h] = Idle]
  BY <1>1, SoleWhenClosed DEF GetMut, ContentsInv
<1>4. pool \in Pool
  BY <1>2, CommittedTyped
<1>5. Accounted(old, job[h]) /\ Succeeding(job[h])
  BY <1>1, <1>2, BuildAccounted DEF Succeeding
<1>6. Described(old, OffsetsOf(old), Len(old.files) + 1)
  BY <1>1, <1>5 DEF Accounted, RowsDescribed, ResolvedTo
<1>7. /\ Described(pool, OffsetsOf(pool), Len(pool.files) + 1)
      /\ Protos(pool) = Protos(old)
  <2> HIDE DEF old, off
  <2> QED BY <1>2, <1>6, CommitDescribes
<1>8. PICK b \in Batches : \E n \in 0..Len(b) : TracedTo(old, job[h], b, n)
  BY <1>5 DEF Accounted, Traced
<1>9. TracedTo(old, job[h], b, Len(b))
  BY <1>1, <1>8 DEF TracedTo
<1>10. PICK slots : Partial(old, off.file + 1, slots)
  BY <1>1, <1>2 DEF Growing
<1>11. Accepted(old, off, b)
  <2> DEFINE j == job[h]
  <2>1. /\ old \in Pool /\ j \in Job /\ Within(j.off, old) /\ j.phase = "commit" /\ ~j.failed
        /\ Partial(old, j.off.file + 1, slots)
        /\ Described(old, OffsetsOf(old), Len(old.files) + 1)
        /\ TracedTo(old, j, b, Len(b)) /\ Resolving(old, j)
    BY <1>1, <1>2, <1>5, <1>6, <1>9, <1>10 DEF Accounted
  <2> HIDE DEF old, j
  <2>2. Accepted(old, j.off, b)
    BY <2>1, BatchAccepted
  <2> QED BY <2>2 DEF j
<1>12. /\ Untouched(h) /\ arc[h] # NoArc /\ arc'[h] # NoArc
       /\ heap'[arc'[h]] = pool /\ job'[h] = Idle
  <2>1. rolledBack \subseteq rolledBack'
    BY <1>1
  <2> HIDE DEF pool
  <2> QED BY <1>1, <1>3, <1>4, <2>1, BuildUntouched
<1> HIDE DEF pool
<1>13. Accounted(pool, Idle)
  BY <1>7, IdleTyped, SettledAccounted
<1>14. Registry!Add(h, b)
  <2> DEFINE protos == ProtosUpTo(old, off.file)
  <2>1. Held[h] = Registry!Holding(protos)
    BY <1>1, <1>12, HeldAre DEF Seen, Contents
  <2>2. Held'[h] = Registry!Holding(protos \cup Registry!NewFiles(protos, b))
    BY <1>7, <1>11, <1>12, HeldAre, IdleTyped DEF Seen, Protos, Accepted
  <2>3. Registry!WellFormed(protos, b)
    BY <1>11 DEF Accepted
  <2> HIDE DEF protos
  <2>4. Held[h].live /\ Held[h].protos = protos
    BY <2>1 DEF Registry!Holding
  <2>5. Held'[h] = [Held[h] EXCEPT !.protos = protos \cup Registry!NewFiles(protos, b)]
    <3> DEFINE more == protos \cup Registry!NewFiles(protos, b)
    <3>1. Held'[h] = Registry!Holding(more)
      BY <2>2
    <3> HIDE DEF more
    <3>2. Registry!Holding(more) = [Registry!Holding(protos) EXCEPT !.protos = more]
      BY HoldingMore
    <3>3. Held'[h] = [Held[h] EXCEPT !.protos = more]
      BY <2>1, <3>1, <3>2
    <3> QED BY <3>3 DEF more
  <2>6. Held' = [Held EXCEPT ![h] = Held'[h]]
    BY <1>12, HeldChanges
  <2> QED BY <2>3, <2>4, <2>5, <2>6 DEF Registry!Add
<1> QED BY <1>12, <1>13, <1>14 DEF Allowed, Registry!Next
-----------------------------------------------------------------------------
(* Steps that create, share, copy and free contents.                       *)

LEMMA StartBuildAllowed ==
  ASSUME RegistryInv, NEW h \in Handles, NEW batch \in Batches, StartBuild(h, batch)
  PROVE  Allowed(h)
<1> DEFINE old == Contents(h)
           off == OffsetsOf(old)
           j == [phase |-> "declare", queue |-> batch, off |-> off, at |-> 0,
                 ahead |-> [k \in Deferred |-> off.table[k]], failed |-> FALSE]
<1>1. /\ arc[h] # NoArc /\ job[h].phase = "idle" /\ MakeMut(h) /\ ContentsInv
      /\ job' = [job EXCEPT ![h] = j]
  BY DEF StartBuild, Live, RegistryInv
<1>2. arc[h] \in Arcs /\ old \in Pool
  BY <1>1 DEF ContentsInv, IInv, Typed, Contents
<1>3. /\ j.phase = "declare" /\ j.queue = batch /\ ~j.failed /\ j.off = off
      /\ off.file = Len(old.files)
  BY DEF OffsetsOf
<1> HIDE DEF j
<1>4. Described(old, OffsetsOf(old), Len(old.files) + 1)
  BY <1>1 DEF RegistryInv, AllAccounted, Live, Accounted, RowsDescribed
<1>5. Accounted(old, j)
  <2> HIDE DEF old
  <2> QED BY <1>2, <1>3, <1>4, StartAccounted
<1>6. PICK a \in Arcs :
        /\ arc' = [arc EXCEPT ![h] = a] /\ heap' = [heap EXCEPT ![a] = old]
        /\ arc[h] \in rolledBack => a \in rolledBack'
        /\ \A b \in Arcs : b # a => (b \in rolledBack' <=> b \in rolledBack)
        /\ \A g \in Handles : arc[g] = a => g = h
  <2>1. CASE Unique(h)
    <3>1. arc' = arc /\ heap' = heap /\ rolledBack' = rolledBack
      BY <1>1, <2>1 DEF MakeMut
    <3>2. arc' = [arc EXCEPT ![h] = arc[h]] /\ heap' = [heap EXCEPT ![arc[h]] = old]
      BY <1>1, <1>2, <3>1 DEF ContentsInv, IInv, Typed, Contents
    <3>3. \A g \in Handles : arc[g] = arc[h] => g = h
      BY <2>1 DEF Unique, Holders
    <3> QED BY <1>2, <3>1, <3>2, <3>3
  <2>2. CASE ~Unique(h)
    <3>1. PICK a \in Free : /\ arc' = [arc EXCEPT ![h] = a]
                            /\ heap' = [heap EXCEPT ![a] = old]
                            /\ rolledBack' = IF arc[h] \in rolledBack
                                             THEN rolledBack \cup {a} ELSE rolledBack \ {a}
      BY <1>1, <2>2 DEF MakeMut
    <3>2. a \in Arcs /\ \A g \in Handles : arc[g] # a
      BY DEF Free, Holders
    <3> QED BY <3>1, <3>2
  <2> QED BY <2>1, <2>2
<1>7. ASSUME NEW g \in Handles \ {h}
      PROVE  (arc'[g] = NoArc <=> arc[g] = NoArc) /\ (arc'[g] # NoArc => Same(g, g))
  <2>1. arc'[g] = arc[g] /\ job'[g] = job[g]
    BY <1>1, <1>6 DEF ContentsInv, IInv, Typed
  <2>2. ASSUME arc'[g] # NoArc PROVE Same(g, g)
    <3>1. arc[g] \in Arcs /\ arc[g] # a
      BY <1>1, <1>6, <2>1, <2>2 DEF ContentsInv, IInv, Typed
    <3>2. heap'[arc[g]] = heap[arc[g]]
      BY <1>1, <1>6, <3>1 DEF ContentsInv, IInv, Typed
    <3> QED BY <1>6, <2>1, <2>2, <3>1, <3>2 DEF Same, Live
  <2> QED BY <2>1, <2>2
<1>8. arc'[h] = a /\ heap'[a] = old /\ job'[h] = j /\ a # NoArc
  <2> HIDE DEF old
  <2> QED BY <1>1, <1>6, ArcsAssumption DEF ContentsInv, IInv, Typed
<1>9. Untouched(h)
  BY <1>7 DEF Untouched
<1>10. Seen(old, j) = Seen(heap[arc[h]], job[h])
  BY <1>1, <1>3 DEF Seen, Contents
<1>11. Held'[h] = Held[h]
  BY <1>1, <1>8, <1>10, HeldAre
<1>12. Held' = Held
  BY <1>9, <1>11, HeldStays
<1> QED BY <1>5, <1>8, <1>9, <1>12 DEF Allowed

LEMMA NewAllowed ==
  ASSUME RegistryInv, NEW h \in Handles, New(h)
  PROVE  Allowed(h)
<1>1. PICK a \in Free : /\ arc' = [arc EXCEPT ![h] = a]
                        /\ heap' = [heap EXCEPT ![a] = EmptyPool]
                        /\ rolledBack' = rolledBack \ {a}
  BY DEF New
<1>2. /\ arc[h] = NoArc /\ job' = job /\ a \in Arcs /\ a # NoArc /\ ContentsInv
      /\ \A g \in Handles : arc[g] # a
  BY ArcsAssumption DEF New, Live, Free, Holders, RegistryInv
<1>3. job[h].phase = "idle"
  BY <1>2, AloneMeans DEF ContentsInv, IInv
<1>4. arc'[h] = a /\ heap'[a] = EmptyPool /\ job'[h] = job[h]
  BY <1>1, <1>2 DEF ContentsInv, IInv, Typed
<1>5. ASSUME NEW g \in Handles \ {h}
      PROVE  (arc'[g] = NoArc <=> arc[g] = NoArc) /\ (arc'[g] # NoArc => Same(g, g))
  BY <1>1, <1>2 DEF Same, Live, ContentsInv, IInv, Typed
<1>6. Untouched(h)
  BY <1>5 DEF Untouched
<1>7. Accounted(EmptyPool, job[h])
  BY <1>3, EmptyDescribes, SettledAccounted
<1>8. Registry!New(h)
  <2>1. Held[h] = Registry!NoPool
    BY <1>2, HeldAre
  <2>2. Held'[h] = Registry!Holding({})
    BY <1>2, <1>3, <1>4, HeldAre, EmptyDescribes DEF Seen, Protos
  <2>3. Held' = [Held EXCEPT ![h] = Held'[h]]
    BY <1>6, HeldChanges
  <2> QED BY <2>1, <2>2, <2>3 DEF Registry!New
<1> QED BY <1>4, <1>6, <1>7, <1>8 DEF Allowed, Registry!Next

LEMMA CloneAllowed ==
  ASSUME RegistryInv, NEW h \in Handles, NEW f \in Handles, Clone(f, h)
  PROVE  Allowed(h)
<1>1. /\ arc[f] # NoArc /\ job[f].phase = "idle" /\ arc[h] = NoArc
      /\ arc' = [arc EXCEPT ![h] = arc[f]]
      /\ heap' = heap /\ job' = job /\ rolledBack' = rolledBack /\ ContentsInv
  BY DEF Clone, Live, RegistryInv
<1>2. job[h].phase = "idle"
  BY <1>1, AloneMeans DEF ContentsInv, IInv
<1>3. arc'[h] = arc[f] /\ Same(f, h)
  BY <1>1, <1>2 DEF Same, Live, ContentsInv, IInv, Typed
<1>4. ASSUME NEW g \in Handles \ {h}
      PROVE  (arc'[g] = NoArc <=> arc[g] = NoArc) /\ (arc'[g] # NoArc => Same(g, g))
  BY <1>1 DEF Same, Live, ContentsInv, IInv, Typed
<1>5. Untouched(h)
  BY <1>4 DEF Untouched
<1>6. Accounted(heap'[arc'[h]], job'[h])
  BY <1>3, SameAccounted DEF RegistryInv
<1>7. Registry!Clone(f, h)
  <2>1. Held[h] = Registry!NoPool
    BY <1>1, HeldAre
  <2>2. Held[f] = Registry!Holding(Seen(heap[arc[f]], job[f])) /\ Held'[h] = Held[f]
    BY <1>1, <1>3, HeldAre, SameSeen
  <2>3. Held[f].live
    BY <2>2 DEF Registry!Holding
  <2>4. Held' = [Held EXCEPT ![h] = Held'[h]]
    BY <1>5, HeldChanges
  <2> QED BY <2>1, <2>2, <2>3, <2>4 DEF Registry!Clone
<1> QED BY <1>5, <1>6, <1>7 DEF Allowed, Registry!Next

LEMMA ReleaseAllowed ==
  ASSUME RegistryInv, NEW h \in Handles, arc[h] # NoArc, Release(h), NEW j \in Job,
         job' = [job EXCEPT ![h] = j]
  PROVE  Allowed(h)
<1>1. /\ arc' = [arc EXCEPT ![h] = NoArc] /\ ContentsInv
      /\ heap' = [heap EXCEPT ![arc[h]] = EmptyPool] \/ heap' = heap
      /\ heap' # heap => \A g \in Handles : arc[g] = arc[h] => g = h
      /\ rolledBack' = rolledBack \/
           (rolledBack' = rolledBack \ {arc[h]} /\ \A g \in Handles : arc[g] = arc[h] => g = h)
  BY DEF Release, Unique, Holders, RegistryInv
<1>2. ASSUME NEW g \in Handles \ {h}
      PROVE  (arc'[g] = NoArc <=> arc[g] = NoArc) /\ (arc'[g] # NoArc => Same(g, g))
  <2>1. arc'[g] = arc[g] /\ job'[g] = job[g]
    BY <1>1 DEF ContentsInv, IInv, Typed
  <2>2. ASSUME arc'[g] # NoArc PROVE Same(g, g)
    <3>1. heap'[arc[g]] = heap[arc[g]]
      BY <1>1, <2>1, <2>2 DEF ContentsInv, IInv, Typed
    <3> QED BY <1>1, <2>1, <2>2, <3>1 DEF Same, Live
  <2> QED BY <2>1, <2>2
<1>3. arc'[h] = NoArc
  BY <1>1 DEF ContentsInv, IInv, Typed
<1>4. Untouched(h)
  BY <1>2 DEF Untouched
<1>5. Registry!Drop(h)
  <2>1. Held[h] = Registry!Holding(Seen(heap[arc[h]], job[h]))
    BY HeldAre
  <2>2. Held[h].live /\ Held'[h] = Registry!NoPool
    BY <1>3, <2>1, HeldAre DEF Registry!Holding
  <2>3. Held' = [Held EXCEPT ![h] = Held'[h]]
    BY <1>4, HeldChanges
  <2> QED BY <2>2, <2>3 DEF Registry!Drop
<1> QED BY <1>3, <1>4, <1>5 DEF Allowed, Registry!Next

LEMMA DropAllowed ==
  ASSUME RegistryInv, NEW h \in Handles, Drop(h)
  PROVE  Allowed(h)
<1>1. arc[h] # NoArc /\ Release(h) /\ job' = job
  BY DEF Drop, Live
<1>2. job[h] \in Job /\ job' = [job EXCEPT ![h] = job[h]]
  BY <1>1 DEF RegistryInv, ContentsInv, IInv, Typed
<1> QED BY <1>1, <1>2, ReleaseAllowed

LEMMA UnwindAllowed ==
  ASSUME RegistryInv, NEW h \in Handles, Unwind(h)
  PROVE  Allowed(h)
<1>1. job[h].phase = "panicked" /\ Release(h) /\ job' = [job EXCEPT ![h] = Idle]
  BY DEF Unwind
<1>2. arc[h] # NoArc
  BY <1>1, AloneMeans DEF RegistryInv, ContentsInv, IInv
<1> QED BY <1>1, <1>2, IdleTyped, ReleaseAllowed

-----------------------------------------------------------------------------
(* The refinement.                                                         *)

LEMMA RegistryInit == Init => RegistryInv /\ Registry!Init
<1> SUFFICES ASSUME Init PROVE RegistryInv /\ Registry!Init
  OBVIOUS
<1>1. \A h \in Handles : arc[h] = NoArc
  BY DEF Init
<1>2. RegistryInv
  BY <1>1, ContentsInit DEF RegistryInv, AllAccounted, Live
<1>3. \A h \in Handles : Held[h] = Registry!NoPool
  BY <1>1, HeldAre
<1>4. Held \in [Handles -> {Registry!NoPool}]
  <2> DEFINE held == Held
  <2>1. held = [h \in Handles |-> held[h]] /\ \A h \in Handles : held[h] = Registry!NoPool
    BY <1>3, HeldAre
  <2> HIDE DEF held
  <2>2. held \in [Handles -> {Registry!NoPool}]
    BY <2>1
  <2> QED BY <2>2 DEF held
<1> QED BY <1>2, <1>4 DEF Registry!Init

LEMMA RegistryNext ==
  RegistryInv /\ VisitsClosed /\ [Next]_vars
    => RegistryInv' /\ (Registry!Next \/ UNCHANGED Held)
<1> SUFFICES ASSUME RegistryInv, VisitsClosed, [Next]_vars
             PROVE  RegistryInv' /\ (Registry!Next \/ UNCHANGED Held)
  OBVIOUS
<1>1. ContentsInv'
  BY ContentsNext DEF RegistryInv
<1>2. CASE UNCHANGED <<arc, heap, job, rolledBack>>
  <2>1. arc' = arc /\ heap' = heap /\ job' = job
    BY <1>2
  <2>2. RegistryInv'
    BY <1>1, <2>1 DEF RegistryInv, AllAccounted, Live, Contents
  <2>3. Held' = Held
    BY <2>1 DEF Held, Live, Contents
  <2> QED BY <2>2, <2>3
<1>3. CASE UNCHANGED vars
  BY <1>2, <1>3 DEF vars
<1>4. CASE \E h \in Handles : OpenOptions(h) \/ SetOption(h)
  BY <1>2, <1>4, VisitStep
<1>5. ASSUME NEW h \in Handles, Allowed(h)
      PROVE  RegistryInv' /\ (Registry!Next \/ UNCHANGED Held)
  BY <1>1, <1>5, AllowedKeeps
<1>6. CASE Next /\ ~\E h \in Handles : OpenOptions(h) \/ SetOption(h)
  <2>1. \E h \in Handles : Allowed(h)
    BY <1>6, NewAllowed, DropAllowed, CloneAllowed, StartBuildAllowed, SkipFileAllowed,
       DeclareFileAllowed, UnknownSyntaxAllowed, ResolveFileAllowed, OptionsFileAllowed,
       EndPhaseAllowed, CommitAllowed, RollbackAllowed, UnwindAllowed
    DEF Next
  <2> QED BY <1>5, <2>1
<1> QED BY <1>6, <1>3, <1>4

\* The files of a pool only ever change by whole batches, each accepted exactly when,
\* with the pool, it is closed under its references by the rules of PoolRegistry: build_files
\* adds every file of the batch or none, whatever its order, and however its phases
\* interleave with the builds, clones and drops of other handles.
THEOREM KeepsRegistry == Spec => ImplementsRegistry
<1>1. Init => RegistryInv /\ Registry!Init
  BY RegistryInit
<1>2. RegistryInv /\ VisitsClosed /\ [Next]_vars => RegistryInv' /\ [Registry!Next]_Held
  BY RegistryNext
<1>3. SafeInv => VisitsClosed
  BY DEF SafeInv
<1> QED BY <1>1, <1>2, <1>3, Inductive, PTL DEF Spec, ImplementsRegistry, Registry!Spec

-----------------------------------------------------------------------------
(* Refusals: why a build reports an error.                                 *)

\* What the search for imports may have found.
Findable(pool) == DOMAIN pool.files \cup {Endless}

\* A search of the next level that keeps what was found.
Gathers(pool, enter) ==
  \A acc \in SUBSET Findable(pool), m \in DOMAIN pool.files :
     enter[m][acc] \in SUBSET Findable(pool) /\ acc \subseteq enter[m][acc]

\* One level of the search keeps what was found and finds every public import of the file.
LEMMA EnteredGathers ==
  ASSUME NEW pool \in Pool, FilesIndexed(pool), NEW g \in DOMAIN pool.files, NEW enter,
         NEW seen \in SUBSET Findable(pool), Gathers(pool, enter)
  PROVE  /\ Entered(pool, enter, seen, g) \in SUBSET Findable(pool)
         /\ seen \subseteq Entered(pool, enter, seen, g)
         /\ \A i \in DOMAIN Imports(pool, g) :
               Imports(pool, g)[i].known /\ Imports(pool, g)[i].public
                  => Imports(pool, g)[i].file \in Entered(pool, enter, seen, g)
<1> DEFINE T == Findable(pool)
           imports == Imports(pool, g)
           L == Len(pool.files[g].raw.deps)
           step(acc, d) == IF ~d.known \/ ~d.public THEN acc
                           ELSE IF d.file \in acc THEN enter[d.file][acc]
                           ELSE acc \cup {d.file}
           op == [p \in (SUBSET T) \X (1..L) |-> step(p[1], imports[p[2]])]
           adds == [i \in 1..L |-> IF imports[i].known /\ imports[i].public
                                   THEN {imports[i].file} ELSE {}]
           iter == CHOOSE d : d = [s \in SUBSET (DOMAIN imports) |->
                     IF s = {} THEN seen ELSE step(d[s \ {Max(s)}], imports[Max(s)])]
<1>1. L \in Nat /\ DOMAIN imports = 1..L
  BY ImportsAre
<1>2. Entered(pool, enter, seen, g) = iter[DOMAIN imports]
  BY DEF Entered, FoldLeft, MapThenFoldSet
<1>3. ASSUME NEW acc \in SUBSET T, NEW i \in 1..L
      PROVE  step(acc, imports[i]) \in SUBSET T /\ acc \cup adds[i] \subseteq step(acc, imports[i])
  <2>1. CASE ~(imports[i].known /\ imports[i].public)
    BY <2>1
  <2>2. CASE imports[i].known /\ imports[i].public
    <3>1. imports[i].file \in DOMAIN pool.files
      BY <1>1, <2>2, ImportsAre
    <3>2. adds[i] = {imports[i].file}
      BY <2>2
    <3> HIDE DEF adds, imports
    <3>3. /\ enter[imports[i].file][acc] \in SUBSET T /\ acc \subseteq enter[imports[i].file][acc]
          /\ acc \cup {imports[i].file} \in SUBSET T
      BY <3>1 DEF Gathers, Findable
    <3> HIDE DEF T
    <3> QED BY <2>2, <3>2, <3>3
  <2> QED BY <2>1, <2>2
<1>4. \A i \in 1..L : imports[i].known /\ imports[i].public => adds[i] = {imports[i].file}
  OBVIOUS
<1> HIDE DEF T, imports, L, adds
<1>5. op \in [(SUBSET T) \X (1..L) -> SUBSET T]
  <2> HIDE DEF step
  <2> QED BY <1>3
<1>6. \A acc \in SUBSET T, i \in 1..L : op[<<acc, i>>] = step(acc, imports[i])
  <2> HIDE DEF step
  <2> QED OBVIOUS
<1>7. seen \in SUBSET T
  BY DEF T
<1>8. PICK d : IsFold(d, L, SUBSET T, op, seen)
  <2> HIDE DEF op, iter
  <2> QED BY <1>1, <1>5, <1>7, FoldExists
<1> HIDE DEF op
<1>9. ASSUME NEW s \in SUBSET (1..L), s # {}
      PROVE  d[s] = step(d[s \ {Max(s)}], imports[Max(s)])
  <2> HIDE DEF step
  <2>1. Max(s) \in 1..L /\ s \ {Max(s)} \in SUBSET (1..L)
    BY <1>1, <1>9, LastIsIn
  <2>2. d[s \ {Max(s)}] \in SUBSET T
    BY <1>8, <2>1 DEF IsFold
  <2>3. d[s] = op[<<d[s \ {Max(s)}], Max(s)>>]
    BY <1>8, <1>9 DEF IsFold
  <2> QED BY <1>6, <2>1, <2>2, <2>3
<1>10. d = [s \in SUBSET (DOMAIN imports) |->
             IF s = {} THEN seen ELSE step(d[s \ {Max(s)}], imports[Max(s)])]
  <2> HIDE DEF step
  <2> QED BY <1>1, <1>8, <1>9 DEF IsFold
<1>11. iter = [s \in SUBSET (DOMAIN imports) |->
                IF s = {} THEN seen ELSE step(iter[s \ {Max(s)}], imports[Max(s)])]
  BY <1>10, Zenon
<1> HIDE DEF iter, step
<1>12. ASSUME NEW s \in SUBSET (1..L)
       PROVE  iter[s] = IF s = {} THEN seen
                        ELSE IF iter[s \ {Max(s)}] \in SUBSET T
                             THEN op[<<iter[s \ {Max(s)}], Max(s)>>] ELSE iter[s]
  <2>1. CASE s = {}
    BY <1>1, <1>11, <2>1
  <2>2. CASE s # {}
    <3>1. Max(s) \in 1..L
      BY <1>1, <2>2, LastIsIn
    <3>2. iter[s] = step(iter[s \ {Max(s)}], imports[Max(s)])
      BY <1>1, <1>11, <2>2
    <3> QED BY <1>6, <2>2, <3>1, <3>2
  <2> QED BY <2>1, <2>2
<1>13. \A acc \in SUBSET T, i \in 1..L : acc \cup adds[i] \subseteq op[<<acc, i>>]
  <2> SUFFICES ASSUME NEW acc \in SUBSET T, NEW i \in 1..L
               PROVE  acc \cup adds[i] \subseteq op[<<acc, i>>]
    OBVIOUS
  <2>1. acc \cup adds[i] \subseteq step(acc, imports[i])
    BY <1>3
  <2> QED BY <1>6, <2>1
<1>14. /\ iter[1..L] \in SUBSET T /\ seen \subseteq iter[1..L]
       /\ \A i \in 1..L : adds[i] \subseteq iter[1..L]
  <2> DEFINE D == SUBSET (1..L)
             E == SUBSET T
  <2>1. /\ D = SUBSET (1..L) /\ L \in Nat /\ E = SUBSET T /\ op \in [E \X (1..L) -> E]
        /\ seen \in E
    BY <1>1, <1>5, <1>7
  <2>2. FoldsWithin(iter, D, E, op, seen) /\ Adding(op, E, L, adds)
    BY <1>12, <1>13 DEF FoldsWithin, Adding
  <2> HIDE DEF D, E
  <2>3. iter[1..L] \in E /\ HasAll(iter[1..L], seen, adds, L)
    BY ONLY <2>1, <2>2, FoldGathers
  <2> QED BY <2>3 DEF E, HasAll
<1>15. \A i \in 1..L : imports[i].known /\ imports[i].public => imports[i].file \in iter[1..L]
  BY <1>4, <1>14
<1> QED BY <1>1, <1>2, <1>14, <1>15 DEF T, imports

\* The search for the public imports of a file keeps what was found and finds them.
FindsPublic(pool, found, f, all) ==
  /\ all \in SUBSET Findable(pool) /\ found \subseteq all
  /\ \A i \in DOMAIN Imports(pool, f) :
        Imports(pool, f)[i].known /\ Imports(pool, f)[i].public => Imports(pool, f)[i].file \in all

\* What the search for public imports returns has what was found and every public import.
LEMMA PublicDependenciesGather ==
  ASSUME NEW pool \in Pool, FilesIndexed(pool), NEW f \in DOMAIN pool.files,
         NEW found \in SUBSET Findable(pool)
  PROVE  FindsPublic(pool, found, f, PublicDependencies(pool, found, f))
<1> DEFINE N == Len(pool.files) + 1
           T == Findable(pool)
           walk == CHOOSE w : w = [k \in 0..N |-> Depth(pool, k, w[k - 1])]
           K == { k \in Nat : k <= N => Gathers(pool, walk[k]) }
<1>1. N \in Nat /\ N # 0 /\ N - 1 \in Nat /\ Endless \in T
  BY PoolTyped DEF Findable
<1>2. PublicDependencies(pool, found, f) = walk[N][f][found]
  BY DEF PublicDependencies, Depth
<1> HIDE DEF N
<1>3. walk = [k \in 0..N |-> Depth(pool, k, walk[k - 1])]
  BY <1>1, WalkExists, Zenon
<1> HIDE DEF walk
<1>4. ASSUME NEW k \in 0..N, NEW acc \in SUBSET T, NEW m \in DOMAIN pool.files
      PROVE  walk[k][m][acc] = IF k = 0 THEN acc \cup {Endless}
                               ELSE Entered(pool, walk[k - 1], acc, m)
  <2>1. walk[k] = Depth(pool, k, walk[k - 1])
    BY <1>3
  <2> QED BY <2>1 DEF Depth, Findable
<1>5. Gathers(pool, walk[0])
  <2>1. 0 \in 0..N
    BY <1>1
  <2>2. \A acc \in SUBSET T, m \in DOMAIN pool.files : walk[0][m][acc] = acc \cup {Endless}
    BY <1>4, <2>1
  <2> HIDE DEF T
  <2>3. \A acc \in SUBSET T, m \in DOMAIN pool.files :
           walk[0][m][acc] \in SUBSET T /\ acc \subseteq walk[0][m][acc]
    BY <1>1, <2>2
  <2> QED BY <2>3 DEF Gathers, T
<1>6. ASSUME NEW k \in Nat, k + 1 <= N, Gathers(pool, walk[k]), NEW acc \in SUBSET T,
             NEW m \in DOMAIN pool.files
      PROVE  /\ walk[k + 1][m][acc] = Entered(pool, walk[k], acc, m)
             /\ FindsPublic(pool, acc, m, walk[k + 1][m][acc])
  <2>1. k + 1 \in 0..N /\ k + 1 # 0 /\ (k + 1) - 1 = k
    BY <1>1, <1>6
  <2>2. walk[k + 1][m][acc] = Entered(pool, walk[k], acc, m)
    <3>1. walk[k + 1][m][acc] = IF k + 1 = 0 THEN acc \cup {Endless}
                                ELSE Entered(pool, walk[(k + 1) - 1], acc, m)
      BY <1>4, <2>1
    <3> QED BY <2>1, <3>1
  <2> DEFINE enter == walk[k]
  <2>3. Gathers(pool, enter)
    BY <1>6
  <2> HIDE DEF enter
  <2>4. FindsPublic(pool, acc, m, Entered(pool, enter, acc, m))
    BY <2>3, EnteredGathers DEF FindsPublic
  <2> QED BY <2>2, <2>4 DEF enter
<1> HIDE DEF T
<1>7. Gathers(pool, walk[N - 1])
  <2>1. ASSUME NEW k \in Nat, k \in K PROVE k + 1 \in K
    <3> SUFFICES ASSUME k + 1 <= N PROVE Gathers(pool, walk[k + 1])
      OBVIOUS
    <3>1. Gathers(pool, walk[k])
      BY <1>1, <2>1
    <3> QED BY <1>6, <3>1 DEF FindsPublic, Gathers, T
  <2>2. 0 \in K
    BY <1>5
  <2>3. N - 1 \in K
    <3> HIDE DEF K
    <3> QED BY <1>1, <2>1, <2>2, SetInduction
  <2> QED BY <1>1, <2>3
<1>8. FindsPublic(pool, found, f, walk[N][f][found])
  <2> DEFINE k == N - 1
  <2>1. k \in Nat /\ k + 1 = N /\ k + 1 <= N /\ Gathers(pool, walk[k]) /\ found \in SUBSET T
    BY <1>1, <1>7 DEF T
  <2> HIDE DEF k
  <2>2. FindsPublic(pool, found, f, walk[k + 1][f][found])
    BY <1>6, <2>1
  <2> QED BY <2>1, <2>2
<1> QED BY <1>2, <1>8

\* The files that file g imports publicly, as far as the pool has them.
PublicFiles(pool, g) ==
  { Imports(pool, g)[i].file : i \in { k \in DOMAIN Imports(pool, g) :
       Imports(pool, g)[k].known /\ Imports(pool, g)[k].public } }

\* A file sees itself, its imports, and what these import publicly.
SeesImports(pool, f, all) ==
  /\ f \in all
  /\ \A i \in DOMAIN Imports(pool, f) : Imports(pool, f)[i].known =>
        {Imports(pool, f)[i].file} \cup PublicFiles(pool, Imports(pool, f)[i].file) \subseteq all

\* The files that are searched for a reference of f are found (Visible of get_public_dependencies).
LEMMA VisibleGathers ==
  ASSUME NEW pool \in Pool, FilesIndexed(pool), NEW f \in DOMAIN pool.files
  PROVE  SeesImports(pool, f, Visible(pool, f))
<1> DEFINE T == Findable(pool)
           imports == Imports(pool, f)
           L == Len(pool.files[f].raw.deps)
           step(acc, d) == IF d.known THEN PublicDependencies(pool, acc \cup {d.file}, d.file)
                           ELSE acc
           op == [p \in (SUBSET T) \X (1..L) |-> step(p[1], imports[p[2]])]
           adds == [i \in 1..L |-> IF imports[i].known
                                   THEN {imports[i].file} \cup PublicFiles(pool, imports[i].file)
                                   ELSE {}]
           iter == CHOOSE d : d = [s \in SUBSET (DOMAIN imports) |->
                     IF s = {} THEN {f} ELSE step(d[s \ {Max(s)}], imports[Max(s)])]
<1>1. L \in Nat /\ DOMAIN imports = 1..L
  BY ImportsAre
<1>2. Visible(pool, f) = iter[DOMAIN imports]
  BY DEF Visible, FoldLeft, MapThenFoldSet
<1>3. ASSUME NEW acc \in SUBSET T, NEW i \in 1..L
      PROVE  step(acc, imports[i]) \in SUBSET T /\ acc \cup adds[i] \subseteq step(acc, imports[i])
  <2>1. CASE ~imports[i].known
    BY <2>1
  <2>2. CASE imports[i].known
    <3> DEFINE g == imports[i].file
               more == acc \cup {g}
               all == PublicDependencies(pool, more, g)
    <3>1. g \in DOMAIN pool.files
      BY <1>1, <2>2, ImportsAre
    <3>2. adds[i] = {g} \cup PublicFiles(pool, g) /\ step(acc, imports[i]) = all
      BY <2>2
    <3> HIDE DEF adds, imports, g
    <3>3. more \in SUBSET Findable(pool)
      BY <3>1 DEF Findable
    <3> HIDE DEF more, step
    <3>4. FindsPublic(pool, more, g, all)
      BY <3>1, <3>3, PublicDependenciesGather
    <3> HIDE DEF all
    <3>5. PublicFiles(pool, g) \subseteq all /\ all \in SUBSET T /\ more \subseteq all
      BY <3>4 DEF FindsPublic, PublicFiles
    <3> QED BY <3>2, <3>5 DEF more
  <2> QED BY <2>1, <2>2
<1>4. \A i \in 1..L : imports[i].known =>
         adds[i] = {imports[i].file} \cup PublicFiles(pool, imports[i].file)
  OBVIOUS
<1> HIDE DEF T, imports, L, adds
<1>5. op \in [(SUBSET T) \X (1..L) -> SUBSET T]
  <2> HIDE DEF step
  <2> QED BY <1>3
<1>6. \A acc \in SUBSET T, i \in 1..L : op[<<acc, i>>] = step(acc, imports[i])
  <2> HIDE DEF step
  <2> QED OBVIOUS
<1>7. {f} \in SUBSET T
  BY DEF T, Findable
<1>8. PICK d : IsFold(d, L, SUBSET T, op, {f})
  <2> HIDE DEF op, iter
  <2> QED BY <1>1, <1>5, <1>7, FoldExists
<1> HIDE DEF op
<1>9. ASSUME NEW s \in SUBSET (1..L), s # {}
      PROVE  d[s] = step(d[s \ {Max(s)}], imports[Max(s)])
  <2> HIDE DEF step
  <2>1. Max(s) \in 1..L /\ s \ {Max(s)} \in SUBSET (1..L)
    BY <1>1, <1>9, LastIsIn
  <2>2. d[s \ {Max(s)}] \in SUBSET T
    BY <1>8, <2>1 DEF IsFold
  <2>3. d[s] = op[<<d[s \ {Max(s)}], Max(s)>>]
    BY <1>8, <1>9 DEF IsFold
  <2> QED BY <1>6, <2>1, <2>2, <2>3
<1>10. d = [s \in SUBSET (DOMAIN imports) |->
             IF s = {} THEN {f} ELSE step(d[s \ {Max(s)}], imports[Max(s)])]
  <2> HIDE DEF step
  <2> QED BY <1>1, <1>8, <1>9 DEF IsFold
<1>11. iter = [s \in SUBSET (DOMAIN imports) |->
                IF s = {} THEN {f} ELSE step(iter[s \ {Max(s)}], imports[Max(s)])]
  BY <1>10, Zenon
<1> HIDE DEF iter, step
<1>12. ASSUME NEW s \in SUBSET (1..L)
       PROVE  iter[s] = IF s = {} THEN {f}
                        ELSE IF iter[s \ {Max(s)}] \in SUBSET T
                             THEN op[<<iter[s \ {Max(s)}], Max(s)>>] ELSE iter[s]
  <2>1. CASE s = {}
    BY <1>1, <1>11, <2>1
  <2>2. CASE s # {}
    <3>1. Max(s) \in 1..L
      BY <1>1, <2>2, LastIsIn
    <3>2. iter[s] = step(iter[s \ {Max(s)}], imports[Max(s)])
      BY <1>1, <1>11, <2>2
    <3> QED BY <1>6, <2>2, <3>1, <3>2
  <2> QED BY <2>1, <2>2
<1>13. Adding(op, SUBSET T, L, adds)
  <2> SUFFICES ASSUME NEW acc \in SUBSET T, NEW i \in 1..L
               PROVE  acc \cup adds[i] \subseteq op[<<acc, i>>]
    BY DEF Adding
  <2>1. acc \cup adds[i] \subseteq step(acc, imports[i])
    BY <1>3
  <2> QED BY <1>6, <2>1
<1>14. HasAll(iter[1..L], {f}, adds, L)
  <2> DEFINE D == SUBSET (1..L)
             E == SUBSET T
             base == {f}
  <2>1. /\ D = SUBSET (1..L) /\ L \in Nat /\ E = SUBSET T /\ op \in [E \X (1..L) -> E]
        /\ base \in E /\ FoldsWithin(iter, D, E, op, base) /\ Adding(op, E, L, adds)
    BY <1>1, <1>5, <1>7, <1>12, <1>13 DEF FoldsWithin
  <2> HIDE DEF D, E, base
  <2>2. HasAll(iter[1..L], base, adds, L)
    BY ONLY <2>1, FoldGathers
  <2> QED BY <2>2 DEF base
<1>15. SeesImports(pool, f, iter[1..L])
  BY <1>1, <1>4, <1>14 DEF HasAll, SeesImports, imports
<1> QED BY <1>1, <1>2, <1>15

\* What a file of the pool imports publicly imports nothing publicly in turn.
PublicEnds(pool) ==
  \A g, h \in DOMAIN pool.files :
     pool.files[h].raw.name \in Registry!PublicImports(pool.files[g].raw)
        => Registry!PublicImports(pool.files[h].raw) = {}

\* The pool has the imports of each of its files.
ImportsHeld(pool) ==
  \A g \in DOMAIN pool.files : \A i \in DOMAIN pool.files[g].raw.deps :
     pool.fileNames[pool.files[g].raw.deps[i]] # 0

\* The import number i of file f is file h.
LEMMA ImportIs ==
  ASSUME NEW pool \in Pool, FilesIndexed(pool), ImportsHeld(pool), NEW f \in DOMAIN pool.files,
         NEW i \in DOMAIN pool.files[f].raw.deps
  PROVE  /\ i \in DOMAIN Imports(pool, f) /\ Imports(pool, f)[i].known
         /\ Imports(pool, f)[i].file \in DOMAIN pool.files
         /\ pool.files[Imports(pool, f)[i].file].raw.name = pool.files[f].raw.deps[i]
         /\ Imports(pool, f)[i].public <=> i \in pool.files[f].raw.public
<1>1. i \in 1..Len(pool.files[f].raw.deps) /\ i \in DOMAIN Imports(pool, f)
  BY ImportsAre
<1>2. pool.fileNames[pool.files[f].raw.deps[i]] # 0
  BY DEF ImportsHeld
<1> QED BY <1>1, <1>2, ImportsAre

\* The names that a file sees when public imports end: its own, those of its imports, and
\* those that these import publicly.
NamesSeen(pool, f) ==
  LET p == pool.files[f].raw
      direct == {p.name} \cup { p.deps[i] : i \in DOMAIN p.deps }
  IN  direct \cup UNION { Registry!PublicImports(pool.files[h].raw)
                          : h \in { g \in DOMAIN pool.files : pool.files[g].raw.name \in direct } }

\* When public imports end, each file searched for a reference of f is one the rules name.
LEMMA VisibleAreNamed ==
  ASSUME NEW pool \in Pool, FilesIndexed(pool), PublicEnds(pool), NEW f \in DOMAIN pool.files,
         NEW g \in DOMAIN pool.files, g \in Visible(pool, f)
  PROVE  pool.files[g].raw.name \in NamesSeen(pool, f)
<1> DEFINE p == pool.files[f].raw
           S == NamesSeen(pool, f)
           direct == {p.name} \cup { p.deps[i] : i \in DOMAIN p.deps }
<1>1. /\ direct \subseteq S
      /\ \A h \in DOMAIN pool.files : pool.files[h].raw.name \in direct =>
            Registry!PublicImports(pool.files[h].raw) \subseteq S
      /\ \A n \in S : n \in direct \/ \E h \in DOMAIN pool.files :
                                         n \in Registry!PublicImports(pool.files[h].raw)
  BY DEF NamesSeen
<1>2. f \in Reached(pool, S) /\ \A i \in DOMAIN p.deps : p.deps[i] \in S
  BY <1>1 DEF Reached
<1> HIDE DEF S, direct
<1>3. HasPublicImports(pool, S)
  <2> SUFFICES ASSUME NEW h \in DOMAIN pool.files, pool.files[h].raw.name \in S
               PROVE  Registry!PublicImports(pool.files[h].raw) \subseteq S
    BY DEF HasPublicImports
  <2>1. CASE pool.files[h].raw.name \in direct
    BY <1>1, <2>1
  <2>2. CASE pool.files[h].raw.name \notin direct
    <3>1. Registry!PublicImports(pool.files[h].raw) = {}
      BY <1>1, <2>2 DEF PublicEnds
    <3> QED BY <3>1
  <2> QED BY <2>1, <2>2
<1>4. Visible(pool, f) \in SUBSET Reached(pool, S)
  BY <1>2, <1>3, VisibleWithin
<1>5. g # Endless
  BY PoolTyped DEF Endless
<1> QED BY SMTT(60), <1>4, <1>5 DEF Reached, S

\* The search finds every file that PoolRegistry lets a file refer to, when what is imported
\* publicly imports nothing publicly.
LEMMA SeenIsVisible ==
  ASSUME NEW pool \in Pool, FilesIndexed(pool), ImportsHeld(pool), PublicEnds(pool),
         NEW f \in DOMAIN pool.files, NEW g \in DOMAIN pool.files,
         pool.files[g].raw \in Registry!VisibleFrom(Protos(pool), pool.files[f].raw)
  PROVE  g \in Visible(pool, f)
<1> DEFINE p == pool.files[f].raw
           V == Visible(pool, f)
           S == { pool.files[h].raw.name : h \in V \cap DOMAIN pool.files }
           direct == {p.name} \cup { p.deps[i] : i \in DOMAIN p.deps }
           closed(Q) == \A r \in Protos(pool) :
                           r.name \in Q \ {p.name} => Registry!PublicImports(r) \subseteq Q
           names == { Q \in SUBSET { r.name : r \in Protos(pool) } : direct \subseteq Q /\ closed(Q) }
<1>1. /\ \A h \in DOMAIN pool.files : pool.files[h].raw \in Protos(pool)
      /\ \A r \in Protos(pool) : \E h \in DOMAIN pool.files : r = pool.files[h].raw
  BY PoolTyped DEF Protos, ProtosUpTo
<1>2. SeesImports(pool, f, V)
  BY VisibleGathers
<1> HIDE DEF V
<1>3. \A h \in DOMAIN pool.files : pool.files[h].raw.name \in S => h \in V
  BY DEF FilesIndexed
<1>4. \A h \in DOMAIN pool.files : h \in V => pool.files[h].raw.name \in S
  OBVIOUS
<1>5. S \in SUBSET { r.name : r \in Protos(pool) }
  BY <1>1
<1> HIDE DEF S
<1>6. ASSUME NEW i \in DOMAIN p.deps
      PROVE  Imports(pool, f)[i].file \in V /\ PublicFiles(pool, Imports(pool, f)[i].file) \subseteq V
  BY <1>2, ImportIs DEF SeesImports
<1>7. direct \subseteq S
  <2>1. p.name \in S
    BY <1>2, <1>4 DEF SeesImports
  <2>2. ASSUME NEW i \in DOMAIN p.deps PROVE p.deps[i] \in S
    BY <1>4, <1>6, ImportIs
  <2> QED BY <2>1, <2>2
<1>8. closed(S)
  <2> SUFFICES ASSUME NEW r \in Protos(pool), r.name \in S, r.name # p.name,
                      NEW n \in Registry!PublicImports(r)
               PROVE  n \in S
    OBVIOUS
  <2>1. PICK h \in DOMAIN pool.files : r = pool.files[h].raw
    BY <1>1
  <2>2. h \in V
    BY <1>3, <2>1
  <2>3. r.name \in NamesSeen(pool, f)
    BY <2>1, <2>2, VisibleAreNamed DEF V
  <2>4. PICK m \in DOMAIN r.deps : m \in r.public /\ n = r.deps[m]
    BY SMTT(60) DEF Registry!PublicImports
  <2>5. r.name \in direct \/ \E e \in DOMAIN pool.files :
                                r.name \in Registry!PublicImports(pool.files[e].raw)
    BY ZenonT(60), <2>3 DEF NamesSeen
  <2>6. r.name \in direct
    BY <2>1, <2>5 DEF PublicEnds
  <2>7. PICK i \in DOMAIN p.deps : p.deps[i] = r.name
    BY SMTT(60), <2>6
  <2>8. Imports(pool, f)[i].file = h
    BY <2>1, <2>7, ImportIs DEF FilesIndexed
  <2>9. PublicFiles(pool, h) \subseteq V
    BY <1>6, <2>8
  <2>10. /\ m \in DOMAIN Imports(pool, h)
         /\ Imports(pool, h)[m].known /\ Imports(pool, h)[m].public
         /\ Imports(pool, h)[m].file \in DOMAIN pool.files
         /\ pool.files[Imports(pool, h)[m].file].raw.name = n
    BY <2>1, <2>4, ImportIs
  <2>11. Imports(pool, h)[m].file \in V
    BY <2>9, <2>10 DEF PublicFiles
  <2> QED BY <1>4, <2>10, <2>11
<1>9. S \in names
  BY <1>5, <1>7, <1>8
<1>10. Registry!VisibleFrom(Protos(pool), p) = { r \in Protos(pool) : \A Q \in names : r.name \in Q }
  BY DEF Registry!VisibleFrom
<1> HIDE DEF names
<1>11. pool.files[g].raw.name \in S
  BY <1>9, <1>10
<1> QED BY <1>3, <1>11 DEF V

-----------------------------------------------------------------------------
(* What resolves by the rules of PoolRegistry, resolves in the build.      *)

\* The tables of a build that has reported no error yet, up to the services and extensions of
\* the files from number "resolved" on.
Building(pool, from, slots, resolved) ==
  /\ from \in Nat \ {0} /\ resolved \in Nat /\ from <= resolved
  /\ Partial(pool, from, slots)
  /\ Described(pool, OffsetsOf(pool), resolved)

\* During a build the files and the map of their names describe each other.
LEMMA BuildingIndexed ==
  ASSUME NEW pool \in Pool, NEW from, NEW slots, NEW resolved,
         Building(pool, from, slots, resolved)
  PROVE  FilesIndexed(pool)
BY DEF Building, Partial, FilesMatch, FilesIndexed

\* The name leads to the row of the declaration.
LeadsToRow(pool, n, k, decl) ==
  LET d == pool.names[n]
  IN  /\ d.kind = k /\ d.member = FALSE /\ d.index \in DOMAIN pool.tables[k]
      /\ pool.tables[k][d.index].decl = decl

\* The name of a declaration leads to its row, which a service or an extension has when its
\* file is resolved.
LEMMA DeclaredHasRow ==
  ASSUME NEW pool \in Pool, NEW from, NEW slots, NEW resolved,
         Building(pool, from, slots, resolved),
         NEW k \in Kinds, NEW g \in DOMAIN pool.files, k \in Deferred => g < resolved,
         NEW i \in DOMAIN Decls(pool, k, g)
  PROVE  LeadsToRow(pool, Decls(pool, k, g)[i].name, k, Decls(pool, k, g)[i])
<1> DEFINE decl == Decls(pool, k, g)[i]
           top == Len(pool.tables[k])
<1>1. /\ g \in 1..OffsetsOf(pool).file /\ OffsetsOf(pool).table[k] = top
      /\ DOMAIN pool.tables[k] = 1..top /\ top \in Nat
  BY PoolTyped DEF OffsetsOf
<1>2. HasRows(pool, k, g, top)
  BY <1>1 DEF Building, Described
<1>3. DOMAIN Decls(pool, k, g) = 1..Len(Decls(pool, k, g)) /\ Len(Decls(pool, k, g)) \in Nat
  BY PoolTyped, ProtoTyped DEF Decls
<1> HIDE DEF top
<1>4. PICK b \in 0..top : /\ b + Len(Decls(pool, k, g)) <= top
                          /\ pool.tables[k][b + i].decl = decl
  BY <1>2 DEF HasRows
<1>5. b + i \in DOMAIN pool.tables[k]
  BY <1>1, <1>3, <1>4
<1>6. Named(pool.names, k, b + i, decl)
  BY <1>4, <1>5 DEF Building, Partial
<1>7. LeadsTo(pool.names[decl.name], k, FALSE, b + i)
  BY <1>6 DEF Named
<1> QED BY <1>4, <1>5, <1>7 DEF LeadsTo, LeadsToRow

\* The name and each member of a declaration are occurrences of it.
LEMMA OccurrenceOf ==
  ASSUME NEW p, NEW k \in Kinds, NEW i \in DOMAIN p.decls[k],
         NEW n \in p.decls[k][i].members \cup {p.decls[k][i].name}
  PROVE  <<p, k, i, n>> \in Registry!Occurrences(p)
<1> DEFINE of(l, j) == {<<p, l, j, m>> : m \in p.decls[l][j].members \cup {p.decls[l][j].name}}
           ofKind(l) == UNION { of(l, j) : j \in DOMAIN p.decls[l] }
<1>1. <<p, k, i, n>> \in of(k, i)
  OBVIOUS
<1>2. Registry!Occurrences(p) = UNION { ofKind(l) : l \in Kinds }
  BY DEF Registry!Occurrences, Registry!Kinds, Kinds
<1> HIDE DEF of
<1>3. <<p, k, i, n>> \in ofKind(k)
  BY <1>1
<1> HIDE DEF ofKind
<1> QED BY <1>2, <1>3

\* The name of a declaration leads to the file that declares it.
LEMMA DeclaredIsNamed ==
  ASSUME NEW pool \in Pool, NEW from, NEW slots, NEW resolved,
         Building(pool, from, slots, resolved), Registry!NamesDistinct(Protos(pool)),
         NEW k \in Kinds, NEW g \in DOMAIN pool.files, NEW i \in DOMAIN Decls(pool, k, g)
  PROVE  LET d == pool.names[Decls(pool, k, g)[i].name]
         IN  d.kind = k /\ ~d.member /\ d.file = g
<1> DEFINE n == Decls(pool, k, g)[i].name
           d == pool.names[n]
           all == UNION { Registry!Occurrences(p) : p \in Protos(pool) }
<1>1. d.kind = k /\ d.member = FALSE
  <2>1. CASE k \in Deferred => g < resolved
    <3>1. LeadsToRow(pool, Decls(pool, k, g)[i].name, k, Decls(pool, k, g)[i])
      BY ZenonT(60), <2>1, DeclaredHasRow
    <3> QED BY <3>1 DEF LeadsToRow
  <2>2. CASE k \in Deferred /\ ~(g < resolved)
    <3>1. g \in from..Len(pool.files)
      BY <2>2, PoolTyped DEF Building
    <3>2. Named(pool.names, k, slots[k][g] + i, Decls(pool, k, g)[i])
      BY <2>2, <3>1 DEF Building, Partial
    <3> QED BY <3>2 DEF Named, LeadsTo
  <2> QED BY <2>1, <2>2
<1>2. n \in Names
  BY PoolTyped, ProtoTyped DEF Decls
<1> HIDE DEF n
<1>3. NameDeclared(pool, n)
  BY <1>1, <1>2, NameLeadsToDeclaration DEF Building
<1>4. PICK m \in DOMAIN Decls(pool, k, d.file) : Decls(pool, k, d.file)[m].name = n
  BY <1>1, <1>3 DEF NameDeclared
<1>5. d.file \in DOMAIN pool.files
  BY <1>3 DEF NameDeclared
<1>6. ASSUME NEW f \in DOMAIN pool.files, NEW j \in DOMAIN Decls(pool, k, f),
             Decls(pool, k, f)[j].name = n
      PROVE  <<pool.files[f].raw, k, j, n>> \in all
  <2> DEFINE p == pool.files[f].raw
  <2>1. p \in Protos(pool)
    BY PoolTyped DEF Protos, ProtosUpTo
  <2>2. j \in DOMAIN p.decls[k] /\ p.decls[k][j].name = n
    BY <1>6 DEF Decls
  <2> HIDE DEF p
  <2>3. <<p, k, j, n>> \in Registry!Occurrences(p)
    BY <2>2, OccurrenceOf
  <2> QED BY <2>1, <2>3 DEF p
<1>7. <<pool.files[g].raw, k, i, n>> \in all
  BY <1>6 DEF n
<1>8. <<pool.files[d.file].raw, k, m, n>> \in all
  BY <1>4, <1>5, <1>6
<1>9. \A o, q \in all : q[4] = o[4] => q = o
  BY DEF Registry!NamesDistinct
<1> HIDE DEF all
<1>10. <<pool.files[d.file].raw, k, m, n>> = <<pool.files[g].raw, k, i, n>>
  BY <1>7, <1>8, <1>9
<1>11. d.file = g
  BY <1>5, <1>10, BuildingIndexed DEF FilesIndexed
<1> QED BY <1>1, <1>11 DEF n

\* The protos of a pool are those of its files.
LEMMA ProtosAre ==
  ASSUME NEW pool \in Pool
  PROVE  /\ \A h \in DOMAIN pool.files : pool.files[h].raw \in Protos(pool)
         /\ \A r \in Protos(pool) : \E h \in DOMAIN pool.files : r = pool.files[h].raw
BY PoolTyped DEF Protos, ProtosUpTo

\* The declaration number i of kind k of a file that file f may refer to is found under its name.
LEMMA DeclarationFound ==
  ASSUME NEW pool \in Pool, NEW from, NEW slots, NEW resolved,
         Building(pool, from, slots, resolved), Registry!NamesDistinct(Protos(pool)),
         ImportsHeld(pool), PublicEnds(pool), NEW f \in DOMAIN pool.files,
         NEW q \in Registry!VisibleFrom(Protos(pool), pool.files[f].raw),
         NEW k \in Kinds, NEW i \in DOMAIN q.decls[k], NEW filter, k \in filter
  PROVE  /\ Found(pool, Visible(pool, f), q.decls[k][i].name, filter)
         /\ k = "message" \/ (k = "extension" /\ resolved > Len(pool.files))
               => LeadsToRow(pool, q.decls[k][i].name, k, q.decls[k][i])
<1>1. q \in Protos(pool)
  BY DEF Registry!VisibleFrom
<1>2. PICK g \in DOMAIN pool.files : q = pool.files[g].raw
  BY <1>1, ProtosAre
<1>3. g \in Visible(pool, f)
  BY <1>2, BuildingIndexed, SeenIsVisible
<1>4. i \in DOMAIN Decls(pool, k, g) /\ Decls(pool, k, g)[i] = q.decls[k][i]
  BY <1>2 DEF Decls
<1> DEFINE decl == Decls(pool, k, g)[i]
           n == decl.name
<1>5. pool.names[n].kind = k /\ ~pool.names[n].member /\ pool.names[n].file = g
  BY <1>4, DeclaredIsNamed
<1>6. ASSUME k = "message" \/ (k = "extension" /\ resolved > Len(pool.files))
      PROVE  LeadsToRow(pool, n, k, decl)
  <2>1. k \in Deferred => g < resolved
    BY <1>6, PoolTyped DEF Building, Deferred
  <2> QED BY <1>4, <2>1, DeclaredHasRow, Zenon
<1>7. Found(pool, Visible(pool, f), n, filter)
  BY <1>3, <1>5 DEF Found
<1> HIDE DEF n
<1> QED BY <1>4, <1>6, <1>7 DEF n

\* A file whose references resolve by the rules of PoolRegistry is resolved without an error.
LEMMA ReferencesFound ==
  ASSUME NEW pool \in Pool, NEW from, NEW slots, NEW resolved,
         Building(pool, from, slots, resolved), Registry!NamesDistinct(Protos(pool)),
         ImportsHeld(pool), PublicEnds(pool), NEW f \in DOMAIN pool.files,
         Registry!ReferencesResolve(Protos(pool), pool.files[f].raw)
  PROVE  ~ResolveFails(pool, f)
<1> DEFINE p == pool.files[f].raw
           visible == Visible(pool, f)
           sees == Registry!VisibleFrom(Protos(pool), p)
           exts == p.decls["extension"]
<1>1. /\ p.public \cup p.weak \subseteq DOMAIN p.deps
      /\ \A r \in p.refs : \E q \in sees : Registry!Declares(q, r.filter, r.name)
      /\ \A i \in DOMAIN exts : Registry!ExtensionFits(sees, exts[i])
  BY DEF Registry!ReferencesResolve
<1>2. \A i \in DOMAIN p.deps : pool.fileNames[p.deps[i]] # 0
  BY DEF ImportsHeld
<1> HIDE DEF visible, sees
<1>3. ASSUME NEW r \in p.refs PROVE Found(pool, visible, r.name, r.filter)
  <2>1. PICK q \in sees : Registry!Declares(q, r.filter, r.name)
    BY <1>1
  <2>2. PICK k \in r.filter \cap Kinds : \E i \in DOMAIN q.decls[k] : q.decls[k][i].name = r.name
    BY <2>1 DEF Registry!Declares, Registry!Kinds, Kinds
  <2>3. PICK i \in DOMAIN q.decls[k] : q.decls[k][i].name = r.name
    BY <2>2
  <2> QED BY <2>3, DeclarationFound DEF visible, sees
<1>4. ASSUME NEW i \in DOMAIN exts PROVE NumberFits(pool, visible, exts[i])
  <2> DEFINE x == exts[i]
             n == x.extendee
  <2>1. PICK q \in sees : \E j \in DOMAIN q.decls["message"] :
               q.decls["message"][j].name = n /\ x.number \in q.decls["message"][j].ranges
    BY SMTT(60), <1>1 DEF Registry!ExtensionFits
  <2>2. PICK j \in DOMAIN q.decls["message"] :
               q.decls["message"][j].name = n /\ x.number \in q.decls["message"][j].ranges
    BY <2>1
  <2>3. "message" \in Kinds /\ "message" \in {"message"}
    BY SMTT(60) DEF Kinds
  <2>4. /\ Found(pool, visible, n, {"message"})
        /\ LeadsToRow(pool, n, "message", q.decls["message"][j])
    BY SMTT(60), <2>2, <2>3, DeclarationFound DEF visible, sees
  <2>5. Extendee(pool, visible, x) = pool.names[n].index
    BY ZenonT(60), <2>4 DEF Extendee
  <2>6. pool.names[n].index \in DOMAIN pool.tables["message"] /\ pool.names[n].index # 0
    <3> DEFINE t == pool.tables["message"]
               m == pool.names[n].index
    <3>1. DOMAIN t = 1..Len(t) /\ Len(t) \in Nat
      BY SMTT(60), <2>3, PoolTyped
    <3>2. m \in DOMAIN t
      BY <2>4 DEF LeadsToRow
    <3> HIDE DEF t, m
    <3>3. m \in DOMAIN t /\ m # 0
      BY SMTT(60), <3>1, <3>2
    <3> QED BY <3>3 DEF t, m
  <2>7. x.number \in pool.tables["message"][pool.names[n].index].decl.ranges
    BY <2>2, <2>4 DEF LeadsToRow
  <2> HIDE DEF n, x
  <2>8. NumberFits(pool, visible, x)
    BY <2>5, <2>6, <2>7 DEF NumberFits
  <2> QED BY <2>8 DEF x
<1> QED BY <1>1, <1>2, <1>3, <1>4 DEF ResolveFails, visible

\* A file whose options PoolRegistry lets it use has its options set without an error, when
\* every extension refers to the message it extends.
LEMMA OptionsFound ==
  ASSUME NEW pool \in Pool, NEW from, NEW slots, NEW resolved,
         Building(pool, from, slots, resolved), resolved > Len(pool.files),
         Registry!NamesDistinct(Protos(pool)), ImportsHeld(pool), PublicEnds(pool),
         \A e \in DOMAIN pool.tables["extension"] : pool.tables["extension"][e].extendee # 0,
         NEW f \in DOMAIN pool.files, Registry!ReferencesResolve(Protos(pool), pool.files[f].raw)
  PROVE  ~OptionsFail(pool, f)
<1> DEFINE p == pool.files[f].raw
           visible == Visible(pool, f)
           sees == Registry!VisibleFrom(Protos(pool), p)
           top == pool.names[FileOptions]
<1>1. /\ \A i \in DOMAIN p.options : Registry!IsFileOption(sees, p.options[i])
      /\ IsInjective(p.options)
  BY DEF Registry!ReferencesResolve, Registry!IsInjective, IsInjective
<1> HIDE DEF visible, sees
<1>2. ASSUME NEW i \in DOMAIN p.options PROVE OptionFound(pool, visible, p.options[i])
  <2> DEFINE n == p.options[i]
             row == pool.tables["extension"][pool.names[n].index]
  <2>1. PICK q \in sees : \E j \in DOMAIN q.decls["extension"] :
               q.decls["extension"][j].name = n /\ q.decls["extension"][j].extendee = FileOptions
    BY <1>1 DEF Registry!IsFileOption
  <2>2. PICK j \in DOMAIN q.decls["extension"] :
               q.decls["extension"][j].name = n /\ q.decls["extension"][j].extendee = FileOptions
    BY <2>1
  <2>3. "extension" \in Kinds /\ "extension" \in {"extension"} /\ resolved > Len(pool.files)
    BY DEF Kinds
  <2>4. /\ Found(pool, visible, n, {"extension"})
        /\ LeadsToRow(pool, n, "extension", q.decls["extension"][j])
    BY <2>2, <2>3, DeclarationFound DEF visible, sees
  <2> HIDE DEF n
  <2>5. /\ pool.names[n].index \in DOMAIN pool.tables["extension"]
        /\ row.decl.extendee = FileOptions /\ row.extendee # 0
    BY <2>2, <2>4 DEF LeadsToRow
  <2>6. pool.names[n].index \in 1..OffsetsOf(pool).table["extension"]
    BY <2>3, <2>5, PoolTyped DEF OffsetsOf
  <2>7. ExtendeeNamed(pool, pool.names[n].index, OffsetsOf(pool).table["message"])
    BY SMTT(60), <2>6 DEF Building, Described
  <2>8. LeadsTo(top, "message", FALSE, row.extendee)
    BY <2>5, <2>7 DEF ExtendeeNamed
  <2>9. OptionFound(pool, visible, n)
    BY <2>4, <2>8 DEF OptionFound, LeadsTo
  <2> QED BY <2>9 DEF n
<1> QED BY <1>1, <1>2 DEF OptionsFail, visible

-----------------------------------------------------------------------------
(* Why a batch is refused.                                                 *)

\* Each file of the pool came with some batch.
FilesOffered(pool) == \A f \in DOMAIN pool.files : pool.files[f].raw \in Offered

\* The first n files have their imports among them.
Closed(pool, n) ==
  \A f \in 1..n : \A i \in DOMAIN pool.files[f].raw.deps :
     \E g \in 1..n : pool.files[g].raw.name = pool.files[f].raw.deps[i]

\* The first n extensions have the message they extend.
Extending(pool, n) == \A e \in 1..n : pool.tables["extension"][e].extendee # 0

\* The build has added no file with the name of one that was there.
Fresh(pool, off) ==
  \A f \in (off.file + 1)..Len(pool.files), g \in 1..off.file :
     pool.files[f].raw.name # pool.files[g].raw.name

\* The build has added two files with one name, or a name is declared twice.
Clashing(pool, off) ==
  \/ \E f, g \in (off.file + 1)..Len(pool.files) :
        f # g /\ pool.files[f].raw.name = pool.files[g].raw.name
  \/ ~Registry!NamesDistinct(Protos(pool))

\* The references of some file that the build has added do not resolve.
Unresolved(pool, off) ==
  \E f \in (off.file + 1)..Len(pool.files) :
     ~Registry!ReferencesResolve(Protos(pool), pool.files[f].raw)

\* The errors so far: in the first phase only names, in the others also references.
Invalid(pool, j) == Clashing(pool, j.off) \/ (j.phase # "declare" /\ Unresolved(pool, j.off))

\* A pool that nothing is building has all its imports and extended messages.
SettledReasoned(pool) ==
  /\ FilesOffered(pool)
  /\ Closed(pool, Len(pool.files))
  /\ Extending(pool, Len(pool.tables["extension"]))

\* A build that has reported an error had a reason to.
BuildReasoned(pool, j) ==
  /\ FilesOffered(pool) /\ \A i \in DOMAIN j.queue : j.queue[i] \in Offered
  /\ Closed(pool, j.off.file) /\ Extending(pool, j.off.table["extension"])
  /\ Succeeding(j) => Extending(pool, Len(pool.tables["extension"]))
  /\ Fresh(pool, j.off)
  /\ j.phase # "declare" => j.queue = << >>
  /\ j.phase \in {"resolve", "options"} => j.at > j.off.file
  /\ j.failed => Invalid(pool, j)
  /\ j.phase = "rollback" => j.failed

\* What a handle holds has its reasons; after a panic nothing more is read of it.
Reasoned(pool, j) ==
  CASE j.phase = "idle" -> SettledReasoned(pool)
    [] j.phase = "panicked" -> TRUE
    [] OTHER -> BuildReasoned(pool, j)

\* What every live handle holds has its reasons.
AllReasoned == \A h \in Handles : Live(h) => Reasoned(Contents(h), job[h])

-----------------------------------------------------------------------------
(* Names that are declared twice.                                          *)

\* The declaration number i of kind k of the file has the name, or a member with it.
Bearing(p, k, i, n) ==
  k \in Kinds /\ i \in DOMAIN p.decls[k] /\ n \in p.decls[k][i].members \cup {p.decls[k][i].name}

\* A name that two declarations bear is declared twice.
LEMMA NamedTwice ==
  ASSUME NEW protos, NEW p \in protos, NEW q \in protos, NEW n, NEW k, NEW i, NEW l, NEW m,
         Bearing(p, k, i, n), Bearing(q, l, m, n), p # q \/ k # l \/ i # m
  PROVE  ~Registry!NamesDistinct(protos)
<1> DEFINE all == UNION { Registry!Occurrences(r) : r \in protos }
<1>1. <<p, k, i, n>> \in Registry!Occurrences(p) /\ <<q, l, m, n>> \in Registry!Occurrences(q)
  BY OccurrenceOf DEF Bearing
<1>2. <<p, k, i, n>> \in all /\ <<q, l, m, n>> \in all
  BY <1>1
<1>3. Registry!NamesDistinct(protos) => \A o, r \in all : r[4] = o[4] => r = o
  BY DEF Registry!NamesDistinct
<1> HIDE DEF all
<1>4. <<p, k, i, n>> # <<q, l, m, n>>
  OBVIOUS
<1> QED BY <1>2, <1>3, <1>4

\* A name that a declaration and a package bear is declared twice.
LEMMA NamedLikePackage ==
  ASSUME NEW protos, NEW p \in protos, NEW q \in protos, NEW n, NEW k, NEW i,
         Bearing(p, k, i, n), n \in q.packages
  PROVE  ~Registry!NamesDistinct(protos)
<1> DEFINE all == UNION { Registry!Occurrences(r) : r \in protos }
           packages == UNION { r.packages : r \in protos }
<1>1. <<p, k, i, n>> \in Registry!Occurrences(p)
  BY OccurrenceOf DEF Bearing
<1>2. <<p, k, i, n>> \in all
  BY <1>1
<1>3. n \in packages
  OBVIOUS
<1>4. Registry!NamesDistinct(protos) => \A o \in all : o[4] \notin packages
  BY DEF Registry!NamesDistinct
<1> HIDE DEF all, packages
<1> QED BY <1>2, <1>3, <1>4

\* A value with the name of its enum declares that name twice.
LEMMA NamedLikeMember ==
  ASSUME NEW protos, NEW p \in protos, NEW k \in Kinds, NEW i \in DOMAIN p.decls[k],
         p.decls[k][i].name \in p.decls[k][i].members
  PROVE  ~Registry!NamesDistinct(protos)
<1>1. Registry!Kinds = Kinds
  BY SMTT(60) DEF Registry!Kinds, Kinds
<1> QED BY <1>1 DEF Registry!NamesDistinct

\* What a definition that is no package's leads to.
LEMMA DefinedIsBorne ==
  ASSUME NEW pool \in Pool, NEW from \in Nat \ {0}, NEW slots, Partial(pool, from, slots),
         NEW resolved, Described(pool, OffsetsOf(pool), resolved),
         NEW n \in Names, pool.names[n].kind \in Kinds
  PROVE  \E g \in DOMAIN pool.files, k \in Kinds, i \in Nat : Bearing(pool.files[g].raw, k, i, n)
<1> DEFINE d == pool.names[n]
           p == pool.files[d.file].raw
<1>1. HasRow(pool, n) \/ HasSlot(pool, from, slots, n)
  BY SMTT(60) DEF Partial, NameMatches, Kinds
<1>2. d.file \in DOMAIN pool.files /\ \E i \in DOMAIN p.decls[d.kind] : Bearing(p, d.kind, i, n)
  <2>1. CASE HasRow(pool, n)
    <3>1. /\ d.index \in DOMAIN pool.tables[d.kind]
          /\ pool.tables[d.kind][d.index].file = d.file
          /\ Bears(d, pool.tables[d.kind][d.index].decl, n)
      BY ZenonT(60), <2>1 DEF HasRow
    <3>2. d.index \in 1..OffsetsOf(pool).table[d.kind] /\ OffsetsOf(pool).file = Len(pool.files)
      BY <3>1, PoolTyped DEF OffsetsOf
    <3>3. RowDeclared(pool, d.kind, d.index, Len(pool.files))
      BY <3>2 DEF Described
    <3>4. d.file \in DOMAIN pool.files
      BY ZenonT(60), <3>1, <3>3, PoolTyped DEF RowDeclared
    <3>5. PICK i \in DOMAIN p.decls[d.kind] :
                 p.decls[d.kind][i] = pool.tables[d.kind][d.index].decl
      BY ZenonT(60), <3>1, <3>3 DEF RowDeclared, Decls
    <3>6. Bearing(p, d.kind, i, n)
      BY ZenonT(60), <3>1, <3>5 DEF Bears, Bearing
    <3> QED BY <3>4, <3>6
  <2>2. CASE HasSlot(pool, from, slots, n)
    <3>1. d.file \in from..Len(pool.files)
      BY <2>2 DEF HasSlot
    <3>2. PICK i \in DOMAIN Decls(pool, d.kind, d.file) :
                 Bears(d, Decls(pool, d.kind, d.file)[i], n)
      BY <2>2 DEF HasSlot
    <3>3. d.file \in DOMAIN pool.files
      BY SMTT(60), <3>1, PoolTyped
    <3>4. Bearing(p, d.kind, i, n) /\ i \in DOMAIN p.decls[d.kind]
      BY ZenonT(60), <3>2 DEF Bears, Bearing, Decls
    <3> QED BY <3>3, <3>4
  <2> QED BY ZenonT(60), <1>1, <2>1, <2>2
<1>3. p \in Proto
  BY <1>2, PoolTyped
<1> HIDE DEF p
<1>4. PICK i \in DOMAIN p.decls[d.kind] : Bearing(p, d.kind, i, n)
  BY <1>2
<1>5. i \in Nat
  <2>1. DOMAIN p.decls[d.kind] = 1..Len(p.decls[d.kind]) /\ Len(p.decls[d.kind]) \in Nat
    BY <1>3, ProtoTyped
  <2> QED BY <1>4, <2>1
<1> QED BY <1>2, <1>4, <1>5 DEF p

\* Every addition is made of a name and a definition.
LEMMA AdditionIs ==
  ASSUME NEW p, NEW file, NEW base, NEW a \in Additions(p, file, base)
  PROVE  a = [name |-> a.name, def |-> a.def]
<1> DEFINE of(k, i) == [name : {p.decls[k][i].name}, def : {Def(k, FALSE, base[k] + i, file)}]
                       \cup [name : p.decls[k][i].members, def : {Def(k, TRUE, base[k] + i, file)}]
           inner(k) == UNION { of(k, i) : i \in DOMAIN p.decls[k] }
<1>1. Additions(p, file, base) =
        [name : p.packages, def : {Def("package", FALSE, 0, file)}]
        \cup UNION { inner(k) : k \in Kinds }
  BY Zenon DEF Additions, Def
<1>2. ASSUME NEW S, NEW T, a \in [name : S, def : T] PROVE a = [name |-> a.name, def |-> a.def]
  BY <1>2
<1>3. CASE a \in [name : p.packages, def : {Def("package", FALSE, 0, file)}]
  BY <1>2, <1>3
<1>4. ASSUME NEW k \in Kinds, a \in inner(k) PROVE a = [name |-> a.name, def |-> a.def]
  <2>1. PICK i \in DOMAIN p.decls[k] : a \in of(k, i)
    BY <1>4
  <2> QED BY <1>2, <2>1
<1> HIDE DEF inner
<1> QED BY <1>1, <1>3, <1>4

\* Two additions of one file with one name: the file declares the name twice.
LEMMA AddedTwice ==
  ASSUME NEW protos, NEW p \in Proto, p \in protos, NEW file \in Nat, NEW base \in [Kinds -> Nat],
         NEW a \in Additions(p, file, base), NEW b \in Additions(p, file, base),
         b.name = a.name, b # a
  PROVE  ~Registry!NamesDistinct(protos)
<1>1. b.def # a.def
  <2> DEFINE R(n, d) == [name |-> n, def |-> d]
  <2>1. a = R(a.name, a.def) /\ b = R(b.name, b.def)
    BY AdditionIs, Zenon
  <2> HIDE DEF R
  <2> QED BY <2>1
<1>2. ASSUME NEW c \in Additions(p, file, base), NEW k \in Kinds, NEW i \in DOMAIN p.decls[k],
             IsOfDecl(c, p, file, base, k, i)
      PROVE  Bearing(p, k, i, c.name)
  BY <1>2 DEF IsOfDecl, Bears, Bearing
<1>3. CASE IsOfPackage(a, p, file) /\ IsOfPackage(b, p, file)
  BY <1>1, <1>3 DEF IsOfPackage
<1>4. ASSUME NEW k \in Kinds, NEW i \in DOMAIN p.decls[k], IsOfDecl(a, p, file, base, k, i),
             IsOfPackage(b, p, file)
      PROVE  ~Registry!NamesDistinct(protos)
  BY <1>2, <1>4, NamedLikePackage DEF IsOfPackage
<1>5. ASSUME NEW k \in Kinds, NEW i \in DOMAIN p.decls[k], IsOfDecl(b, p, file, base, k, i),
             IsOfPackage(a, p, file)
      PROVE  ~Registry!NamesDistinct(protos)
  BY <1>2, <1>5, NamedLikePackage DEF IsOfPackage
<1>6. ASSUME NEW k \in Kinds, NEW i \in DOMAIN p.decls[k], IsOfDecl(a, p, file, base, k, i),
             NEW l \in Kinds, NEW m \in DOMAIN p.decls[l], IsOfDecl(b, p, file, base, l, m)
      PROVE  ~Registry!NamesDistinct(protos)
  <2>1. Bearing(p, k, i, a.name) /\ Bearing(p, l, m, a.name)
    BY <1>2, <1>6
  <2>2. CASE k # l \/ i # m
    BY <2>1, <2>2, NamedTwice
  <2>3. CASE k = l /\ i = m
    <3>1. PICK x \in BOOLEAN : /\ a.def = Def(k, x, base[k] + i, file)
                               /\ Bears(a.def, p.decls[k][i], a.name)
      BY <1>6 DEF IsOfDecl
    <3>2. PICK y \in BOOLEAN : /\ b.def = Def(k, y, base[k] + i, file)
                               /\ Bears(b.def, p.decls[k][i], a.name)
      BY <1>6, <2>3 DEF IsOfDecl
    <3>3. x # y
      BY <1>1, <3>1, <3>2
    <3>4. a.def.member = x /\ b.def.member = y
      BY <3>1, <3>2 DEF Def
    <3>5. p.decls[k][i].name \in p.decls[k][i].members
      BY <3>1, <3>2, <3>3, <3>4 DEF Bears
    <3> QED BY <3>5, NamedLikeMember
  <2> QED BY <2>2, <2>3
<1>7. \A c \in Additions(p, file, base) :
         IsOfPackage(c, p, file) \/ \E k \in Kinds : \E i \in DOMAIN p.decls[k] :
                                       IsOfDecl(c, p, file, base, k, i)
  BY AdditionsAre
<1> QED BY <1>3, <1>4, <1>5, <1>6, <1>7

\* A name that is defined in the pool and declared by a file that is not in it.
LEMMA AddedAgain ==
  ASSUME NEW pool \in Pool, NEW from \in Nat \ {0}, NEW slots, Partial(pool, from, slots),
         NEW resolved, Described(pool, OffsetsOf(pool), resolved),
         NEW p \in Proto, \A g \in DOMAIN pool.files : pool.files[g].raw # p,
         NEW protos, p \in protos, \A g \in DOMAIN pool.files : pool.files[g].raw \in protos,
         NEW file \in Nat, NEW base \in [Kinds -> Nat], NEW a \in Additions(p, file, base),
         pool.names[a.name] # NoDef, ~BothPackages(pool.names[a.name], a.def)
  PROVE  ~Registry!NamesDistinct(protos)
<1> DEFINE d == pool.names[a.name]
<1>1. a.name \in Names
  BY AdditionsTyped
<1>2. d.kind \in Kinds \/ (d.kind = "package" /\
                              \E g \in DOMAIN pool.files : a.name \in pool.files[g].raw.packages)
  <2>1. d.kind # "none" /\ d.kind \in Kinds \cup {"package", "none"}
    BY <1>1, PoolTyped DEF Partial, Tidy, Definition
  <2>2. d.kind = "package" => \E g \in DOMAIN pool.files : a.name \in pool.files[g].raw.packages
    BY <1>1 DEF Partial, NameMatches
  <2> QED BY <2>1, <2>2
<1>3. CASE IsOfPackage(a, p, file)
  <2>1. d.kind \in Kinds /\ a.name \in p.packages
    BY <1>2, <1>3 DEF IsOfPackage, BothPackages, Def
  <2>2. PICK g \in DOMAIN pool.files, k \in Kinds, i \in Nat :
               Bearing(pool.files[g].raw, k, i, a.name)
    BY <1>1, <2>1, DefinedIsBorne
  <2> QED BY <2>1, <2>2, NamedLikePackage
<1>4. ASSUME NEW k \in Kinds, NEW i \in DOMAIN p.decls[k], IsOfDecl(a, p, file, base, k, i)
      PROVE  ~Registry!NamesDistinct(protos)
  <2>1. Bearing(p, k, i, a.name)
    BY <1>4 DEF IsOfDecl, Bears, Bearing
  <2>2. CASE d.kind = "package"
    BY <1>2, <2>1, <2>2, NamedLikePackage DEF Kinds
  <2>3. CASE d.kind \in Kinds
    <3>1. PICK g \in DOMAIN pool.files, l \in Kinds, m \in Nat :
                 Bearing(pool.files[g].raw, l, m, a.name)
      BY <1>1, <2>3, DefinedIsBorne
    <3> QED BY <2>1, <3>1, NamedTwice
  <2> QED BY <1>2, <2>2, <2>3
<1> QED BY <1>3, <1>4, AdditionsAre

\* When declaring a file reports an error, a file name or a name is there twice.
LEMMA DeclareClashes ==
  ASSUME NEW pool \in Pool, NEW off \in Offsets, Within(off, pool), NEW slots,
         Partial(pool, off.file + 1, slots), NEW resolved,
         Described(pool, OffsetsOf(pool), resolved),
         NEW p \in Proto, NEW base \in [Kinds -> Nat], ~AlreadyIn(pool, off, p),
         DeclareFails(pool, p, base), NEW next,
         IsDeclared(next, pool, p, base, Len(pool.files) + 1)
  PROVE  Clashing(next, off)
<1> DEFINE file == Len(pool.files) + 1
<1>1. /\ off.file \in Nat /\ off.file <= Len(pool.files) /\ Len(pool.files) \in Nat
      /\ DOMAIN pool.files = 1..Len(pool.files) /\ file \in Nat /\ off.file + 1 \in Nat \ {0}
  BY PoolTyped DEF Offsets, Within
<1>2. /\ next \in Pool /\ Len(next.files) = file /\ next.files[file].raw = p
      /\ \A g \in DOMAIN pool.files : next.files[g] = pool.files[g]
  BY DEF IsDeclared
<1>3. DOMAIN next.files = 1..file
  BY <1>2, PoolTyped
<1>4. file \in DOMAIN next.files /\ \A g \in DOMAIN pool.files : g \in DOMAIN next.files /\ g # file
  BY <1>1, <1>3
<1> HIDE DEF file
<1>5. CASE pool.fileNames[p.name] # 0
  <2> DEFINE g == pool.fileNames[p.name]
  <2>1. g \in DOMAIN pool.files /\ pool.files[g].raw.name = p.name
    BY <1>5, ProtoTyped DEF Partial, FilesMatch
  <2>2. g \notin 1..off.file
    BY DEF AlreadyIn
  <2> HIDE DEF g
  <2>3. g \in (off.file + 1)..file /\ file \in (off.file + 1)..file
    BY <1>1, <2>1, <2>2 DEF file
  <2>4. g # file /\ next.files[g].raw.name = next.files[file].raw.name
    BY <1>2, <1>4, <2>1
  <2> QED BY <1>2, <2>3, <2>4 DEF Clashing
<1>6. CASE pool.fileNames[p.name] = 0 /\ NameClash(pool.names, Additions(p, file, base))
  <2>1. \A g \in DOMAIN pool.files : pool.files[g].raw # p
    BY <1>1, <1>6 DEF Partial, FilesMatch
  <2> DEFINE protos == Protos(next)
  <2>2. p \in protos /\ \A g \in DOMAIN pool.files : pool.files[g].raw \in protos
    BY <1>2, <1>4, ProtosAre
  <2> HIDE DEF protos
  <2>3. PICK a \in Additions(p, file, base) :
           \/ pool.names[a.name] # NoDef /\ ~BothPackages(pool.names[a.name], a.def)
           \/ \E b \in Additions(p, file, base) : b.name = a.name /\ b # a
    BY <1>6 DEF NameClash
  <2>4. CASE pool.names[a.name] # NoDef /\ ~BothPackages(pool.names[a.name], a.def)
    <3>1. ~Registry!NamesDistinct(protos)
      BY <1>1, <2>1, <2>2, <2>4, AddedAgain
    <3> QED BY <3>1 DEF Clashing, protos
  <2>5. CASE \E b \in Additions(p, file, base) : b.name = a.name /\ b # a
    <3>1. ~Registry!NamesDistinct(protos)
      BY <1>1, <2>2, <2>5, AddedTwice
    <3> QED BY <3>1 DEF Clashing, protos
  <2> QED BY <2>3, <2>4, <2>5
<1> QED BY <1>5, <1>6 DEF DeclareFails, file

-----------------------------------------------------------------------------
(* What the errors of the later phases are due to.                         *)

\* If all references resolve, every import of the pool is held and public imports end.
LEMMA ImportsFound ==
  ASSUME PublicImportsEnd, NEW pool \in Pool, FilesIndexed(pool), NEW off \in Offsets,
         Within(off, pool), FilesOffered(pool), Closed(pool, off.file), ~Unresolved(pool, off)
  PROVE  ImportsHeld(pool) /\ PublicEnds(pool)
<1>1. /\ off.file \in Nat /\ off.file <= Len(pool.files) /\ Len(pool.files) \in Nat
      /\ DOMAIN pool.files = 1..Len(pool.files)
  BY PoolTyped DEF Offsets, Within
<1>2. PublicEnds(pool)
  BY DEF PublicEnds, PublicImportsEnd, FilesOffered
<1>3. \A h \in DOMAIN pool.files : pool.fileNames[pool.files[h].raw.name] # 0
  BY <1>1 DEF FilesIndexed
<1>4. ASSUME NEW g \in DOMAIN pool.files, NEW i \in DOMAIN pool.files[g].raw.deps
      PROVE  \E h \in DOMAIN pool.files : pool.files[h].raw.name = pool.files[g].raw.deps[i]
  <2>1. CASE g \in 1..off.file
    <3>1. PICK h \in 1..off.file : pool.files[h].raw.name = pool.files[g].raw.deps[i]
      BY <2>1 DEF Closed
    <3>2. h \in DOMAIN pool.files
      BY <1>1
    <3> QED BY <3>1, <3>2
  <2>2. CASE g \notin 1..off.file
    <3>1. g \in (off.file + 1)..Len(pool.files)
      BY SMTT(60), <1>1, <2>2
    <3>2. Registry!FileOf(Protos(pool), pool.files[g].raw.deps[i]) # {}
      BY <3>1 DEF Unresolved, Registry!ReferencesResolve
    <3>3. PICK r \in Protos(pool) : r.name = pool.files[g].raw.deps[i]
      BY <3>2 DEF Registry!FileOf
    <3> QED BY <3>3, ProtosAre
  <2> QED BY <2>1, <2>2
<1>5. ImportsHeld(pool)
  BY <1>3, <1>4 DEF ImportsHeld
<1> QED BY <1>2, <1>5

\* When resolving a file reports an error, the references of some new file do not resolve.
LEMMA ResolveBlames ==
  ASSUME PublicImportsEnd, NEW pool \in Pool, NEW j \in Job, Within(j.off, pool),
         Growing(pool, j), RowsDescribed(pool, j), BuildReasoned(pool, j),
         j.phase = "resolve", ~j.failed, j.at \in DOMAIN pool.files,
         ResolveFails(pool, j.at)
  PROVE  Clashing(pool, j.off) \/ Unresolved(pool, j.off)
<1> SUFFICES ASSUME ~Clashing(pool, j.off), ~Unresolved(pool, j.off) PROVE FALSE
  OBVIOUS
<1> DEFINE from == j.off.file + 1
           f == j.at
<1>1. /\ j.off \in Offsets /\ j.off.file \in Nat /\ Len(pool.files) \in Nat
      /\ DOMAIN pool.files = 1..Len(pool.files)
  BY PoolTyped DEF Job, Offsets
<1>2. PICK slots : Filled(pool, j, slots) /\ Partial(pool, from, slots)
  BY DEF Growing
<1>3. f \in from..(Len(pool.files) + 1)
  BY <1>2 DEF Filled
<1>4. Described(pool, OffsetsOf(pool), f)
  BY DEF RowsDescribed, Succeeding, ResolvedTo
<1>5. Building(pool, from, slots, f)
  BY <1>1, <1>2, <1>3, <1>4 DEF Building
<1>6. ImportsHeld(pool) /\ PublicEnds(pool)
  BY <1>1, <1>5, BuildingIndexed, ImportsFound DEF BuildReasoned
<1>7. f \in from..Len(pool.files)
  BY <1>1, <1>3
<1>8. /\ Registry!NamesDistinct(Protos(pool))
      /\ Registry!ReferencesResolve(Protos(pool), pool.files[f].raw)
  BY <1>7 DEF Clashing, Unresolved
<1> HIDE DEF from
<1> QED BY <1>5, <1>6, <1>8, ReferencesFound

\* So it is when setting the options of a file reports an error.
LEMMA OptionsBlame ==
  ASSUME PublicImportsEnd, NEW pool \in Pool, NEW j \in Job, Within(j.off, pool),
         Growing(pool, j), RowsDescribed(pool, j), BuildReasoned(pool, j),
         j.phase = "options", ~j.failed, j.at \in DOMAIN pool.files,
         OptionsFail(pool, j.at)
  PROVE  Clashing(pool, j.off) \/ Unresolved(pool, j.off)
<1> SUFFICES ASSUME ~Clashing(pool, j.off), ~Unresolved(pool, j.off) PROVE FALSE
  OBVIOUS
<1> DEFINE from == j.off.file + 1
           f == j.at
           end == Len(pool.files) + 1
<1>1. /\ j.off \in Offsets /\ j.off.file \in Nat /\ Len(pool.files) \in Nat
      /\ DOMAIN pool.files = 1..Len(pool.files) /\ j.off.file <= Len(pool.files)
  BY PoolTyped DEF Job, Offsets, Within
<1>2. PICK slots : Partial(pool, from, slots)
  BY DEF Growing
<1>3. Described(pool, OffsetsOf(pool), end)
  BY DEF RowsDescribed, Succeeding, ResolvedTo
<1>4. Building(pool, from, slots, end) /\ end > Len(pool.files)
  BY <1>1, <1>2, <1>3 DEF Building
<1>5. ImportsHeld(pool) /\ PublicEnds(pool)
  BY <1>1, <1>4, BuildingIndexed, ImportsFound DEF BuildReasoned
<1>6. f \in from..Len(pool.files)
  BY <1>1 DEF BuildReasoned, Job
<1>7. /\ Registry!NamesDistinct(Protos(pool))
      /\ Registry!ReferencesResolve(Protos(pool), pool.files[f].raw)
  BY <1>6 DEF Clashing, Unresolved
<1>8. \A e \in DOMAIN pool.tables["extension"] : pool.tables["extension"][e].extendee # 0
  <2>1. DOMAIN pool.tables["extension"] = 1..Len(pool.tables["extension"])
    BY PoolTyped DEF Kinds
  <2> QED BY <2>1 DEF BuildReasoned, Succeeding, Extending
<1> HIDE DEF from, end
<1> QED BY <1>4, <1>5, <1>7, <1>8, OptionsFound

-----------------------------------------------------------------------------
(* What the steps of a build keep of its reasons.                          *)

\* What holds of the first files and extensions is not changed by what comes after them.
LEMMA FirstKept ==
  ASSUME NEW pool, NEW more, NEW off, KeepsUpTo(pool, more, off)
  PROVE  /\ Closed(pool, off.file) => Closed(more, off.file)
         /\ Extending(pool, off.table["extension"]) => Extending(more, off.table["extension"])
<1>1. Closed(pool, off.file) => Closed(more, off.file)
  BY SMTT(60) DEF KeepsUpTo, Closed
<1>2. Extending(pool, off.table["extension"]) => Extending(more, off.table["extension"])
  BY DEF KeepsUpTo, Extending
<1> QED BY <1>1, <1>2

\* Names that are distinct in a set of files are distinct in a part of it.
LEMMA DistinctInPart ==
  ASSUME NEW protos, NEW part \in SUBSET protos, Registry!NamesDistinct(protos)
  PROVE  Registry!NamesDistinct(part)
<1> DEFINE all == UNION { Registry!Occurrences(p) : p \in protos }
           packages == UNION { p.packages : p \in protos }
           few == UNION { Registry!Occurrences(p) : p \in part }
           some == UNION { p.packages : p \in part }
<1>1. few \subseteq all /\ some \subseteq packages
  OBVIOUS
<1>2. /\ \A o \in all : o[4] \notin packages /\ \A q \in all : q[4] = o[4] => q = o
      /\ \A p \in protos, k \in Registry!Kinds : \A i \in DOMAIN p.decls[k] :
            p.decls[k][i].name \notin p.decls[k][i].members
  BY DEF Registry!NamesDistinct
<1>3. Registry!NamesDistinct(part) =
        (/\ \A o \in few : o[4] \notin some /\ \A q \in few : q[4] = o[4] => q = o
         /\ \A p \in part, k \in Registry!Kinds : \A i \in DOMAIN p.decls[k] :
               p.decls[k][i].name \notin p.decls[k][i].members)
  BY DEF Registry!NamesDistinct
<1> HIDE DEF all, packages, few, some
<1> QED BY <1>1, <1>2, <1>3

\* A clash is not undone by declaring more.
LEMMA ClashingKept ==
  ASSUME NEW pool \in Pool, NEW off \in Offsets, NEW p, NEW base, NEW file, NEW more,
         IsDeclared(more, pool, p, base, file), Clashing(pool, off)
  PROVE  Clashing(more, off)
<1>1. /\ more \in Pool /\ Len(more.files) = Len(pool.files) + 1 /\ Len(pool.files) \in Nat
      /\ DOMAIN pool.files = 1..Len(pool.files) /\ off.file \in Nat
      /\ \A f \in DOMAIN pool.files : more.files[f] = pool.files[f]
  BY PoolTyped DEF IsDeclared, Offsets
<1>2. CASE \E f, g \in (off.file + 1)..Len(pool.files) :
              f # g /\ pool.files[f].raw.name = pool.files[g].raw.name
  <2>1. PICK f, g \in (off.file + 1)..Len(pool.files) :
               f # g /\ pool.files[f].raw.name = pool.files[g].raw.name
    BY <1>2
  <2>2. f \in DOMAIN pool.files /\ g \in DOMAIN pool.files
    BY <1>1
  <2>3. f \in (off.file + 1)..Len(more.files) /\ g \in (off.file + 1)..Len(more.files)
    BY <1>1
  <2> QED BY <1>1, <2>1, <2>2, <2>3 DEF Clashing
<1>3. CASE ~Registry!NamesDistinct(Protos(pool))
  <2>1. \A f \in 1..Len(pool.files) : f \in 1..Len(more.files) /\ more.files[f] = pool.files[f]
    BY <1>1
  <2>2. Protos(pool) \in SUBSET Protos(more)
    BY <2>1 DEF Protos, ProtosUpTo
  <2> QED BY <1>3, <2>2, DistinctInPart DEF Clashing
<1> QED BY <1>2, <1>3 DEF Clashing

\* A build that begins has its reasons.
LEMMA StartReasoned ==
  ASSUME NEW pool \in Pool, SettledReasoned(pool), NEW b \in Batches, NEW j,
         j.phase = "declare", j.queue = b, ~j.failed, j.off = OffsetsOf(pool)
  PROVE  BuildReasoned(pool, j)
<1>1. /\ j.off.file = Len(pool.files) /\ Len(pool.files) \in Nat
      /\ j.off.table["extension"] = Len(pool.tables["extension"])
  BY PoolTyped DEF OffsetsOf, Kinds
<1>2. \A i \in DOMAIN j.queue : j.queue[i] \in Offered
  BY DEF Offered
<1>3. \A f \in (j.off.file + 1)..Len(pool.files) : FALSE
  BY <1>1
<1> QED BY <1>1, <1>2, <1>3 DEF SettledReasoned, BuildReasoned, Fresh

\* A file that is skipped leaves the build its reasons.
LEMMA SkipReasoned ==
  ASSUME NEW pool, NEW j \in Job, NEW next, BuildReasoned(pool, j), j.phase = "declare",
         j.queue # << >>, next.queue = Tail(j.queue), next.phase = "declare", next.off = j.off,
         next.failed = j.failed
  PROVE  BuildReasoned(pool, next)
<1> DEFINE q == j.queue
           r == Tail(q)
<1>1. \A i \in DOMAIN r : r[i] \in Offered
  <2>1. q \in Seq(Proto) /\ q # << >> /\ \A i \in DOMAIN q : q[i] \in Offered
    BY DEF Job, BuildReasoned
  <2> HIDE DEF q
  <2>2. \A i \in DOMAIN r : i + 1 \in DOMAIN q /\ r[i] = q[i + 1]
    BY <2>1
  <2> QED BY <2>1, <2>2
<1> QED BY <1>1 DEF BuildReasoned, Succeeding, Invalid

\* An error of the first phase is a file or a name that is declared twice.
LEMMA DeclareReasoned ==
  ASSUME NEW pool \in Pool, NEW base \in [Kinds -> Nat], NEW p \in Proto,
         NEW j \in Job, NEW next \in Job, Within(j.off, pool), Undoable(pool, j),
         Growing(pool, j), RowsDescribed(pool, j), BuildReasoned(pool, j),
         j.phase = "declare", j.queue # << >>, p = Head(j.queue), ~AlreadyIn(pool, j.off, p),
         next.phase = "declare", next.off = j.off, next.queue = Tail(j.queue),
         next.failed = (j.failed \/ DeclareFails(pool, p, base))
  PROVE  BuildReasoned(Declared(pool, p, base), next)
<1> DEFINE more == Declared(pool, p, base)
           file == Len(pool.files) + 1
           off == j.off
<1>1. IsDeclared(more, pool, p, base, file)
  BY DeclaredParts
<1> HIDE DEF more
<1>2. /\ more \in Pool /\ Len(more.files) = file /\ more.files[file].raw = p
      /\ \A f \in DOMAIN pool.files : more.files[f] = pool.files[f]
      /\ more.tables["extension"] = pool.tables["extension"]
  BY <1>1 DEF IsDeclared, Deferred
<1>3. /\ off \in Offsets /\ off.file \in Nat /\ Len(pool.files) \in Nat
      /\ DOMAIN pool.files = 1..Len(pool.files) /\ off.file <= Len(pool.files)
  BY PoolTyped DEF Job, Offsets, Within
<1>4. DOMAIN more.files = 1..file
  BY <1>2, PoolTyped
<1>5. p \in Offered
  <2>1. j.queue \in Seq(Proto) /\ \A i \in DOMAIN j.queue : j.queue[i] \in Offered
    BY DEF Job, BuildReasoned
  <2>2. 1 \in DOMAIN j.queue /\ Head(j.queue) = j.queue[1]
    BY <2>1
  <2> QED BY <2>1, <2>2
<1>6. FilesOffered(more)
  <2>1. \A f \in DOMAIN more.files : f \in DOMAIN pool.files \/ f = file
    BY <1>3, <1>4
  <2> QED BY <1>2, <1>5, <2>1 DEF FilesOffered, BuildReasoned
<1>7. \A i \in DOMAIN next.queue : next.queue[i] \in Offered
  <2> DEFINE q == j.queue
             r == Tail(q)
  <2>1. q \in Seq(Proto) /\ q # << >> /\ \A i \in DOMAIN q : q[i] \in Offered
    BY DEF Job, BuildReasoned
  <2> HIDE DEF q
  <2>2. \A i \in DOMAIN r : i + 1 \in DOMAIN q /\ r[i] = q[i + 1]
    BY <2>1
  <2>3. \A i \in DOMAIN r : r[i] \in Offered
    BY <2>1, <2>2
  <2> QED BY <2>3 DEF q
<1>8. Closed(more, off.file) /\ Extending(more, off.table["extension"])
  BY <1>1, <1>3, DeclaredKeeps, FirstKept DEF BuildReasoned
<1>9. Succeeding(next) => Extending(more, Len(more.tables["extension"]))
  <2>1. Succeeding(next) => Succeeding(j)
    BY DEF Succeeding
  <2> QED BY <1>2, <2>1 DEF BuildReasoned, Extending
<1>10. ASSUME NEW g \in 1..off.file PROVE p.name # pool.files[g].raw.name
  <2> DEFINE back == RolledBack(pool, off)
             n == pool.files[g].raw.name
  <2>1. /\ Len(back.files) = off.file /\ back \in Pool /\ back.files[g] = pool.files[g]
        /\ \A m \in FileNames : back.fileNames[m] =
             IF pool.fileNames[m] <= off.file THEN pool.fileNames[m] ELSE 0
    BY <1>3, RolledBackParts
  <2>2. g \in DOMAIN pool.files /\ g # 0
    BY <1>3
  <2>3. n \in FileNames
    BY <2>2, PoolTyped, ProtoTyped
  <2>4. back.fileNames[n] = g
    <3>1. g \in DOMAIN back.files
      BY <2>1, PoolTyped
    <3> QED BY <2>1, <3>1 DEF Undoable, Sound, NamesMatch
  <2> HIDE DEF back, n
  <2>5. pool.fileNames[n] = g
    BY <2>1, <2>2, <2>3, <2>4
  <2> QED BY <2>5 DEF AlreadyIn, n
<1>11. Fresh(more, off)
  <2> SUFFICES ASSUME NEW f \in (off.file + 1)..Len(more.files), NEW g \in 1..off.file
               PROVE  more.files[f].raw.name # more.files[g].raw.name
    BY DEF Fresh
  <2>1. more.files[g] = pool.files[g]
    BY <1>2, <1>3
  <2>2. CASE f = file
    BY <1>2, <1>10, <2>1, <2>2
  <2>3. CASE f # file
    <3>1. f \in (off.file + 1)..Len(pool.files) /\ f \in DOMAIN pool.files
      BY <1>2, <1>3, <2>3
    <3> QED BY <1>2, <2>1, <3>1 DEF BuildReasoned, Fresh
  <2> QED BY <2>2, <2>3
<1>12. ASSUME next.failed PROVE Clashing(more, off)
  <2>1. CASE j.failed
    <3>1. Clashing(pool, off)
      BY <2>1 DEF BuildReasoned, Invalid
    <3> QED BY <1>1, <1>3, <3>1, ClashingKept
  <2>2. CASE ~j.failed
    <3>1. DeclareFails(pool, p, base) /\ Succeeding(j)
      BY <1>12, <2>2 DEF Succeeding
    <3>2. PICK slots : Partial(pool, off.file + 1, slots)
      BY <2>2 DEF Growing
    <3>3. Described(pool, OffsetsOf(pool), ResolvedTo(pool, j))
      BY <3>1 DEF RowsDescribed, Succeeding
    <3> QED BY <1>1, <1>3, <3>1, <3>2, <3>3, DeclareClashes
  <2> QED BY <2>1, <2>2
<1> QED BY <1>6, <1>7, <1>8, <1>9, <1>11, <1>12 DEF BuildReasoned, Invalid, more

\* Resolving a file without an error gives each of its extensions the message it extends.
LEMMA ResolveExtends ==
  ASSUME NEW pool \in Pool, NEW f \in DOMAIN pool.files, ~ResolveFails(pool, f),
         Extending(pool, Len(pool.tables["extension"]))
  PROVE  Extending(Resolved(pool, f), Len(Resolved(pool, f).tables["extension"]))
<1> DEFINE more == Resolved(pool, f)
           exts == Exts(pool, f)
           to == Extendees(pool, f)
           n == Len(pool.tables["extension"])
<1>1. IsResolved(more, pool, f, exts, to)
  BY ResolvedParts
<1> HIDE DEF more
<1>2. /\ n \in Nat /\ DOMAIN pool.tables["extension"] = 1..n
      /\ Len(exts) \in Nat /\ DOMAIN exts = 1..Len(exts)
  BY PoolTyped, ProtoTyped DEF Exts, Kinds
<1>3. ASSUME NEW i \in DOMAIN exts PROVE to[i] # 0
  <2>1. NumberFits(pool, Visible(pool, f), exts[i])
    BY DEF ResolveFails, Exts
  <2> QED BY SMTT(60), <2>1 DEF NumberFits, Extendees
<1> HIDE DEF exts, to, n
<1>4. /\ Len(more.tables["extension"]) = n + Len(exts)
      /\ \A i \in 1..n : more.tables["extension"][i] = pool.tables["extension"][i]
      /\ \A i \in DOMAIN exts : more.tables["extension"][n + i] = Row(exts[i], f, to[i])
  BY <1>1, <1>2 DEF IsResolved, n
<1>5. ASSUME NEW e \in 1..(n + Len(exts)) PROVE more.tables["extension"][e].extendee # 0
  <2>1. CASE e \in 1..n
    BY <1>4, <2>1 DEF Extending, n
  <2>2. CASE e \notin 1..n
    <3>1. e - n \in DOMAIN exts /\ n + (e - n) = e
      BY <1>2, <2>2
    <3>2. more.tables["extension"][e] = Row(exts[e - n], f, to[e - n])
      BY <1>4, <3>1
    <3> QED BY <1>3, <3>1, <3>2 DEF Row
  <2> QED BY <2>1, <2>2
<1> QED BY <1>4, <1>5 DEF Extending, more

\* An error of the second phase is a reference that does not resolve, or a name declared twice.
LEMMA ResolveReasoned ==
  ASSUME PublicImportsEnd, NEW pool \in Pool, NEW j \in Job, NEW next \in Job,
         Within(j.off, pool), Growing(pool, j), RowsDescribed(pool, j), BuildReasoned(pool, j),
         j.phase = "resolve", j.at \in DOMAIN pool.files,
         next.phase = "resolve", next.off = j.off, next.queue = j.queue, next.at = j.at + 1,
         next.failed = (j.failed \/ ResolveFails(pool, j.at))
  PROVE  BuildReasoned(Resolved(pool, j.at), next)
<1> DEFINE f == j.at
           more == Resolved(pool, f)
           off == j.off
<1>1. IsResolved(more, pool, f, Exts(pool, f), Extendees(pool, f))
  BY ResolvedParts
<1>2. Succeeding(next) => Extending(more, Len(more.tables["extension"]))
  <2>1. Succeeding(next) => Succeeding(j) /\ ~ResolveFails(pool, f)
    BY DEF Succeeding
  <2> QED BY <2>1, ResolveExtends DEF BuildReasoned
<1> HIDE DEF more
<1>3. more.files = pool.files
  BY <1>1 DEF IsResolved
<1>4. off \in Offsets /\ off.file \in Nat /\ f \in Nat
  BY PoolTyped DEF Job, Offsets
<1>5. Closed(more, off.file) /\ Extending(more, off.table["extension"])
  BY <1>1, <1>4, ResolvedKeeps, FirstKept DEF BuildReasoned
<1>6. FilesOffered(more) /\ Fresh(more, off)
  BY <1>3 DEF BuildReasoned, FilesOffered, Fresh
<1>7. next.at > off.file
  BY <1>4 DEF BuildReasoned
<1>8. next.failed => Clashing(pool, off) \/ Unresolved(pool, off)
  <2>1. CASE j.failed
    BY <2>1 DEF BuildReasoned, Invalid
  <2>2. CASE ~j.failed
    BY <2>2, ResolveBlames
  <2> QED BY <2>1, <2>2
<1>9. Protos(more) = Protos(pool)
  BY <1>3 DEF Protos, ProtosUpTo
<1>10. /\ Clashing(pool, off) => Clashing(more, off)
       /\ Unresolved(pool, off) => Unresolved(more, off)
  BY <1>3, <1>9 DEF Clashing, Unresolved
<1> QED BY <1>2, <1>5, <1>6, <1>7, <1>8, <1>10 DEF BuildReasoned, Invalid, more

\* An error of the third phase is a reference that does not resolve, or a name declared twice.
LEMMA OptionsReasoned ==
  ASSUME PublicImportsEnd, NEW pool \in Pool, NEW j \in Job, NEW next \in Job,
         Within(j.off, pool), Growing(pool, j), RowsDescribed(pool, j), BuildReasoned(pool, j),
         j.phase = "options", j.at \in DOMAIN pool.files,
         next.phase = "options", next.off = j.off, next.queue = j.queue, next.at = j.at + 1,
         next.failed = (j.failed \/ OptionsFail(pool, j.at))
  PROVE  BuildReasoned(pool, next)
<1>1. j.off.file \in Nat /\ j.at \in Nat
  BY PoolTyped DEF Job, Offsets
<1>2. next.failed => Clashing(pool, j.off) \/ Unresolved(pool, j.off)
  <2>1. CASE j.failed
    BY <2>1 DEF BuildReasoned, Invalid
  <2>2. CASE ~j.failed
    BY <2>2, OptionsBlame
  <2> QED BY <2>1, <2>2
<1>3. next.at > next.off.file
  BY <1>1 DEF BuildReasoned
<1>4. Succeeding(next) => Succeeding(j)
  BY DEF Succeeding
<1> QED BY <1>2, <1>3, <1>4 DEF BuildReasoned, Invalid

\* The end of a phase leaves the build its reasons.
LEMMA EndReasoned ==
  ASSUME NEW pool, NEW j \in Job, NEW next \in Job, BuildReasoned(pool, j),
         j.phase \in {"declare", "resolve", "options"},
         j.phase = "declare" => j.queue = << >>,
         next.phase = (IF j.failed THEN "rollback" ELSE NextPhase[j.phase]),
         next.at = j.off.file + 1, next.off = j.off, next.queue = j.queue,
         next.failed = j.failed
  PROVE  BuildReasoned(pool, next)
<1>1. j.off.file \in Nat /\ j.failed \in BOOLEAN
  BY DEF Job, Offsets
<1>2. next.at > next.off.file
  BY <1>1
<1>3. next.phase # "declare" /\ (next.phase = "rollback" => next.failed)
  BY DEF NextPhase
<1>4. j.queue = << >>
  BY DEF BuildReasoned
<1>5. Succeeding(next) => Succeeding(j)
  BY DEF Succeeding
<1> QED BY <1>2, <1>3, <1>4, <1>5 DEF BuildReasoned, Invalid

\* A batch that is added brings the imports of its files.
LEMMA CommitReasoned ==
  ASSUME NEW pool \in Pool, NEW j \in Job, Within(j.off, pool), BuildReasoned(pool, j),
         Resolving(pool, j), j.phase = "commit", ~j.failed
  PROVE  SettledReasoned(Committed(pool, j.off))
<1> DEFINE more == Committed(pool, j.off)
<1>1. j.off \in Offsets
  BY DEF Job
<1>2. /\ more \in Pool /\ more.tables = pool.tables /\ Len(more.files) = Len(pool.files)
      /\ \A f \in DOMAIN pool.files : more.files[f].raw = pool.files[f].raw
  BY <1>1, CommittedParts
<1> HIDE DEF more
<1>3. /\ Len(pool.files) \in Nat /\ DOMAIN pool.files = 1..Len(pool.files)
      /\ DOMAIN more.files = 1..Len(pool.files)
      /\ j.off.file \in Nat /\ j.off.file <= Len(pool.files)
  BY <1>1, <1>2, PoolTyped DEF Offsets, Within
<1>4. FilesOffered(more)
  BY <1>2, <1>3 DEF FilesOffered, BuildReasoned
<1>5. Extending(more, Len(more.tables["extension"]))
  BY <1>2 DEF BuildReasoned, Succeeding, Extending
<1>6. ASSUME NEW f \in DOMAIN pool.files, NEW i \in DOMAIN pool.files[f].raw.deps
      PROVE  \E g \in DOMAIN pool.files : pool.files[g].raw.name = pool.files[f].raw.deps[i]
  <2>1. CASE f \in 1..j.off.file
    <3>1. PICK g \in 1..j.off.file : pool.files[g].raw.name = pool.files[f].raw.deps[i]
      BY <2>1 DEF BuildReasoned, Closed
    <3>2. g \in DOMAIN pool.files
      BY <1>3
    <3> QED BY <3>1, <3>2
  <2>2. CASE f \notin 1..j.off.file
    <3>1. f \in (j.off.file + 1)..Len(pool.files)
      BY <1>3, <2>2
    <3>2. RefsResolve(pool, f)
      BY <3>1 DEF Resolving, Succeeding
    <3>3. Registry!FileOf(Protos(pool), pool.files[f].raw.deps[i]) # {}
      BY <3>2 DEF RefsResolve
    <3>4. PICK r \in Protos(pool) : r.name = pool.files[f].raw.deps[i]
      BY <3>3 DEF Registry!FileOf
    <3> QED BY <3>4, ProtosAre
  <2> QED BY <2>1, <2>2
<1>7. Closed(more, Len(more.files))
  <2> SUFFICES ASSUME NEW f \in 1..Len(more.files), NEW i \in DOMAIN more.files[f].raw.deps
               PROVE  \E g \in 1..Len(more.files) :
                         more.files[g].raw.name = more.files[f].raw.deps[i]
    BY DEF Closed
  <2>1. f \in DOMAIN pool.files /\ more.files[f].raw = pool.files[f].raw
    BY <1>2, <1>3
  <2>2. PICK g \in DOMAIN pool.files : pool.files[g].raw.name = pool.files[f].raw.deps[i]
    BY <1>6, <2>1
  <2>3. g \in 1..Len(more.files) /\ more.files[g].raw = pool.files[g].raw
    BY <1>2, <1>3
  <2> QED BY <2>1, <2>2, <2>3
<1> QED BY <1>4, <1>5, <1>7 DEF SettledReasoned, more

\* What a rollback leaves is a pool that nothing is building, as it was.
LEMMA RollbackReasoned ==
  ASSUME NEW pool \in Pool, NEW j \in Job, Within(j.off, pool), BuildReasoned(pool, j)
  PROVE  SettledReasoned(RolledBack(pool, j.off))
<1> DEFINE back == RolledBack(pool, j.off)
<1>1. /\ j.off \in Offsets /\ j.off.file \in Nat /\ j.off.file <= Len(pool.files)
      /\ Len(pool.files) \in Nat /\ DOMAIN pool.files = 1..Len(pool.files)
      /\ "extension" \in Kinds
  BY PoolTyped DEF Job, Offsets, Within, Kinds
<1>2. /\ back \in Pool /\ Len(back.files) = j.off.file
      /\ Len(back.tables["extension"]) = j.off.table["extension"]
      /\ \A f \in 1..j.off.file : back.files[f] = pool.files[f]
  BY <1>1, RolledBackParts
<1>3. KeepsUpTo(pool, back, j.off)
  BY <1>1, RolledBackKeeps
<1> HIDE DEF back
<1>4. DOMAIN back.files = 1..j.off.file /\ 1..j.off.file \subseteq DOMAIN pool.files
  BY <1>1, <1>2, PoolTyped
<1>5. FilesOffered(back)
  BY <1>2, <1>4 DEF FilesOffered, BuildReasoned
<1>6. Closed(back, j.off.file) /\ Extending(back, j.off.table["extension"])
  BY <1>3, FirstKept DEF BuildReasoned
<1> QED BY <1>2, <1>5, <1>6 DEF SettledReasoned, back

\* The empty pool has nothing to give a reason for.
LEMMA EmptyReasoned == SettledReasoned(EmptyPool)
<1>1. /\ EmptyPool.files = << >> /\ EmptyPool.tables["extension"] = << >>
  BY DEF EmptyPool, Kinds
<1> QED BY <1>1 DEF SettledReasoned, FilesOffered, Closed, Extending

-----------------------------------------------------------------------------
(* Steps.                                                                  *)

\* A handle that the step leaves alone keeps its reasons.
LEMMA SameReasoned ==
  ASSUME AllReasoned, NEW f \in Handles, NEW g \in Handles, Same(f, g)
  PROVE  Reasoned(heap'[arc'[g]], job'[g])
<1>1. Reasoned(heap[arc[f]], job[f])
  BY DEF AllReasoned, Same, Contents
<1>2. CASE job'[g] = job[f]
  BY <1>1, <1>2 DEF Same
<1>3. CASE job'[g].phase = "idle" /\ job[f].phase = "idle"
  BY <1>1, <1>3 DEF Same, Reasoned
<1> QED BY <1>2, <1>3 DEF Same

\* The inductive invariant of the refusals.
RefusalInv == RegistryInv /\ AllReasoned

\* After the step, what handle h holds has its reasons.
Explained(h) == arc'[h] # NoArc => Reasoned(heap'[arc'[h]], job'[h])

\* A step of one handle keeps the invariant when it keeps the reasons of that handle.
LEMMA ExplainedKeeps ==
  ASSUME RefusalInv, RegistryInv', NEW h \in Handles, Untouched(h), Explained(h)
  PROVE  RefusalInv'
<1>1. ASSUME NEW g \in Handles, arc'[g] # NoArc
      PROVE  Reasoned(heap'[arc'[g]], job'[g])
  <2>1. CASE g = h
    BY <1>1, <2>1 DEF Explained
  <2>2. CASE g # h
    BY <1>1, <2>2, SameReasoned DEF Untouched, RefusalInv
  <2> QED BY <2>1, <2>2
<1> QED BY <1>1 DEF RefusalInv, AllReasoned, Live, Contents

\* What is known of a build whose handle takes a step.
LEMMA BuildHasReasons ==
  ASSUME RefusalInv, NEW h \in Handles, job[h].phase \notin {"idle", "panicked"}
  PROVE  /\ ContentsInv /\ RegistryInv
         /\ BuildReasoned(Contents(h), job[h])
         /\ RowsDescribed(Contents(h), job[h]) /\ Resolving(Contents(h), job[h])
         /\ Contents(h) \in Pool /\ job[h] \in Job /\ arc[h] \in Arcs
         /\ Within(job[h].off, Contents(h)) /\ Unique(h)
         /\ Undoable(Contents(h), job[h]) /\ Growing(Contents(h), job[h])
<1>1. ContentsInv /\ RegistryInv
  BY DEF RefusalInv, RegistryInv
<1>2. Live(h)
  BY <1>1, AloneMeans DEF ContentsInv, IInv, Live
<1>3. BuildReasoned(Contents(h), job[h])
  BY <1>2 DEF RefusalInv, AllReasoned, Reasoned
<1> QED BY <1>1, <1>3, BuildMeans, BuildAccounted DEF Accounted

\* A step of a build.
LEMMA BuildExplained ==
  ASSUME ContentsInv, NEW h \in Handles, job[h].phase # "idle", NEW pool \in Pool, NEW j,
         arc' = arc, heap' = [heap EXCEPT ![arc[h]] = pool], job' = [job EXCEPT ![h] = j],
         rolledBack \subseteq rolledBack', Reasoned(pool, j)
  PROVE  Explained(h)
BY BuildUntouched DEF Explained

\* A step of a build that leaves the contents alone.
LEMMA QuietExplained ==
  ASSUME ContentsInv, NEW h \in Handles, job[h].phase # "idle", NEW j,
         UNCHANGED <<arc, heap, rolledBack>>, job' = [job EXCEPT ![h] = j],
         Reasoned(Contents(h), j)
  PROVE  Explained(h)
<1>1. arc[h] \in Arcs /\ Contents(h) \in Pool
  BY BuildMeans
<1>2. heap' = [heap EXCEPT ![arc[h]] = Contents(h)]
  BY <1>1 DEF ContentsInv, IInv, Typed, Contents
<1> QED BY <1>1, <1>2, BuildExplained

\* Skipping a file keeps the reasons.
LEMMA SkipFileExplained ==
  ASSUME RefusalInv, NEW h \in Handles, SkipFile(h)
  PROVE  Explained(h)
<1> DEFINE q == Tail(job[h].queue)
           j == [job[h] EXCEPT !.queue = q]
<1>1. /\ job[h].phase = "declare" /\ job[h].queue # << >>
      /\ UNCHANGED <<arc, heap, rolledBack>> /\ job' = [job EXCEPT ![h] = j]
  BY DEF SkipFile
<1>2. /\ ContentsInv /\ job[h] \in Job /\ BuildReasoned(Contents(h), job[h])
  BY <1>1, BuildHasReasons
<1>3. j = [job[h] EXCEPT !.queue = q] /\ q = Tail(job[h].queue)
  OBVIOUS
<1> HIDE DEF q, j
<1>4. /\ j.phase = job[h].phase /\ j.off = job[h].off /\ j.failed = job[h].failed
      /\ j.queue = q
  BY <1>2, <1>3 DEF Job
<1>5. BuildReasoned(Contents(h), j)
  BY <1>1, <1>2, <1>3, <1>4, SkipReasoned
<1>6. Reasoned(Contents(h), j)
  BY <1>1, <1>4, <1>5 DEF Reasoned
<1> QED BY <1>1, <1>2, <1>6, QuietExplained

\* A panic keeps the reasons.
LEMMA UnknownSyntaxExplained ==
  ASSUME RefusalInv, NEW h \in Handles, UnknownSyntax(h)
  PROVE  Explained(h)
<1> DEFINE j == [job[h] EXCEPT !.phase = "panicked"]
<1>1. /\ job[h].phase = "declare"
      /\ UNCHANGED <<arc, heap, rolledBack>> /\ job' = [job EXCEPT ![h] = j]
  BY DEF UnknownSyntax
<1>2. ContentsInv /\ job[h] \in Job
  BY <1>1, BuildHasReasons
<1>3. j.phase = "panicked"
  BY <1>2 DEF Job
<1> HIDE DEF j
<1>4. Reasoned(Contents(h), j)
  BY <1>3 DEF Reasoned
<1> QED BY <1>1, <1>2, <1>4, QuietExplained

\* Interpreting the options of a file keeps the reasons.
LEMMA OptionsFileExplained ==
  ASSUME PublicImportsEnd, RefusalInv, NEW h \in Handles, OptionsFile(h)
  PROVE  Explained(h)
<1> DEFINE f == job[h].at
           n == f + 1
           b == job[h].failed \/ OptionsFail(Contents(h), f)
           j == [job[h] EXCEPT !.at = n, !.failed = b]
<1>1. /\ job[h].phase = "options" /\ f <= Len(Contents(h).files) /\ f # 0
      /\ UNCHANGED <<arc, heap, rolledBack>> /\ job' = [job EXCEPT ![h] = j]
  BY DEF OptionsFile, OptionsVisited, MoreFiles, RefusalInv, RegistryInv, ContentsInv, IInv, VisitsFiles
<1>2. /\ ContentsInv /\ job[h] \in Job /\ Contents(h) \in Pool
      /\ BuildReasoned(Contents(h), job[h]) /\ RowsDescribed(Contents(h), job[h])
      /\ Within(job[h].off, Contents(h)) /\ Growing(Contents(h), job[h])
  BY <1>1, BuildHasReasons
<1>3. f \in DOMAIN Contents(h).files
  BY <1>1, <1>2, PoolTyped DEF Job
<1>4. n \in Nat /\ n = f + 1 /\ b \in BOOLEAN /\ b = (job[h].failed \/ OptionsFail(Contents(h), f))
  BY <1>2 DEF Job
<1>5. j = [job[h] EXCEPT !.at = n, !.failed = b]
  OBVIOUS
<1> HIDE DEF n, b, j
<1>6. /\ j \in Job /\ j.phase = "options" /\ j.off = job[h].off /\ j.failed = b
      /\ j.at = n /\ j.queue = job[h].queue
  BY <1>1, <1>2, <1>4, <1>5 DEF Job
<1>7. BuildReasoned(Contents(h), j)
  <2> DEFINE pool == Contents(h)
             old == job[h]
  <2>1. /\ pool \in Pool /\ old \in Job /\ j \in Job /\ Within(old.off, pool)
        /\ Growing(pool, old) /\ RowsDescribed(pool, old) /\ BuildReasoned(pool, old)
        /\ old.phase = "options" /\ old.at \in DOMAIN pool.files /\ j.phase = "options"
        /\ j.off = old.off /\ j.queue = old.queue /\ j.at = old.at + 1
        /\ j.failed = (old.failed \/ OptionsFail(pool, old.at))
    BY <1>1, <1>2, <1>3, <1>4, <1>6
  <2> HIDE DEF pool, old
  <2>2. BuildReasoned(pool, j)
    BY <2>1, OptionsReasoned
  <2> QED BY <2>2 DEF pool
<1>8. Reasoned(Contents(h), j)
  BY <1>6, <1>7 DEF Reasoned
<1> QED BY <1>1, <1>2, <1>8, QuietExplained

\* Ending a phase keeps the reasons.
LEMMA EndPhaseExplained ==
  ASSUME RefusalInv, NEW h \in Handles, EndPhase(h)
  PROVE  Explained(h)
<1> DEFINE phase == IF job[h].failed THEN "rollback" ELSE NextPhase[job[h].phase]
           from == job[h].off.file + 1
           j == [job[h] EXCEPT !.phase = IF job[h].failed THEN "rollback" ELSE NextPhase[@],
                               !.at = from]
<1>1. /\ job[h].phase \in {"declare", "resolve", "options"} /\ ~MoreFiles(h)
      /\ UNCHANGED <<arc, heap, rolledBack>> /\ job' = [job EXCEPT ![h] = j]
  BY DEF EndPhase, NextPhase
<1>2. ContentsInv /\ job[h] \in Job /\ BuildReasoned(Contents(h), job[h])
  BY <1>1, BuildHasReasons
<1>3. job[h].phase = "declare" => job[h].queue = << >>
  BY <1>1 DEF MoreFiles
<1>4. phase \in Phases /\ phase \notin {"idle", "panicked"} /\ from \in Nat
  BY <1>1, <1>2 DEF Phases, NextPhase, Job, Offsets
<1>5. /\ j = [job[h] EXCEPT !.phase = phase, !.at = from] /\ from = job[h].off.file + 1
      /\ phase = IF job[h].failed THEN "rollback" ELSE NextPhase[job[h].phase]
  OBVIOUS
<1> HIDE DEF phase, from, j
<1>6. /\ j \in Job /\ j.phase = phase /\ j.off = job[h].off /\ j.failed = job[h].failed
      /\ j.at = from /\ j.queue = job[h].queue
  BY <1>2, <1>4, <1>5 DEF Job
<1>7. BuildReasoned(Contents(h), j)
  <2> DEFINE pool == Contents(h)
             old == job[h]
  <2>1. /\ old \in Job /\ j \in Job /\ BuildReasoned(pool, old)
        /\ old.phase \in {"declare", "resolve", "options"}
        /\ (old.phase = "declare" => old.queue = << >>)
        /\ j.phase = (IF old.failed THEN "rollback" ELSE NextPhase[old.phase])
        /\ j.at = old.off.file + 1 /\ j.off = old.off /\ j.queue = old.queue
        /\ j.failed = old.failed
    BY <1>1, <1>2, <1>3, <1>5, <1>6
  <2> HIDE DEF pool, old
  <2>2. BuildReasoned(pool, j)
    BY <2>1, EndReasoned
  <2> QED BY <2>2 DEF pool
<1>8. Reasoned(Contents(h), j)
  BY <1>4, <1>6, <1>7 DEF Reasoned
<1> QED BY <1>1, <1>2, <1>8, QuietExplained

\* Declaring a file keeps the reasons.
LEMMA DeclareFileExplained ==
  ASSUME RefusalInv, NEW h \in Handles, DeclareFile(h)
  PROVE  Explained(h)
<1> DEFINE p == Head(job[h].queue)
           old == Contents(h)
           pool == Declared(old, p, Base(h))
           q == Tail(job[h].queue)
           n == [k \in Deferred |-> job[h].ahead[k] + Len(p.decls[k])]
           b == job[h].failed \/ DeclareFails(old, p, Base(h))
           j == [job[h] EXCEPT !.queue = q, !.ahead = n, !.failed = b]
<1>1. /\ job[h].phase = "declare" /\ job[h].queue # << >>
      /\ ~AlreadyIn(old, job[h].off, p)
      /\ arc' = arc /\ rolledBack' = rolledBack
      /\ heap' = [heap EXCEPT ![arc[h]] = Declared(@, p, Base(h))]
      /\ job' = [job EXCEPT ![h] = j]
  BY DEF DeclareFile
<1>2. /\ ContentsInv /\ job[h] \in Job /\ arc[h] \in Arcs /\ old \in Pool
      /\ BuildReasoned(old, job[h]) /\ RowsDescribed(old, job[h])
      /\ Within(job[h].off, old) /\ Undoable(old, job[h]) /\ Growing(old, job[h])
  BY <1>1, BuildHasReasons
<1>3. heap' = [heap EXCEPT ![arc[h]] = pool]
  BY <1>1, <1>2 DEF Contents, ContentsInv, IInv, Typed
<1>4. p \in Proto /\ q \in Seq(Proto) /\ p = Head(job[h].queue) /\ q = Tail(job[h].queue)
  BY <1>1, <1>2 DEF Job
<1>5. Base(h) \in [Kinds -> Nat]
  <2>1. \A k \in Kinds : Len(old.tables[k]) \in Nat
    BY <1>2, PoolTyped
  <2>2. \A k \in Deferred : job[h].ahead[k] \in Nat
    BY <1>2 DEF Job
  <2> QED BY <2>1, <2>2 DEF Base
<1>6. n \in [Deferred -> Nat]
  <2>1. \A k \in Deferred : Len(p.decls[k]) \in Nat
    BY <1>4, ProtoTyped DEF Kinds, Deferred
  <2>2. \A k \in Deferred : job[h].ahead[k] \in Nat
    BY <1>2 DEF Job
  <2> HIDE DEF p
  <2> QED BY <2>1, <2>2
<1>7. b \in BOOLEAN /\ b = (job[h].failed \/ DeclareFails(old, p, Base(h)))
  BY <1>2 DEF Job
<1>8. j = [job[h] EXCEPT !.queue = q, !.ahead = n, !.failed = b]
  OBVIOUS
<1>9. pool = Declared(old, p, Base(h)) /\ pool \in Pool
  BY <1>2, <1>4, <1>5, DeclaredTyped
<1> HIDE DEF p, q, n, b, j, pool, old
<1>10. /\ j \in Job /\ j.off = job[h].off /\ j.phase = "declare" /\ j.failed = b
       /\ j.queue = q
  BY <1>1, <1>2, <1>4, <1>6, <1>7, <1>8 DEF Job
<1>11. BuildReasoned(pool, j)
  <2> DEFINE i == job[h]
             base == Base(h)
  <2>1. /\ old \in Pool /\ base \in [Kinds -> Nat] /\ p \in Proto /\ i \in Job /\ j \in Job
        /\ Within(i.off, old) /\ Undoable(old, i) /\ Growing(old, i) /\ RowsDescribed(old, i)
        /\ BuildReasoned(old, i) /\ i.phase = "declare" /\ i.queue # << >>
        /\ p = Head(i.queue) /\ ~AlreadyIn(old, i.off, p)
        /\ j.phase = "declare" /\ j.off = i.off /\ j.queue = Tail(i.queue)
        /\ j.failed = (i.failed \/ DeclareFails(old, p, base))
        /\ pool = Declared(old, p, base)
    BY <1>1, <1>2, <1>4, <1>5, <1>7, <1>9, <1>10
  <2> HIDE DEF i, base
  <2> QED BY <2>1, DeclareReasoned
<1>12. Reasoned(pool, j)
  BY <1>10, <1>11 DEF Reasoned
<1> QED BY <1>1, <1>2, <1>3, <1>9, <1>12, BuildExplained

\* Resolving a file keeps the reasons.
LEMMA ResolveFileExplained ==
  ASSUME PublicImportsEnd, RefusalInv, NEW h \in Handles, ResolveFile(h)
  PROVE  Explained(h)
<1> DEFINE old == Contents(h)
           f == job[h].at
           pool == Resolved(old, f)
           n == f + 1
           b == job[h].failed \/ ResolveFails(old, f)
           j == [job[h] EXCEPT !.at = n, !.failed = b]
<1>1. /\ job[h].phase = "resolve" /\ f <= Len(old.files) /\ f # 0
      /\ arc' = arc /\ rolledBack' = rolledBack
      /\ heap' = [heap EXCEPT ![arc[h]] = Resolved(@, f)]
      /\ job' = [job EXCEPT ![h] = j]
  BY DEF ResolveFile, MoreFiles, RefusalInv, RegistryInv, ContentsInv, IInv, VisitsFiles
<1>2. /\ ContentsInv /\ job[h] \in Job /\ arc[h] \in Arcs /\ old \in Pool /\ f \in Nat
      /\ BuildReasoned(old, job[h]) /\ RowsDescribed(old, job[h])
      /\ Within(job[h].off, old) /\ Growing(old, job[h])
  BY <1>1, BuildHasReasons DEF Job
<1>3. heap' = [heap EXCEPT ![arc[h]] = pool]
  BY <1>1, <1>2 DEF Contents, ContentsInv, IInv, Typed
<1>4. f \in DOMAIN old.files
  BY <1>1, <1>2, PoolTyped
<1>5. pool \in Pool /\ pool = Resolved(old, f)
  BY <1>2, <1>4, ResolvedTyped
<1>6. n \in Nat /\ n = f + 1 /\ b \in BOOLEAN /\ b = (job[h].failed \/ ResolveFails(old, f))
  BY <1>2 DEF Job
<1>7. j = [job[h] EXCEPT !.at = n, !.failed = b]
  OBVIOUS
<1> HIDE DEF n, b, j, pool, old
<1>8. /\ j \in Job /\ j.off = job[h].off /\ j.phase = "resolve" /\ j.failed = b
      /\ j.at = n /\ j.queue = job[h].queue
  BY <1>1, <1>2, <1>6, <1>7 DEF Job
<1>9. BuildReasoned(pool, j)
  <2> DEFINE i == job[h]
  <2>1. /\ old \in Pool /\ i \in Job /\ j \in Job /\ Within(i.off, old) /\ Growing(old, i)
        /\ RowsDescribed(old, i) /\ BuildReasoned(old, i) /\ i.phase = "resolve"
        /\ i.at \in DOMAIN old.files /\ j.phase = "resolve" /\ j.off = i.off
        /\ j.queue = i.queue /\ j.at = i.at + 1
        /\ j.failed = (i.failed \/ ResolveFails(old, i.at))
        /\ pool = Resolved(old, i.at)
    BY <1>1, <1>2, <1>4, <1>5, <1>6, <1>8
  <2> HIDE DEF i
  <2> QED BY <2>1, ResolveReasoned
<1>10. Reasoned(pool, j)
  BY <1>8, <1>9 DEF Reasoned
<1> QED BY <1>1, <1>2, <1>3, <1>5, <1>10, BuildExplained

\* A build that commits leaves a pool that has its reasons.
LEMMA CommitExplained ==
  ASSUME RefusalInv, VisitsClosed, NEW h \in Handles, Commit(h)
  PROVE  Explained(h)
<1> DEFINE old == Contents(h)
           off == job[h].off
           pool == Committed(old, off)
<1>1. /\ job[h].phase = "commit" /\ GetMut(h, pool)
      /\ arc' = arc /\ rolledBack' = rolledBack
  BY DEF Commit
<1>2. /\ ContentsInv /\ job[h] \in Job /\ off \in Offsets /\ old \in Pool /\ Within(off, old)
      /\ BuildReasoned(old, job[h]) /\ Resolving(old, job[h]) /\ Unique(h) /\ ~job[h].failed
  BY <1>1, BuildHasReasons, BuildMeans
<1>3. heap' = [heap EXCEPT ![arc[h]] = pool] /\ job' = [job EXCEPT ![h] = Idle]
  BY <1>1, <1>2, SoleWhenClosed DEF GetMut, ContentsInv
<1>4. pool \in Pool
  BY <1>2, CommittedTyped
<1>5. SettledReasoned(pool)
  <2> HIDE DEF old
  <2> QED BY <1>1, <1>2, CommitReasoned
<1> HIDE DEF pool
<1>6. Reasoned(pool, Idle)
  BY <1>5, IdleTyped DEF Reasoned
<1> QED BY <1>1, <1>2, <1>3, <1>4, <1>6, BuildExplained

\* A build that is undone leaves a pool that has its reasons.
LEMMA RollbackExplained ==
  ASSUME RefusalInv, VisitsClosed, NEW h \in Handles, Rollback(h)
  PROVE  Explained(h)
<1> DEFINE old == Contents(h)
           off == job[h].off
           pool == RolledBack(old, off)
<1>1. /\ job[h].phase = "rollback" /\ GetMut(h, pool)
      /\ arc' = arc /\ rolledBack \subseteq rolledBack'
  BY DEF Rollback
<1>2. /\ ContentsInv /\ job[h] \in Job /\ off \in Offsets /\ old \in Pool /\ Within(off, old)
      /\ BuildReasoned(old, job[h]) /\ Unique(h)
  BY <1>1, BuildHasReasons, BuildMeans
<1>3. heap' = [heap EXCEPT ![arc[h]] = pool] /\ job' = [job EXCEPT ![h] = Idle]
  BY <1>1, <1>2, SoleWhenClosed DEF GetMut, ContentsInv
<1>4. pool \in Pool
  BY <1>2, RolledBackTyped
<1>5. SettledReasoned(pool)
  <2> HIDE DEF old
  <2> QED BY <1>1, <1>2, RollbackReasoned
<1> HIDE DEF pool
<1>6. Reasoned(pool, Idle)
  BY <1>5, IdleTyped DEF Reasoned
<1> QED BY <1>1, <1>2, <1>3, <1>4, <1>6, BuildExplained

\* Beginning a build, with the copy it may make, keeps the reasons.
LEMMA StartBuildExplained ==
  ASSUME RefusalInv, NEW h \in Handles, NEW batch \in Batches, StartBuild(h, batch)
  PROVE  Explained(h)
<1> DEFINE old == Contents(h)
           off == OffsetsOf(old)
           j == [phase |-> "declare", queue |-> batch, off |-> off, at |-> 0,
                 ahead |-> [k \in Deferred |-> off.table[k]], failed |-> FALSE]
<1>1. /\ arc[h] # NoArc /\ job[h].phase = "idle" /\ MakeMut(h) /\ ContentsInv
      /\ job' = [job EXCEPT ![h] = j]
  BY DEF StartBuild, Live, RefusalInv, RegistryInv
<1>2. arc[h] \in Arcs /\ old \in Pool
  BY <1>1 DEF ContentsInv, IInv, Typed, Contents
<1>3. j.phase = "declare" /\ j.queue = batch /\ ~j.failed /\ j.off = off
  OBVIOUS
<1> HIDE DEF j
<1>4. SettledReasoned(old)
  BY <1>1 DEF RefusalInv, AllReasoned, Live, Reasoned
<1>5. BuildReasoned(old, j)
  <2> HIDE DEF old
  <2> QED BY <1>2, <1>3, <1>4, StartReasoned
<1>6. Reasoned(old, j)
  BY <1>3, <1>5 DEF Reasoned
<1>7. PICK a \in Arcs : arc' = [arc EXCEPT ![h] = a] /\ heap' = [heap EXCEPT ![a] = old]
  <2>1. CASE Unique(h)
    <3>1. arc' = arc /\ heap' = heap
      BY <1>1, <2>1 DEF MakeMut
    <3>2. arc' = [arc EXCEPT ![h] = arc[h]] /\ heap' = [heap EXCEPT ![arc[h]] = old]
      BY <1>1, <1>2, <3>1 DEF ContentsInv, IInv, Typed, Contents
    <3> QED BY <1>2, <3>2
  <2>2. CASE ~Unique(h)
    BY <1>1, <2>2 DEF MakeMut, Free
  <2> QED BY <2>1, <2>2
<1>8. heap'[arc'[h]] = old /\ job'[h] = j
  <2> HIDE DEF old
  <2> QED BY <1>1, <1>7 DEF ContentsInv, IInv, Typed
<1> QED BY <1>6, <1>8 DEF Explained

\* A new pool has its reasons.
LEMMA NewExplained ==
  ASSUME RefusalInv, NEW h \in Handles, New(h)
  PROVE  Explained(h)
<1>1. PICK a \in Arcs : arc' = [arc EXCEPT ![h] = a] /\ heap' = [heap EXCEPT ![a] = EmptyPool]
  BY DEF New, Free
<1>2. arc[h] = NoArc /\ job' = job /\ ContentsInv
  BY DEF New, Live, RefusalInv, RegistryInv
<1>3. job[h].phase = "idle"
  BY <1>2, AloneMeans DEF ContentsInv, IInv
<1>4. heap'[arc'[h]] = EmptyPool /\ job'[h] = job[h]
  BY <1>1, <1>2 DEF ContentsInv, IInv, Typed
<1>5. Reasoned(EmptyPool, job[h])
  BY <1>3, EmptyReasoned DEF Reasoned
<1> QED BY <1>4, <1>5 DEF Explained

\* A clone has the reasons of the pool it shares.
LEMMA CloneExplained ==
  ASSUME RefusalInv, NEW h \in Handles, NEW f \in Handles, Clone(f, h)
  PROVE  Explained(h)
<1>1. /\ arc[f] # NoArc /\ job[f].phase = "idle" /\ arc[h] = NoArc
      /\ arc' = [arc EXCEPT ![h] = arc[f]]
      /\ heap' = heap /\ job' = job /\ rolledBack' = rolledBack /\ ContentsInv
  BY DEF Clone, Live, RefusalInv, RegistryInv
<1>2. job[h].phase = "idle"
  BY <1>1, AloneMeans DEF ContentsInv, IInv
<1>3. Same(f, h)
  BY <1>1, <1>2 DEF Same, Live, ContentsInv, IInv, Typed
<1> QED BY <1>3, SameReasoned DEF RefusalInv, Explained

\* A handle that is dropped holds nothing.
LEMMA ReleaseExplained ==
  ASSUME RefusalInv, NEW h \in Handles, Release(h)
  PROVE  Explained(h)
<1>1. arc'[h] = NoArc
  BY DEF Release, RefusalInv, RegistryInv, ContentsInv, IInv, Typed
<1> QED BY <1>1 DEF Explained

-----------------------------------------------------------------------------
(* Refusals.                                                               *)

\* The invariant holds initially.
LEMMA RefusalInit == Init => RefusalInv
<1>1. Init => \A h \in Handles : arc[h] = NoArc
  BY DEF Init
<1> QED BY <1>1, RegistryInit DEF RefusalInv, AllReasoned, Live

\* Every step keeps the invariant.
LEMMA RefusalNext ==
  ASSUME PublicImportsEnd, RefusalInv, VisitsClosed, [Next]_vars
  PROVE  RefusalInv'
<1>1. RegistryInv /\ RegistryInv'
  BY RegistryNext DEF RefusalInv
<1>2. CASE UNCHANGED <<arc, heap, job, rolledBack>>
  <2>1. arc' = arc /\ heap' = heap /\ job' = job
    BY <1>2
  <2> QED BY <1>1, <2>1 DEF RefusalInv, AllReasoned, Live, Contents
<1>5. ASSUME NEW h \in Handles, Allowed(h), Explained(h)
      PROVE  RefusalInv'
  BY <1>1, <1>5, ExplainedKeeps DEF Allowed
<1>3. CASE UNCHANGED vars
  BY <1>2, <1>3 DEF vars
<1>4. CASE \E h \in Handles : OpenOptions(h) \/ SetOption(h)
  BY <1>2, <1>4, VisitStep
<1>6. CASE Next /\ ~\E h \in Handles : OpenOptions(h) \/ SetOption(h)
  <2>1. PICK h \in Handles :
          \/ New(h) \/ Drop(h) \/ \E g \in Handles : Clone(g, h)
          \/ \E batch \in Batches : StartBuild(h, batch)
          \/ SkipFile(h) \/ DeclareFile(h) \/ UnknownSyntax(h)
          \/ ResolveFile(h) \/ OptionsFile(h) \/ EndPhase(h)
          \/ Commit(h) \/ Rollback(h) \/ Unwind(h)
    BY <1>6 DEF Next
  <2>2. Allowed(h)
    BY <1>1, <2>1, NewAllowed, DropAllowed, CloneAllowed, StartBuildAllowed, SkipFileAllowed,
       DeclareFileAllowed, UnknownSyntaxAllowed, ResolveFileAllowed, OptionsFileAllowed,
       EndPhaseAllowed, CommitAllowed, RollbackAllowed, UnwindAllowed
  <2>3. Drop(h) \/ Unwind(h) => Release(h)
    BY DEF Drop, Unwind
  <2>4. Explained(h)
    BY <2>1, <2>3, NewExplained, ReleaseExplained, CloneExplained, StartBuildExplained,
       SkipFileExplained, DeclareFileExplained, UnknownSyntaxExplained, ResolveFileExplained,
       OptionsFileExplained, EndPhaseExplained, CommitExplained, RollbackExplained
  <2> QED BY <1>5, <2>2, <2>4
<1> QED BY <1>6, <1>3, <1>4

\* Appending to nothing the m files of g gives them.
LEMMA NothingAppended ==
  ASSUME NEW m \in Nat, NEW g \in [1..m -> Proto]
  PROVE  << >> \o g = g
<1>1. g \in Seq(Proto)
  OBVIOUS
<1> QED BY <1>1

\* What a build that is undone has added is the batch, and it is not well formed.
LEMMA NotWellFormed ==
  ASSUME NEW pool \in Pool, NEW off \in Offsets, Within(off, pool), Fresh(pool, off),
         Clashing(pool, off) \/ Unresolved(pool, off)
  PROVE  ~Registry!WellFormed(ProtosUpTo(pool, off.file),
             << >> \o [i \in 1..(Len(pool.files) - off.file) |-> pool.files[off.file + i].raw])
<1> DEFINE n == off.file
           size == Len(pool.files)
           added == [i \in 1..(size - n) |-> pool.files[n + i].raw]
           b == << >> \o added
           before == ProtosUpTo(pool, n)
           new == Registry!NewPositions(before, b)
           files == Registry!NewFiles(before, b)
<1>1. /\ n \in Nat /\ size \in Nat /\ n <= size /\ size - n \in Nat
      /\ DOMAIN pool.files = 1..size
  BY PoolTyped DEF Offsets, Within
<1>2. \A i \in 1..(size - n) : pool.files[n + i].raw \in Proto
  <2>1. \A i \in 1..(size - n) : n + i \in DOMAIN pool.files
    BY <1>1
  <2> QED BY <2>1, PoolTyped
<1>3. b = added
  <2>1. added \in [1..(size - n) -> Proto]
    BY ONLY <1>2
  <2> HIDE DEF added, size
  <2> QED BY ONLY <1>1, <2>1, NothingAppended
<1>4. DOMAIN b = 1..(size - n) /\ \A i \in 1..(size - n) : b[i] = pool.files[n + i].raw
  BY <1>3
<1> HIDE DEF b, added
<1>5. \A f \in (n + 1)..size : f - n \in 1..(size - n) /\ b[f - n] = pool.files[f].raw
  <2>1. \A f \in (n + 1)..size : f - n \in 1..(size - n) /\ n + (f - n) = f
    BY <1>1
  <2> QED BY <1>4, <2>1
<1>6. new = 1..(size - n)
  <2>1. ASSUME NEW i \in 1..(size - n) PROVE Registry!FileOf(before, b[i].name) = {}
    <3>1. n + i \in (n + 1)..size
      BY <1>1
    <3>2. \A g \in 1..n : pool.files[g].raw.name # b[i].name
      BY <1>4, <3>1 DEF Fresh
    <3> QED BY <3>2 DEF Registry!FileOf, ProtosUpTo
  <2> QED BY <1>4, <2>1 DEF Registry!NewPositions
<1>7. before \cup files = Protos(pool)
  <2>1. files = { b[i] : i \in 1..(size - n) }
    BY <1>6 DEF Registry!NewFiles
  <2>2. \A i \in 1..(size - n) : n + i \in 1..size /\ b[i] = pool.files[n + i].raw
    BY <1>1, <1>4
  <2>3. \A f \in 1..size : f \in 1..n \/ f \in (n + 1)..size
    BY <1>1
  <2>4. 1..n \subseteq 1..size
    BY <1>1
  <2> HIDE DEF files
  <2> QED BY <1>5, <2>1, <2>2, <2>3, <2>4 DEF Protos, ProtosUpTo
<1>8. \A f \in (n + 1)..size : pool.files[f].raw \in files
  BY <1>5, <1>6 DEF Registry!NewFiles
<1>9. Registry!WellFormed(before, b) =>
        /\ \A i, k \in new : b[i].name = b[k].name => i = k
        /\ Registry!NamesDistinct(before \cup files)
        /\ \A p \in files : Registry!ReferencesResolve(before \cup files, p)
  BY DEF Registry!WellFormed
<1> HIDE DEF new, files, before
<1>10. ~Registry!WellFormed(before, b)
  <2>1. CASE \E f, g \in (n + 1)..size : f # g /\ pool.files[f].raw.name = pool.files[g].raw.name
    <3>1. PICK f, g \in (n + 1)..size : f # g /\ pool.files[f].raw.name = pool.files[g].raw.name
      BY <2>1
    <3>2. f - n # g - n
      BY <1>1, <3>1
    <3> QED BY <1>5, <1>6, <1>9, <3>1, <3>2
  <2>2. CASE ~Registry!NamesDistinct(Protos(pool))
    BY <1>7, <1>9, <2>2
  <2>3. CASE Unresolved(pool, off)
    BY <1>7, <1>8, <1>9, <2>3 DEF Unresolved
  <2> QED BY <2>1, <2>2, <2>3 DEF Clashing
<1> QED BY <1>10 DEF b, added, before

\* When no file offered imports publicly one that does so too, a batch is refused only if it
\* is not closed under its references by the rules of PoolRegistry: the errors that
\* build_files collects in its three phases have no other cause, whatever the order of the
\* batch, what the pool held, which builds failed before, and what other handles do.
THEOREM RefusalsAreRight ==
  ASSUME PublicImportsEnd
  PROVE  Spec => []OnlyInvalidBatchesRefused
<1>1. Init => RefusalInv
  BY RefusalInit
<1>2. RefusalInv /\ VisitsClosed /\ [Next]_vars => RefusalInv'
  BY RefusalNext
<1>3. SafeInv => VisitsClosed
  BY DEF SafeInv
<1>4. RefusalInv => OnlyInvalidBatchesRefused
  <2> SUFFICES ASSUME RefusalInv, NEW h \in Handles, job[h].phase = "rollback"
               PROVE  LET n == job[h].off.file
                          pool == Contents(h)
                      IN  ~Registry!WellFormed(ProtosUpTo(pool, n),
                             job[h].queue \o [i \in 1..(Len(pool.files) - n) |->
                                                 pool.files[n + i].raw])
    BY DEF OnlyInvalidBatchesRefused
  <2>1. /\ Contents(h) \in Pool /\ job[h].off \in Offsets /\ Within(job[h].off, Contents(h))
        /\ BuildReasoned(Contents(h), job[h])
    BY BuildHasReasons DEF Job
  <2>2. /\ job[h].queue = << >> /\ Fresh(Contents(h), job[h].off)
        /\ Clashing(Contents(h), job[h].off) \/ Unresolved(Contents(h), job[h].off)
    BY <2>1 DEF BuildReasoned, Invalid
  <2> QED BY <2>1, <2>2, NotWellFormed
<1> QED BY <1>1, <1>2, <1>4, <1>3, Inductive, PTL DEF Spec
=============================================================================
