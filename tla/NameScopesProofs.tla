--------------------------- MODULE NameScopesProofs ---------------------------
(***************************************************************************)
(* Proofs about NameScopes, for names of any depth and any number of files: *)
(* a reference resolves to what the scoping rule says of the files that    *)
(* its file sees.                                                          *)
(***************************************************************************)
EXTENDS NameScopes, SequenceTheorems, WellFoundedInduction, TLAPS

-----------------------------------------------------------------------------
(* Levels of a scope.                                                      *)

\* The innermost of some levels is one of them, and no other is further in.
LEMMA InnermostIs ==
  ASSUME NEW n \in Nat, NEW S \in SUBSET (0..n), S # {}
  PROVE  Innermost(S) \in S /\ \A j \in S : j <= Innermost(S)
<1> DEFINE T == { i \in 0..n : n - i \in S }
           R == { ss \in Nat \X Nat : ss[1] < ss[2] }
<1>1. IsWellFoundedOn({ ss \in Nat \X Nat : ss[1] < ss[2] }, Nat)
  BY NatLessThanWellFounded DEF OpToRel
<1>2. IsWellFoundedOn(R, Nat)
  BY <1>1
<1>3. PICK s \in S : TRUE
  OBVIOUS
<1>4. s \in 0..n /\ n - s \in 0..n /\ n - (n - s) = s
  BY <1>3
<1>5. n - s \in T
  BY <1>3, <1>4
<1>6. T \subseteq Nat /\ T # {}
  BY <1>5
<1>7. PICK x \in T : \A y \in T : <<y, x>> \notin R
  BY <1>2, <1>6, WFMin
<1>8. \A j \in S : j <= n - x
  <2> SUFFICES ASSUME NEW j \in S PROVE j <= n - x
    OBVIOUS
  <2>1. j \in 0..n /\ n - j \in 0..n /\ n - (n - j) = j
    OBVIOUS
  <2>2. n - j \in T
    BY <2>1
  <2>3. n - j \in Nat /\ x \in Nat
    BY <2>1
  <2>4. <<n - j, x>> \notin R
    BY <1>7, <2>2
  <2>5. ~(n - j < x)
    BY <2>3, <2>4
  <2> QED BY <2>1, <2>3, <2>5
<1>9. n - x \in S
  BY <1>7
<1>10. \E k \in S : \A j \in S : j <= k
  BY <1>8, <1>9
<1> QED BY <1>10 DEF Innermost

LEMMA PathsAreSequences ==
  ASSUME NEW p \in Paths
  PROVE  p \in Seq(Parts) /\ Len(p) \in Nat \ {0} /\ p[1] \in Parts /\ p # << >>
<1>1. PICK d \in 1..MaxDepth : p \in [1..d -> Parts]
  BY DEF Paths
<1>2. d \in Nat \ {0}
  BY <1>1, NamesAssumption
<1>3. p \in Seq(Parts) /\ Len(p) = d
  BY <1>1, <1>2, SeqDef
<1> QED BY <1>1, <1>2, <1>3

\* A parent with a name appended: how long it is, and that it begins with the parent
\* and the first part of the name.
LEMMA UnderParent ==
  ASSUME NEW scope \in Paths, NEW name \in Paths, NEW k \in Levels(scope)
  PROVE  /\ Parent(scope, k) \o name \in Seq(Parts)
         /\ Len(Parent(scope, k) \o name) = k + Len(name)
         /\ Append(Parent(scope, k), name[1]) = SubSeq(Parent(scope, k) \o name, 1, k + 1)
<1> DEFINE t == Parent(scope, k)
           u == t \o name
<1>1. scope \in Seq(Parts) /\ Len(scope) \in Nat /\ k \in 0..Len(scope) /\ k \in Nat
  BY PathsAreSequences DEF Levels
<1>2. name \in Seq(Parts) /\ Len(name) \in Nat \ {0} /\ name[1] \in Parts
  BY PathsAreSequences
<1>3. t \in Seq(Parts) /\ Len(t) = k
  BY <1>1 DEF Parent
<1> HIDE DEF t
<1>4. u \in Seq(Parts) /\ Len(u) = k + Len(name)
  BY <1>2, <1>3
<1>5. \A i \in 1..k + 1 : u[i] = Append(t, name[1])[i]
  BY <1>1, <1>2, <1>3
<1> HIDE DEF u
<1> DEFINE v == Append(t, name[1])
           w == SubSeq(u, 1, k + 1)
<1>6. v \in Seq(Parts) /\ Len(v) = k + 1
  BY <1>2, <1>3
<1>7. w \in Seq(Parts) /\ Len(w) = k + 1 /\ \A i \in 1..k + 1 : w[i] = u[i]
  BY <1>1, <1>2, <1>4
<1>8. \A i \in 1..k + 1 : v[i] = w[i]
  BY <1>5, <1>7
<1> HIDE DEF v, w
<1>9. v = w
  BY <1>6, <1>7, <1>8, SeqEqual
<1> QED BY <1>4, <1>9 DEF u, v, w, t

-----------------------------------------------------------------------------
(* The names of a pool.                                                    *)

\* The map has the names that some file declares; a name that is no package is of the
\* one file that declares it; and a file that declares a name declares every package
\* and declaration that holds it.
NamesInv ==
  /\ DOMAIN names = DOMAIN by /\ DOMAIN by \subseteq Paths /\ current \in Files
  /\ \A n \in DOMAIN by :
       /\ names[n].kind # "package" => by[n] = {names[n].file}
       /\ \A f \in by[n], i \in 1..Len(n) : Declares(f, SubSeq(n, 1, i))

\* What add_name does to the map and to the files that declare a name.
LEMMA AddNameIs ==
  ASSUME DOMAIN names = DOMAIN by, NEW n, NEW f, NEW kind, AddName(n, f, kind)
  PROVE  /\ DOMAIN names' = DOMAIN by' /\ DOMAIN by' = DOMAIN by \cup {n}
         /\ \A m \in DOMAIN by : m # n => by'[m] = by[m] /\ names'[m] = names[m]
         /\ n \in DOMAIN by => /\ by'[n] = by[n] \cup {f} /\ names'[n] = names[n]
                               /\ names[n].kind = "package"
         /\ n \notin DOMAIN by => by'[n] = {f} /\ names'[n] = [file |-> f, kind |-> kind]
<1>1. CASE n \in DOMAIN by
  <2>1. names' = names /\ names[n].kind = "package" /\ by' = Put(by, n, by[n] \cup {f})
    BY <1>1 DEF AddName
  <2>2. DOMAIN by' = DOMAIN by \cup {n} /\ by'[n] = by[n] \cup {f}
    BY <2>1 DEF Put
  <2>3. \A m \in DOMAIN by : m # n => by'[m] = by[m]
    BY <2>1 DEF Put
  <2> QED BY <1>1, <2>1, <2>2, <2>3
<1>2. CASE n \notin DOMAIN by
  <2> DEFINE d == [file |-> f, kind |-> kind]
  <2>1. names' = Put(names, n, d) /\ by' = Put(by, n, {f})
    BY <1>2 DEF AddName
  <2> HIDE DEF d
  <2>2. DOMAIN by' = DOMAIN by \cup {n} /\ by'[n] = {f}
    BY <2>1 DEF Put
  <2>3. \A m \in DOMAIN by : m # n => by'[m] = by[m]
    BY <2>1 DEF Put
  <2>4. DOMAIN names' = DOMAIN by \cup {n} /\ names'[n] = d
    BY <2>1 DEF Put
  <2>5. \A m \in DOMAIN by : m # n => names'[m] = names[m]
    BY <2>1 DEF Put
  <2> QED BY <1>2, <2>2, <2>3, <2>4, <2>5 DEF d
<1> QED BY <1>1, <1>2

\* A file that declares what holds a name declares all the name's beginnings.
LEMMA BeginningsDeclared ==
  ASSUME NamesInv, NEW n \in Paths, NEW kind, CanDeclare(n, current, kind),
         NEW i \in 1..Len(n), i # Len(n)
  PROVE  Declares(current, SubSeq(n, 1, i))
<1> DEFINE o == SubSeq(n, 1, Len(n) - 1)
<1>1. n \in Seq(Parts) /\ Len(n) \in Nat \ {0}
  BY PathsAreSequences
<1>a. Len(n) # 1
  <2> SUFFICES ASSUME Len(n) = 1 PROVE FALSE
    OBVIOUS
  <2>1. i \in 1..1
    OBVIOUS
  <2> QED BY <2>1
<1>2. Declares(current, o)
  BY <1>a DEF CanDeclare, Outer
<1>3. o \in Seq(Parts) /\ Len(o) = Len(n) - 1 /\ \A j \in 1..Len(o) : o[j] = n[j]
  BY <1>1
<1>4. i \in 1..Len(o)
  BY <1>1, <1>3
<1> HIDE DEF o
<1>5. Declares(current, SubSeq(o, 1, i))
  BY <1>2, <1>4 DEF NamesInv, Declares
<1> DEFINE v == SubSeq(o, 1, i)
           w == SubSeq(n, 1, i)
<1>6. v \in Seq(Parts) /\ Len(v) = i /\ \A j \in 1..i : v[j] = o[j]
  BY <1>3, <1>4
<1>7. w \in Seq(Parts) /\ Len(w) = i /\ \A j \in 1..i : w[j] = n[j]
  BY <1>1
<1>8. \A j \in 1..i : v[j] = w[j]
  BY <1>3, <1>4, <1>6, <1>7
<1> HIDE DEF v, w
<1>9. v = w
  BY <1>6, <1>7, <1>8, SeqEqual
<1> QED BY <1>5, <1>9 DEF v, w

LEMMA NamesStep == NamesInv /\ [Next]_vars => NamesInv'
<1> SUFFICES ASSUME NamesInv, [Next]_vars PROVE NamesInv'
  OBVIOUS
<1>1. ASSUME NEW n \in Paths, NEW kind \in Kinds, Declare(n, kind)
      PROVE  NamesInv'
  <2>1. /\ CanDeclare(n, current, kind) /\ AddName(n, current, kind)
        /\ DOMAIN names = DOMAIN by /\ current' = current
    BY <1>1 DEF Declare, NamesInv
  <2>2. DOMAIN names' = DOMAIN by' /\ DOMAIN by' = DOMAIN by \cup {n}
    BY <2>1, AddNameIs
  <2>3. \A m \in DOMAIN by : m # n => by'[m] = by[m] /\ names'[m] = names[m]
    BY <2>1, AddNameIs
  <2>4. n \in DOMAIN by => /\ by'[n] = by[n] \cup {current} /\ names'[n] = names[n]
                           /\ names[n].kind = "package"
    BY <2>1, AddNameIs
  <2>5. n \notin DOMAIN by => by'[n] = {current} /\ names'[n] = [file |-> current, kind |-> kind]
    BY ZenonT(60), <2>1, AddNameIs
  <2>6. \A m \in DOMAIN by : \A f \in by[m] : m \in DOMAIN by' /\ f \in by'[m]
    BY <2>2, <2>3, <2>4
  <2>7. \A m, f : Declares(f, m) => Declares(f, m)'
    BY <2>6 DEF Declares
  <2>8. Declares(current, n)'
    BY <2>2, <2>4, <2>5, <2>1 DEF Declares
  <2>9. \A i \in 1..Len(n) : Declares(current, SubSeq(n, 1, i))'
    <3> SUFFICES ASSUME NEW i \in 1..Len(n) PROVE Declares(current, SubSeq(n, 1, i))'
      BY <2>1
    <3>1. n \in Seq(Parts) /\ Len(n) \in Nat
      BY PathsAreSequences
    <3>2. CASE i = Len(n)
      <4>1. SubSeq(n, 1, i) = n
        BY <3>1, <3>2
      <4> QED BY <2>8, <4>1
    <3>3. CASE i # Len(n)
      BY <2>1, <2>7, <3>3, BeginningsDeclared
    <3> QED BY <3>2, <3>3
  <2>10. \A m \in DOMAIN by' : names'[m].kind # "package" => by'[m] = {names'[m].file}
    BY <2>2, <2>3, <2>4, <2>5 DEF NamesInv
  <2>11. \A m \in DOMAIN by' : \A f \in by'[m] : \A i \in 1..Len(m) : Declares(f, SubSeq(m, 1, i))'
    <3> SUFFICES ASSUME NEW m \in DOMAIN by', NEW f \in by'[m], NEW i \in 1..Len(m)
                 PROVE  Declares(f, SubSeq(m, 1, i))'
      OBVIOUS
    <3>1. CASE m \in DOMAIN by /\ f \in by[m]
      BY <2>7, <3>1 DEF NamesInv
    <3>2. CASE ~(m \in DOMAIN by /\ f \in by[m])
      <4>1. m = n /\ f = current
        BY <2>2, <2>3, <2>4, <2>5, <3>2
      <4>2. SubSeq(n, 1, i) \in DOMAIN by' /\ current \in by'[SubSeq(n, 1, i)]
        BY <2>1, <2>9, <4>1 DEF Declares
      <4> QED BY <4>1, <4>2 DEF Declares
    <3> QED BY <3>1, <3>2
  <2>12. DOMAIN by' \subseteq Paths /\ current' \in Files
    BY <2>1, <2>2 DEF NamesInv
  <2> QED BY <2>2, <2>10, <2>11, <2>12 DEF NamesInv
<1>2. ASSUME NEW f \in Files, NextFile(f)
      PROVE  NamesInv'
  BY <1>2 DEF NextFile, NamesInv, Declares
<1>3. CASE UNCHANGED vars
  BY <1>3 DEF vars, NamesInv, Declares
<1> QED BY <1>1, <1>2, <1>3 DEF Next

\* The first part of a name with several parts names a parent.
ParentsInv ==
  \A n \in DOMAIN by : Len(n) > 1 => SubSeq(n, 1, 1) \in DOMAIN by /\ IsParent(names[SubSeq(n, 1, 1)].kind)

LEMMA SeveralParts ==
  ASSUME NEW l \in Nat \ {0}
  PROVE  /\ l > 1 <=> l # 1
         /\ l > 1 => 1 \in 1..l
         /\ l > 1 /\ l # 2 => l - 1 > 1 /\ 1 \in 1..(l - 1)
OBVIOUS

\* A declaration of several parts is in something that can hold it.
LEMMA FirstIsParent ==
  ASSUME NamesInv, ParentsInv, NEW n \in Paths, NEW kind, CanDeclare(n, current, kind), Len(n) > 1
  PROVE  SubSeq(n, 1, 1) \in DOMAIN by /\ IsParent(names[SubSeq(n, 1, 1)].kind)
<1> DEFINE o == SubSeq(n, 1, Len(n) - 1)
<1>1. n \in Seq(Parts) /\ Len(n) \in Nat \ {0}
  BY PathsAreSequences
<1>2. Len(n) # 1
  BY ONLY <1>1, Len(n) > 1, SeveralParts
<1>3. Declares(current, o) /\ Holds(names[o].kind, kind)
  BY <1>2 DEF CanDeclare, Outer
<1>4. o \in DOMAIN by /\ IsParent(names[o].kind)
  BY <1>3 DEF Declares, Holds, IsParent
<1>5. o \in Seq(Parts) /\ Len(o) = Len(n) - 1 /\ \A j \in 1..Len(o) : o[j] = n[j]
  BY <1>1
<1>6. CASE Len(n) = 2
  BY <1>4, <1>6
<1>7. CASE Len(n) # 2
  <2> DEFINE v == SubSeq(o, 1, 1)
             w == SubSeq(n, 1, 1)
  <2>1. Len(o) > 1 /\ 1 \in 1..Len(o)
    <3>1. Len(n) - 1 > 1 /\ 1 \in 1..(Len(n) - 1)
      BY ONLY <1>1, <1>7, Len(n) > 1, SeveralParts
    <3> HIDE DEF o
    <3> QED BY <1>5, <3>1
  <2> HIDE DEF o
  <2>2. v \in Seq(Parts) /\ Len(v) = 1 /\ v[1] = o[1]
    BY <1>5, <2>1
  <2>3. w \in Seq(Parts) /\ Len(w) = 1 /\ w[1] = n[1]
    BY <1>1
  <2>4. \A j \in 1..1 : v[j] = w[j]
    BY <1>5, <2>1, <2>2, <2>3
  <2>5. v \in DOMAIN by /\ IsParent(names[v].kind)
    BY <1>4, <2>1 DEF ParentsInv
  <2> HIDE DEF v, w
  <2>6. v = w
    BY <2>2, <2>3, <2>4, SeqEqual
  <2> QED BY <2>5, <2>6 DEF w
<1> QED BY <1>6, <1>7

LEMMA ParentsStep == NamesInv /\ ParentsInv /\ [Next]_vars => ParentsInv'
<1> SUFFICES ASSUME NamesInv, ParentsInv, [Next]_vars PROVE ParentsInv'
  OBVIOUS
<1>1. ASSUME NEW n \in Paths, NEW kind \in Kinds, Declare(n, kind)
      PROVE  ParentsInv'
  <2>1. /\ CanDeclare(n, current, kind) /\ AddName(n, current, kind)
        /\ DOMAIN names = DOMAIN by
    BY <1>1 DEF Declare, NamesInv
  <2>2. DOMAIN by' = DOMAIN by \cup {n}
    BY <2>1, AddNameIs
  <2>3. \A m \in DOMAIN by : m # n => names'[m] = names[m]
    BY <2>1, AddNameIs
  <2>4. n \in DOMAIN by => names'[n] = names[n]
    BY <2>1, AddNameIs
  <2>5. \A m \in DOMAIN by : names'[m] = names[m]
    BY <2>3, <2>4
  <2>6. \A m \in DOMAIN by' : Len(m) > 1 => SubSeq(m, 1, 1) \in DOMAIN by /\ IsParent(names[SubSeq(m, 1, 1)].kind)
    <3>1. Len(n) > 1 => SubSeq(n, 1, 1) \in DOMAIN by /\ IsParent(names[SubSeq(n, 1, 1)].kind)
      BY <2>1, FirstIsParent
    <3> QED BY <2>2, <3>1 DEF ParentsInv
  <2> QED BY <2>2, <2>5, <2>6 DEF ParentsInv
<1>2. ASSUME NEW f \in Files, NextFile(f)
      PROVE  ParentsInv'
  BY <1>2 DEF NextFile, ParentsInv
<1>3. CASE UNCHANGED vars
  BY <1>3 DEF vars, ParentsInv
<1> QED BY <1>1, <1>2, <1>3 DEF Next
-----------------------------------------------------------------------------
(* Resolving.                                                              *)

\* A look-up finds the names that a file it sees declares, of a kind that fits: a name
\* of another file never takes its place.
LEMMA LookUpFinds ==
  ASSUME NamesInv, NEW n, NEW filter \in Filters
  PROVE  /\ LookUp(names, n, filter).is = "Found" <=> Candidate(n, filter)
         /\ LookUp(names, n, filter).is = "Found" => LookUp(names, n, filter).name = n
         /\ n \in DOMAIN names <=> LookUp(names, n, filter) # NotFound
<1>1. CASE n \notin DOMAIN names
  BY <1>1 DEF LookUp, NotFound, Candidate, Visible, NamesInv
<1>2. CASE n \in DOMAIN names
  <2> DEFINE e == LookUp(names, n, filter)
  <2>1. /\ e.is = IF names[n].file \notin Seen THEN "NotImported"
                  ELSE IF ~IsMatch(filter, names[n].kind) THEN "InvalidType" ELSE "Found"
        /\ e.name = n
    BY <1>2 DEF LookUp
  <2>2. e.is # "NotFound"
    BY <2>1
  <2>3. e # NotFound
    BY <2>2 DEF NotFound
  <2> HIDE DEF e
  <2>4. e.is = "Found" <=> names[n].file \in Seen /\ IsMatch(filter, names[n].kind)
    BY <2>1
  <2>5. ASSUME IsMatch(filter, names[n].kind)
        PROVE  by[n] = {names[n].file}
    BY <1>2, <2>5 DEF IsMatch, NamesInv
  <2>6. e.is = "Found" <=> Candidate(n, filter)
    BY <1>2, <2>4, <2>5 DEF Candidate, Visible, NamesInv
  <2> QED BY <1>2, <2>1, <2>3, <2>6 DEF e
<1> QED BY <1>1, <1>2

\* A name as it is meant in a scope.
Under(scope, name, k) == Parent(scope, k) \o name

\* Where a name is found from inside out, and where the scoping rule has it decided.
LEMMA LevelIsUnique ==
  ASSUME NEW scope \in Paths, NEW name \in Paths, NEW j \in Levels(scope), NEW k \in Levels(scope),
         Under(scope, name, j) = Under(scope, name, k)
  PROVE  j = k
<1>1. Len(Under(scope, name, j)) = j + Len(name) /\ Len(Under(scope, name, k)) = k + Len(name)
  BY UnderParent DEF Under
<1>2. Len(name) \in Nat /\ Len(scope) \in Nat
  BY PathsAreSequences
<1>3. j \in Nat /\ k \in Nat
  BY <1>2 DEF Levels
<1> QED BY <1>1, <1>2, <1>3

LEMMA InnermostLevel ==
  ASSUME NEW scope \in Paths, NEW S \in SUBSET Levels(scope), S # {}
  PROVE  /\ Innermost(S) \in S /\ Innermost(S) \in Levels(scope)
         /\ \A j \in Levels(scope) : j > Innermost(S) => j \notin S
<1>1. Len(scope) \in Nat
  BY PathsAreSequences
<1>2. Innermost(S) \in S /\ \A j \in S : j <= Innermost(S)
  BY <1>1, InnermostIs DEF Levels
<1>3. \A j \in Levels(scope) : j \in Nat
  BY <1>1 DEF Levels
<1>4. \A j \in S : ~(j > Innermost(S))
  BY <1>2, <1>3
<1> QED BY <1>2, <1>4

\* A simple name: found in the innermost scope that has it, and nowhere else.
LEMMA SimpleIsMeaning ==
  ASSUME NamesInv, NEW scope \in Paths, NEW name \in Paths, NEW filter \in Filters, NEW full,
         Len(name) = 1
  PROVE  Found(scope, name, filter, full) <=> Means(scope, name, filter, full)
<1>0. scope # << >>
  BY PathsAreSequences
<1> DEFINE found == { k \in Levels(scope) : LookUp(names, Under(scope, name, k), filter).is = "Found" }
           inner == Innermost(found)
<1>1. \A k \in Levels(scope) : k \in found <=> Candidate(Under(scope, name, k), filter)
  BY LookUpFinds
<1>2. \A k \in Levels(scope) : Decides(scope, name, filter, k) <=> k \in found
  BY <1>1 DEF Decides, Under
<1>3. Means(scope, name, filter, full)
        <=> \E k \in found : full = Under(scope, name, k)
                             /\ \A j \in Levels(scope) : j > k => j \notin found
  BY <1>1, <1>2 DEF Means, Under
<1>4. CASE found = {}
  <2> DEFINE declared == { k \in Levels(scope) : LookUp(names, Under(scope, name, k), filter) # NotFound }
  <2>1. Resolve(names, scope, name, filter)
          = IF declared # {} THEN LookUp(names, Under(scope, name, Innermost(declared)), filter)
            ELSE NotFound
    BY <1>0, <1>4 DEF Resolve, ResolveSimple, Under
  <2>2. CASE declared # {}
    <3>1. Innermost(declared) \in Levels(scope)
      BY <2>2, InnermostLevel
    <3>2. LookUp(names, Under(scope, name, Innermost(declared)), filter).is # "Found"
      BY <1>4, <3>1
    <3> QED BY <1>3, <1>4, <2>1, <2>2, <3>2 DEF Found
  <2>3. CASE declared = {}
    BY <1>3, <1>4, <2>1, <2>3 DEF Found, NotFound
  <2> QED BY <2>2, <2>3
<1>5. CASE found # {}
  <2>1. inner \in found /\ inner \in Levels(scope)
        /\ \A j \in Levels(scope) : j > inner => j \notin found
    BY <1>5, InnermostLevel
  <2>2. Resolve(names, scope, name, filter) = LookUp(names, Under(scope, name, inner), filter)
    BY <1>0, <1>5 DEF Resolve, ResolveSimple, Under
  <2>3. /\ LookUp(names, Under(scope, name, inner), filter).is = "Found"
        /\ LookUp(names, Under(scope, name, inner), filter).name = Under(scope, name, inner)
    BY <2>1, LookUpFinds
  <2>4. Found(scope, name, filter, full) <=> full = Under(scope, name, inner)
    BY <2>2, <2>3 DEF Found
  <2>5. ASSUME NEW k \in found, \A j \in Levels(scope) : j > k => j \notin found
        PROVE  k = inner
    <3>1. ~(inner > k) /\ ~(k > inner)
      BY <2>1, <2>5
    <3>2. Len(scope) \in Nat
      BY PathsAreSequences
    <3>3. k \in Nat /\ inner \in Nat
      BY <2>1, <3>2 DEF Levels
    <3> QED BY <3>1, <3>3
  <2> QED BY <1>3, <2>1, <2>4, <2>5
<1> QED BY <1>4, <1>5

\* A file that sees a name sees what the first part of it names.
LEMMA FirstIsVisible ==
  ASSUME NamesInv, NEW scope \in Paths, NEW name \in Paths, NEW k \in Levels(scope),
         Visible(Under(scope, name, k))
  PROVE  Visible(Append(Parent(scope, k), name[1]))
<1> DEFINE n == Under(scope, name, k)
<1>1. /\ Len(n) = k + Len(name)
      /\ Append(Parent(scope, k), name[1]) = SubSeq(n, 1, k + 1)
  BY UnderParent DEF Under
<1>2. Len(name) \in Nat \ {0} /\ Len(scope) \in Nat
  BY PathsAreSequences
<1>3. k \in Nat
  BY <1>2 DEF Levels
<1>4. k + 1 \in 1..Len(n)
  BY <1>1, <1>2, <1>3
<1>5. PICK f \in by[n] : f \in Seen
  BY DEF Visible
<1>6. n \in DOMAIN by
  BY DEF Visible
<1> HIDE DEF n
<1>7. Declares(f, SubSeq(n, 1, k + 1))
  BY <1>4, <1>5, <1>6 DEF NamesInv
<1> QED BY <1>1, <1>5, <1>7 DEF Visible, Declares

\* A name with several parts: it is found only as it is meant, and as it is meant unless
\* its first part is hidden.
LEMMA CompoundIsMeaning ==
  ASSUME NamesInv, NEW scope \in Paths, NEW name \in Paths, NEW filter \in Filters, NEW full,
         Len(name) # 1
  PROVE  /\ Found(scope, name, filter, full) => Means(scope, name, filter, full)
         /\ Means(scope, name, filter, full)
              => Found(scope, name, filter, full) \/ Hidden(scope, name, full)
<1>0. scope # << >>
  BY PathsAreSequences
<1> DEFINE First(k) == Append(Parent(scope, k), name[1])
           parents == { k \in Levels(scope) : First(k) \in DOMAIN names /\ IsParent(names[First(k)].kind) }
           inner == Innermost(parents)
           u == Under(scope, name, inner)
           result == LookUp(names, u, filter)
<1>1. Resolve(names, scope, name, filter)
        = IF parents = {} THEN NotFound ELSE IF result = NotFound THEN Shadowed(u) ELSE result
  BY <1>0 DEF Resolve, ResolveCompound, Under
<1>2. \A k \in Levels(scope) : Decides(scope, name, filter, k) => k \in parents
  BY DEF Decides, Visible, NamesInv
<1>3. \A k \in parents : Visible(First(k)) => Decides(scope, name, filter, k)
  BY DEF Decides
<1>4. CASE parents = {}
  <2>1. ~Found(scope, name, filter, full)
    BY <1>1, <1>4 DEF Found, NotFound
  <2>2. ~Means(scope, name, filter, full)
    BY <1>2, <1>4 DEF Means
  <2> QED BY <2>1, <2>2
<1>5. CASE parents # {}
  <2>1. inner \in parents /\ inner \in Levels(scope)
        /\ \A j \in Levels(scope) : j > inner => j \notin parents
    BY <1>5, InnermostLevel
  <2>2. Found(scope, name, filter, full) <=> Candidate(u, filter) /\ full = u
    <3>1. CASE result = NotFound
      BY <1>1, <1>5, <3>1, LookUpFinds DEF Found, Shadowed, NotFound
    <3>2. CASE result # NotFound
      BY <1>1, <1>5, <3>2, LookUpFinds DEF Found
    <3> QED BY <3>1, <3>2
  <2>3. ASSUME Candidate(u, filter)
        PROVE  Means(scope, name, filter, u)
    <3>1. Visible(First(inner))
      BY <2>1, <2>3, FirstIsVisible DEF Candidate
    <3>2. Decides(scope, name, filter, inner)
      BY <1>3, <2>1, <3>1
    <3> QED BY <1>2, <2>1, <2>3, <3>2 DEF Means, Under
  <2>4. ASSUME Means(scope, name, filter, full), ~(Candidate(u, filter) /\ full = u)
        PROVE  Hidden(scope, name, full)
    <3>1. PICK k \in Levels(scope) :
            /\ full = Under(scope, name, k) /\ Candidate(full, filter)
            /\ Decides(scope, name, filter, k)
            /\ \A j \in Levels(scope) : j > k => ~Decides(scope, name, filter, j)
      BY <2>4 DEF Means, Under
    <3>2. k # inner
      BY <2>4, <3>1
    <3>3. Len(scope) \in Nat /\ Len(name) \in Nat \ {0}
      BY PathsAreSequences
    <3>4. k \in Nat /\ inner \in Nat
      BY <2>1, <3>3 DEF Levels
    <3>5. inner > k
      BY <1>2, <2>1, <3>1, <3>2, <3>4
    <3>6. ~Visible(First(inner)) /\ First(inner) \in DOMAIN names
      BY <1>3, <2>1, <3>1, <3>5
    <3>7. Len(full) = k + Len(name)
      BY <3>1, UnderParent DEF Under
    <3>8. Len(name) > 1 /\ inner + Len(name) > Len(full)
      <4> DEFINE m == Len(name)
                 l == Len(full)
      <4>1. m \in Nat \ {0} /\ m # 1 /\ l = k + m
        BY <3>3, <3>7
      <4> HIDE DEF m, l, inner
      <4>2. m > 1 /\ inner + m > l
        BY <3>4, <3>5, <4>1
      <4> QED BY <4>2 DEF m, l
    <3>9. IsParent(names[First(inner)].kind)
      BY <2>1
    <3> QED BY <2>1, <3>6, <3>8, <3>9 DEF Hidden
  <2> QED BY <2>2, <2>3, <2>4
<1> QED BY <1>4, <1>5

\* In the empty scope a name is meant in full, whatever is around.
LEMMA EmptyScope ==
  ASSUME NamesInv, ParentsInv, NEW name \in Paths, NEW filter \in Filters, NEW full
  PROVE  Found(<< >>, name, filter, full) <=> Means(<< >>, name, filter, full)
<1>1. Found(<< >>, name, filter, full) <=> Candidate(name, filter) /\ full = name
  BY LookUpFinds DEF Found, Resolve
<1>2. name \in Seq(Parts) /\ Len(name) \in Nat \ {0} /\ name[1] \in Parts
  BY PathsAreSequences
<1>3. Levels(<< >>) = {0}
  BY DEF Levels
<1>4. Parent(<< >>, 0) = << >>
  BY DEF Parent
<1>5. << >> \o name = name
  BY <1>2
<1>6. Append(<< >>, name[1]) = SubSeq(name, 1, 1)
  <2> DEFINE v == Append(<< >>, name[1])
             w == SubSeq(name, 1, 1)
  <2>1. v \in Seq(Parts) /\ Len(v) = 1 /\ v[1] = name[1]
    BY <1>2
  <2>2. w \in Seq(Parts) /\ Len(w) = 1 /\ w[1] = name[1]
    BY <1>2
  <2>3. \A i \in 1..1 : v[i] = w[i]
    BY <2>1, <2>2
  <2> HIDE DEF v, w
  <2>4. v = w
    BY <2>1, <2>2, <2>3, SeqEqual
  <2> QED BY <2>4 DEF v, w
<1>7. ASSUME Candidate(name, filter)
      PROVE  Decides(<< >>, name, filter, 0)
  <2>1. CASE Len(name) = 1
    BY <1>4, <1>5, <1>7, <2>1 DEF Decides
  <2>2. CASE Len(name) # 1
    <3>1. Len(name) > 1 /\ 1 \in 1..Len(name)
      BY ONLY <1>2, <2>2, SeveralParts
    <3>2. PICK f \in by[name] : f \in Seen
      BY <1>7 DEF Candidate, Visible
    <3>3. name \in DOMAIN by
      BY <1>7 DEF Candidate, Visible
    <3>4. Declares(f, SubSeq(name, 1, 1))
      BY <3>1, <3>2, <3>3 DEF NamesInv
    <3>5. Visible(SubSeq(name, 1, 1))
      BY <3>2, <3>4 DEF Visible, Declares
    <3>6. IsParent(names[SubSeq(name, 1, 1)].kind)
      BY <3>1, <3>3 DEF ParentsInv
    <3> QED BY <1>4, <1>6, <2>2, <3>5, <3>6 DEF Decides
  <2> QED BY <2>1, <2>2
<1>8. Means(<< >>, name, filter, full)
        <=> full = name /\ Candidate(name, filter) /\ Decides(<< >>, name, filter, 0)
  <2>1. \A j \in Levels(<< >>) : ~(j > 0)
    BY <1>3
  <2>2. Parent(<< >>, 0) \o name = name
    BY <1>4, <1>5
  <2> QED BY <1>3, <2>1, <2>2 DEF Means
<1> QED BY <1>1, <1>7, <1>8

\* Whatever files of whatever names are in the pool, a reference resolves to what the
\* scoping rule says of the files its own file sees, and to that only; a name with
\* several parts that has a meaning fails to be found only where its first part is
\* that of a parent in a file that is not imported, and never if it is fully
\* qualified (resolve_name).
THEOREM ReferencesMean == Spec => []ResolvesToMeaning
<1>1. Init => NamesInv /\ ParentsInv
  BY DEF Init, NamesInv, ParentsInv
<1>2. NamesInv /\ ParentsInv => ResolvesToMeaning
  <2> SUFFICES ASSUME NamesInv, ParentsInv,
                      NEW scope \in Scopes, NEW name \in Paths, NEW filter \in Filters,
                      NEW full \in DOMAIN names
               PROVE  IF Means(scope, name, filter, full)
                      THEN Found(scope, name, filter, full) \/ Hidden(scope, name, full)
                      ELSE ~Found(scope, name, filter, full)
    BY DEF ResolvesToMeaning
  <2>1. CASE scope = << >>
    BY <2>1, EmptyScope
  <2>2. CASE scope # << >>
    <3>1. scope \in Paths
      BY <2>2 DEF Scopes, NamesInv
    <3>2. CASE Len(name) = 1
      BY <3>1, <3>2, SimpleIsMeaning
    <3>3. CASE Len(name) # 1
      BY <3>1, <3>3, CompoundIsMeaning
    <3> QED BY <3>2, <3>3
  <2> QED BY <2>1, <2>2
<1> QED BY <1>1, <1>2, NamesStep, ParentsStep, PTL DEF Spec
=============================================================================
