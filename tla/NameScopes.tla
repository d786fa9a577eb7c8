------------------------------ MODULE NameScopes ------------------------------
(***************************************************************************)
(* Names in a pool and how the references of one file are resolved: the    *)
(* map "names" of DescriptorPoolInner, which has the names of all files,   *)
(* and resolve_name, which a file reaches with the files it can see.       *)
(*                                                                         *)
(* A full name is a sequence of parts.  "by" records which files declare   *)
(* a name: the map itself keeps only the first file of a package.          *)
(***************************************************************************)
EXTENDS Naturals, Sequences, FiniteSets

CONSTANTS
  Parts,      \* identifiers
  Files,      \* files of the pool
  Self,       \* the file whose references are resolved
  Seen,       \* its transitive_dependencies: itself and what it imports
  Kinds,      \* kinds of definitions that occur
  MaxDepth,   \* bound on the parts of a name
  MaxNames    \* bound on the names in the pool

Paths == UNION { [1..d -> Parts] : d \in 1..MaxDepth }

ASSUME NamesAssumption ==
  /\ Self \in Seen /\ Seen \subseteq Files
  /\ MaxDepth \in Nat \ {0} /\ MaxNames \in Nat
  /\ Kinds \subseteq {"package", "message", "enum", "service", "field", "extension"}

\* DefinitionKind::is_parent
IsParent(kind) == kind \in {"package", "message", "enum", "service"}

\* The kinds whose declaration can hold another.
Holds(outer, inner) ==
  \/ outer = "package" /\ inner # "field"
  \/ outer = "message" /\ inner \notin {"package", "service"}

Filters == {"Message", "Extension", "FieldType"}

\* ResolveNameFilter::is_match
IsMatch(filter, kind) ==
  \/ filter = "Message" /\ kind = "message"
  \/ filter = "Extension" /\ kind = "extension"
  \/ filter = "FieldType" /\ kind \in {"message", "enum"}

VARIABLES names,   \* full name -> [file, kind]
          by,      \* full name -> the files that declare it
          visited, \* files visited before
          current  \* the file that is visited

vars == <<names, by, visited, current>>

-----------------------------------------------------------------------------
(* resolve_name.                                                            *)

NotFound == [is |-> "NotFound"]
Shadowed(name) == [is |-> "Shadowed", name |-> name]

\* Fault: files that are not imported are searched as well.
LookUpAnywhere(table, name, filter) ==
  IF name \notin DOMAIN table THEN NotFound
  ELSE [is |-> IF ~IsMatch(filter, table[name].kind) THEN "InvalidType" ELSE "Found", name |-> name]

\* ResolveNameResult::new
LookUp(table, name, filter) ==
  IF name \notin DOMAIN table THEN NotFound
  ELSE [is |-> IF table[name].file \notin Seen THEN "NotImported"
               ELSE IF ~IsMatch(filter, table[name].kind) THEN "InvalidType" ELSE "Found",
        name |-> name]

\* resolve_relative_candidate_parents: the scope, and what is around it.
Parent(scope, k) == SubSeq(scope, 1, k)
Levels(scope) == 0..Len(scope)
Innermost(levels) == CHOOSE k \in levels : \A j \in levels : j <= k

\* A simple name: the innermost that fits, or else the first error.
ResolveSimple(table, scope, name, filter) ==
  LET At(k) == LookUp(table, Parent(scope, k) \o name, filter)
      found == { k \in Levels(scope) : At(k).is = "Found" }
      declared == { k \in Levels(scope) : At(k) # NotFound }
  IN IF found # {} THEN At(Innermost(found))
     ELSE IF declared # {} THEN At(Innermost(declared)) ELSE NotFound

\* A name with several parts: the innermost parent that the first part names, in
\* whichever file, decides.
ResolveCompound(table, scope, name, filter) ==
  LET First(k) == Append(Parent(scope, k), name[1])
      parents == { k \in Levels(scope) : First(k) \in DOMAIN table /\ IsParent(table[First(k)].kind) }
      full == Parent(scope, Innermost(parents)) \o name
      result == LookUp(table, full, filter)
  IN IF parents = {} THEN NotFound ELSE IF result = NotFound THEN Shadowed(full) ELSE result

\* resolve_name.  A name that begins with a dot is resolved as if its scope were empty,
\* which is the scope outside of messages in a file without a package.
Resolve(table, scope, name, filter) ==
  IF scope = << >> THEN LookUp(table, name, filter)
  ELSE IF Len(name) = 1 THEN ResolveSimple(table, scope, name, filter)
  ELSE ResolveCompound(table, scope, name, filter)

-----------------------------------------------------------------------------
Init == names = << >> /\ by = << >> /\ visited = {} /\ current \in Files

Put(f, x, y) == [z \in DOMAIN f \cup {x} |-> IF z = x THEN y ELSE f[z]]

Declares(file, name) == name \in DOMAIN by /\ file \in by[name]

\* NameVisitor::add_name; a duplicate makes the whole build fail, which leaves the
\* names as they were.
AddName(name, file, kind) ==
  /\ IF name \in DOMAIN names
     THEN /\ kind = "package" /\ names[name].kind = "package" /\ ~Declares(file, name)
          /\ names' = names
     ELSE names' = Put(names, name, [file |-> file, kind |-> kind])
  /\ by' = Put(by, name, IF name \in DOMAIN by THEN by[name] \cup {file} ELSE {file})

\* A file declares its package, from the outside in, and then what is in that or
\* in its messages.
Outer(name) == SubSeq(name, 1, Len(name) - 1)
CanDeclare(name, file, kind) ==
  /\ IF Len(name) = 1 THEN Holds("package", kind)
     ELSE Declares(file, Outer(name)) /\ Holds(names[Outer(name)].kind, kind)
  /\ \A other \in DOMAIN by :
       Declares(file, other) /\ "package" \in {kind, names[other].kind}
         => names[other].kind = "package" /\ Len(other) < Len(name)

Declare(name, kind) ==
  /\ CanDeclare(name, current, kind)
  /\ name \notin DOMAIN names => Cardinality(DOMAIN names) < MaxNames
  /\ AddName(name, current, kind)
  /\ UNCHANGED <<visited, current>>

\* The visitor goes on to the next file.
NextFile(file) ==
  /\ file \notin visited \cup {current}
  /\ visited' = visited \cup {current} /\ current' = file
  /\ UNCHANGED <<names, by>>

Next == (\E name \in Paths, kind \in Kinds : Declare(name, kind)) \/ (\E file \in Files : NextFile(file))

Spec == Init /\ [][Next]_vars

-----------------------------------------------------------------------------
(* Properties.                                                             *)

\* References are resolved in the scopes of Self, or in the empty one.
Scopes == { scope \in DOMAIN by : Self \in by[scope] } \cup { << >> }

\* What a file sees of the pool: the names that it or its imports declare.
Visible(name) == name \in DOMAIN by /\ by[name] \cap Seen # {}
Candidate(name, filter) == Visible(name) /\ IsMatch(filter, names[name].kind)

\* The scoping rule of protobuf, over what the file sees: the innermost scope that
\* has the name or, of a name with several parts, a parent with its first part.
Decides(scope, name, filter, k) ==
  IF Len(name) = 1 THEN Candidate(Parent(scope, k) \o name, filter)
  ELSE Visible(Append(Parent(scope, k), name[1])) /\ IsParent(names[Append(Parent(scope, k), name[1])].kind)

Means(scope, name, filter, full) ==
  \E k \in Levels(scope) :
    /\ full = Parent(scope, k) \o name /\ Candidate(full, filter)
    /\ Decides(scope, name, filter, k)
    /\ \A j \in Levels(scope) : j > k => ~Decides(scope, name, filter, j)

Found(scope, name, filter, full) ==
  LET r == Resolve(names, scope, name, filter) IN r.is = "Found" /\ r.name = full

\* A parent that only files out of sight declare, further in than the meaning; in the
\* empty scope there is none.
Hidden(scope, name, full) ==
  \E k \in Levels(scope) :
    LET first == Append(Parent(scope, k), name[1])
    IN /\ Len(name) > 1 /\ k + Len(name) > Len(full)
       /\ first \in DOMAIN names /\ ~Visible(first) /\ IsParent(names[first].kind)

\* What a reference resolves to is what the scoping rule says of the files that its
\* file sees: names of other files in the pool never take its place.  And one that has
\* a meaning resolves to it, with one exception: of a name with several parts the
\* first is searched in all files of the pool, and one that is not imported can hide
\* the one that is meant.  A name with a dot in front always has its meaning.
ResolvesToMeaning ==
  \A scope \in Scopes, name \in Paths, filter \in Filters, full \in DOMAIN names :
    IF Means(scope, name, filter, full) THEN Found(scope, name, filter, full) \/ Hidden(scope, name, full)
    ELSE ~Found(scope, name, filter, full)
=============================================================================
