---------------------------- MODULE PoolRegistry ----------------------------
(***************************************************************************)
(* What a DescriptorPool promises: a pool is a set of file descriptors     *)
(* that only grows, by whole batches.  A batch is accepted exactly when,   *)
(* together with the pool, it is closed under its references, whatever the *)
(* order of its files; a batch that is not is refused and changes nothing. *)
(* Clones are independent of each other.                                   *)
(***************************************************************************)
EXTENDS PoolTables

CONSTANTS
  Handles,   \* DescriptorPool values a program holds (descriptors included)
  Batches    \* what may be added: sequences of files

NoPool == [live |-> FALSE, protos |-> {}]
Holding(protos) == [live |-> TRUE, protos |-> protos]

VARIABLE held    \* handle -> the files its pool contains

-----------------------------------------------------------------------------
(* Batches that are well formed, stated over sets of files.                *)

FileOf(protos, n) == { p \in protos : p.name = n }

PublicImports(p) == { p.deps[i] : i \in p.public \cap DOMAIN p.deps }

\* What a file may refer to: itself, its imports, and what these make visible
\* by chains of public imports (the least set with that closure).
VisibleFrom(protos, p) ==
  LET direct == {p.name} \cup { p.deps[i] : i \in DOMAIN p.deps }
      closed(S) == \A q \in protos : q.name \in S \ {p.name} => PublicImports(q) \subseteq S
      names == { S \in SUBSET { q.name : q \in protos } : direct \subseteq S /\ closed(S) }
  IN  { q \in protos : \A S \in names : q.name \in S }

Declares(p, kinds, name) ==
  \E k \in kinds \cap Kinds : \E i \in DOMAIN p.decls[k] : p.decls[k][i].name = name

\* Every occurrence of a name in a declaration, packages apart.
Occurrences(p) ==
  UNION { UNION { {<<p, k, i, n>> : n \in p.decls[k][i].members \cup {p.decls[k][i].name}}
                  : i \in DOMAIN p.decls[k] } : k \in Kinds }

\* (A value of an enum is in the scope of the enum, so it may bear the enum's name.)
NamesDistinct(protos) ==
  LET all == UNION { Occurrences(p) : p \in protos }
      packages == UNION { p.packages : p \in protos }
  IN  /\ \A o \in all : o[4] \notin packages /\ \A q \in all : q[4] = o[4] => q = o
      /\ \A p \in protos, k \in Kinds : \A i \in DOMAIN p.decls[k] :
            p.decls[k][i].name \notin p.decls[k][i].members

ExtensionFits(sees, d) ==
  \E q \in sees : \E i \in DOMAIN q.decls["message"] :
     /\ q.decls["message"][i].name = d.extendee
     /\ d.number \in q.decls["message"][i].ranges

IsFileOption(sees, n) ==
  \E q \in sees : \E i \in DOMAIN q.decls["extension"] :
     /\ q.decls["extension"][i].name = n
     /\ q.decls["extension"][i].extendee = FileOptions

ReferencesResolve(protos, p) ==
  LET sees == VisibleFrom(protos, p)
  IN  /\ \A i \in DOMAIN p.deps : FileOf(protos, p.deps[i]) # {}
      /\ p.public \cup p.weak \subseteq DOMAIN p.deps
      /\ \A r \in p.refs : \E q \in sees : Declares(q, r.filter, r.name)
      /\ \A i \in DOMAIN p.decls["extension"] : ExtensionFits(sees, p.decls["extension"][i])
      /\ \A i \in DOMAIN p.options : IsFileOption(sees, p.options[i])
      /\ IsInjective(p.options)

\* The positions of a batch whose file is not in the pool yet.
NewPositions(protos, batch) == { i \in DOMAIN batch : FileOf(protos, batch[i].name) = {} }
NewFiles(protos, batch) == { batch[i] : i \in NewPositions(protos, batch) }

WellFormed(protos, batch) ==
  LET new == NewPositions(protos, batch)
  IN  /\ \A i, j \in new : batch[i].name = batch[j].name => i = j
      /\ \A i \in new : batch[i].knownSyntax
      /\ NamesDistinct(protos \cup NewFiles(protos, batch))
      /\ \A p \in NewFiles(protos, batch) :
            ReferencesResolve(protos \cup NewFiles(protos, batch), p)

-----------------------------------------------------------------------------
Init == held \in [Handles -> {NoPool}]

New(h) == held[h] = NoPool /\ held' = [held EXCEPT ![h] = Holding({})]

Clone(g, h) ==
  /\ held[g].live /\ held[h] = NoPool
  /\ held' = [held EXCEPT ![h] = held[g]]

Drop(h) == held[h].live /\ held' = [held EXCEPT ![h] = NoPool]

Add(h, batch) ==
  /\ held[h].live
  /\ WellFormed(held[h].protos, batch)
  /\ held' = [held EXCEPT ![h].protos = @ \cup NewFiles(@, batch)]

Next ==
  \E h \in Handles :
     \/ New(h) \/ Drop(h)
     \/ \E g \in Handles : Clone(g, h)
     \/ \E b \in Batches : Add(h, b)

Spec == Init /\ [][Next]_held
=============================================================================
