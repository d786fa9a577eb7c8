---------------------------- MODULE FoldTheorems ----------------------------
(***************************************************************************)
(* Facts that the proofs about folds need: induction on the naturals, of a *)
(* set rather than a predicate, and the existence of the recursive         *)
(* function by which Folds defines a fold over the positions of a          *)
(* sequence.                                                               *)
(***************************************************************************)
EXTENDS SequencesExt, WellFoundedInduction, TLAPS

\* Induction on the naturals, of a set rather than a predicate.
LEMMA SetInduction ==
  ASSUME NEW S, 0 \in S, \A n \in Nat : n \in S => n + 1 \in S
  PROVE  Nat \subseteq S
<1> DEFINE R == { ss \in Nat \X Nat : ss[1] < ss[2] }
           T == Nat \ S
<1>1. IsWellFoundedOn({ ss \in Nat \X Nat : ss[1] < ss[2] }, Nat)
  BY NatLessThanWellFounded DEF OpToRel
<1>2. IsWellFoundedOn(R, Nat)
  BY <1>1
<1> SUFFICES ASSUME T # {} PROVE FALSE
  OBVIOUS
<1>3. PICK x \in T : \A y \in T : <<y, x>> \notin R
  BY <1>2, WFMin
<1>4. x \in Nat \ {0}
  OBVIOUS
<1>5. x - 1 \in Nat /\ x - 1 < x /\ (x - 1) + 1 = x
  BY <1>4
<1>6. x - 1 \in S
  BY <1>3, <1>5
<1> QED BY <1>5, <1>6

\* The last position of a prefix, and the prefix without it.
LEMMA LastOfPrefix ==
  ASSUME NEW k \in Nat, NEW s \in SUBSET (1..k + 1), k + 1 \in s
  PROVE  Max(s) = k + 1 /\ s \ {Max(s)} \in SUBSET (1..k)
<1>1. \A y \in s : k + 1 >= y
  OBVIOUS
<1>2. \A x \in s : (\A y \in s : x >= y) => x = k + 1
  OBVIOUS
<1>3. Max(s) = k + 1
  BY <1>1, <1>2 DEF Max
<1>4. s \ {k + 1} \in SUBSET (1..k)
  OBVIOUS
<1> QED BY <1>3, <1>4

\* The maximum of a set of positions is one of them.
LEMMA LastIsIn ==
  ASSUME NEW k \in Nat, NEW s \in SUBSET (1..k), s # {}
  PROVE  Max(s) \in s
<1> DEFINE S == { n \in Nat : \A t \in SUBSET (1..n) : t # {} => Max(t) \in t }
<1>1. 0 \in S
  <2>1. 1..0 = {}
    OBVIOUS
  <2>2. \A t \in SUBSET (1..0) : t = {}
    BY <2>1
  <2> QED BY <2>2
<1>2. ASSUME NEW n \in Nat, n \in S PROVE n + 1 \in S
  <2> SUFFICES ASSUME NEW t \in SUBSET (1..n + 1), t # {} PROVE Max(t) \in t
    OBVIOUS
  <2>1. CASE n + 1 \in t
    BY <2>1, LastOfPrefix
  <2>2. CASE n + 1 \notin t
    <3>1. t \in SUBSET (1..n)
      BY <2>2
    <3> QED BY <1>2, <3>1
  <2> QED BY <2>1, <2>2
<1>3. k \in S
  <2> HIDE DEF S
  <2> QED BY <1>1, <1>2, SetInduction
<1> QED BY <1>3

\* d takes each set of positions in 1..L to what folding op over them makes of base.
IsFold(d, L, E, op, base) ==
  /\ d \in [SUBSET (1..L) -> E]
  /\ \A s \in SUBSET (1..L) : d[s] = IF s = {} THEN base ELSE op[<<d[s \ {Max(s)}], Max(s)>>]

\* A fold over the positions of a sequence has a value.
LEMMA FoldExists ==
  ASSUME NEW L \in Nat, NEW E, NEW op \in [E \X (1..L) -> E], NEW base \in E
  PROVE  \E d : IsFold(d, L, E, op, base)
<1> DEFINE Folded(d, s) == IF s = {} THEN base ELSE op[<<d[s \ {Max(s)}], Max(s)>>]
           Fold(d, n) == /\ d \in [SUBSET (1..n) -> E]
                         /\ \A s \in SUBSET (1..n) : d[s] = Folded(d, s)
           S == { n \in Nat : n <= L => \E d : Fold(d, n) }
<1>1. 0 \in S
  <2> DEFINE d == [s \in SUBSET (1..0) |-> base]
  <2>1. \A s \in SUBSET (1..0) : s = {}
    <3>1. 1..0 = {}
      OBVIOUS
    <3> QED BY <3>1
  <2>2. Fold(d, 0)
    BY <2>1
  <2> HIDE DEF d, Fold
  <2> QED BY <2>2
<1> HIDE DEF Fold
<1>2. ASSUME NEW n \in Nat, n \in S PROVE n + 1 \in S
  <2> SUFFICES ASSUME n + 1 <= L PROVE \E d : Fold(d, n + 1)
    OBVIOUS
  <2>1. n <= L
    OBVIOUS
  <2>2. PICK d : Fold(d, n)
    BY <1>2, <2>1
  <2> DEFINE e == [s \in SUBSET (1..n + 1) |->
                     IF s \in SUBSET (1..n) THEN d[s] ELSE op[<<d[s \ {Max(s)}], Max(s)>>]]
  <2>3. \A s \in SUBSET (1..n) : e[s] = d[s]
    OBVIOUS
  <2>4. ASSUME NEW s \in SUBSET (1..n + 1) PROVE e[s] = Folded(e, s) /\ e[s] \in E
    <3>1. CASE s \in SUBSET (1..n)
      <4>1. e[s] = Folded(d, s) /\ e[s] \in E
        BY <2>2, <2>3, <3>1 DEF Fold
      <4>2. s \ {Max(s)} \in SUBSET (1..n)
        BY <3>1
      <4> HIDE DEF e
      <4> QED BY <2>3, <4>1, <4>2
    <3>2. CASE s \notin SUBSET (1..n)
      <4>1. n + 1 \in s
        BY <3>2
      <4>2. s \ {Max(s)} \in SUBSET (1..n) /\ Max(s) = n + 1 /\ n + 1 \in 1..L
        BY <4>1, LastOfPrefix
      <4>3. e[s] = op[<<d[s \ {Max(s)}], Max(s)>>]
        BY <3>2
      <4>4. d[s \ {Max(s)}] \in E
        BY <2>2, <4>2 DEF Fold
      <4> HIDE DEF e
      <4>5. e[s] \in E
        BY <4>2, <4>3, <4>4
      <4>6. e[s] = op[<<e[s \ {Max(s)}], Max(s)>>]
        BY <2>3, <4>2, <4>3
      <4> QED BY <4>1, <4>5, <4>6
    <3> QED BY <3>1, <3>2
  <2>5. e = [s \in SUBSET (1..n + 1) |-> e[s]]
    OBVIOUS
  <2> HIDE DEF e, Folded
  <2>6. e \in [SUBSET (1..n + 1) -> E]
    BY <2>4, <2>5
  <2>7. Fold(e, n + 1)
    BY <2>4, <2>6 DEF Fold
  <2> QED BY <2>7
<1>3. L \in S
  <2> HIDE DEF S
  <2> QED BY <1>1, <1>2, SetInduction
<1>4. PICK d : Fold(d, L)
  BY <1>3
<1>5. IsFold(d, L, E, op, base)
  BY <1>4 DEF Fold, IsFold
<1> QED BY <1>5

\* The prefixes of the positions 1..L.
LEMMA PrefixOfPositions ==
  ASSUME NEW L \in Nat, NEW k \in 1..L
  PROVE  /\ 1..k \in SUBSET (1..L) /\ 1..k # {}
         /\ Max(1..k) = k /\ (1..k) \ {k} = 1..k - 1
<1>1. k - 1 \in Nat /\ (k - 1) + 1 = k /\ k \in 1..k
  OBVIOUS
<1>2. \A j \in 1..k : j \in 1..L
  OBVIOUS
<1>3. Max(1..k) = k
  BY <1>1, LastOfPrefix
<1>4. (1..k) \ {k} = 1..k - 1
  OBVIOUS
<1> QED BY <1>1, <1>2, <1>3, <1>4

\* A fold whose steps stay in a set gives a member of it: iter is the recursive
\* function by which Folds defines the fold.
LEMMA FoldStays ==
  ASSUME NEW L \in Nat, NEW E, NEW op \in [E \X (1..L) -> E], NEW base \in E,
         NEW D, D = SUBSET (1..L), NEW iter,
         \A s \in D : iter[s] = IF s = {} THEN base
                                ELSE IF iter[s \ {Max(s)}] \in E
                                     THEN op[<<iter[s \ {Max(s)}], Max(s)>>] ELSE iter[s]
  PROVE  iter[1..L] \in E
<1> DEFINE S == { k \in Nat : k <= L => iter[1..k] \in E }
<1>1. 0 \in S
  <2>1. 1..0 = {} /\ 1..0 \in D
    OBVIOUS
  <2>2. iter[1..0] = base
    BY <2>1
  <2> QED BY <2>2
<1>2. ASSUME NEW k \in Nat, k \in S PROVE k + 1 \in S
  <2> SUFFICES ASSUME k + 1 <= L PROVE iter[1..k + 1] \in E
    OBVIOUS
  <2>1. k + 1 \in 1..L /\ iter[1..k] \in E /\ (k + 1) - 1 = k
    BY <1>2
  <2>2. 1..k + 1 \in D /\ 1..k + 1 # {} /\ Max(1..k + 1) = k + 1 /\ (1..k + 1) \ {k + 1} = 1..k
    BY <2>1, PrefixOfPositions
  <2>3. iter[1..k + 1] = op[<<iter[1..k], k + 1>>]
    BY <2>1, <2>2
  <2> QED BY <2>1, <2>3
<1>3. L \in S
  <2> HIDE DEF S
  <2> QED BY <1>1, <1>2, SetInduction
<1> QED BY <1>3

\* iter is the recursive function by which Folds defines a fold whose steps stay in E.
FoldsWithin(iter, D, E, op, base) ==
  \A s \in D : iter[s] = IF s = {} THEN base
                        ELSE IF iter[s \ {Max(s)}] \in E
                             THEN op[<<iter[s \ {Max(s)}], Max(s)>>] ELSE iter[s]

\* The step for position i only adds, at least what adds[i] has.
Adding(op, E, L, adds) == \A acc \in E, i \in 1..L : acc \cup adds[i] \subseteq op[<<acc, i>>]

HasAll(all, base, adds, L) == base \subseteq all /\ \A i \in 1..L : adds[i] \subseteq all

\* A fold whose steps add what adds[i] has gathers all of it.
LEMMA FoldGathers ==
  ASSUME NEW L \in Nat, NEW T, NEW E, E = SUBSET T, NEW op \in [E \X (1..L) -> E],
         NEW base \in E, NEW adds,
         Adding(op, E, L, adds),
         NEW D, D = SUBSET (1..L), NEW iter, FoldsWithin(iter, D, E, op, base)
  PROVE  iter[1..L] \in E /\ HasAll(iter[1..L], base, adds, L)
<1> DEFINE Gathered(k) == /\ iter[1..k] \in E /\ base \subseteq iter[1..k]
                          /\ \A i \in 1..k : adds[i] \subseteq iter[1..k]
           S == { k \in Nat : k <= L => Gathered(k) }
<1>1. 0 \in S
  <2>1. 1..0 = {} /\ 1..0 \in D
    OBVIOUS
  <2>2. iter[1..0] = base
    BY <2>1 DEF FoldsWithin
  <2> QED BY <2>1, <2>2
<1>2. ASSUME NEW k \in Nat, k \in S PROVE k + 1 \in S
  <2> SUFFICES ASSUME k + 1 <= L PROVE Gathered(k + 1)
    OBVIOUS
  <2>1. k + 1 \in 1..L /\ (k + 1) - 1 = k
    BY <1>2
  <2>2. Gathered(k)
    BY <1>2, <2>1
  <2>3. 1..k + 1 \in D /\ 1..k + 1 # {} /\ Max(1..k + 1) = k + 1 /\ (1..k + 1) \ {k + 1} = 1..k
    BY <2>1, PrefixOfPositions
  <2>4. iter[1..k + 1] = op[<<iter[1..k], k + 1>>]
    BY <2>2, <2>3 DEF FoldsWithin
  <2>5. iter[1..k] \cup adds[k + 1] \subseteq iter[1..k + 1] /\ iter[1..k + 1] \in E
    <3> DEFINE acc == iter[1..k]
               i == k + 1
    <3>1. acc \in E /\ i \in 1..L
      BY <2>1, <2>2
    <3> HIDE DEF acc, i
    <3>2. acc \cup adds[i] \subseteq op[<<acc, i>>] /\ op[<<acc, i>>] \in E
      BY <3>1 DEF Adding
    <3> QED BY <2>4, <3>2 DEF acc, i
  <2>6. \A i \in 1..k + 1 : i = k + 1 \/ i \in 1..k
    OBVIOUS
  <2> QED BY <2>2, <2>5, <2>6
<1>3. L \in S
  <2> HIDE DEF S
  <2> QED BY <1>1, <1>2, SetInduction
<1> QED BY <1>3 DEF HasAll
=============================================================================
