------------------------------ MODULE MessageMap ------------------------------
(***************************************************************************)
(* What a DynamicMessage promises: the fields and extensions of its type   *)
(* are either unset or have a value, of a oneof at most one is set, and    *)
(* what is unknown to the type is kept, per number, in the order it was    *)
(* read.                                                                   *)
(***************************************************************************)
EXTENDS Naturals, Sequences, SequencesExt

CONSTANTS
  Numbers,   \* field numbers
  Known,     \* those of the fields and extensions of the message type
  Atoms,     \* elements of field values
  Zero,      \* the default element
  Scalar,    \* numbers whose values replace each other; others accumulate
  Strings,   \* the scalars of type string
  Presence,  \* numbers that can be set to their default value
  Oneofs,    \* the oneofs of the type: sets of numbers
  MaxLen     \* bound on the length of values

\* A value is the sequence of its elements: one for a scalar, those of the list
\* for a repeated field, those of its one repeated field for a message.
Values == SeqOf(Atoms, MaxLen)
Default(n) == IF n \in Scalar THEN <<Zero>> ELSE << >>
Merged(n, old, new) == IF n \in Scalar THEN new ELSE old \o new

Unset == [set |-> FALSE, value |-> << >>]
SetTo(v) == [set |-> TRUE, value |-> v]

\* Fields without presence are set when their value is not the default.
Visible(n, v) == IF n \in Presence \/ v # Default(n) THEN SetTo(v) ELSE Unset

\* The other members of the oneof of n.
Rivals(n) == (UNION { O \in Oneofs : n \in O }) \ {n}

VARIABLES field,    \* Known -> Unset or SetTo(value)
          unknown,  \* Numbers \ Known -> the unknown fields read, in order
          failed    \* the number that the last operation failed to merge, or None

vars == <<field, unknown, failed>>

None == 0

NoUnknown == [n \in Numbers \ Known |-> << >>]

ValueOf(n) == IF field[n].set THEN field[n].value ELSE Default(n)

Init == /\ field = [n \in Known |-> Unset]
        /\ unknown = NoUnknown
        /\ failed = None

\* Field n gets value v, and the oneof of n has no other member.
Put(n, v) ==
  field' = [m \in Known |-> IF m = n THEN Visible(n, v)
                            ELSE IF m \in Rivals(n) THEN Unset ELSE field[m]]

Assign(n, v) == n \in Known /\ v \in Values /\ Put(n, v) /\ UNCHANGED unknown

Merge(n, v) == n \in Known /\ v \in Values /\ Put(n, Merged(n, ValueOf(n), v)) /\ UNCHANGED unknown

\* A mutable access leaves the field set to what it had, or its default.
Touch(n) == n \in Known /\ Put(n, ValueOf(n)) /\ UNCHANGED unknown

Unassign(S) ==
  /\ field' = [m \in Known |-> IF m \in S THEN Unset ELSE field[m]]
  /\ UNCHANGED unknown

Receive(n, v) ==
  /\ n \in Numbers \ Known /\ v \in Values
  /\ unknown' = [unknown EXCEPT ![n] = Append(@, v)]
  /\ UNCHANGED field

Forget(S) ==
  /\ unknown' = [n \in Numbers \ Known |-> IF n \in S THEN << >> ELSE unknown[n]]
  /\ UNCHANGED field

Reset == field' = [n \in Known |-> Unset] /\ unknown' = NoUnknown

\* A merge that fails leaves the field as a mutable access does, but a string is empty then.
\* Nothing is left of an unknown field.
Fail(n) ==
  /\ IF n \in Known THEN Put(n, IF n \in Strings THEN Default(n) ELSE ValueOf(n))
     ELSE UNCHANGED field
  /\ UNCHANGED unknown

Operate ==
  \/ \E n \in Known : \/ \E v \in Values : Assign(n, v) \/ Merge(n, v)
                      \/ Touch(n)
  \/ \E S \in SUBSET Known : Unassign(S)
  \/ \E n \in Numbers \ Known, v \in Values : Receive(n, v)
  \/ \E S \in SUBSET (Numbers \ Known) : Forget(S)
  \/ Reset

Next ==
  \/ Operate /\ failed' = None
  \/ \E n \in Numbers : Fail(n) /\ failed' = n

Spec == Init /\ [][Next]_vars
=============================================================================
