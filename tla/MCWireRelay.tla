---------------------------- MODULE MCWireRelay ----------------------------
(***************************************************************************)
(* Small instances of WireRelay.  A type with a packed list, a number      *)
(* without presence, a message of its own type, a map to such messages, a  *)
(* list of groups of it, a list of fixed-width numbers and bytes; and      *)
(* versions of it that pack other lists, use wider integers, or know only  *)
(* some of the fields.                                                     *)
(***************************************************************************)
EXTENDS WireRelay, TLC

One(kind, presence) == [card |-> "one", kind |-> kind, presence |-> presence, packed |-> FALSE, of |-> ""]
List(kind, packed) == [card |-> "list", kind |-> kind, presence |-> FALSE, packed |-> packed, of |-> ""]
Of(f, t) == [f EXCEPT !.of = t]

Nested == Of(One("message", TRUE), "Message")
Groups == Of(List("group", FALSE), "Message")
Map == [card |-> "map", kind |-> "message", presence |-> FALSE, packed |-> FALSE, of |-> "Entry"]
Entry == 1 :> One("int32", FALSE) @@ 2 :> Nested

Version(fields) == "Message" :> fields @@ "Entry" :> Entry
AllFields == <<List("int32", TRUE), One("sint32", FALSE), Nested, Map, Groups, List("fixed32", FALSE), One("bytes", FALSE)>>

MCSchema ==
  "full" :> Version(AllFields)
  @@ "wide" :> Version([AllFields EXCEPT ![1] = List("int64", FALSE), ![6] = List("fixed32", TRUE)])
  @@ "some" :> Version([n \in {1, 3} |-> AllFields[n]])
  @@ "none" :> Version(2 :> One("sint32", TRUE))

Leaves == { << >>, 1 :> <<-1, 0>>, 2 :> -8 @@ 6 :> <<9>>, 1 :> <<7>> @@ 7 :> <<"a", "b">> }
Inner ==
  Leaves \cup { 3 :> m : m \in Leaves }
         \cup { 4 :> (0 :> m @@ -2 :> << >>) : m \in Leaves }
         \cup { 5 :> <<m, 2 :> 3>> : m \in Leaves }
Outer ==
  { 3 :> m : m \in Inner } \cup { 4 :> (0 :> m @@ 5 :> << >>) : m \in Inner }
  \cup { 2 :> 1 @@ 5 :> <<m, << >>>> @@ 6 :> <<0, 15>> : m \in Leaves }
MCMessages == Leaves \cup Outer

=============================================================================
