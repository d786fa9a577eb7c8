---------------------------- MODULE MCDescriptors ----------------------------
(***************************************************************************)
(* A small instance of Descriptors: the well-known types, a file with every *)
(* kind of element, nested three deep, a batch of two files of which one    *)
(* has no package and refers to the other by short names, and batches that  *)
(* are refused in the first and in the second pass.                         *)
(***************************************************************************)
EXTENDS Descriptors

Extending(extendee, field) ==
  [extendee |-> extendee, name |-> field.name, number |-> field.number, label |-> field.label, type |-> field.type,
   default |-> field.default, oneof |-> field.oneof, packed |-> field.packed]
Ref(kind, of) == [kind |-> kind, of |-> of]
Method(name, input, output) == [name |-> name, input |-> input, output |-> output]
File(name, package, deps, messages, enums) == WK!ProtoFile(name, package, "proto2", deps, messages, enums)

Mode == WK!Values("Mode", 0, <<"OFF", "ON">>)
Deep == [WK!Message("Deep", <<WK!One("mode", 1, Ref("", <<"Mode">>))>>) EXCEPT
  !.enums = <<Mode>>, !.extensions = <<Extending(<<"Outer">>, WK!Packed(WK!Many("deep", 101, Ref("", <<"Mode">>))))>>]
Inner == [WK!Message("Inner", <<WK!One("deep", 1, Ref("group", <<"Deep">>)), WK!One("count", 2, WK!Int32)>>) EXCEPT
  !.messages = <<Deep>>]
Pairs == [WK!Message("Pairs", <<WK!One("key", 1, WK!Text), WK!One("value", 2, Ref("", <<"Inner">>))>>) EXCEPT
  !.mapEntry = TRUE]
Outer == [WK!Message("Outer", <<
    WK!Within(1, WK!One("inner", 3, Ref("message", <<"Inner">>))), WK!Within(0, WK!One("mode", 1, Ref("", <<"Mode">>))),
    WK!Many("pairs", 2, Ref("", <<"Pairs">>)), WK!Within(1, WK!One("text", 4, WK!Text))>>) EXCEPT
  !.oneofs = <<"first", "second">>, !.messages = <<Inner, Pairs>>, !.enums = <<WK!Values("Color", 0, <<"RED">>)>>]

\* Every kind of element, and an enum at the top that a nested one hides.
Whole == [File("whole", <<"a", "b">>, << >>, <<Outer>>, <<Mode>>) EXCEPT
  !.services = <<[name |-> "Calls", methods |-> <<Method("Get", <<"Outer">>, <<"", "a", "b", "Outer", "Inner">>),
                                                  Method("Put", <<"Outer">>, <<"Outer">>)>>]>>,
  !.extensions = <<Extending(<<"", "a", "b", "Outer">>, WK!One("flat", 100, Ref("enum", <<"Mode">>)))>>]

Plain == File("plain", << >>, << >>, <<WK!Message("Plain", <<WK!One("self", 1, Ref("", <<"Plain">>))>>)>>, << >>)
Other == [File("other", <<"a">>, <<"plain">>,
    <<[WK!Message("Other", <<WK!One("plain", 1, Ref("", <<"Plain">>))>>) EXCEPT
         !.enums = <<WK!Values("Mode", 0, <<"NONE">>)>>]>>, << >>) EXCEPT
  !.services = <<[name |-> "More", methods |-> <<Method("Get", <<"Plain">>, <<"Other">>)>>]>>]

\* The value of an enum and a message have one name.
Twice == File("twice", <<"a", "c">>, << >>, <<WK!Message("Kept", << >>), WK!Message("NONE", << >>)>>,
              <<WK!Values("Kind", 0, <<"ALL", "NONE">>)>>)

\* The last method returns what no imported file declares.
Missing == [File("missing", <<"a", "b">>, << >>, <<[WK!Message("Third", << >>) EXCEPT !.messages = <<Deep>>]>>, << >>) EXCEPT
  !.messages[1].messages[1].extensions = <<Extending(<<"Third">>, WK!One("third", 1, WK!Bool))>>,
  !.services = <<[name |-> "Lost", methods |-> <<Method("Get", <<"Third">>, <<"Third">>), Method("Lose", <<"Third">>, <<"Plain">>)>>]>>]

MCAlone == { WK!WellKnownFiles, <<WK!TimestampFile>> }
MCBatches == MCAlone \cup { <<Whole>>, <<Plain, Other>>, <<Twice>>, <<Missing>> }
=============================================================================
