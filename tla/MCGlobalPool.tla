---------------------------- MODULE MCGlobalPool -----------------------------
(***************************************************************************)
(* Small instances of GlobalPool: what the threads call.                   *)
(***************************************************************************)
EXTENDS GlobalPool, PoolFiles

CONSTANTS t1, t2, fLast

\* descriptor.proto, as far as it matters.
DescriptorProtoFile == [File(fMid) EXCEPT !.decls["message"] = <<Message(fileOpts, {}, {1})>>]
MCWellKnown == <<DescriptorProtoFile>>

Derived(batch, message) == [derived |-> TRUE, batch |-> batch, message |-> message]
Added(batch) == [derived |-> FALSE, batch |-> batch, message |-> FileOptions]

\* import descriptor; extend FileOptions { ext1 = 1; } option (ext1) = ..;
\* message Color
OptionsFile == [File(fEnum) EXCEPT !.deps = <<fMid>>, !.options = <<ext1>>,
                  !.decls["message"] = <<Plain(Color)>>,
                  !.decls["extension"] = <<Extension(ext1, fileOpts, 1)>>]

\* last imports enum, enum imports top publicly, top imports foo publicly.
ChainedFiles == << FooFile,
  [File(fTop) EXCEPT !.deps = <<fFoo>>, !.public = {1}],
  [File(fEnum) EXCEPT !.deps = <<fTop>>, !.public = {1}],
  [File(fLast) EXCEPT !.deps = <<fEnum>>, !.refs = {FieldRef(Foo)}] >>

\* Foo with a set of its own; Bar with a set that is refused until foo.proto is there,
\* and with a complete one; a set that is always refused; a file whose options need
\* FileOptions and whose message clashes with an enum of bar.proto; a chain of public
\* imports; and a set with a file of unknown syntax, whose build panics half way.
MCCalls == {
  Derived(<<FooFile>>, Foo), Derived(<<BarFile>>, Bar), Derived(<<ExtBad, FooFile>>, Foo),
  Derived(<<BarFile, FooFile>>, Bar), Added(<<OptionsFile>>), Added(ChainedFiles),
  Added(<<FooFile, [EditionFile EXCEPT !.name = fTop]>>) }

\* These calls are as a program's have to be for LookupsSucceed.
ASSUME InstanceAgrees == DerivedTypesAgree
=============================================================================
