------------------------------ MODULE PoolFiles ------------------------------
(***************************************************************************)
(* The .proto files that the small instances add to pools.                 *)
(***************************************************************************)
EXTENDS PoolTables

CONSTANTS
  pkg, Foo, FooId, Bar, Color, Svc, ext1, ext2, fileOpts,
  fFoo, fExt, fBar, fEnum, fMid, fTop

Message(n, members, ranges) ==
  [name |-> n, members |-> members, ranges |-> ranges, extendee |-> n, number |-> 1]
Plain(n) == Message(n, {}, {})
Extension(n, extendee, number) ==
  [name |-> n, members |-> {}, ranges |-> {}, extendee |-> extendee, number |-> number]

\* A proto3 file without content, which the files below add to.
File(n) ==
  [name |-> n, knownSyntax |-> TRUE, packages |-> {}, deps |-> << >>, public |-> {}, weak |-> {},
   decls |-> [k \in Kinds |-> << >>], refs |-> {}, options |-> << >>]

MessageRef(n) == [name |-> n, filter |-> {"message"}]
FieldRef(n) == [name |-> n, filter |-> {"message", "enum"}]

\* package pkg; message Foo { id; extensions 1; }
FooFile == [File(fFoo) EXCEPT !.packages = {pkg},
              !.decls["message"] = <<Message(Foo, {FooId}, {1})>>]
\* The same file name with other contents.
FooFile2 == [FooFile EXCEPT !.decls["message"] = <<Message(Foo, {}, {1}), Plain(Bar)>>]
\* package pkg; import foo; extend Foo { ext1 = 1; }
ExtFile == [File(fExt) EXCEPT !.packages = {pkg}, !.deps = <<fFoo>>,
              !.decls["extension"] = <<Extension(ext1, Foo, 1)>>]
\* As above, with a second extension whose number is not in Foo's range.
ExtBad == [ExtFile EXCEPT !.decls["extension"] = @ \o <<Extension(ext2, Foo, 2)>>]
\* import foo; message Bar { Foo foo; extensions 2; } extend Bar { ext2 = 2; }
\* enum Color; service Svc
BarFile == [File(fBar) EXCEPT !.deps = <<fFoo>>, !.refs = {FieldRef(Foo)},
              !.decls["message"] = <<Message(Bar, {}, {2})>>,
              !.decls["enum"] = <<Plain(Color)>>, !.decls["service"] = <<Plain(Svc)>>,
              !.decls["extension"] = <<Extension(ext2, Bar, 2)>>]
\* Bar with a name that foo.proto declares too.
BarClash == [BarFile EXCEPT !.decls["message"] = <<Message(Bar, {Foo}, {2})>>]
\* package pkg; enum Color; and a service, whose method takes Color: an enum is
\* a field type but not a method's input.
EnumFile == [File(fEnum) EXCEPT !.packages = {pkg},
               !.decls["enum"] = <<Plain(Color)>>, !.decls["service"] = <<Plain(Svc)>>,
               !.refs = {FieldRef(Color)}]
\* enum Color { Color = 0; }: the value has the full name of its enum.
EnumSelf == [EnumFile EXCEPT !.decls["enum"] = <<Message(Color, {Color}, {})>>]
EnumBad == [EnumFile EXCEPT !.refs = {MessageRef(Color)}]

\* An option, defined by one file and used by another.
OptFile == [File(fFoo) EXCEPT !.decls["message"] = <<Message(fileOpts, {}, {1})>>,
              !.decls["extension"] = <<Extension(ext1, fileOpts, 1)>>]
UseFile == [File(fExt) EXCEPT !.deps = <<fFoo>>, !.options = <<ext1>>,
              !.decls["message"] = <<Message(Bar, {}, {1})>>,
              !.decls["extension"] = <<Extension(ext2, Bar, 1)>>]
UseTwice == [UseFile EXCEPT !.options = <<ext1, ext1>>]
UseWrong == [UseFile EXCEPT !.options = <<ext2>>]

\* top imports mid, mid imports foo publicly: top sees Foo.
MidFile == [File(fMid) EXCEPT !.deps = <<fFoo>>, !.public = {1}]
TopFile == [File(fTop) EXCEPT !.deps = <<fMid>>, !.refs = {FieldRef(Foo)}]
\* The same without the public import: Foo is not visible.
MidPrivate == [MidFile EXCEPT !.public = {}]
MidBadIndex == [MidFile EXCEPT !.public = {2}]
MidBadWeak == [MidFile EXCEPT !.weak = {1, 2}]

\* top imports bar, bar imports mid publicly, mid imports foo publicly.
BarPublic == [File(fBar) EXCEPT !.deps = <<fMid>>, !.public = {1}]
TopOfChain == [TopFile EXCEPT !.deps = <<fBar>>]

\* A file of a later edition than this code knows.
EditionFile == [File(fBar) EXCEPT !.knownSyntax = FALSE]
=============================================================================
