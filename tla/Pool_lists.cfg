CONSTANTS
  h1 = h1  h2 = h2  a1 = a1  a2 = a2
  pkg = pkg  Foo = Foo  FooId = FooId  Bar = Bar  Color = Color  Svc = Svc  
  ext1 = ext1  ext2 = ext2  fileOpts = fileOpts
  fFoo = fFoo  fExt = fExt  fBar = fBar  fEnum = fEnum  fMid = fMid  fTop = fTop
  NoArc = NoArc
  Handles = {h1, h2}
  Arcs = {a1, a2}
  Names = {pkg, Foo, FooId, Bar, Color, Svc, ext1, ext2, fileOpts}
  FileNames = {fFoo, fExt, fBar, fEnum, fMid, fTop}
  FileOptions = fileOpts
  MaxNumber = 2
  Batches <- CoreBatches
SPECIFICATION Spec
INVARIANT ExtensionListsExact
