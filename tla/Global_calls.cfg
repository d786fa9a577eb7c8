CONSTANTS
  pkg = pkg  Foo = Foo  FooId = FooId  Bar = Bar  Color = Color  Svc = Svc
  ext1 = ext1  ext2 = ext2  fileOpts = fileOpts
  fFoo = fFoo  fExt = fExt  fBar = fBar  fEnum = fEnum  fMid = fMid  fTop = fTop
  t1 = t1  t2 = t2  fLast = fLast
  NoThread = NoThread
  Threads = {t1, t2}
  Names = {pkg, Foo, FooId, Bar, Color, Svc, ext1, ext2, fileOpts}
  FileNames = {fFoo, fExt, fBar, fEnum, fMid, fTop, fLast}
  FileOptions = fileOpts
  MaxNumber = 2
  MaxCalls = 2
  WellKnown <- MCWellKnown
  Calls <- MCCalls
SPECIFICATION Spec
INVARIANTS TypeOK LookupsSucceed FailuresAreContained NoTornCopies
PROPERTY CallsEnd
