# A TLA+ model of prost-reflect

prost-reflect gives Rust programs protobuf reflection: descriptor pools built from
`FileDescriptorProto`s at run time, dynamic messages over them, and their binary, JSON and
text formats. This directory holds TLA+ models of it, TLC configurations that check them on
small instances, and theorems that the TLA+ proof system checks for every value of the
constants.

Paths below are relative to the repository; `build/` stands for
`prost-reflect/src/descriptor/build/`, `dynamic/` for `prost-reflect/src/dynamic/`.

## 1. The system

| Component | State | Operations | What is hard |
|---|---|---|---|
| Building a pool (`build/*`) | `DescriptorPoolInner`: tables of files, messages, enums, services, extensions; maps of names and file names | `build_files`: declare names, resolve references, interpret options, commit; `rollback` | three phases change the tables in place and any of them can fail for the batch as a whole; batches in any order; references through imports |
| The walk (`build/visit.rs`) | `Context`: path, scope, predicted rows | one walk per visitor | rows are predicted before they exist; paths are the identity of everything found later |
| Declarations (`build/names.rs`, `build/resolve.rs`) | the maps by number, name and JSON name of a message, the sorted values of an enum | one field, value or extension at a time | entries are made before it is known whether they are right; half-open and closed ranges; aliases; default values |
| Relative names (`build/mod.rs` 316-386) | the map of names | `resolve_name` | shadowing, files that are not imported |
| Options (`build/options.rs`) | the options message being built, source locations | `set_option`, `set_field_value`, storing by path | paths through messages, extensions and oneofs; locations that move; failures half way |
| Pool handles (`descriptor/api.rs`) | an `Arc` of the contents, shared with clones and with every descriptor | `new`, `clone`, drop, `add_*`, `decode_*` | copy-on-write while other threads hold the same contents |
| Accessors (`descriptor/api.rs`, `types.rs`, `tag.rs`) | none: a row and an Arc | protos by path, relatives by joined name, fields by number | every lookup expects to succeed |
| Global pool (`descriptor/global.rs`) | `OnceLock<Mutex<DescriptorPool>>` | `global`, `add_global_*`, `decode_global_*` | panics with the Mutex held, poisoning, a build that asks for the global pool again |
| Derived `ReflectMessage` (`prost-reflect-derive`) | a `Once` per type | `descriptor()`: register once, clone the global pool, look up | three nested locks, failing registration, threads racing for one type |
| Well-known types (`reflect/wkt.rs`) | the pool that is built first | `make_wkt_descriptor_pool` | 5000 lines of declarations, unwrapped when the global pool is first used |
| Fields of a dynamic message (`dynamic/fields.rs`) | a `BTreeMap` from number to value, unknown fields, or a mark | set, get_mut, clear, take, iterators that mutate or drain | oneofs; values and unknown fields in one map; descriptors of other pools |
| Wire format (`dynamic/message.rs`, `unknown.rs`) | none | `encode_raw`, `encoded_len`, `merge_field` | two walks that have to agree on lengths, failed merges, unknown fields, old and new readers, packing, truncation |
| Text format (`dynamic/text_format`) | the message being merged into | print, parse, merge | duplicates, oneofs, `Any`, escapes, merges that fail half way |
| JSON (`dynamic/serde`) | the message being filled | serialize, deserialize | two names per field, null, oneofs, the types with a mapping of their own, `Any` with entries before `@type` |
| Errors, `prost-reflect-build` | none | wording; generated attributes | nothing stateful |

How they interact: the add methods and the global pool both end in `build_files`, which walks
the files once per visitor (declare, resolve, options); the third phase may itself call
`DescriptorPool::global()` for the descriptor of an options message that its pool lacks
(`build/options.rs:310`), and the first use of the global pool builds the well-known types; a
dynamic message keeps a `MessageDescriptor`, and with it the pool as it was then, and asks it
about each number; the formats read and write messages through the field map only; options
are dynamic messages that the third phase fills by the same operations.

What makes each correct:

- a build adds the whole batch or nothing, accepts exactly the well-formed batches in any
  order, and its tables describe each other;
- a message finds each of its fields by number and by either name, an enum its values, and a
  descriptor its proto, its parent and its children;
- options arrive where the file says, and so do their source locations;
- handles are snapshots of each other;
- the global pool only ever shows complete contents, finds the types registered in it, keeps
  one caller's failure from the others, and never blocks anybody forever;
- a message has at most one field of a oneof, can always be encoded, encodes to what it
  holds, and passes on what it does not know;
- what is printed in either format reads back as it was, and a document means what its
  entries say.

## 2. Modules

| Module | Models | Role |
|---|---|---|
| `PoolTables` | the contents of a pool and the functions a build applies to them | pure operators |
| `PoolRegistry` | nothing: a pool is a set of files that grows by well-formed batches | abstract specification |
| `DescriptorPool` | handles, Arcs, `build_files` step by step | refines `PoolRegistry` |
| `PoolFiles`, `MCDescriptorPool` | the `.proto` files and batches of the instances | model checking |
| `DescriptorTypes` | `types.rs` and `tag.rs`: the structs of files and the numbers in paths | declarations |
| `DescriptorTree` | the walk of `visit.rs`, the tables it fills, commit and rollback by path | state machine |
| `Descriptors`, `MCDescriptors` | the accessors of `api.rs` over these tables | pure operators, recursive: TLC only |
| `WellKnown` | the files of `reflect/wkt.rs`, the reflected types | declarations, input of the walk |
| `Declarations`, `MCDeclarations` | one message, its extensions and an enum, declared and resolved | state machine |
| `AsciiText` | JSON names, unescaping of defaults, the string lexer and printer of the text format | pure operators |
| `NameScopes`, `MCNameScopes` | the map of names and `resolve_name` | state machine |
| `Options`, `MCOptions` | the options visitor, storing of options, moving of locations | state machine |
| `GlobalPool`, `MCGlobalPool` | `OnceLock`, `Mutex`, `Once`s and the threads on them | state machine, with the batches of `PoolRegistry` |
| `MessageMap` | nothing: fields set or unset, unknown fields in order | abstract specification |
| `FieldSet`, `MCFieldSet` | `DynamicMessageFieldSet`, `encode_raw`, `merge_field` | refines `MessageMap` |
| `WireFormat` | `message.rs` and `unknown.rs` down to keys, lengths and numbers | pure operators, recursive: TLC only |
| `WireRelay`, `MCWireRelay` | a message that goes through programs with other versions of its type | uses `WireFormat` |
| `MessageValues` | dynamic messages as the formats see them: defaults, presence, oneofs | pure operators |
| `TextFormat`, `JsonFormat` | writer and parser, serializer and deserializer, over trees | pure operators, recursive: TLC only |
| `FormatRelay`, `MCFormatRelay` | a message that is printed, edited, read back or merged | composes both formats |
| `FoldTheorems` | nothing: induction and recursive functions over positions | lemmas |
| `*Proofs` | lemmas and theorems about the module they are named for (section 4) | |

A definition whose comment starts with "Fault" is a plausible mistake in the definition after
it. No specification uses one: each is there to see that a property notices it.

### PoolTables and DescriptorPool

A file descriptor is abstracted to what the build reads of it: file name, packages, imports
(public, weak or neither), declarations of each kind with the names of their members, the names it
refers to with the kind that is expected, and the extensions it uses as file options. Names
are fully qualified. Tables are 1-based in the model, so `index < offset` in the code is
`index <= offset` here.

One operator stands for each visit of a file: `Declared` with `DeclareFails` (`names.rs`),
`Resolved` with `ResolveFails` (`resolve.rs`), `OptionsFail` (`options.rs`), `RolledBack` and
`Committed` (`build/mod.rs`). They keep what is easily lost: rows are pushed even when the
visit reports an error; the rows of services and extensions appear in the second phase, while
their names point to them from the first (`Deferred`); `resolve_public_dependencies` enters a
file only when it was in the set before; rollback filters the extension lists with the length
of the message table.

`DescriptorPool` has a handle per pool value a program holds (a descriptor is one too), a
heap of Arcs, and per handle the build in progress. A build is one step per file and phase,
because handles on the same Arc are used by other threads meanwhile: `StartBuild` filters the
known files and does `Arc::make_mut`, `DeclareFile`, `ResolveFile` and `OptionsFile` visit,
`EndPhase` moves on or fails, `Commit` and `Rollback` need `Arc::get_mut`, and
`UnknownSyntax` is the panic of `Label::new`, after which `Unwind` drops the handle. The
search for imports that does not end is a state without a further step (`ImportsEnd`).
Where a file has options the visit of the third phase is several steps, because the visitor
itself clones the pool: for the message it decodes the options into (`OpenOptions`) and for
each extension it finds (`SetOption`). `visitor` counts these references, and `GetMut` panics
while one is left.

### DescriptorTree, Descriptors and WellKnown

`DescriptorTree` looks inside one build: the walk of `visit.rs` with its stack of elements,
path, scope and predicted rows (`EnterFile`, and `Open`, `Visit`, `Close` and `Leave` over the
parts of an element), taken once by the visitor of names and once by that of references. A row
keeps the path of its element, as `Identity` does. A committed file is kept in two forms, as in
the code: the structs of `types.rs` and those of `prost-types`, into which references are
written back at the element's path. A refused batch rolls the tables back (`Refuse`), and what
is left of names, lists and rows is what the next batch builds on.

`Descriptors` has the accessors that find something rather than return a member: the protos
by path (`find_message_proto` and its like, in both forms), children by joined names, map
entries, oneofs, extensions by number. `WellKnown` translates every file that
`make_descriptor` builds; they are a batch of the walk like others, and at the same time the
reference for `DescriptorTypes`: `descriptor.proto`, as the crate itself declares it, says
what the numbers in `tag.rs` and the structs in `types.rs` should be.

### Declarations

One message with its fields and extensions, and one enum. `DeclareNames` is the first phase,
`VisitField`, `VisitEnumValue` and `VisitExtension` are single visits of the second, each
entering its row into all maps and collecting errors as the code does, whatever is wrong with
it. The binary search is a choice among all places it may return (`Places`). Defaults of type
bytes are unescaped byte by byte (`AsciiText`), including the `u8` overflow of octal escapes,
which panics or wraps depending on the build (`Checked`), and the slice that panics.
The references are a set of rules over sets of numbers (`Valid`) and, for defaults, the
separate lexer of the text format.

### Options

An options message is kept flat: a slot is a field of the message that a path of numbers leads
to, which makes a oneof at any depth, and the removal of a member with all that is in it,
visible. The visitor goes part by part (`Descend`, `SetValue`), and a failure leaves what was
done to the message (`Fails`). Locations are recorded when an option is interpreted and applied
after all options are stored (`StoreOptions`, `ApplyLocations`). Storing decodes the options
again, into the crate's own types (`Structs` has the kinds of their fields), and unwraps the
result: it panics (`StoreFails`) where the pool's `descriptor.proto` gives such a field another
wire type, and may where it makes it repeated, or anything else than a string (`MayClash`). A
path that the three functions do not know would panic too (`Reachable`); which paths there are
to store by is what the walk of `build/visit.rs` makes of a file (`IsElement`). The reference
is written from the reader's side: which option gives which slot, what removes it again
(`Gives`, `Removes`, `Settled`). From it `Valid` says which files are right, without a cursor
or a message that is being built. A value is one its field may have, unless the compiler or a
message literal brought it (`Given`): those are decoded and parsed by other modules.

### GlobalPool

A thread is at one place of a call: waiting in its `Once`, in the `OnceLock`, for the Mutex,
in the build, at the look-up. Building is one step here, with the result that the theorems on
`DescriptorPool` establish: a well-formed batch of `PoolRegistry` is added whole, unless it
depends on a chain of public imports (`Chained`), which the code may refuse, and any other is
refused. A build can panic with the guard held (`BuildPanics`), which leaves the files in front
of the one that panics in the pool, and it waits for its own Mutex if its options need the
global pool (`AsksForGlobal`). `refused` is a history variable.

### FieldSet

A value is the sequence of its elements: one for a scalar, the list of a repeated field, the
list of its one field for a message. An entry is absent, a value, unknown fields, or the mark
a draining iterator leaves. `Known` is what the message's descriptor knows; `Late` numbers
belong to extension descriptors of a newer pool, which `set_extension` accepts like any
other. Encoding is the sequence of occurrences in ascending order, decoding a fold of
`merge_field` over it. A failed merge is what `get_mut` did before it (complete elements that
were merged before the error are a merge of their own), except that prost empties a string
when its bytes do not decode (`Strings`). `failed` is the number whose merge failed last:
`MessageMap` lets that field become empty if it is a string, its rivals in a oneof unset, and
everything else has to stay.

### WireFormat and WireRelay

Bytes are tokens with a size in bytes: a key, a number of some wire type, the contents of a
bytes field. The lengths on the wire are numbers of bytes, and decide where loops stop.
Integers keep their width at a smaller scale: "32 bits" are `W` bits, "64 bits" `2 * W`, and a
byte of a varint carries `G` bits. The encoder has two halves, as the code has:
`EncodedLen` with what it calls, and `EncodeRaw` with what it calls, which uses the first
for every length. The decoder is `MergeField`, by cardinality `MergeValue`, by kind
`MergeElement`; what prost does (`MergeLoop`, `MergeGroup`, `Chunk`, `SkipField`) is modelled
from how the code uses it and marked external. `MergeValue` keeps the code's asymmetries: a
list is read packed or not whatever its own option says, a map does not look at the wire
type, an entry starts from defaults, drops unknown fields and does not count as nested.

`WireRelay` sends a message from program to program. Each decodes with its own version of
the type (`Receive`), and the stream may end early, once (`Lose`). The order of a `HashMap` is
not the caller's choice: `ascending` stands for it. Oneofs, failed merges and the other
operations on a message are in `FieldSet`.

### NameScopes

A full name is a sequence of parts. The files of a pool are visited one after the other
(`NextFile`), each declares its package from the outside in and then what is inside
(`Declare`, with `AddName` as in `names.rs`). `Resolve` is `resolve_name`; its loop from the
innermost scope out is a choice of the innermost level that satisfies what ends the loop, and a
fully qualified name (one with a leading dot, or without any scope) is looked up as it is. The
reference definition, `Means`, is the scoping rule of protobuf over the names that the file
or its imports declare, however the map was filled.

### TextFormat, JsonFormat and FormatRelay

Both formats work on trees: for text a message is a sequence of entries with a key and a
value, for JSON the values of `serde_json` in the order in which they are read. Strings are
bytes, printed and lexed one by one, because the printer's escapes and the lexer's are
different code. `Any` holds the message its bytes encode, and bytes that encode none.
`ParseMessage` and `ReadMessage` go entry by entry, with the checks for duplicates, oneofs
and unknown names in the code's order; JSON of the well-known types follows
`serde/{ser,de}/wkt.rs` type by type. `FormatRelay` prints a message with any of the options,
lets an editor swap, repeat or add entries of the first document, reads it back with any
options, prints it again in either format, or merges it into another message.

## 3. Runs

`expect: pass`:

| Run | Instance | Shows |
|---|---|---|
| `pool_core` | 2 handles, 2 Arcs, 9 batches, one of which panics | consistency of the tables, exact extension lists, exclusive builds, snapshots, refinement of `PoolRegistry`, also after a panic half way |
| `pool_rules` | 1 handle, 15 batches | which batches are refused for their options, enums, services and imports of each sort; after options that were set or refused nothing shares the pool that is being written (`GetMutsSucceed`) |
| `descriptors` | the well-known types, and four batches of one or two files with nested elements, two of which are refused (a clash of names, a type nobody imports) | predicted rows are the rows filled; every accessor finds what the files declare; the paths and structs agree with `descriptor.proto`; the well-known types build |
| `declarations` | 43246 states over files with every mix of a few numbers at the ends of ranges, names, JSON names, oneof indices, values, and default literals | verdicts agree with the rules, lookups are exact, defaults agree with the text format |
| `names` | 2 identifiers, names of up to 3 parts, 3 names, a file, its import and a stranger, all kinds | references resolve to what the scoping rule says, except that a stranger's parent can hide the meaning of a compound name |
| `options` | 30302 states: up to 3 options that meet in one message, up to 2 of which fail, and pairs of 17 kinds of elements | values arrive, locations follow, verdicts agree, oneofs stay exclusive; storing panics only where the pool's own options types differ from the crate's |
| `global_calls` | 2 threads, 2 calls each, 6 kinds of calls, with refused sets and builds that panic | types are found, failures contained, nobody sees a half-built pool, every call ends |
| `fields_core` | numbers 1-5: a oneof of a string and a message, a scalar without presence, a repeated extension, an unknown field between them, values of up to 2 elements | `FieldSet` refines `MessageMap`, also when merges fail; oneofs; round trips, also through readers with older schemas |
| `wire_relay` | 4 versions of a type, 40 messages nested up to 2 deep, `W = 4`, `G = 3`, 2 hops | encoder and lengths agree, every version reads what any version writes, what comes back is what was sent, truncation is detected |
| `formats` | 19 messages with 16 fields of every cardinality, well-known types in them and on their own, 4 ways to print in each format, 4 to read, 23 entries to add, 2 hops | round trips across formats, documents mean what they say, merges keep what is there |

Why the bounds are enough. A violation of the pool properties needs a file, one that refers
to it, and a batch that fails after both were touched: the core batches have them in both
orders, alone and together, with duplicates, with failures in each phase and with corrected
versions that can follow a refused one. Two handles and two Arcs give every case of sharing:
unshared, shared with an idle handle, shared with one that builds. The proofs of section 4
cover any number. For the walk, the batches have every kind of element inside every kind that
may contain it, messages three deep, several of each, and one file that imports another; each
batch is added to pools with and without the others. The well-known types are added to an
empty pool only, as the code does. For declarations, a duplicate needs two elements and a
search among aliases three values; numbers are those at both ends of each range. For options,
two that meet show an order, and the third shows what the removal of a oneof's member does to
what was set before and is set after; integers have 3 and 4 bits, with literals at the ends.
For messages, one field of each behaviour (scalar or list, with or without
presence, in a oneof or not, packed or one occurrence each) and sequences of length 2 show
order and accumulation. On the wire each way of encoding occurs with values on both sides of
a varint's size limits and inside each kind of nesting; 2 hops are a reader that does not know
the field and one that does, and a cut may fall between any two tokens; cuts inside a token
are left out, as prost reads numbers whole. In the formats each mapping of a value occurs, and
2 hops are each format after each; only the first document is edited, once, as an edit of the
second shows no more, and text is merged as it was printed. For names, 3 suffice for a
meaning, an inner name that competes with it, and a package around both. For the global pool,
each of the three locks has one holder and one waiter with two threads, and two calls show a
call after a failure.

`expect: violation`, each a disagreement between the code and what it says:

| Run | Property | What happens |
|---|---|---|
| `pool_lists` | `ExtensionListsExact` | rollback compares extension indices with the message offset (`build/mod.rs:98`), so a refused batch leaves a message with indices of extensions that are gone, or takes away ones that are there; `ListsExactUntilRollback` shows that this is the only way the lists go wrong |
| `pool_chain` | `OnlyInvalidBatchesRefused` | a public import of a publicly imported file is not followed (`build/resolve.rs:429`) |

Symmetry is not used: the instances are small, and the constants of the files differ in role.
Deadlock is checked where there is always something left to do: threads that have made all
their calls stutter in `Finished`, relays at their end in `Done`. The walks of `names`,
`declarations`, `options` and `descriptors` do end, and their runs do not check it.

Fairness. Only `GlobalPool` has liveness (`CallsEnd`). It assumes weak fairness of each
thread that is in a call: the operating system runs what can run. Neither `Once`, `OnceLock`
nor `Mutex` promises that a waiting thread ever gets its turn, so no strong fairness is
assumed; instead a thread makes at most `MaxCalls` calls, so that nobody can overtake a
waiting thread for ever. `Enter` is not fair: no program has to make a call. The rest of the
crate is called and returns: nothing there waits.

### Seen on the way

Behaviour that the models have, that the properties state as it is (or make an exception
for), and that a reader of the code may not expect:

- `build/resolve.rs:429` recurses for ever on a cycle of public imports, by the condition of
  `pool_chain`; an unknown syntax panics while its error is being labelled (`build/names.rs:59`).
- Of a compound relative name the first part is searched among the names of all files of the
  pool, so a package of a file that is not imported can hide the one that is meant
  (`build/mod.rs:355`); the exception `Hidden` of `ResolvesToMeaning`.
- Two extensions of a message may have one number: nothing compares them
  (`build/resolve.rs:370`). Octal escapes above 255 in a default panic or wrap, and a
  hexadecimal escape cut by a multi-byte character panics (`build/resolve.rs:865`).
- An option set through a oneof replaces the member an earlier option set, without an error,
  whose source location then points nowhere; a second value for an option is not noticed when
  the first was the default of a field without presence (`build/options.rs:399`); an option
  named `uninterpreted_option` is accepted and dropped.
- A pool whose own `descriptor.proto` declares a field of an options type with another wire
  type than the crate's is built, and a later file that sets that option makes the build panic
  (`build/options.rs:727`); `VerdictIsRight` makes an exception for it.
- A field of type string is empty after a merge that failed on it, whatever it held.
- An extension that is only in a newer pool can be set on an older message, and makes a later
  encode or merge panic (`dynamic/fields.rs:183`). Unknown fields inside a map entry are
  dropped (`dynamic/message.rs:370`). Messages nested deeper than the limit of decoding encode
  without an error.
- Text with unknown fields is printed, but not parsed; an `Any` whose domain is not made of
  identifiers (a hyphen, a second slash) likewise. `merge_text_format` that fails leaves what
  it had merged before.
- JSON: an infinite `FloatValue` or `DoubleValue` prints as null; an unset `Value` prints as
  null and comes back as `NULL_VALUE`; parts of a `FieldMask` path lose a trailing underscore
  and empty paths vanish; null for a repeated `Value` gives a single value where a list
  belongs (`dynamic/serde/de/mod.rs:172`), which a later merge of text panics on; `Empty`
  refuses unknown keys also when asked to ignore them; a 64-bit integer given as a real number
  saturates at the end of its range.

## 4. Theorems

All hold for every value of the constants, under the `ASSUME`s of the modules: `NoArc` is no
Arc, batches are sequences of files, `NoThread` is no thread, the numbers of a message split
into fields, extensions and others, the parts of a file are sequences (`ProtosAssumption`,
which also keeps the literals of defaults to bytes in quotes, and `FilesAssumption`), the
messages that options start from and that literals stand for have no two members of a oneof
themselves (decoding and parsing, `FieldSet` and `FormatRelay`, see to that), elements and
their options have the paths that `descriptor.proto` gives them (`PathsAssumption`), and the
fields of those messages are fields of the types they are in, with names and numbers of their
own (`TypesAssumption`). The checks of `Declarations` see to that for names and for the numbers
of fields. Numbers of two extensions of a message are compared nowhere in the code (see "Seen
on the way"), so that they differ is a hypothesis of the theorems about options. TLC evaluates
all of them on the runs' instances. Where a theorem has a hypothesis of its own, it is named
below.

**FoldTheorems.** The prover cannot use induction theorems that take a predicate, so induction
is over a set, as a consequence of the naturals being well-founded (`SetInduction`). From it
follows that an equation which takes the value at a position from later (or earlier)
positions has exactly one solution (`FoldExists`), and what a fold keeps if each step does
(`FoldStays`). That makes folds and recursive functions accessible to proofs, `RECURSIVE`
operators still not.

**DescriptorPoolProofs.** First what each operator of `PoolTables` returns: contents of a pool
again, tables at least as long as before, and, for `RolledBack`, tables of exactly the lengths
of the offsets. `TypeCorrect`, `BuildsAreExclusive` and `ClonesAreSnapshots` are not inductive.
The invariant `IInv` adds that the contents under construction never become shorter than the
offsets the build took at its start (`BuildsGrow`, which rollback needs to cut them back) and
that later phases visit from the first file on (`VisitsFiles`). `BuildsGrow` is kept because
nobody else changes these contents, which is `BuildersAreAlone`, and that is kept because
`MakeMut` takes a fresh Arc when the contents are shared and because a handle cannot be cloned
while it builds. The same invariant gives the action property: a step changes only the Arc of
a builder, a free one, or one that its last handle leaves.

`GetMutsDoNotPanic` adds that the visitor holds clones only while it is in a file
(`VisitsClosed`): a phase ends only between two files, so by a commit or a rollback none is
left, and `BuildersAreAlone` excludes all others.

`TablesMatch` and `ListsExactBeforeRollback` are about the contents. In the middle of a build
names point to rows that are not there yet, so the invariant (`ContentsInv`) says for each
phase how far the tables have come: a name has its row or is one of the `Slots` that the
services and the extensions still to be resolved will take, each kind in order (`Growing`). A
build that has failed need only be undoable, as every build is (`Undoable`: after rollback the
tables would match). The lists of extensions match as long as no rollback touched the contents
(`ListsMatch`).

**PoolRegistryProofs.** `KeepsRegistry`: each step of `DescriptorPool` is a step of
`PoolRegistry` or leaves the files of every pool as they were. A successful commit has to be
the addition of one whole well-formed batch, though files were added one by one, phases apart.
The invariant keeps an account of each build: its rows are the declarations of its files, no
more and no fewer (`Described`), its files are those of a prefix of a batch with duplicates
and known files left out (`Traced`), and what a phase has passed does resolve by the rules of
`PoolRegistry` (`Resolving`). The search for a name through public imports ends only in files
of any set that is closed under them, by induction over the imports and the depth.

`RefusalsAreRight`: no batch is refused that is, with the pool, closed under its references and
free of clashing names. The hypothesis is `PublicImportsEnd`: no file offered imports publicly a
file that itself imports one publicly. It is needed, as `pool_chain` shows the property violated
without it; TLC evaluates it on the batches of the other runs (`PublicImportsEndElsewhere`).
`RefusalInv` adds to the invariant of `KeepsRegistry` a reason for each error (`AllReasoned`).
In the first phase that is a file or a name declared twice (`Clashing`): by `Described`, what is
in the table of names when a file is declared comes from a declaration of some other file or
place. In the later phases it may also be a reference that does not resolve (`Unresolved`), and
here the argument of `KeepsRegistry` is turned round: the search through imports has to find
enough. Its fold gathers every public import it meets (`FoldGathers`), and below those nothing
is left to follow. That takes a pool at rest, and whatever was there when a build began, to have
each import it names (`Closed`) and a message for each extension (`Extending`). A rollback is
entered only when a phase has gone through all of the batch, so a reason found in what the build
has added is a reason against the batch (`NotWellFormed`). The proof corrected the abstract
specification: `NamesDistinct` had let an enum have a value of its own name, which the code
refuses; `EnumSelf` is that case.

**FieldSetProofs.** `TypeCorrect`, and `OneofsExclusive` for any set of oneofs. The next two
hold for messages that are only reached through descriptors of their own pool (`Late = {}`);
with an extension of a newer pool the panics of `iter_set` and `add_unknown` are reached, so
the hypothesis is needed. `KeepsMap`: each operation, also one that drains half way or a merge
that fails, is an operation of `MessageMap`. `OldReadersKeepFields`: encoding is a walk that
lists, by number, the occurrences of each; decoding a walk after which an entry depends on the
occurrences of its own number only (and on later members of its oneof, of which there are
none); so a number that a reader does not know is passed on occurrence by occurrence, and one
that it knows is written as it was read. The walks are folds, by induction over positions and
over the finite set of numbers.

**GlobalPoolProofs.** `TypeCorrect`: the guard of the Mutex, the closures of the `Once`s and
of the `OnceLock` have exactly the holders that the places of the threads say. `CopiesAreWhole`:
a torn pool implies a poisoned Mutex, so nobody clones it. `TypesAreFound`: the message of a
call whose `Once` is done is declared by a file of the pool, the pool only grows, and a copy
keeps it; this needs `DerivedTypesAgree`, that files of one name are one file, in the sets of
derived types and whatever else is added, because `build_files` skips files by name.
`PanicsHaveCauses`, under the same hypothesis: a poisoned `Once` stands for a refused set or a
torn pool, and nothing else poisons the Mutex.

**NameScopesProofs.** `ReferencesMean`: the level `resolve_name` stops at is the one the
scoping rule names, or the first part of the name is hidden. The innermost level exists because
levels are well-founded; what is the first part of a longer name is a parent (`ParentsInv`),
which settles the empty scope, where a name is looked up in full; the invariant `NamesInv` says
that the map has exactly the names that some file declares, that a name which is no package is
of one file, and that a file declares all that holds a name it declares.

**DeclarationsProofs.** For `TypeCorrect`, `LookupsExact` and `ValuesSorted` the invariant is
their conjunction with `Shape`, which adds the form of the records and that there is no error
before the first phase. `FieldsFound` speaks of files without an error so far, and is kept
because errors only accumulate: a step without a new one replaced nothing in any map
(`Replaces`), so the keys of its field are its own, and the index it entered is beyond all
those that `TypeOK` says the maps and oneofs lead to. `ValuesSorted` rests on one lemma about
sequences, `InsertedFacts`: an element inserted at any place a binary search may return leaves
a sorted sequence sorted, and strictly sorted if the number was not there.

`VerdictsRight` compares the verdict with rules stated over the whole file, while the code
checks each element against what it has visited so far. The invariant says which elements have
been visited and what the maps have of each (`Traced`), that those visited without an error
keep the rules among themselves (`Passed`), that an error means a rule is broken (`Blamed`),
and where the phases end (`Ends`). `DefaultsReadAlike`: both readers of quoted bytes are
functions of positions that take their value from later ones. At every position they either
take the same step, or one of them refuses; so by induction from the end of the literal they
agree on all that both accept.

**OptionsProofs.** `OneofsNeverMeet`: whatever the options, their order and their failures,
no oneof of the options message or of a message in it, at any depth, has two members.
The invariant adds where the cursor of the visitor may be, and that slots have the shape of a
message. The heart is that `GetMut` removes the rivals before it adds a member (with all that
is in them), and that a literal grafted into a message brings its own slots only where all
others were removed.

`LocationsMoveOnce`: in an accepted file each source location in an option has moved with it,
once, and the others have stayed. Locations are applied one after the other to paths that
earlier ones have changed, so what has to be excluded is that a path which has moved begins
with the path of another option (`StaysMoved`). It does not: paths of options messages begin
no other, and the path recorded for a value is in a field other than `uninterpreted_option`,
or behind all those options, as that list is never removed nor shortened (`ListKept`).

`VerdictsOnOptions`: a file is refused exactly when an option of it is wrong. The code asks
whether a field is set in the message it has built up to there; `Valid` asks whether some
earlier option gave it a value that shows, and none between took it away. So the invariant
(`VInv`) accounts for every slot while no error has been found (`Account`): it shows if and only
if `Already` says so and the way of the option under the cursor has removed nothing of it, or if
the cursor has come through it. That way is the chain of fields which the parts of the name have
led through (`Walked`), and there is only one, as names are unique in a message. The account
survives because no rival of a field on the way takes away what is behind that field
(`BehindStays`), and because what is in a message that shows is of the message's type
(`WellTyped`), so a slot has only one field. After the first error the message is no
longer what a reader would expect, and the invariant only keeps that some option is wrong. The
other parts of `VerdictIsRight` follow: values come from `Converted`, from defaults or are
`Given`; and storing panics only if a field of an options type of the pool may clash with the
crate's own (`StoreFailsVerdict`), as the paths of options are the path of an element with its
tag, which `set_file_option` and the functions it calls take apart (`OptionsReachable`, by
cases of the element and by the depth of a message in messages), and as what is stored has only
fields of the options type of its element (`Outermost`).

`OptionsAllArrive`: once a file is accepted, the location recorded for each option leads to its
value in what is stored for its element, unless a later option has removed it from a oneof or
the value does not show. `Account` says which slots show, not what is in them, so `AInv` adds
an account of values (`Finds`): each option interpreted so far has a location that leads to its
value (`Held`), or some option since, or the way to the cursor, has removed the slot (`Lost`).
That survives an option because `GetMut` leaves what it does not remove as it is
(`GetMutLeaves`), and because `WithValue` then changes one slot, which a list or a map only
grows in (`Grows`), or which did not show: a second value for it, or for a message that already
shows, is a `DuplicateOption`. A message literal replaces what was in the message, which did
not show, and so had nothing in it (`SetValueHeld`). A list and the elements in it cannot be
mistaken for each other, as nothing is below the path of a list (`NotBelowList`). At the end of
a node the account is cut to what shows (`Ends`), and `StoreOptions` stores it under a path
that no other node has (`Stores`).

**Only model-checked.**

- `OnlyInvalidBatchesRefused` where public imports form a chain: a run shows that it is
  violated (`pool_chain`).
- All of `WireRelay`, `FormatRelay` and `Descriptors`: formats and walks nest to any depth and
  are written with `RECURSIVE` operators, for which the prover has no backend.
- `CallsEnd`: liveness under fairness.

## 5. Not modelled

- Errors: their wording, labels and source locations. That an error is reported, and of which
  kind, is modelled, and so is the panic of a label.
- `prost-reflect-build`, which runs protoc and writes attributes into a prost configuration,
  and the parsing of attributes by the derive macro: both happen at compile time, without
  state.
- Number literals of defaults, text and JSON, base64, and the strings of timestamps and
  durations: conversions by the standard library and by crates. They are marked by what they
  stand for (digits, a date) and are not spelled out. Floats are a few values with the
  infinities and NaN.
- The text lexer beyond strings, layout and separators, and the places in parse errors.
- Of the descriptors: `Debug` output, getters that return one member, and the encoding of a
  pool (`encode`, `file_descriptor_protos`), which hands out the bytes it was given.
- `PartialEq` of dynamic messages, and the limit of nesting beyond what `WireRelay` has.
- Tests, benches and the conformance runner, which were read for what they expect.
