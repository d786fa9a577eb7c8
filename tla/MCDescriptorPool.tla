-------------------------- MODULE MCDescriptorPool ---------------------------
(***************************************************************************)
(* Small instances of DescriptorPool: the batches the runs add.            *)
(***************************************************************************)
EXTENDS DescriptorPool, PoolFiles

CONSTANTS h1, h2, a1, a2

\* Batches in both orders, with duplicates, and failing in each of the phases;
\* a refused batch can be followed by its corrected version.  One panics half way.
CoreBatches == {
  <<FooFile>>, <<ExtFile>>, <<ExtFile, FooFile>>, <<FooFile, ExtBad>>, <<ExtBad>>,
  <<FooFile, FooFile2>>, <<BarFile>>, <<BarClash, FooFile2>>, <<FooFile, EditionFile>> }

\* Enums, services, options, and public imports.
RuleBatches == {
  <<OptFile>>, <<UseFile, OptFile>>, <<UseTwice>>, <<UseWrong, OptFile>>, <<UseFile>>,
  <<EnumFile>>, <<EnumSelf>>, <<EnumBad, OptFile>>,
  <<TopFile, MidFile, FooFile>>, <<MidFile, FooFile>>, <<FooFile>>, <<MidPrivate>>,
  <<TopFile>>, <<MidBadIndex>>, <<MidBadWeak>>, <<TopFile, MidPrivate>> }

\* Public imports of public imports: a set as the protobuf compiler writes it, every
\* file after those it imports.
ChainBatches == { <<FooFile, MidFile, BarPublic, TopOfChain>> }

\* The instances without such chains meet the hypothesis of RefusalsAreRight.
ASSUME PublicImportsEndElsewhere == Batches # ChainBatches => PublicImportsEnd
=============================================================================
