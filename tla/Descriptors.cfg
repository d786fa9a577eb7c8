\* The walk over files, the tables and the accessors.
SPECIFICATION Spec
CONSTANTS
  Batches <- MCBatches
  Alone <- MCAlone
INVARIANTS IndexesPredicted ProtosFound SchemaAgrees ReferencesWritten FamiliesAgree WellKnownBuilds
\* All batches may have been added.
CHECK_DEADLOCK FALSE
