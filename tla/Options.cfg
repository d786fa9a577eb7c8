SPECIFICATION Spec
CONSTANTS
  Fields <- AllFields
  EnumOf <- Enums
  Files <- AllFiles
  Bits <- Widths
  Structs <- OwnTypes
  None = None
INVARIANTS OneofsExclusive VerdictIsRight OptionsArrive LocationsFollow
CHECK_DEADLOCK FALSE
