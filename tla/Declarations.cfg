SPECIFICATION Spec
CONSTANTS
  Protos <- AllProtos
  Checked = TRUE
  None = None
INVARIANTS TypeOK FieldsFound ValuesFound VerdictIsRight DefaultsAgree
CHECK_DEADLOCK FALSE
