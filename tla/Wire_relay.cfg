CONSTANTS
  Schema <- MCSchema
  First = "full"
  Messages <- MCMessages
  W = 4
  G = 3
  Limit = 2
  MaxHops = 2
SPECIFICATION Spec
INVARIANTS LengthsExact RelaysPreserve TruncationDetected
