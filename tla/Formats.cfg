SPECIFICATION Spec
CONSTANTS
  Schema <- MCSchema
  EnumOf <- MCEnumOf
  FullName <- MCFullName
  Bits <- MCBits
  Seconds <- MCSeconds
  Messages <- MCMessages
  Extras <- MCExtras
  TextOptions <- MCTextOptions
  JsonOptions <- MCJsonOptions
  ReadOptions <- MCReadOptions
  MaxHops = 2
INVARIANTS RoundTrip DocumentMeans MergesKeep
