CONSTANTS
  Parts = {"a", "b"}
  Files = {"self", "dep", "other"}
  Self = "self"
  Seen = {"self", "dep"}
  Kinds = {"package", "message", "enum", "service", "field", "extension"}
  MaxDepth = 3
  MaxNames = 3
SPECIFICATION Spec
INVARIANTS ResolvesToMeaning
CHECK_DEADLOCK FALSE
