CONSTANTS
  Numbers = {1, 2, 3, 4, 5}
  Fields = {1, 3, 5}
  Extensions = {4}
  Late = {}
  Atoms = {0, 1}
  Zero = 0
  Scalar = {1, 2, 5}
  Strings = {1}
  Unpacked = {4}
  Presence = {1, 3}
  Oneofs <- MCOneofs
  MaxLen = 2
SPECIFICATION Spec
INVARIANTS TypeOK OneofExclusive OldReadersPreserve
PROPERTIES ImplementsMap
