SPECIFICATION Spec
CONSTANTS
  Wires <- MCWires
  Ids = {id1, id2}
  CHUNK_BYTES = 2
  MaxFrags = 3
  REASSEMBLY_TTL = 1
  MaxClock = 1
  MaxCopies = 2
  MaxRestarts = 1
  NoWire = NoWire
  NoPartial = NoPartial
SYMMETRY Symmetry
CHECK_DEADLOCK FALSE
INVARIANTS TypeOK OnlyWholeWires NoAmplification
PROPERTIES HandedWithinTTL ImplementsChannel
