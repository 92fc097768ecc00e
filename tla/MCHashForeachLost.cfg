SPECIFICATION Spec
CONSTANTS
  Key = {1, 2, 3, 4}
  Value = {0, 1, 2, 3, 4, 5, 6, 7, 8}
  Ident <- MCIdent
  RawHash <- MCRawHash
  HASH_BITS = 3
  MINIMAL_POWER2 = 1
  MAX_POWER2 = 3
  MAX_POWER2_WITHOUT_BINS = 1
  BIN_BITS = 2
  REBUILDS_MOD = 16
  Variants = {"foreach"}
  MaxOps = 5
INVARIANT EverySurvivorVisited
