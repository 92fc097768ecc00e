SPECIFICATION Spec
CONSTANTS
  Key = {1, 2, 5}
  Value = {0, 1}
  Ident <- MCIdent
  RawHash <- MCRawHash
  HASH_BITS = 14
  MINIMAL_POWER2 = 1
  MAX_POWER2 = 2
  MAX_POWER2_WITHOUT_BINS = 1
  BIN_BITS = 2
  REBUILDS_MOD = 16
  Ops = {"delete"}
  MayMutate <- AnyCompare
  MayRebuild <- AnyCompare
  MaxOps = 5
CHECK_DEADLOCK FALSE
INVARIANT ReentryKeepsCount
