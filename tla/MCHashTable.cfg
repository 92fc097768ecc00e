SPECIFICATION MCSpec
CONSTANTS
  Key = {1, 2, 3, 4, 5}
  Value = {0, 1}
  Ident <- MCIdent
  RawHash <- MCRawHash
  HASH_BITS = 14
  MINIMAL_POWER2 = 1
  MAX_POWER2 = 3
  MAX_POWER2_WITHOUT_BINS = 1
  BIN_BITS = 2
  REBUILDS_MOD = 2
  NoTable = NoTable
  Sizes = {0, 2, 4}
VIEW View
INVARIANTS
  TypeOK
  BinsIndexLive
  EveryProbeWorks
PROPERTIES
  ImplementsOrderedMap
