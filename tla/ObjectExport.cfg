SPECIFICATION Spec
CONSTANTS
  Assets <- MCAssets
  PageSize = 6
  ReadBatchSize = 3
  ImageBatch = 4
  TypetreeBatch = 2
  FlushBytes = 3
  Formats = {"png", "webp"}
  Leftovers <- MCLeftovers
  MaxOrdinal = 8
  Faults = {"crash", "error", "object", "io"}
  MaxFaults = 2
INVARIANTS ExportAccounted QueueBounded
CHECK_DEADLOCK FALSE
