CONSTANTS
  Builds <- MCBuilds
  Memory <- MCMemory
  NoRsdp = NoRsdp
  NoRoot = NoRoot
  Clients = {c1, c2, c3}
  PageCounts <- MCPageCounts
  BufferTables = 2
  Vectors = {2, 14, 32}
  ErrorCodes = {0, 14}
  MaxDepth = 2
SYMMETRY Symmetry
SPECIFICATION TablesSpec
INVARIANTS MappedIffReferenced RefsExact MemoryKept
PROPERTIES BadCsumFatal LoadedAtMostOnce ContextRestored
