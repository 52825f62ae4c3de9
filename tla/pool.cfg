SPECIFICATION Spec
CONSTANTS
  max_chunks <- MCMaxChunks
  None = None
INVARIANTS
  FreeListIsExact
  ChunkHeldByReferences
PROPERTY ImplementsAllocator
