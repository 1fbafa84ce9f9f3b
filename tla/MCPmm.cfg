CONSTANTS
  MAX_PAGES = 10
  MemMaps <- MCMemMaps
  Handles = {h1, h2, h3}
  StackAddr <- MCStackAddr
SPECIFICATION Spec
INVARIANTS PagesSound ScanComplete PagesOwned NoStaleData
PROPERTY ImplementsPageAllocator
