SPECIFICATION BootSpec
CONSTANTS
  PageSize = 2
  NewlibHeap = 3
  Grain = 4
  DefaultHeap = 12
  Heaps <- SmallHeaps
  Headers <- BootHeaders
  MaxSegments = 2
  Word = 64
  Bits = 3
  Virtbase = 30
  Undef = Undef
  Place <- SmallPlace
  Own <- SmallOwn
  Imports <- SmallImports
  Modules <- SmallModules
  Hooked <- SmallHooked
  Trampoline <- SmallTrampoline
  Visibility = "visibility"
  EntryPoints <- SmallEntryPoints
  Optional = {"menu"}
  Binaries <- SmallBinaries
  Thread = {t1, t2}
  MainThread = main
  NoBlock = none
SYMMETRY Symmetry
CHECK_DEADLOCK FALSE
INVARIANTS
  ImageSound
  WordsBound
  ReadsMapped
  GameCodeReady
  EntriesSound
  ThreadsSound
  NoDoubleFree
  SharedKept
  SourcesReleased
PROPERTIES
  SetOnce
