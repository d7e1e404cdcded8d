SPECIFICATION BootSpec
CONSTANTS
  PageSize = 16
  Fanout = 2
  Kernel <- MCKernel
  FirmwareTables <- MCFirmwareTables
  NPages = 19
  FirmwareMaps <- MCFirmwareMaps
  EventPages = {4, 6, 10}
  MaxEvents = 2
  Images <- MCImages
  Slack = 1
  BootInfos = {}
  BootInfoAt <- MCBootInfoAt
  Alignment = 2
  Header = 4
  HeapPage = 4
  TestPage = 0
  Sizes = {1, 5, 13}
  Contexts = {c1}
  BootCtx = c1
INVARIANTS BootTypeOK HandoffMapCurrent KernelIntact FilesClosed PagesOwnedOnce HeapMapped FreedIsReleased
PROPERTY HeldMemoryStays
CHECK_DEADLOCK FALSE
