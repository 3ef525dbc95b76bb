SPECIFICATION BootSpec
CONSTANTS
  PAGE_SIZE = 16
  ENTRIES = 4
  TABLES = 2
  Devs = 2
  Bars = 3
  Functions <- MCFunctions
  Machines <- MCMachines
  PCI_POOL = 256
  PCI_STRIDE = 64
  DWORD = 1024
  XHCI_TIMEOUT = 2
  XHCI_BANK = 32
  Affinities <- MCAffinities
  Core = 0
  UPTIME_END = 30
INVARIANTS MappedBanksTranslate BanksReachTheirDevice EnabledQueueIsReady NicStarted ReportedAsSeen
PROPERTIES BootEnds UptimeAdvances
