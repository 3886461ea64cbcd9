SPECIFICATION MCSpec
CONSTANTS
  SndCfgs <- MCSndCfgs
  Faulty = FALSE
  ConSize = 2
  MaxBytes = 4
  ConCfgs <- MCConCfgs
  Displays = {1, 2}
  MaxResizes = 3
  GpuCfgs <- MCGpuCfgs
  TrCfgs <- MCTrCfgs
  Offered <- MCOffered
  Supported <- MCSupported
  QSize = 4
  GenMod = 256
  MaxChanges = 2
  MaxCalls = 2
  FirstUser = 4096
  LastUser = 8192
  Word = 256
  PciPage = 32
  MaxDevices = 2
  MaxFns = 2
  PciCfgs <- MCPciCfgs
  Byte = 2
  SlotMod = 4
  DiskSize = 10
  Heads = 2
  Track = 2
  MaxRequests = 2
  IdeCfgs <- MCIdeCfgs
  Components = {"sound", "console", "gpu", "transport", "pci", "ide"}
INVARIANTS
  PlaybackRight
  
  
  SetupWhole
  
  
  

  
  
  
CHECK_DEADLOCK FALSE
