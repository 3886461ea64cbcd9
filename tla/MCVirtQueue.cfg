CONSTANTS
  SIZE = 4
  IdxMod = 8
  EventIdx = TRUE
  NoAddr = NoAddr
  ListAddr = ListAddr
  NoList = NoList
  b1 = b1
  b2 = b2
  b3 = b3
  b4 = b4
  Buffers <- MCBuffers
  BufferAt <- MCBufferAt
  Requests <- MCRequests
SPECIFICATION MCSpec
VIEW LiveView
INVARIANTS
  IInv
  DeviceSeesRequest
  TokenIsIndex
PROPERTIES
  LentUntouched
  RefinesRequestPool
