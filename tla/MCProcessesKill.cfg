CONSTANTS
  Components = {"process"}
  Threads = {cleanup, shell, a, b}
  Cleanup = cleanup
  Shell = shell
  Kernel = kernel
  NoThread = NoThread
  Owner <- MCOwner
  cleanup = cleanup
  shell = shell
  a = a
  b = b
  kernel = kernel
  app = app
  other = other
  k1 = k1
  k2 = k2
  Keys <- MCKeys
  Capacity = 2
  PeerCapacity = 1
  Mod = 3
  Loads <- MCLoads
SPECIFICATION MCSpec
CHECK_DEADLOCK FALSE
INVARIANT KillFindsThread
