SPECIFICATION MCSpec
CONSTANTS
  IdxMod = 6
  QueueSize = 3
  Threads = {cleanup, shell, a, b}
  Cleanup = cleanup
  Shell = shell
  cleanup = cleanup
  shell = shell
  a = a
  b = b
  gpu = gpu
  input = input
  sound = sound
  IrqCfgs <- MCIrqCfgs
  Gpu = gpu
  SwThreads = {t1, t2}
  MaxPhase = 2
INVARIANTS
  NoLostKick
  OnePlace
  
  ResizeRemembered
PROPERTIES
  EveryBufferTaken
  WaitersRun
  ResizeNoticed
CHECK_DEADLOCK FALSE
