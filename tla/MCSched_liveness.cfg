SPECIFICATION FairSpec
CONSTANTS
  N = 3
  Idle = 2
  Queues = {q}
  IrqQueues = {}
  NoQueue = NoQueue
  Ops <- LiveOps
  MaxTicks = 2
PROPERTIES
  SleepersWake
  ReadyRuns
  ZombiesReaped
