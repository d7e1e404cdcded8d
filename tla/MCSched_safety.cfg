SPECIFICATION Spec
CONSTANTS
  N = 4
  Idle = 2
  Queues = {q, d}
  IrqQueues = {d}
  NoQueue = NoQueue
  Ops <- SafetyOps
  MaxTicks = 2
INVARIANTS
  
  RunQueueExact
  WaitQueueExact
  NoLostWakeup
  OneRunning
  AssertionsHold
  SleepDeadlines
PROPERTY
  OnlyValidTransitions
  FaultWindows
