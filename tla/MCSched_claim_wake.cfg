SPECIFICATION Spec
CONSTANTS
  N = 4
  Idle = 2
  Queues = {q}
  IrqQueues = {q}
  NoQueue = NoQueue
  Ops <- SafetyOps
  MaxTicks = 2
INVARIANT
  WakesWaitableOnly
