SPECIFICATION FairSpec
CONSTANTS
  Requests = {r1, r2}
  MaxRoom = 2
  MaxFaults = 2
INVARIANT TypeOK
INVARIANT WaitingIsQueue
INVARIANT LoopCanFinish
PROPERTY ImplementsFifo
PROPERTY ProbeReturns
PROPERTY LostQueueReturns
