SPECIFICATION FairSpec
CONSTANTS
  r1 = r1
  r2 = r2
  r3 = r3
  w1 = w1
  w2 = w2
  w3 = w3
  Requests = {r1}
  Containers = {w1, w2}
  TasksPerContainer = 1
  MinContainers = 1
  MaxContainers = 2
  ProbesPerApply = 1
  WithoutFormat = {}
  MaxQueue = 1
  Faults = {}
PROPERTY FinishedExpires
