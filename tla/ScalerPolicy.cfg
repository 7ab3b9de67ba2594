SPECIFICATION Spec
CONSTANTS
  TasksPerContainer = 2
  MinContainers = 1
  MaxContainers = 4
  MaxPending = 9
INVARIANT TypeOK
INVARIANT AtMostMax
INVARIANT OneDirection
PROPERTY StartsTheLeastSufficient
PROPERTY RemovalLeavesMinimum
