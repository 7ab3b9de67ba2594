SPECIFICATION Spec
CONSTANTS
  r1 = r1
  r2 = r2
  r3 = r3
  w1 = w1
  w2 = w2
  w3 = w3
  Requests = {r1, r2, r3}
  Containers = {w1, w2, w3}
  TasksPerContainer = 2
  MinContainers = 1
  MaxContainers = 2
  ProbesPerApply = 1
  WithoutFormat = {}
  MaxQueue = 3
  Faults = {"sick", "fetch"}
SYMMETRY Symmetry
INVARIANT TypeOK
INVARIANT ExactlyOnePlace
INVARIANT WorkerCapacity
INVARIANT FinishedIsServed
INVARIANT InputKept
INVARIANT WorkersAreContainers
INVARIANT AtMostMax
PROPERTY ImplementsDispatch
