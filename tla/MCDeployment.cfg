SPECIFICATION Spec
CONSTANTS
  Numbers <- MCNumbers
  Failed = Failed
  Extensions = {"pdf", "png", "odt"}
  Deployments <- MCDeployments
  Bodies <- MCBodies
  MaxLate = 3
CHECK_DEADLOCK FALSE
INVARIANT WorkersBoot
INVARIANT ChosenAsWanted
INVARIANT OfferedIsAccepted
PROPERTY AppliedInTime
