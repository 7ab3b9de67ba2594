SPECIFICATION Spec
CONSTANTS
  c1 = c1
  c2 = c2
  c3 = c3
  Ids = {c1, c2, c3}
  MaxTries = 2
  Converter <- MCMixed
  InputMayVanish = TRUE
  NoFile = NoFile
CHECK_DEADLOCK FALSE
INVARIANT TypeOK
INVARIANT NoLostWakeup
INVARIANT OneStory
INVARIANT AnnouncedIsServed
PROPERTY PositionNeverGrows
