SPECIFICATION Spec
CONSTANTS
  c1 = c1
  c2 = c2
  c3 = c3
  Ids = {c1, c2, c3}
  MaxTries = 2
  Converter <- MCMixed
  InputMayVanish = FALSE
  NoFile = NoFile
CHECK_DEADLOCK FALSE
INVARIANT ConvertedIsDownloadable
