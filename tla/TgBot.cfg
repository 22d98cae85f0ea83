SPECIFICATION Spec
CONSTANTS
  NaN = NaN
  NoRow = NoRow
  NoCall = NoCall
  c1 = c1
  Chats = {c1}
  Numbers <- MCNumbers
  DiffLimit = 5
  NotionalLimit = 2
  MaxFaults = 1
INVARIANTS
  TypeOK
  WatchedKindHasThreshold
  StopButtonMeansActive
PROPERTY WizardEndsSaved
