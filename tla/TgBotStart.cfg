SPECIFICATION Spec
CONSTANTS
  NaN = NaN
  NoRow = NoRow
  NoCall = NoCall
  c1 = c1
  Chats = {c1}
  Numbers <- MCOneNumber
  DiffLimit = 5
  NotionalLimit = 7
  MaxFaults = 0
INVARIANT StartButtonMeansInactive
