SPECIFICATION Spec
CONSTANTS
  NaN = NaN
  NoBook = NoBook
  NoRow = NoRow
  NoUser = NoUser
  c1 = c1
  c2 = c2
  rBook = rBook
  gBook = gBook
  Sub = 1
  FeeNum = 1
  FeeDen = 2000
  Depth = 5
  Chats = {c1}
  Workers = {"nats", "ticker"}
  BooksOf <- MCBooksOf
  Settings <- MCOneSetting
  Detected <- MCShallowDetected
  MaxWindows = 1
  MaxPending = 1
  MaxFaults = 0
  MaxCrashes = 0
INVARIANT AtMostOncePerWindow
