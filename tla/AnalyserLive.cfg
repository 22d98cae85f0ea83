SPECIFICATION FairSpec
CONSTANTS
  NaN = NaN
  NoBook = NoBook
  NoRow = NoRow
  NoUser = NoUser
  c1 = c1
  c2 = c2
  rBook = rBook
  gBook = gBook
  Sub = 1
  FeeNum = 1
  FeeDen = 2000
  Depth = 5
  Chats = {c1}
  Workers = {"ticker"}
  BooksOf <- MCBooksOf
  Settings <- MCSettings
  Detected <- MCDetected
  MaxWindows = 2
  MaxPending = 1
  MaxFaults = 1
  MaxCrashes = 1
PROPERTIES
  StandingOpportunityIsMarked
