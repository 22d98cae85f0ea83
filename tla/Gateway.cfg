SPECIFICATION FairSpec
CONSTANTS
  PollInterval = 0
  DefaultPoll = 2
  RequestTimeout = 4
  SetTimeout = 1
  MaxDelay = 2
  BookTTL = 3
  TickTimeout = 1
  TokenTTL = 8
  Skew = 6
  Truncation = 1
  Drift = 1
  MaxFaults = 2
  NoBook = NoBook
  NoSet = NoSet
INVARIANTS
  TypeOK
  BooksComparedAreRecent
  MissingBookIsASlowPoll
  TokenOutlivesRequest
PROPERTIES
  NoOlderBook
  BookComesBack
