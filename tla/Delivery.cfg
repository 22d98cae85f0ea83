SPECIFICATION Spec
SYMMETRY MCSymmetry
CONSTANTS
  Workers = {nats, ticker}
  Ops = {o1, o2}
  o1 = o1
  o2 = o2
  Found <- MCFound
  TTL = 2
  Forever = Forever
  MaxFaults = 2
INVARIANTS
  TypeOK
  HeldBackByOthers
  SignalsAfterStopWereUnderWay
  StoredIsShownOnce
PROPERTIES
  RepeatsKeepTheirDistance
