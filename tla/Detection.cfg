SPECIFICATION Spec
CONSTANTS
  NaN = NaN
  Bad = Bad
  Sub = 2
  FeeNum = 1
  FeeDen = 20
  Depth = 2
  GrinexDepth = 2
  Person = {7}
  RapiraAsks <- MCRapiraAsks
  RapiraBids <- MCRapiraBids
  GrinexAsks <- MCGrinexAsks
  GrinexBids <- MCGrinexBids
  Group = {8}
CHECK_DEADLOCK FALSE
INVARIANTS
  TypeOK
  ProfitWithinSpread
  AmountIsAvailable
  TwinsAreFactThenPotential
  MessageTellsWhatWasFound
