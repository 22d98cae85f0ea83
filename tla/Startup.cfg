SPECIFICATION FairSpec
\* The bound on faults ends the steps of a process that is ready.
CHECK_DEADLOCK FALSE
CONSTANTS
  Envs <- MCEnvs
  Deployments <- MCDeployments
  MaxFaults = 2
INVARIANTS
  TypeOK
  OnlyUncheckedValuesGetThrough
PROPERTIES
  EveryProcessGetsReady
  StopsWhenAsked
  NoHandlerIsCut
