SPECIFICATION Spec
CHECK_DEADLOCK FALSE
CONSTANTS
  RDMA_MAX_WR = 4
  TwoPhaseCohorts <- MCCohorts
  ProgramSet <- AllPrograms
VIEW LivePrograms
INVARIANTS
  TypeOK
  NoFailure
  NobodyIsStuck
  MessagesInStep
  ContextsOutliveRequests
  FreeLockNamesVersion
  HeldLocksHaveOwners
  UntornReadsLoseNothing
  WalkAddsInOrder
  HandlersOutliveClients
PROPERTIES
  VersionsIncrease
  RegionsStayPrivate
  ImplementsAtomicCommit
