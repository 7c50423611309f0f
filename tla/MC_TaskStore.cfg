CONSTANTS
  epic = epic
  sub = sub
  ada = ada
  bob = bob
  c1 = c1
  c2 = c2
  None = None
  Tasks <- MCTasks
  Agents <- MCAgents
  Callers <- MCCallers
  ParentOf <- MCParentOf
  DepChoices <- MCDepChoices
  Ttls <- MCTtls
  AutoClaim = TRUE
  MaxVersion <- MCMaxVersion
  MaxVersions = 4
  MaxClock = 1
SPECIFICATION FairSpec
INVARIANTS
  SequenceIdsUnique
PROPERTIES
  OperationsAreAtomic
  NoStolenClaim
  TickSparesLiveLeases
  TickWaitsForDeps
  TicksGetThrough
