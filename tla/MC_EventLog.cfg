CONSTANTS
  task = task
  agent = agent
  Kinds <- MCResources
  Resources <- MCResources
  KindOf <- MCKindOf
  PageSizes <- MCPageSizes
  MaxSeq = 3
  MaxEpoch = 2
  MaxClock = 1
SYMMETRY Symmetry
SPECIFICATION Spec
INVARIANTS
  TypeOK
  SeqNeverReused
  StreamHasNoGap
  ResourceReplayHasNoGap
  TooOldIsReal
