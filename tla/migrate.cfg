SPECIFICATION FairSpec
CONSTANTS
  old = old
  new1 = new1
  new2 = new2
  Replicas = {old, new1, new2}
  Files <- ImageFiles
  MaxStops = 2
INVARIANTS TypeOK AppliedOnceIffRecorded RecordedInOrder ServesOnItsSchema
PROPERTIES EveryReplicaServes
CHECK_DEADLOCK FALSE
