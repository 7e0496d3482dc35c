SPECIFICATION Spec
CONSTANTS
  Key = {"k1"}
  Actor = {"a1"}
  Project = {"j1", "j2"}
  Instance = {"i1"}
  KeyProject <- MCKeyProject
  ActorProject <- MCActorProject
  Slot = {"v1"}
  InstanceOf <- MCInstanceOf
  KidTtl = 1
  MaxTtl = 1
  Skew = 1
  Exps = {2}
  QueryTime = 1
  MaxTime = 3
  MaxWrites = 1
INVARIANT RevalidateDropsDeletedKey
CHECK_DEADLOCK FALSE
