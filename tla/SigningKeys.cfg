SPECIFICATION Spec
CONSTANTS
  Key = {"k1"}
  Actor = {"a1", "b1"}
  Project = {"j1", "j2"}
  Instance = {"i1", "i2"}
  KeyProject <- MCKeyProject
  ActorProject <- MCActorProject
  Slot = {"v1", "v2"}
  InstanceOf <- MCInstanceOf
  KidTtl = 1
  MaxTtl = 1
  Skew = 1
  Exps = {1, 5}
  QueryTime = 1
  MaxTime = 5
  MaxWrites = 2
INVARIANTS TypeOK VouchedFor RevokedKeyReach RevocationTakesEffect
CHECK_DEADLOCK FALSE
