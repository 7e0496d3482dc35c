SPECIFICATION Spec
CONSTANTS
  Project = {"j1"}
  Actor = {"a1"}
  Scope = {"s1"}
  App = {"p1"}
  Room = {"r1", "r2"}
  RoomGrant = {"g1", "g2", "g4"}
  Topic = {"n1", "n2"}
  ActorType = {"device"}
  ActorProject <- MCActorProject
  TypeOf <- MCTypeOf
  ScopeProject <- MCScopeProject
  AppProject <- MCAppProject
  RoomApp <- MCRoomApp
  GrantRoom <- MCGrantRoom
  GrantTarget <- MCGrantTarget
  NoScope = NoScope
  Inherit = Inherit
  Never = Never
  Slot = {}
  KindOf <- MCKindOf
  ActorOf <- MCActorOf
  AskRoom <- MCAskRoom
  AskSegment <- MCAskUnscoped
  InitialTables <- MCProvisionTables
  Admin = {"grant", "app", "room", "actor", "scope", "project"}
  Expiries <- MCExpiries
  TopicLists <- MCTopicLists
  Permissions = {"subscribe", "pubSub"}
  AuthTtl = 1
  MaxTime = 1
  MaxWrites = 2
INVARIANTS CheckAgrees ErasedGivesNothing
PROPERTIES TimeNeverWidens OnlyDeletionReopens RevocationIsFinal
CHECK_DEADLOCK FALSE
