SPECIFICATION FairSpec
CONSTANTS
  Project = {"j1"}
  Actor = {"a1"}
  Scope = {"s1"}
  App = {"p1"}
  Room = {"r1"}
  RoomGrant = {"g1"}
  Topic = {"n1", "n2"}
  ActorType = {"device"}
  ActorProject <- MCActorProject
  TypeOf <- MCTypeOf
  ScopeProject <- MCScopeProject
  AppProject <- MCAppProject
  RoomApp <- MCRoomApp
  GrantRoom <- MCGrantRoom
  GrantTarget <- MCGrantTarget
  NoScope = NoScope
  Inherit = Inherit
  Never = Never
  Slot = {"connect", "revalidate", "check"}
  KindOf <- MCKindOf
  ActorOf <- MCActorOf
  AskRoom <- MCAskRoom
  AskSegment <- MCAskUnscoped
  InitialTables <- MCScopeTables
  Admin = {"actor", "scope"}
  Expiries <- MCNever
  TopicLists <- MCInherit
  Permissions = {"pubSub"}
  AuthTtl = 0
  MaxTime = 1
  MaxWrites = 1
PROPERTIES OutForGood RevokedStaysOut SessionConverges
