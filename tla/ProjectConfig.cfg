SPECIFICATION ConfigSpec
CONSTANTS
  Project = {"j1", "j2"}
  Actor = {"a1", "a2", "c1"}
  Scope = {"s1", "s2"}
  App = {"p1"}
  Room = {"r1", "r2", "r4"}
  RoomGrant = {"g1", "g2", "g5"}
  Topic = {"n1"}
  ActorType = {"device"}
  ActorProject <- MCActorProject
  TypeOf <- MCTypeOf
  ScopeProject <- MCScopeProject
  AppProject <- MCAppProject
  RoomApp <- MCRoomApp
  GrantRoom <- MCGrantRoom
  GrantTarget <- MCGrantTarget
  NoScope = NoScope
  Inherit = Inherit
  Never = Never
  Slot = {}
  KindOf <- MCKindOf
  ActorOf <- MCActorOf
  AskRoom <- MCAskRoom
  AskSegment <- MCAskUnscoped
  InitialTables <- MCConfigTables
  Admin = {"actor", "scope", "app", "room", "grant", "project"}
  Expiries <- MCNever
  TopicLists <- MCInherit
  Permissions = {"pubSub"}
  AuthTtl = 1
  MaxTime = 0
  MaxWrites = 1
  Exported = "j1"
  Lobby = {"b1"}
  LobbyApp <- MCLobbyApp
  Unlimited = Unlimited
  Default = Default
  Unsynced = Unsynced
  Irregular = {"r4"}
  Limits <- MCLimits
  InitialLimits <- MCUnsynced
  HandWritten <- MCHandWritten
  MaxEdits = 1
INVARIANTS ConfigTypeOK ExportImports StandingRowsExported ScopeNotLost
INVARIANTS CopyKeepsAccess CopyWidensOnly LimitsSurvive
CHECK_DEADLOCK FALSE
