SPECIFICATION OneReadSpec
CONSTANTS
  Project = {"j1", "j2"}
  Actor = {"a1"}
  Scope = {"s1", "z1"}
  App = {"p1", "q1"}
  Room = {"r1", "x1"}
  RoomGrant = {"g1", "g2"}
  Topic = {"n1", "n2"}
  ActorType = {"device"}
  ActorProject <- MCActorProject
  TypeOf <- MCTypeOf
  ScopeProject <- MCScopeProject
  AppProject <- MCAppProject
  RoomApp <- MCRoomApp
  GrantRoom <- MCGrantRoom
  GrantTarget <- MCGrantTarget
  NoScope = NoScope
  Inherit = Inherit
  Never = Never
  Slot = {"connect", "check"}
  KindOf <- MCKindOf
  ActorOf <- MCActorOf
  AskRoom <- MCAskRoom
  AskSegment <- MCAskScoped
  InitialTables <- MCRequestTables
  Admin = {"actor", "scope", "grant", "app", "room"}
  Expiries <- MCNever
  TopicLists <- MCAllTopics
  Permissions = {"pubSub"}
  AuthTtl = 1
  MaxTime = 1
  MaxWrites = 2
INVARIANTS TypeOK TenantIsolation ScopeJustified RoomsJustified AnswersAsOneRead
