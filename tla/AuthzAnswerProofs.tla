-------------------------- MODULE AuthzAnswerProofs --------------------------
(***************************************************************************)
(* Theorems about the answers of requests, for every value of the          *)
(* constants: an answer put together from unsynchronised reads holds       *)
(* nothing that was closed to the actor throughout the request, and no     *)
(* address outside the scope of the row it works from.                     *)
(*                                                                         *)
(* The properties speak of the answer only.  The invariant follows what a  *)
(* request has collected from query to query: apps, rooms and a scope that *)
(* history has seen admit the actor.  One point is delicate.  A check reads*)
(* the app before the grant on it, so between the two it holds an app that *)
(* need not admit the actor; that it did, if the grant is found to hold,   *)
(* rests on app grants only ever being taken away.                         *)
(*                                                                         *)
(* An answer that nothing came in between of is exactly what the rules     *)
(* give (AuthzOneRead): there the invariant says of every query that what  *)
(* has been read so far is what the rules compute up to that point.        *)
(*                                                                         *)
(* Last, a deleted actor that is out is let in by no request (OutForGood). *)
(***************************************************************************)
EXTENDS AuthzAdminProofs, AuthzOneRead

PastScope == {"appGrants", "openApps", "rooms", "roomGrants", "app", "appGrant",
              "room", "checkGrants", "answer"}

EmptyUntilAnswer(q) == pc[q] # "answer" => allowed[q] = {}

ScopeSeen(q) ==
  pc[q] \in PastScope =>
    /\ resolved[q] = row[q].scope
    /\ resolved[q] # NoScope => resolved[q] \in seen[q].scopes
    /\ \A x \in allowed[q] : x.scope = resolved[q]

AppsSeen(q) ==
  /\ pc[q] \in {"openApps", "rooms", "roomGrants", "room", "checkGrants"} =>
       \A x \in access[q] : x.app \in seen[q].apps
  /\ pc[q] = "appGrant" =>
       \A x \in access[q] :
         /\ x.app = RoomApp[AskRoom[q]]
         /\ HoldsApp(db, ActorOf[q], x.app, now) => x.app \in seen[q].apps

RoomsSeen(q) == pc[q] \in {"roomGrants", "checkGrants"} => rooms[q] \subseteq seen[q].rooms

AnswerSeen(q) ==
  \A x \in allowed[q] : /\ x.room \in seen[q].rooms \cap seen[q].doors
                        /\ RoomApp[x.room] \in seen[q].apps

Justified(q) ==
  EmptyUntilAnswer(q) /\ ScopeSeen(q) /\ AppsSeen(q) /\ RoomsSeen(q) /\ AnswerSeen(q)

JustifiedInv == \A q \in Slot : Justified(q)

-----------------------------------------------------------------------------
(* What history sees.                                                      *)

\* History forgets nothing while a request runs.
LEMMA SeenGrows ==
  ASSUME HistoryOK, RecordSeen, NEW q \in Slot, pc'[q] # "idle"
  PROVE  /\ seen'[q] = Observed(seen[q], db', ActorOf[q], now')
         /\ seen[q].apps \subseteq seen'[q].apps
         /\ seen[q].rooms \subseteq seen'[q].rooms
         /\ seen[q].doors \subseteq seen'[q].doors
         /\ seen[q].scopes \subseteq seen'[q].scopes
BY DEF RecordSeen, Observed

\* An app that serves and admits the actor is seen.
LEMMA AppObserved ==
  ASSUME NEW d \in Database, NEW a \in Actor, NEW t \in Nat, NEW old,
         NEW p \in App, Serves(d.app[p]),
         \/ HoldsApp(d, a, p, t)
         \/ AppProject[p] = ActorProject[a] /\ d.app[p].accessMode = "open"
  PROVE  p \in Observed(old, d, a, t).apps
<1> DEFINE explicit == ExplicitAccess(d, a, t)
           granted == GrantedEntry(AppEntry(d, p), d.appGrant[a][p])
<1>1. AppEntry(d, p).app = p /\ granted.app = p
  BY EntryType, RowKinds
<1>2. HoldsApp(d, a, p, t) => granted \in explicit
  BY DEF ExplicitAccess
<1>3. (\E h \in explicit : h.app = p) \/ ~(\E h \in explicit : h.app = p)
  OBVIOUS
<1>4. AppProject[p] = ActorProject[a] /\ d.app[p].accessMode = "open"
        => \/ \E h \in explicit : h.app = p
           \/ AppEntry(d, p) \in OpenAccess(d, a, explicit)
  BY DEF OpenAccess
<1>5. \E x \in FullAccess(d, a, t) : x.app = p
  BY <1>1, <1>2, <1>4 DEF FullAccess
<1> QED BY <1>5 DEF Observed

\* What the two queries of _buildAppAccess collect is seen.
LEMMA AccessObserved ==
  ASSUME NEW d \in Database, NEW a \in Actor, NEW t \in Nat, NEW old, NEW held
  PROVE  /\ \A x \in ExplicitAccess(d, a, t) : x.app \in Observed(old, d, a, t).apps
         /\ \A x \in OpenAccess(d, a, held) : x.app \in Observed(old, d, a, t).apps
<1>1. ASSUME NEW x \in ExplicitAccess(d, a, t)
      PROVE  x.app \in Observed(old, d, a, t).apps
  <2>1. PICK p \in App : /\ HoldsApp(d, a, p, t) /\ Serves(d.app[p])
                         /\ x = GrantedEntry(AppEntry(d, p), d.appGrant[a][p])
    BY <1>1 DEF ExplicitAccess
  <2>2. x.app = p
    BY <2>1, EntryType, RowKinds
  <2> QED BY <2>1, <2>2, AppObserved
<1>2. ASSUME NEW x \in OpenAccess(d, a, held)
      PROVE  x.app \in Observed(old, d, a, t).apps
  <2>1. PICK p \in App : /\ AppProject[p] = ActorProject[a] /\ Serves(d.app[p])
                         /\ d.app[p].accessMode = "open" /\ x = AppEntry(d, p)
    BY <1>2 DEF OpenAccess
  <2>2. x.app = p
    BY <2>1, EntryType
  <2> QED BY <2>1, <2>2, AppObserved
<1> QED BY <1>1, <1>2

\* A topic is only ever built on a room whose grants admit the actor.
LEMMA TopicsAdmitted ==
  ASSUME NEW d, NEW a, NEW t, NEW held, NEW read \in SUBSET Room, NEW s,
         NEW pick, Lawful(d, a, pick), NEW x \in TopicsOf(d, a, t, held, read, s, pick)
  PROVE  CanEnter(d, a, x.room, t)
<1>1. PICK e \in held, r \in read : x \in RoomTopics(d, a, t, e, r, s, pick)
  BY DEF TopicsOf
<1>2. x.room = r
  BY <1>1, RoomTopicsForm
<1>3. Admitted(d, a, r, t, pick)
  BY <1>1 DEF RoomTopics
<1>4. Deciding(d, a, r) # {} => pick[r] \in Deciding(d, a, r)
  BY <1>1 DEF Lawful
<1> QED BY <1>2, <1>3, <1>4 DEF Admitted, CanEnter

\* App grants are only ever taken away.
LEMMA HoldsLess ==
  ASSUME TypeOK, [Next]_vars, NEW a \in Actor, NEW p \in App,
         HoldsApp(db', a, p, now')
  PROVE  HoldsApp(db, a, p, now)
<1> USE DEF TypeOK, TablesOK
<1>1. now \in Int /\ now' \in Int /\ now <= now'
  <2>1. now \in Int
    BY InputAssumption
  <2>2. CASE Tick
    BY <2>1, <2>2 DEF Tick
  <2>3. CASE ~Tick
    <3>1. ASSUME NEW q \in Slot, Start(q) \/ Continue(q) PROVE now' = now
      BY <3>1, RequestLeavesTables DEF tables
    <3>2. ASSUME NEW b \in Actor, Disconnect(b) PROVE now' = now
      BY <3>2 DEF Disconnect, tables
    <3> QED BY <2>1, <2>3, <3>1, <3>2, AdminLeavesRequests DEF Next, vars
  <2> QED BY <2>2, <2>3
<1>2. /\ Standing(db.appGrant[a][p])
      /\ db'.appGrant[a][p].expiresAt = db.appGrant[a][p].expiresAt
  <2>0. Standing(db'.appGrant[a][p])
    BY DEF HoldsApp
  <2>1. ASSUME NEW j \in Project, EraseProject(j)
        PROVE  db'.appGrant[a][p] \in {db.appGrant[a][p], Gone(db.appGrant[a][p])}
    BY <2>1 DEF EraseProject
  <2>2. CASE \E j \in Project : EraseProject(j)
    <3>1. db.appGrant[a][p] \in GrantRow
      BY RowKinds
    <3> QED BY <2>0, <2>1, <2>2, <3>1 DEF Gone, Standing, GrantRow
  <2>3. CASE ~ \E j \in Project : EraseProject(j)
    <3>1. db'.appGrant = db.appGrant
      BY <2>3, AdminSuccessor, OthersLeaveTables DEF Successor
    <3> QED BY <2>0, <3>1
  <2> QED BY <2>2, <2>3
<1>3. db.appGrant[a][p].expiresAt \in Int \cup {Never}
  BY RowKinds DEF GrantRow, Expiry
<1> QED BY <1>1, <1>2, <1>3 DEF HoldsApp, Expired

-----------------------------------------------------------------------------
(* A request that does not move.                                           *)

LEMMA OthersKeepJustified ==
  ASSUME TypeOK, [Next]_vars, RecordSeen, NEW q \in Slot, Justified(q),
         pc'[q] = pc[q], row'[q] = row[q], resolved'[q] = resolved[q],
         access'[q] = access[q], rooms'[q] = rooms[q], allowed'[q] = allowed[q]
  PROVE  Justified(q)'
<1> USE DEF Justified, EmptyUntilAnswer, ScopeSeen, AppsSeen, RoomsSeen, AnswerSeen
<1>1. CASE pc[q] = "idle"
  BY <1>1 DEF PastScope
<1>2. CASE pc[q] # "idle"
  <2>1. /\ seen[q].apps \subseteq seen'[q].apps
        /\ seen[q].rooms \subseteq seen'[q].rooms
        /\ seen[q].doors \subseteq seen'[q].doors
        /\ seen[q].scopes \subseteq seen'[q].scopes
    BY <1>2, SeenGrows DEF TypeOK
  <2>2. ScopeSeen(q)' /\ RoomsSeen(q)' /\ AnswerSeen(q)' /\ EmptyUntilAnswer(q)'
    BY <2>1
  <2>3. AppsSeen(q)'
    <3>1. \A x \in access[q] : x.app \in App /\ ActorOf[q] \in Actor
      BY SlotAssumption DEF TypeOK, RequestsOK, Access
    <3> QED BY <2>1, <3>1, HoldsLess
  <2> QED BY <2>2, <2>3
<1> QED BY <1>1, <1>2

\* A request leaves the other slots alone.
LEMMA OwnSlotOnly ==
  ASSUME RequestsOK, NEW p \in Slot, Start(p) \/ Continue(p),
         NEW q \in Slot, q # p
  PROVE  /\ pc'[q] = pc[q] /\ row'[q] = row[q] /\ resolved'[q] = resolved[q]
         /\ access'[q] = access[q] /\ rooms'[q] = rooms[q] /\ allowed'[q] = allowed[q]
<1> USE DEF RequestsOK, GoTo
<1>1. CASE Start(p)
  BY <1>1 DEF Start, ConnectCached, ConnectMiss, StartRevalidate, StartCheck
<1>2. CASE ReadToken(p) \/ VerifyToken(p) \/ ReadActor(p) \/ ReadProject(p) \/ ReadScope(p)
  BY <1>2 DEF ReadToken, VerifyToken, ReadActor, ReadProject, ReadScope, Deny
<1>3. CASE ReadAppGrants(p) \/ ReadOpenApps(p) \/ ReadRooms(p) \/ ReadRoomGrants(p)
  BY <1>3 DEF ReadAppGrants, ReadOpenApps, ReadRooms, ReadRoomGrants
<1>4. CASE CheckApp(p) \/ CheckAppGrant(p) \/ CheckRoom(p) \/ CheckRoomGrants(p)
  BY <1>4 DEF CheckApp, CheckAppGrant, CheckRoom, CheckRoomGrants, Deny
<1>5. CASE AnswerConnect(p) \/ AnswerRevalidate(p) \/ AnswerCheck(p) \/ AnswerDenied(p)
  BY <1>5 DEF AnswerConnect, AnswerRevalidate, AnswerCheck, AnswerDenied, Finish
<1> QED BY <1>1, <1>2, <1>3, <1>4, <1>5 DEF Continue

-----------------------------------------------------------------------------
(* A step of the request itself.                                           *)

\* Before the scope is resolved, and after a refusal or the answer, nothing is
\* claimed.
LEMMA NothingClaimed ==
  ASSUME NEW q \in Slot, pc'[q] \notin PastScope, allowed'[q] = {}
  PROVE  Justified(q)'
BY DEF Justified, EmptyUntilAnswer, ScopeSeen, AppsSeen, RoomsSeen, AnswerSeen,
   PastScope

\* A step that collects nothing but apps or rooms.
LEMMA CollectingJustified ==
  ASSUME NEW q \in Slot, Justified(q), HistoryOK, RecordSeen,
         pc[q] \in PastScope \ {"answer"}, pc'[q] \in PastScope \ {"appGrant"},
         row'[q] = row[q], resolved'[q] = resolved[q], allowed'[q] = allowed[q],
         \A x \in access'[q] : x.app \in seen'[q].apps,
         rooms'[q] \subseteq seen'[q].rooms
  PROVE  Justified(q)'
<1>1. pc'[q] # "idle" /\ allowed[q] = {}
  BY DEF PastScope, Justified, EmptyUntilAnswer
<1>2. seen[q].scopes \subseteq seen'[q].scopes
  BY <1>1, SeenGrows
<1> QED
  BY <1>1, <1>2 DEF Justified, EmptyUntilAnswer, ScopeSeen, AppsSeen, RoomsSeen,
     AnswerSeen

LEMMA OwnStepJustified ==
  ASSUME TypeOK, RecordSeen, NEW q \in Slot, Justified(q), Start(q) \/ Continue(q)
  PROVE  Justified(q)'
<1> USE DEF TypeOK, At, GoTo
<1>a. /\ ActorOf[q] \in Actor /\ AskRoom[q] \in Room /\ RoomApp[AskRoom[q]] \in App
      /\ now \in Nat /\ db \in Database /\ access[q] \in SUBSET Access
      /\ row[q] \in ActorRow /\ resolved[q] \in Scope \cup {NoScope}
      /\ rooms[q] \in SUBSET Room
  BY SlotAssumption, KeysAssumption, InputAssumption DEF TablesOK, RequestsOK
<1>b. now' = now /\ db' = db
  BY RequestLeavesTables DEF tables
<1>c. pc'[q] # "idle" =>
        /\ seen'[q] = Observed(seen[q], db, ActorOf[q], now)
        /\ seen[q].apps \subseteq seen'[q].apps
        /\ seen[q].rooms \subseteq seen'[q].rooms
        /\ seen[q].scopes \subseteq seen'[q].scopes
  BY <1>b, SeenGrows
<1>d. Deny(q) => Justified(q)' \/ pc[q] = "answer"
  BY NothingClaimed DEF Deny, PastScope, RequestsOK, Justified, EmptyUntilAnswer
<1>1. CASE \/ ConnectCached(q) \/ ConnectMiss(q) \/ StartRevalidate(q) \/ StartCheck(q)
           \/ ReadToken(q) \/ VerifyToken(q) \/ ReadActor(q) \/ ReadProject(q)
  <2>1. pc'[q] \notin PastScope
    BY <1>1 DEF ConnectCached, ConnectMiss, StartRevalidate, StartCheck, ReadToken,
       VerifyToken, ReadActor, ReadProject, Deny, PastScope, RequestsOK
  <2>2. pc[q] # "answer" /\ allowed' = allowed
    BY <1>1 DEF ConnectCached, ConnectMiss, StartRevalidate, StartCheck, ReadToken,
       VerifyToken, ReadActor, ReadProject, Deny
  <2> QED BY <2>1, <2>2, NothingClaimed DEF Justified, EmptyUntilAnswer
<1>2. CASE ReadScope(q)
  <2>1. CASE Deny(q)
    BY <1>2, <2>1, <1>d DEF ReadScope
  <2>2. CASE ~Deny(q)
    <3>1. /\ resolved'[q] = row[q].scope /\ ScopeHonoured(db, ActorOf[q], row[q].scope)
          /\ pc'[q] \in {"app", "appGrants"} /\ allowed'[q] = {} /\ row'[q] = row[q]
      BY <1>2, <2>2 DEF ReadScope, RequestsOK, Justified, EmptyUntilAnswer
    <3>2. resolved'[q] # NoScope => resolved'[q] \in seen'[q].scopes
      BY <1>a, <1>c, <3>1 DEF Observed, ScopeHonoured
    <3> QED
      BY <3>1, <3>2 DEF Justified, EmptyUntilAnswer, ScopeSeen, AppsSeen, RoomsSeen,
         AnswerSeen, PastScope
  <2> QED BY <2>1, <2>2
<1>3. CASE ReadAppGrants(q)
  <2>1. /\ access'[q] = ExplicitAccess(db, ActorOf[q], now)
        /\ pc[q] = "appGrants" /\ pc'[q] = "openApps"
        /\ row' = row /\ resolved' = resolved /\ rooms' = rooms /\ allowed' = allowed
    BY <1>3 DEF ReadAppGrants, RequestsOK
  <2>2. \A x \in access'[q] : x.app \in seen'[q].apps
    BY <1>a, <1>c, <2>1, AccessObserved
  <2>3. allowed[q] = {} /\ seen[q].scopes \subseteq seen'[q].scopes
    BY <1>c, <2>1 DEF Justified, EmptyUntilAnswer
  <2> QED
    BY <2>1, <2>2, <2>3 DEF Justified, EmptyUntilAnswer, ScopeSeen, AppsSeen,
       RoomsSeen, AnswerSeen, PastScope
<1>4. CASE ReadOpenApps(q)
  <2>1. /\ access'[q] = access[q] \cup OpenAccess(db, ActorOf[q], access[q])
        /\ pc[q] = "openApps" /\ pc'[q] \in {"answer", "rooms"}
        /\ row' = row /\ resolved' = resolved /\ rooms' = rooms /\ allowed' = allowed
    BY <1>4 DEF ReadOpenApps, RequestsOK
  <2>2. \A x \in access'[q] : x.app \in seen'[q].apps
    BY <1>a, <1>c, <2>1, AccessObserved DEF Justified, AppsSeen
  <2>3. allowed[q] = {} /\ seen[q].scopes \subseteq seen'[q].scopes
    BY <1>c, <2>1 DEF Justified, EmptyUntilAnswer
  <2> QED
    BY <2>1, <2>2, <2>3 DEF Justified, EmptyUntilAnswer, ScopeSeen, AppsSeen,
       RoomsSeen, AnswerSeen, PastScope
<1>5. CASE ReadRooms(q)
  <2>1. /\ rooms'[q] = RoomsOf(db, access[q])
        /\ pc[q] = "rooms" /\ pc'[q] = "roomGrants"
        /\ row' = row /\ resolved' = resolved /\ access' = access /\ allowed' = allowed
    BY <1>5 DEF ReadRooms, RequestsOK
  <2>2. rooms'[q] \subseteq seen'[q].rooms
    BY <1>c, <2>1 DEF RoomsOf, Observed
  <2>3. \A x \in access'[q] : x.app \in seen'[q].apps
    BY <1>c, <2>1 DEF Justified, AppsSeen
  <2> QED BY <2>1, <2>2, <2>3, CollectingJustified DEF PastScope
<1>6. CASE CheckApp(q)
  <2> DEFINE p == RoomApp[AskRoom[q]]
  <2>1. CASE Deny(q)
    BY <1>6, <2>1, <1>d DEF CheckApp
  <2>2. CASE ~Deny(q)
    <3>1. /\ access'[q] = {AppEntry(db, p)} /\ Serves(db.app[p])
          /\ AppProject[p] = ActorProject[ActorOf[q]]
          /\ pc[q] = "app"
          /\ pc'[q] = IF db.app[p].accessMode = "open" THEN "room" ELSE "appGrant"
          /\ row' = row /\ resolved' = resolved /\ rooms' = rooms /\ allowed' = allowed
      BY <1>6, <2>2 DEF CheckApp, RequestsOK
    <3>2. \A x \in access'[q] : x.app = p
      BY <1>a, <3>1, EntryType
    <3>3. \/ HoldsApp(db, ActorOf[q], p, now) \/ db.app[p].accessMode = "open"
          => p \in seen'[q].apps
      BY <1>a, <1>c, <3>1, AppObserved
    <3>4. AppsSeen(q)'
      BY <1>b, <3>1, <3>2, <3>3 DEF AppsSeen
    <3>5. allowed[q] = {} /\ seen[q].scopes \subseteq seen'[q].scopes
      BY <1>c, <3>1 DEF Justified, EmptyUntilAnswer
    <3> QED
      BY <3>1, <3>4, <3>5 DEF Justified, EmptyUntilAnswer, ScopeSeen, RoomsSeen,
         AnswerSeen, PastScope
  <2> QED BY <2>1, <2>2
<1>7. CASE CheckAppGrant(q)
  <2> DEFINE p == RoomApp[AskRoom[q]]
             grant == db.appGrant[ActorOf[q]][p]
  <2>1. CASE Deny(q)
    BY <1>7, <2>1, <1>d DEF CheckAppGrant
  <2>2. CASE ~Deny(q)
    <3>1. /\ access'[q] = { GrantedEntry(x, grant) : x \in access[q] }
          /\ HoldsApp(db, ActorOf[q], p, now)
          /\ pc[q] = "appGrant" /\ pc'[q] = "room"
          /\ row' = row /\ resolved' = resolved /\ rooms' = rooms /\ allowed' = allowed
      BY <1>7, <2>2 DEF CheckAppGrant, RequestsOK
    <3>2. \A x \in access[q] : x.app = p /\ x.app \in seen'[q].apps
      BY <1>c, <3>1 DEF Justified, AppsSeen
    <3>3. \A x \in access[q] : GrantedEntry(x, grant).app = x.app
      BY <1>a, EntryType, RowKinds
    <3>4. \A x \in access'[q] : x.app \in seen'[q].apps
      BY <3>1, <3>2, <3>3
    <3>5. allowed[q] = {} /\ seen[q].scopes \subseteq seen'[q].scopes
      BY <1>c, <3>1 DEF Justified, EmptyUntilAnswer
    <3> QED
      BY <3>1, <3>4, <3>5 DEF Justified, EmptyUntilAnswer, ScopeSeen, AppsSeen,
         RoomsSeen, AnswerSeen, PastScope
  <2> QED BY <2>1, <2>2
<1>8. CASE CheckRoom(q)
  <2>1. CASE Deny(q)
    BY <1>8, <2>1, <1>d DEF CheckRoom
  <2>2. CASE ~Deny(q)
    <3>1. /\ rooms'[q] = {AskRoom[q]} /\ Serves(db.room[AskRoom[q]])
          /\ pc[q] = "room" /\ pc'[q] = "checkGrants"
          /\ row' = row /\ resolved' = resolved /\ access' = access /\ allowed' = allowed
      BY <1>8, <2>2 DEF CheckRoom, RequestsOK
    <3>2. rooms'[q] \subseteq seen'[q].rooms
      BY <1>a, <1>c, <3>1 DEF Observed
    <3>3. \A x \in access'[q] : x.app \in seen'[q].apps
      BY <1>c, <3>1 DEF Justified, AppsSeen
    <3> QED BY <3>1, <3>2, <3>3, CollectingJustified DEF PastScope
  <2> QED BY <2>1, <2>2
<1>9. CASE ReadRoomGrants(q) \/ CheckRoomGrants(q)
  <2>0. pc[q] \in {"roomGrants", "checkGrants"}
    BY <1>9 DEF ReadRoomGrants, CheckRoomGrants
  <2>1. CASE Deny(q)
    BY <2>0, <2>1, <1>d
  <2>2. CASE ~Deny(q)
    <3>1. PICK pick :
            /\ Lawful(db, ActorOf[q], pick)
            /\ allowed' = [allowed EXCEPT ![q] =
              TopicsOf(db, ActorOf[q], now, access[q], rooms[q], resolved[q], pick)]
      BY <1>9, <2>2, PicksLawful DEF ReadRoomGrants, CheckRoomGrants
    <3>2. /\ pc'[q] = "answer"
          /\ row' = row /\ resolved' = resolved
      BY <1>9, <2>2 DEF ReadRoomGrants, CheckRoomGrants, RequestsOK
    <3>3. ASSUME NEW x \in allowed'[q]
          PROVE  /\ x.scope = resolved[q]
                 /\ x.room \in seen'[q].rooms \cap seen'[q].doors
                 /\ RoomApp[x.room] \in seen'[q].apps
      <4>1. x \in TopicsOf(db, ActorOf[q], now, access[q], rooms[q], resolved[q], pick)
        BY <3>1, <3>3 DEF RequestsOK
      <4>2. /\ x.scope = resolved[q] /\ x.room \in rooms[q]
            /\ \E e \in access[q] : RoomApp[x.room] = e.app
        BY <4>1, TopicsForm
      <4>3. CanEnter(db, ActorOf[q], x.room, now)
        BY <1>a, <3>1, <4>1, TopicsAdmitted
      <4>4. x.room \in Room /\ x.room \in seen'[q].doors
        BY <1>a, <1>c, <3>2, <4>2, <4>3 DEF Observed
      <4>5. x.room \in seen'[q].rooms /\ RoomApp[x.room] \in seen'[q].apps
        BY <1>c, <2>0, <3>2, <4>2 DEF Justified, RoomsSeen, AppsSeen
      <4> QED BY <4>2, <4>4, <4>5
    <3>4. ScopeSeen(q)'
      BY <1>c, <2>0, <3>2, <3>3 DEF Justified, ScopeSeen, PastScope
    <3> QED
      BY <3>2, <3>3, <3>4 DEF Justified, EmptyUntilAnswer, AppsSeen, RoomsSeen, AnswerSeen
  <2> QED BY <2>1, <2>2
<1>10. CASE AnswerConnect(q) \/ AnswerRevalidate(q) \/ AnswerCheck(q) \/ AnswerDenied(q)
  <2>1. Finish(q)
    BY <1>10 DEF AnswerConnect, AnswerRevalidate, AnswerCheck, AnswerDenied
  <2> QED BY <2>1, NothingClaimed DEF Finish, RequestsOK, PastScope
<1> QED
  BY <1>1, <1>2, <1>3, <1>4, <1>5, <1>6, <1>7, <1>8, <1>9, <1>10 DEF Start, Continue

-----------------------------------------------------------------------------
(* The theorems.                                                           *)

LEMMA InitJustified == Init => JustifiedInv
BY DEF Init, JustifiedInv, Justified, EmptyUntilAnswer, ScopeSeen, AppsSeen,
   RoomsSeen, AnswerSeen, PastScope

LEMMA NextJustified == TypeOK /\ JustifiedInv /\ [Next]_vars => JustifiedInv'
<1> SUFFICES ASSUME TypeOK, JustifiedInv, [Next]_vars, NEW q \in Slot
             PROVE  Justified(q)'
  BY DEF JustifiedInv
<1>0. Justified(q)
  BY DEF JustifiedInv
<1>1. CASE UNCHANGED vars
  BY <1>0, <1>1 DEF vars, Justified, EmptyUntilAnswer, ScopeSeen, AppsSeen,
     RoomsSeen, AnswerSeen
<1>2. CASE Next
  <2>1. RecordSeen
    BY <1>2 DEF Next
  <2>2. CASE Start(q) \/ Continue(q)
    BY <1>0, <2>1, <2>2, OwnStepJustified
  <2>3. CASE ~(Start(q) \/ Continue(q))
    <3>1. /\ pc'[q] = pc[q] /\ row'[q] = row[q] /\ resolved'[q] = resolved[q]
          /\ access'[q] = access[q] /\ rooms'[q] = rooms[q] /\ allowed'[q] = allowed[q]
      <4>1. CASE UNCHANGED reqVars
        BY <4>1 DEF reqVars
      <4>2. ASSUME NEW p \in Slot, Start(p) \/ Continue(p) 
            PROVE  /\ pc'[q] = pc[q] /\ row'[q] = row[q] /\ resolved'[q] = resolved[q]
                   /\ access'[q] = access[q] /\ rooms'[q] = rooms[q]
                   /\ allowed'[q] = allowed[q]
        BY <2>3, <4>2, OwnSlotOnly DEF TypeOK
      <4> QED
        BY <1>2, <4>1, <4>2, AdminLeavesRequests DEF Next, Disconnect, Tick
    <3> QED BY <1>0, <2>1, <3>1, OthersKeepJustified
  <2> QED BY <2>2, <2>3
<1> QED BY <1>1, <1>2

\* An answer for an actor row that names a scope has only addresses in that
\* scope, for any number of scopes, requests and administrative writes.
THEOREM AnswersScoped == Spec => []ScopeJustified
<1>1. Init => TypeOK /\ JustifiedInv
  BY InitType, InitJustified
<1>2. TypeOK /\ JustifiedInv /\ [Next]_vars => (TypeOK /\ JustifiedInv)'
  BY NextType, NextJustified
<1>3. JustifiedInv => ScopeJustified
  BY DEF JustifiedInv, Justified, EmptyUntilAnswer, ScopeSeen, ScopeJustified, PastScope
<1> QED BY <1>1, <1>2, <1>3, PTL DEF Spec

\* An answer put together from any number of unsynchronised reads names only
\* rooms that served and admitted the actor, below apps that admitted it, at
\* some instant of the request.
THEOREM AnswersJustified == Spec => []RoomsJustified
<1>1. Init => TypeOK /\ JustifiedInv
  BY InitType, InitJustified
<1>2. TypeOK /\ JustifiedInv /\ [Next]_vars => (TypeOK /\ JustifiedInv)'
  BY NextType, NextJustified
<1>3. JustifiedInv => RoomsJustified
  BY DEF JustifiedInv, Justified, AnswerSeen, RoomsJustified
<1> QED BY <1>1, <1>2, <1>3, PTL DEF Spec
-----------------------------------------------------------------------------
(* The answer of an undisturbed request.  What it has read so far is what  *)
(* the rules compute at that point, for its kind of request.               *)

\* Which queries belong to which handler.
KindsFit(q) ==
  /\ pc[q] \in {"app", "appGrant", "room", "checkGrants"} => KindOf[q] = "check"
  /\ pc[q] \in {"project", "appGrants", "openApps", "rooms", "roomGrants"}
       => KindOf[q] # "check"
  /\ pc[q] \in {"token", "verify"} => KindOf[q] = "connect"
  /\ pc[q] = "actor" => KindOf[q] # "connect"

Answered(q) ==
  /\ pc[q] = "answer" =>
       /\ Admissible(q)
       /\ \E order \in RowOrders : allowed[q] = Told(q, order)
  /\ pc[q] = "denied" /\ Admissible(q) =>
       /\ KindOf[q] = "check"
       /\ \E order \in RowOrders : Told(q, order) = {}

\* Actor, project and scope have let the request through up to here.
Cleared(q) ==
  /\ pc[q] \in {"project", "scope"} \cup PastScope =>
       row[q] = db.actor[ActorOf[q]] /\ UsableActor(row[q], now)
  /\ pc[q] = "scope" /\ KindOf[q] # "check" =>
       db.project[ActorProject[ActorOf[q]]] = "live"
  /\ pc[q] \in PastScope => Admissible(q) /\ resolved[q] = row[q].scope

AccessRead(q) ==
  LET a == ActorOf[q]  p == RoomApp[AskRoom[q]]
  IN /\ pc[q] = "openApps" => access[q] = ExplicitAccess(db, a, now)
     /\ pc[q] \in {"rooms", "roomGrants"} => access[q] = FullAccess(db, a, now)
     /\ pc[q] = "appGrant" =>
          /\ access[q] = {AppEntry(db, p)}
          /\ AppProject[p] = ActorProject[a] /\ Serves(db.app[p])
          /\ db.app[p].accessMode # "open"
     /\ pc[q] \in {"room", "checkGrants"} => access[q] = CheckAccess(db, a, now, p)

RoomsRead(q) ==
  /\ pc[q] = "roomGrants" => rooms[q] = RoomsOf(db, access[q])
  /\ pc[q] = "checkGrants" => rooms[q] = {AskRoom[q]} /\ Serves(db.room[AskRoom[q]])

OneRead(q) == Cleared(q) /\ AccessRead(q) /\ RoomsRead(q) /\ Answered(q)

OneReadInv ==
  /\ still \in [Slot -> BOOLEAN]
  /\ \A q \in Slot : KindsFit(q) /\ (Undisturbed(q) => OneRead(q))

\* Without an app or without a room there is nothing to tell.
LEMMA NothingToTell ==
  ASSUME NEW d, NEW a, NEW t, NEW held, NEW read, NEW s, NEW pick,
         held = {} \/ read = {}
  PROVE  TopicsOf(d, a, t, held, read, s, pick) = {}
BY TopicsForm

\* The rules for a request that is let through.
LEMMA ToldWhenAdmitted ==
  ASSUME NEW q \in Slot, Admissible(q), NEW order
  PROVE  LET a == ActorOf[q]  r == AskRoom[q]  s == db.actor[a].scope
             full == FullAccess(db, a, now)
         IN /\ KindOf[q] = "check" =>
                 Told(q, order) = TopicsOf(db, a, now, CheckAccess(db, a, now, RoomApp[r]),
                                    IF Serves(db.room[r]) THEN {r} ELSE {}, s,
                                    CheckPick(db, a, order))
            /\ KindOf[q] # "check" =>
                 Told(q, order) = TopicsOf(db, a, now, full, RoomsOf(db, full), s,
                                    SessionPick(db, a, order))
BY DEF Admissible, Told, CheckTopics, SessionTopics

\* A check that finds no app or no room for the actor may be refused.
LEMMA EmptyRefused ==
  ASSUME NEW q \in Slot, KindOf[q] = "check",
         Admissible(q) => \/ CheckAccess(db, ActorOf[q], now, RoomApp[AskRoom[q]]) = {}
                          \/ ~Serves(db.room[AskRoom[q]])
  PROVE  Admissible(q) => \E order \in RowOrders : Told(q, order) = {}
<1> SUFFICES ASSUME Admissible(q)
             PROVE  \E order \in RowOrders : Told(q, order) = {}
  OBVIOUS
<1>1. PICK order \in RowOrders : TRUE
  BY SomeOrder
<1>2. Told(q, order) = {}
  BY ToldWhenAdmitted, NothingToTell
<1> QED BY <1>2

\* A handler only ever goes on to its own queries.
LEMMA OwnStepFits ==
  ASSUME RequestsOK, NEW q \in Slot, KindsFit(q), Start(q) \/ Continue(q)
  PROVE  KindsFit(q)'
<1> USE SlotAssumption DEF RequestsOK, KindsFit, At, GoTo
<1>1. CASE Start(q)
  BY <1>1 DEF Start, ConnectCached, ConnectMiss, StartRevalidate, StartCheck
<1>2. CASE ReadToken(q) \/ VerifyToken(q) \/ ReadActor(q) \/ ReadProject(q) \/ ReadScope(q)
  BY <1>2 DEF ReadToken, VerifyToken, ReadActor, ReadProject, ReadScope, Deny
<1>3. CASE ReadAppGrants(q) \/ ReadOpenApps(q) \/ ReadRooms(q) \/ ReadRoomGrants(q)
  BY <1>3 DEF ReadAppGrants, ReadOpenApps, ReadRooms, ReadRoomGrants
<1>4. CASE CheckApp(q) \/ CheckAppGrant(q) \/ CheckRoom(q) \/ CheckRoomGrants(q)
  BY <1>4 DEF CheckApp, CheckAppGrant, CheckRoom, CheckRoomGrants, Deny
<1>5. CASE AnswerConnect(q) \/ AnswerRevalidate(q) \/ AnswerCheck(q) \/ AnswerDenied(q)
  BY <1>5 DEF AnswerConnect, AnswerRevalidate, AnswerCheck, AnswerDenied, Finish
<1> QED BY <1>1, <1>2, <1>3, <1>4, <1>5 DEF Continue

\* Reading the actor, from the cache or from its table.
LEMMA ActorReadOnce ==
  ASSUME TypeOK, NEW q \in Slot, KindsFit(q), Undisturbed(q)',
         \/ Start(q) \/ ReadToken(q) \/ VerifyToken(q) \/ ReadActor(q)
  PROVE  OneRead(q)'
<1> USE DEF TypeOK, RequestsOK, At, GoTo
<1>1. now' = now /\ db' = db
  BY RequestLeavesTables DEF tables, Continue
<1>2. pc'[q] \in {"project", "scope"} =>
        /\ row'[q] = db'.actor[ActorOf[q]] /\ UsableActor(row'[q], now')
        /\ pc'[q] = "scope" => KindOf[q] = "check"
  BY <1>1 DEF Start, ConnectCached, ConnectMiss, StartRevalidate, StartCheck,
     ReadToken, VerifyToken, ReadActor, Deny, Undisturbed, KindsFit
<1>3. pc'[q] = "denied" => ~UsableActor(db'.actor[ActorOf[q]], now')
  BY <1>1 DEF Start, ConnectCached, ConnectMiss, StartRevalidate, StartCheck,
     ReadToken, VerifyToken, ReadActor, Deny, Undisturbed, KindsFit
<1>4. pc'[q] \in {"actor", "token", "verify", "project", "scope", "denied"}
  BY DEF Start, ConnectCached, ConnectMiss, StartRevalidate, StartCheck,
     ReadToken, VerifyToken, ReadActor, Deny
<1>5. pc'[q] = "denied" => ~Admissible(q)'
  BY <1>3 DEF Admissible
<1>6. Cleared(q)' /\ Answered(q)'
  BY <1>2, <1>4, <1>5 DEF Cleared, Answered, PastScope
<1>7. AccessRead(q)' /\ RoomsRead(q)'
  BY <1>4 DEF AccessRead, RoomsRead
<1> QED BY <1>6, <1>7 DEF OneRead

\* Project and scope.
LEMMA ScopeReadOnce ==
  ASSUME TypeOK, NEW q \in Slot, KindsFit(q), OneRead(q),
         ReadProject(q) \/ ReadScope(q)
  PROVE  OneRead(q)'
<1> USE DEF TypeOK, RequestsOK, At, GoTo
<1>1. now' = now /\ db' = db
  BY RequestLeavesTables DEF tables, Continue
<1>2. row'[q] = row[q] /\ row[q] = db.actor[ActorOf[q]] /\ UsableActor(row[q], now)
  BY DEF ReadProject, ReadScope, Deny, OneRead, Cleared
<1>3. CASE ReadProject(q)
  <2>1. KindOf[q] # "check" /\ pc'[q] \in {"scope", "denied"}
    BY <1>3 DEF ReadProject, Deny, KindsFit
  <2>2. /\ pc'[q] = "scope" => db'.project[ActorProject[ActorOf[q]]] = "live"
        /\ pc'[q] = "denied" => db'.project[ActorProject[ActorOf[q]]] # "live"
    BY <1>1, <1>3 DEF ReadProject, Deny
  <2>3. pc'[q] = "denied" => ~Admissible(q)'
    BY <2>1, <2>2 DEF Admissible
  <2> QED
    BY <1>1, <1>2, <2>1, <2>2, <2>3 DEF OneRead, Cleared, AccessRead, RoomsRead,
       Answered, PastScope
<1>4. CASE ReadScope(q)
  <2>1. KindOf[q] # "check" => db.project[ActorProject[ActorOf[q]]] = "live"
    BY <1>4 DEF ReadScope, OneRead, Cleared
  <2>2. CASE Deny(q)
    <3>1. pc'[q] = "denied" /\ ~Admissible(q)
      BY <1>2, <1>4, <2>2 DEF ReadScope, Deny, Admissible
    <3>2. ~Admissible(q)'
      BY <1>1, <3>1 DEF Admissible
    <3> QED BY <3>1, <3>2 DEF OneRead, Cleared, AccessRead, RoomsRead, Answered, PastScope
  <2>3. CASE ~Deny(q)
    <3>1. /\ pc'[q] \in {"app", "appGrants"} /\ resolved'[q] = row[q].scope
          /\ ScopeHonoured(db, ActorOf[q], row[q].scope)
          /\ KindOf[q] = "check" => SegmentFits(q, row[q].scope)
      BY <1>4, <2>3 DEF ReadScope
    <3>2. Admissible(q)'
      BY <1>1, <1>2, <2>1, <3>1 DEF Admissible
    <3> QED
      BY <1>1, <1>2, <3>1, <3>2 DEF OneRead, Cleared, AccessRead, RoomsRead, Answered
  <2> QED BY <2>2, <2>3
<1> QED BY <1>3, <1>4

\* The queries after the scope leave what admitted the request alone.
LEMMA ClearedKept ==
  ASSUME NEW q \in Slot, Cleared(q), pc[q] \in PastScope, pc'[q] \in PastScope \cup {"denied"},
         now' = now, db' = db, row'[q] = row[q], resolved'[q] = resolved[q]
  PROVE  Cleared(q)' /\ Admissible(q) /\ Admissible(q)'
BY DEF Cleared, Admissible, PastScope

\* validate and revalidate, query by query.
LEMMA SessionReadOnce ==
  ASSUME TypeOK, NEW q \in Slot, KindsFit(q), OneRead(q), EmptyUntilAnswer(q),
         ReadAppGrants(q) \/ ReadOpenApps(q) \/ ReadRooms(q) \/ ReadRoomGrants(q)
  PROVE  OneRead(q)'
<1> USE DEF TypeOK, RequestsOK, At, GoTo
<1> DEFINE a == ActorOf[q]
           full == FullAccess(db, a, now)
<1>1. now' = now /\ db' = db
  BY RequestLeavesTables DEF tables, Continue
<1>2. /\ row' = row /\ resolved' = resolved /\ KindOf[q] # "check"
      /\ pc[q] \in {"appGrants", "openApps", "rooms", "roomGrants"}
      /\ pc'[q] \in {"openApps", "rooms", "roomGrants", "answer"}
  BY DEF ReadAppGrants, ReadOpenApps, ReadRooms, ReadRoomGrants, KindsFit
<1>3. Cleared(q)' /\ Admissible(q) /\ Admissible(q)'
  BY <1>1, <1>2, ClearedKept DEF OneRead, PastScope
<1>4. resolved[q] = db.actor[a].scope
  BY <1>2 DEF OneRead, Cleared, PastScope
<1>5. \A order : Told(q, order) = TopicsOf(db, a, now, full, RoomsOf(db, full),
                                           resolved[q], SessionPick(db, a, order))
  BY <1>2, <1>3, <1>4, ToldWhenAdmitted
<1>6. CASE ReadAppGrants(q)
  <2>1. pc'[q] = "openApps" /\ access'[q] = ExplicitAccess(db, a, now)
    BY <1>6 DEF ReadAppGrants
  <2> QED BY <1>1, <1>3, <2>1 DEF OneRead, AccessRead, RoomsRead, Answered
<1>7. CASE ReadOpenApps(q)
  <2>1. /\ access'[q] = full
        /\ pc'[q] = IF full = {} THEN "answer" ELSE "rooms"
        /\ allowed'[q] = {}
    BY <1>7 DEF ReadOpenApps, OneRead, AccessRead, FullAccess, EmptyUntilAnswer
  <2>2. CASE full = {}
    <3>1. PICK order \in RowOrders : TRUE
      BY SomeOrder
    <3>2. allowed'[q] = Told(q, order)
      BY <1>5, <2>1, <2>2, NothingToTell
    <3>3. Answered(q)'
      BY <1>1, <1>3, <2>1, <2>2, <3>1, <3>2 DEF Answered, Told
    <3> QED BY <1>3, <2>1, <2>2, <3>3 DEF OneRead, AccessRead, RoomsRead
  <2>3. CASE full # {}
    BY <1>1, <1>3, <2>1, <2>3 DEF OneRead, AccessRead, RoomsRead, Answered
  <2> QED BY <2>2, <2>3
<1>8. CASE ReadRooms(q)
  <2>1. /\ pc[q] = "rooms" /\ pc'[q] = "roomGrants" /\ access' = access
        /\ rooms'[q] = RoomsOf(db, access[q])
    BY <1>8 DEF ReadRooms
  <2> QED BY <1>1, <1>3, <2>1 DEF OneRead, AccessRead, RoomsRead, Answered
<1>9. CASE ReadRoomGrants(q)
  <2>1. access[q] = full /\ rooms[q] = RoomsOf(db, full)
    BY <1>9 DEF ReadRoomGrants, OneRead, AccessRead, RoomsRead
  <2>2. PICK order \in RowOrders : allowed'[q] = Told(q, order)
    BY <1>5, <1>9, <2>1 DEF ReadRoomGrants
  <2>3. pc'[q] = "answer"
    BY <1>9 DEF ReadRoomGrants
  <2>4. Answered(q)'
    BY <1>1, <1>3, <2>2, <2>3 DEF Answered, Told
  <2> QED BY <1>3, <2>3, <2>4 DEF OneRead, AccessRead, RoomsRead
<1> QED BY <1>6, <1>7, <1>8, <1>9

\* checkRoomAccess, query by query.
LEMMA CheckReadOnce ==
  ASSUME TypeOK, NEW q \in Slot, KindsFit(q), OneRead(q),
         CheckApp(q) \/ CheckAppGrant(q) \/ CheckRoom(q) \/ CheckRoomGrants(q)
  PROVE  OneRead(q)'
<1> USE DEF TypeOK, RequestsOK, At, GoTo
<1> DEFINE a == ActorOf[q]
           r == AskRoom[q]
           p == RoomApp[AskRoom[q]]
           held == CheckAccess(db, a, now, p)
<1>1. now' = now /\ db' = db
  BY RequestLeavesTables DEF tables, Continue
<1>2. /\ row' = row /\ resolved' = resolved /\ KindOf[q] = "check"
      /\ pc[q] \in {"app", "appGrant", "room", "checkGrants"}
      /\ pc'[q] \in {"appGrant", "room", "checkGrants", "answer", "denied"}
  BY DEF CheckApp, CheckAppGrant, CheckRoom, CheckRoomGrants, Deny, KindsFit
<1>3. Cleared(q)' /\ Admissible(q) /\ Admissible(q)'
  BY <1>1, <1>2, ClearedKept DEF OneRead, PastScope
<1>4. resolved[q] = db.actor[a].scope
  BY <1>2 DEF OneRead, Cleared, PastScope
<1>5. Serves(db.room[r]) =>
        \A order : Told(q, order) = TopicsOf(db, a, now, held, {r}, resolved[q],
                                              CheckPick(db, a, order))
  BY <1>2, <1>3, <1>4, ToldWhenAdmitted
\* A refusal, for want of an app or of a room.
<1>6. Deny(q) /\ (held = {} \/ ~Serves(db.room[r])) => OneRead(q)'
  <2> SUFFICES ASSUME Deny(q), held = {} \/ ~Serves(db.room[r]) PROVE OneRead(q)'
    OBVIOUS
  <2>1. \E order \in RowOrders : Told(q, order) = {}
    BY <1>2, <1>3, EmptyRefused
  <2>2. pc'[q] = "denied"
    BY DEF Deny
  <2>3. Answered(q)'
    BY <1>1, <1>2, <2>1, <2>2 DEF Answered, Told
  <2> QED BY <1>3, <2>2, <2>3 DEF OneRead, AccessRead, RoomsRead
<1>7. CASE CheckApp(q)
  <2>1. CASE AppProject[p] = ActorProject[a] /\ Serves(db.app[p])
    <3>1. /\ access'[q] = {AppEntry(db, p)}
          /\ pc'[q] = IF db.app[p].accessMode = "open" THEN "room" ELSE "appGrant"
      BY <1>7, <2>1 DEF CheckApp
    <3>2. db.app[p].accessMode = "open" => held = {AppEntry(db, p)}
      BY <2>1 DEF CheckAccess
    <3> QED BY <1>1, <1>3, <2>1, <3>1, <3>2 DEF OneRead, AccessRead, RoomsRead, Answered
  <2>2. CASE ~(AppProject[p] = ActorProject[a] /\ Serves(db.app[p]))
    <3>1. held = {}
      BY <2>2 DEF CheckAccess
    <3>2. Deny(q)
      BY <1>7, <2>2 DEF CheckApp
    <3> QED BY <1>6, <3>1, <3>2
  <2> QED BY <2>1, <2>2
<1>8. CASE CheckAppGrant(q)
  <2>1. /\ access[q] = {AppEntry(db, p)} /\ db.app[p].accessMode # "open"
        /\ AppProject[p] = ActorProject[a] /\ Serves(db.app[p])
    BY <1>8 DEF CheckAppGrant, OneRead, AccessRead
  <2>2. CASE HoldsApp(db, a, p, now)
    <3>1. /\ pc'[q] = "room"
          /\ access'[q] = { GrantedEntry(x, db.appGrant[a][p]) : x \in access[q] }
      BY <1>8, <2>2 DEF CheckAppGrant
    <3>2. access'[q] = held
      BY <2>1, <2>2, <3>1 DEF CheckAccess
    <3> QED BY <1>1, <1>3, <3>1, <3>2 DEF OneRead, AccessRead, RoomsRead, Answered
  <2>3. CASE ~HoldsApp(db, a, p, now)
    <3>1. held = {}
      BY <2>1, <2>3 DEF CheckAccess
    <3>2. Deny(q)
      BY <1>8, <2>3 DEF CheckAppGrant
    <3> QED BY <1>6, <3>1, <3>2
  <2> QED BY <2>2, <2>3
<1>9. CASE CheckRoom(q)
  <2>1. CASE Serves(db.room[r])
    <3>1. /\ pc[q] = "room" /\ pc'[q] = "checkGrants"
          /\ rooms'[q] = {r} /\ access' = access
      BY <1>9, <2>1 DEF CheckRoom, Deny
    <3> QED BY <1>1, <1>3, <2>1, <3>1 DEF OneRead, AccessRead, RoomsRead, Answered
  <2>2. CASE ~Serves(db.room[r])
    BY <1>6, <1>9, <2>2 DEF CheckRoom
  <2> QED BY <2>1, <2>2
<1>10. CASE CheckRoomGrants(q)
  <2>1. access[q] = held /\ rooms[q] = {r} /\ Serves(db.room[r])
    BY <1>10 DEF CheckRoomGrants, OneRead, AccessRead, RoomsRead
  <2>2. PICK order \in RowOrders :
               LET found == TopicsOf(db, a, now, access[q], rooms[q], resolved[q],
                                     CheckPick(db, a, order))
               IN \/ found # {} /\ pc'[q] = "answer" /\ allowed'[q] = found
                  \/ found = {} /\ pc'[q] = "denied"
    BY <1>10 DEF CheckRoomGrants, Deny
  <2>3. /\ pc'[q] = "answer" => allowed'[q] = Told(q, order)
        /\ pc'[q] = "denied" => Told(q, order) = {}
        /\ pc'[q] \in {"answer", "denied"}
    BY <1>5, <2>1, <2>2
  <2>4. Answered(q)'
    BY <1>1, <1>2, <1>3, <2>2, <2>3 DEF Answered, Told
  <2> QED BY <1>3, <2>3, <2>4 DEF OneRead, AccessRead, RoomsRead
<1> QED BY <1>7, <1>8, <1>9, <1>10

LEMMA OwnStepOneRead ==
  ASSUME TypeOK, NEW q \in Slot, KindsFit(q), EmptyUntilAnswer(q), RecordStill,
         Undisturbed(q) => OneRead(q), Start(q) \/ Continue(q), Undisturbed(q)'
  PROVE  OneRead(q)'
<1> USE DEF TypeOK, RequestsOK, At, GoTo
<1>1. CASE Start(q) \/ ReadToken(q) \/ VerifyToken(q) \/ ReadActor(q)
  BY <1>1, ActorReadOnce
<1>2. CASE AnswerConnect(q) \/ AnswerRevalidate(q) \/ AnswerCheck(q) \/ AnswerDenied(q)
  <2>1. pc'[q] = "idle"
    BY <1>2 DEF AnswerConnect, AnswerRevalidate, AnswerCheck, AnswerDenied, Finish
  <2> QED BY <2>1 DEF OneRead, Cleared, AccessRead, RoomsRead, Answered, PastScope
<1>3. CASE ~ \/ Start(q) \/ ReadToken(q) \/ VerifyToken(q) \/ ReadActor(q)
             \/ AnswerConnect(q) \/ AnswerRevalidate(q) \/ AnswerCheck(q) \/ AnswerDenied(q)
  <2>1. db' = db /\ row' = row /\ pc'[q] # "idle"
    BY <1>3, RequestLeavesTables DEF Continue, tables, ReadProject, ReadScope,
       ReadAppGrants, ReadOpenApps, ReadRooms, ReadRoomGrants, CheckApp,
       CheckAppGrant, CheckRoom, CheckRoomGrants, Deny
  <2>2. Undisturbed(q)
    BY <2>1 DEF Undisturbed, RecordStill
  <2>3. OneRead(q)
    BY <2>2
  <2> QED BY <1>3, <2>3, ScopeReadOnce, SessionReadOnce, CheckReadOnce DEF Continue
<1> QED BY <1>1, <1>2, <1>3

\* A request that does not move is undisturbed only if nothing moved.
LEMMA OthersKeepOneRead ==
  ASSUME NEW q \in Slot, Undisturbed(q) => OneRead(q), RecordStill, Undisturbed(q)',
         pc'[q] = pc[q], row'[q] = row[q], resolved'[q] = resolved[q],
         access'[q] = access[q], rooms'[q] = rooms[q], allowed'[q] = allowed[q]
  PROVE  OneRead(q)'
<1>1. CASE pc[q] = "idle"
  BY <1>1 DEF OneRead, Cleared, AccessRead, RoomsRead, Answered, PastScope
<1>2. CASE pc[q] # "idle"
  <2>1. still[q] /\ db' = db /\ now' = now
    BY <1>2 DEF Undisturbed, RecordStill
  <2>2. OneRead(q)
    BY <2>1 DEF Undisturbed
  <2> QED
    BY <2>1, <2>2 DEF OneRead, Cleared, AccessRead, RoomsRead, Answered, Admissible, Told
<1> QED BY <1>1, <1>2

LEMMA NextOneRead ==
  TypeOK /\ JustifiedInv /\ OneReadInv /\ [Next /\ RecordStill]_<<vars, still>>
    => OneReadInv'
<1> SUFFICES ASSUME TypeOK, JustifiedInv, OneReadInv,
                    [Next /\ RecordStill]_<<vars, still>>
             PROVE  OneReadInv'
  OBVIOUS
<1>1. CASE UNCHANGED <<vars, still>>
  BY <1>1 DEF vars, OneReadInv, KindsFit, Undisturbed, OneRead, Cleared, AccessRead,
     RoomsRead, Answered, Admissible, Told
<1>2. CASE Next /\ RecordStill
  <2>1. still' \in [Slot -> BOOLEAN]
    BY <1>2 DEF RecordStill, OneReadInv
  <2>2. ASSUME NEW q \in Slot PROVE KindsFit(q)' /\ (Undisturbed(q)' => OneRead(q)')
    <3>1. KindsFit(q) /\ (Undisturbed(q) => OneRead(q)) /\ EmptyUntilAnswer(q)
      BY DEF OneReadInv, JustifiedInv, Justified
    <3>2. CASE Start(q) \/ Continue(q)
      BY <1>2, <3>1, <3>2, OwnStepFits, OwnStepOneRead DEF TypeOK
    <3>3. CASE ~(Start(q) \/ Continue(q))
      <4>1. ASSUME NEW p \in Slot, Start(p) \/ Continue(p)
            PROVE  /\ pc'[q] = pc[q] /\ row'[q] = row[q] /\ resolved'[q] = resolved[q]
                   /\ access'[q] = access[q] /\ rooms'[q] = rooms[q]
                   /\ allowed'[q] = allowed[q]
        BY <3>3, <4>1, OwnSlotOnly DEF TypeOK
      <4>2. CASE UNCHANGED reqVars
        BY <3>1, <4>2, <1>2, OthersKeepOneRead DEF reqVars, KindsFit
      <4>3. CASE \E p \in Slot : Start(p) \/ Continue(p)
        BY <1>2, <3>1, <4>1, <4>3, OthersKeepOneRead DEF KindsFit
      <4> QED BY <1>2, <4>2, <4>3, AdminLeavesRequests DEF Next, Disconnect, Tick
    <3> QED BY <3>2, <3>3
  <2> QED BY <2>1, <2>2 DEF OneReadInv
<1> QED BY <1>1, <1>2

\* An undisturbed connect, revalidate or check is answered what the rules give
\* for the tables as they stand and refused only where they refuse, for every
\* database, any number of requests in flight and every pattern.
THEOREM AnswersExact == OneReadSpec => []AnswersAsOneRead
<1> DEFINE Inv == TypeOK /\ JustifiedInv /\ OneReadInv
<1>1. Init /\ still = [q \in Slot |-> TRUE] => Inv
  <2>1. Init /\ still = [q \in Slot |-> TRUE] => OneReadInv
    BY DEF Init, OneReadInv, KindsFit, OneRead, Cleared, AccessRead, RoomsRead,
       Answered, PastScope
  <2> QED BY <2>1, InitType, InitJustified
<1>2. Inv /\ [Next /\ RecordStill]_<<vars, still>> => Inv'
  <2>1. [Next /\ RecordStill]_<<vars, still>> => [Next]_vars
    OBVIOUS
  <2> QED BY <2>1, NextType, NextJustified, NextOneRead
<1>3. Inv => AnswersAsOneRead
  BY DEF OneReadInv, OneRead, Answered, AnswersAsOneRead
<1> QED BY <1>1, <1>2, <1>3, PTL DEF OneReadSpec

-----------------------------------------------------------------------------
(* A deleted actor is out for good.                                        *)

\* Nobody is about to write an actor that is deleted: who asserted a scope for
\* it holds its row.
DeletedFree == \A a \in Actor : db.actor[a].state = "deleted" => ActorFree(a)

DeletedRemain ==
  \A a \in Actor : db.actor[a].state = "deleted" => db'.actor[a].state = "deleted"

LEMMA DeletedStep ==
  TypeOK /\ DeletedFree /\ [Next]_vars => DeletedFree' /\ DeletedRemain
<1> SUFFICES ASSUME TypeOK, DeletedFree, [Next]_vars PROVE DeletedFree' /\ DeletedRemain
  OBVIOUS
<1> USE DEF TypeOK, TablesOK
<1>a. db \in Database /\ db.actor \in [Actor -> ActorRow]
  BY DEF Database
<1>b. \A r \in ActorRow : Gone(r).state = IF r.state = "live" THEN "deleted" ELSE r.state
  BY DEF Gone, ActorRow
<1>1. ASSUME NEW b \in Actor, CreateActor(b) \/ UpdateActor(b) \/ DeleteActor(b)
      PROVE  DeletedFree' /\ DeletedRemain
  <2>1. /\ db.actor[b].state # "deleted" /\ ActorFree(b) /\ assigning' = assigning
        /\ \E r : db' = [db EXCEPT !.actor[b] = r]
    BY <1>1 DEF CreateActor, UpdateActor, DeleteActor, adminVars
  <2>2. \A a \in Actor \ {b} : db'.actor[a] = db.actor[a]
    BY <1>a, <2>1 DEF Database
  <2> QED BY <2>1, <2>2 DEF DeletedFree, DeletedRemain, ActorFree
<1>2. ASSUME NEW b \in Actor, NEW s \in Scope, AssertScope(b, s)
      PROVE  DeletedFree' /\ DeletedRemain
  BY <1>2 DEF AssertScope, DeletedFree, DeletedRemain, ActorFree
<1>3. ASSUME NEW b \in Actor, NEW s \in Scope, WriteScope(b, s)
      PROVE  DeletedFree' /\ DeletedRemain
  <2>1. /\ <<b, s>> \in assigning /\ assigning' \subseteq assigning
        /\ db.actor[b].state # "deleted"
    BY <1>3 DEF WriteScope, DeletedFree, ActorFree
  <2>2. db' = [db EXCEPT !.actor[b] =
                 IF db.actor[b].state = "live" THEN [db.actor[b] EXCEPT !.scope = s]
                 ELSE [state |-> "live", status |-> "active",
                       expiresAt |-> Never, scope |-> s]]
    BY <1>3, <1>a DEF WriteScope, Database
  <2>3. db'.actor[b].state = "live"
    <3>1. CASE db.actor[b].state = "live"
      <4>1. db'.actor[b] = [db.actor[b] EXCEPT !.scope = s]
        BY <1>a, <2>2, <3>1 DEF Database
      <4> QED BY <1>a, <3>1, <4>1 DEF ActorRow
    <3>2. CASE db.actor[b].state # "live"
      BY <1>a, <2>2, <3>2 DEF Database
    <3> QED BY <3>1, <3>2
  <2>4. \A a \in Actor \ {b} : db'.actor[a] = db.actor[a]
    BY <1>a, <2>2 DEF Database
  <2> QED BY <2>1, <2>3, <2>4 DEF DeletedFree, DeletedRemain, ActorFree
<1>4. ASSUME NEW j \in Project, EraseProject(j) PROVE DeletedFree' /\ DeletedRemain
  <2>1. /\ assigning' = assigning
        /\ \A a \in Actor : ActorProject[a] = j => ActorFree(a)
        /\ \A a \in Actor : db'.actor[a] = IF ActorProject[a] = j
                                           THEN Gone(db.actor[a]) ELSE db.actor[a]
    BY <1>4 DEF EraseProject, adminVars
  <2> QED BY <1>a, <1>b, <2>1 DEF DeletedFree, DeletedRemain, ActorFree
<1>5. ASSUME NEW j \in Project, DeleteProject(j) PROVE DeletedFree' /\ DeletedRemain
  <2>1. assigning' = assigning /\ db'.actor = db.actor
    BY <1>5, <1>a DEF DeleteProject, adminVars, Database
  <2> QED BY <2>1 DEF DeletedFree, DeletedRemain, ActorFree
<1>6. CASE ~(AdminStep \/ CommitStep)
  BY <1>6, OthersLeaveTables DEF DeletedFree, DeletedRemain, ActorFree
<1> QED
  BY <1>1, <1>2, <1>3, <1>4, <1>5, <1>6, OthersLeaveActors
  DEF DeletedFree, DeletedRemain, ActorFree

\* A step of a request, of this actor or of another.
LEMMA RequestShutOut ==
  ASSUME TypeOK, NEW a \in Actor, ShutOut(a), NEW p \in Slot, KindsFit(p),
         Start(p) \/ Continue(p)
  PROVE  ShutOut(a)'
<1> USE SlotAssumption DEF TypeOK, RequestsOK, At, GoTo
<1> DEFINE Cold == ~(Hit(authCache[a], now) /\ UsableActor(authCache[a].value, now))
           Way(q) == KindOf[q] = "connect" /\ ActorOf[q] = a =>
                       \/ pc[q] \in {"idle", "token", "denied"}
                       \/ pc[q] = "verify" /\ ~Serves(row[q])
<1>0. /\ db.actor[a].state = "deleted" /\ ~session[a].connected /\ Cold
      /\ \A q \in Slot : Way(q)
      /\ now \in Nat
  BY InputAssumption DEF ShutOut, TablesOK
<1>1. now' = now /\ db' = db
  BY RequestLeavesTables DEF tables
<1>2. \A q \in Slot \ {p} : Way(q)'
  BY <1>0, OwnSlotOnly
<1>3. ASSUME authCache'[a] = authCache[a], ~session'[a].connected, Way(p)'
      PROVE  ShutOut(a)'
  BY <1>0, <1>1, <1>2, <1>3 DEF ShutOut
<1>4. CASE ConnectCached(p)
  <2>1. ActorOf[p] # a
    BY <1>0, <1>4 DEF ConnectCached
  <2> QED BY <1>0, <1>3, <1>4, <2>1 DEF ConnectCached
<1>5. CASE ConnectMiss(p)
  <2>1. /\ authCache'[a] = authCache[a] \/ authCache'[a].expiresAt = -1
        /\ pc'[p] = "token" /\ session' = session
    BY <1>5 DEF ConnectMiss, NoEntry
  <2>2. Cold'
    BY <1>0, <1>1, <2>1 DEF Hit
  <2> QED BY <1>0, <1>1, <1>2, <2>1, <2>2 DEF ShutOut
<1>6. CASE StartRevalidate(p) \/ StartCheck(p)
  BY <1>0, <1>3, <1>6 DEF StartRevalidate, StartCheck
<1>7. CASE ReadToken(p)
  <2>1. pc'[p] = "verify" /\ row'[p] = db.actor[ActorOf[p]]
    BY <1>7 DEF ReadToken
  <2>2. Way(p)'
    BY <1>0, <2>1 DEF Serves
  <2> QED BY <1>0, <1>3, <1>7, <2>2 DEF ReadToken
<1>8. CASE VerifyToken(p)
  <2>1. KindOf[p] = "connect"
    BY <1>8 DEF VerifyToken, KindsFit
  <2>2. CASE ActorOf[p] = a
    <3>1. ~UsableActor(row[p], now)
      BY <1>0, <1>8, <2>1, <2>2 DEF VerifyToken, UsableActor
    <3> QED BY <1>0, <1>3, <1>8, <3>1 DEF VerifyToken, Deny
  <2>3. CASE ActorOf[p] # a
    BY <1>0, <1>3, <1>8, <2>3 DEF VerifyToken, Deny
  <2> QED BY <2>2, <2>3
<1>9. CASE \/ ReadActor(p) \/ ReadProject(p) \/ ReadScope(p) \/ ReadAppGrants(p)
           \/ ReadOpenApps(p) \/ ReadRooms(p) \/ ReadRoomGrants(p) \/ CheckApp(p)
           \/ CheckAppGrant(p) \/ CheckRoom(p) \/ CheckRoomGrants(p)
  <2>1. /\ UNCHANGED <<authCache, session>>
        /\ pc[p] \notin {"idle", "token", "verify", "denied"}
    BY <1>9 DEF ReadActor, ReadProject, ReadScope, ReadAppGrants, ReadOpenApps,
       ReadRooms, ReadRoomGrants, CheckApp, CheckAppGrant, CheckRoom, CheckRoomGrants
  <2>2. Way(p)'
    BY <1>0, <2>1
  <2> QED BY <1>0, <1>3, <2>1, <2>2
<1>10. CASE AnswerConnect(p) \/ AnswerRevalidate(p) \/ AnswerCheck(p) \/ AnswerDenied(p)
  <2>1. authCache' = authCache /\ pc'[p] = "idle"
    BY <1>10 DEF AnswerConnect, AnswerRevalidate, AnswerCheck, AnswerDenied, Finish
  <2>2. AnswerConnect(p) => ActorOf[p] # a
    BY <1>0 DEF AnswerConnect
  <2>3. ~session'[a].connected
    BY <1>0, <1>10, <2>2 DEF AnswerConnect, AnswerRevalidate, AnswerCheck,
       AnswerDenied, Keep, NoSession
  <2> QED BY <1>3, <2>1, <2>3
<1> QED
  BY <1>4, <1>5, <1>6, <1>7, <1>8, <1>9, <1>10 DEF Start, Continue

\* A cached authentication does not come back to life as time passes.
LEMMA TickShutOut ==
  ASSUME TypeOK, NEW a \in Actor, ShutOut(a), Tick
  PROVE  ShutOut(a)'
<1>1. now \in Nat /\ now' = now + 1 /\ db' = db /\ UNCHANGED <<authCache, session, pc, row>>
  BY InputAssumption DEF TypeOK, TablesOK, Tick, reqVars
<1>2. /\ authCache[a].expiresAt \in Int
      /\ authCache[a].value.expiresAt \in Int \cup {Never}
  BY DEF TypeOK, RequestsOK, ActorRow, Expiry
<1>3. Hit(authCache[a], now') => Hit(authCache[a], now)
  BY <1>1, <1>2 DEF Hit
<1>4. UsableActor(authCache[a].value, now') => UsableActor(authCache[a].value, now)
  BY <1>1, <1>2 DEF UsableActor, Expired
<1> QED BY <1>1, <1>3, <1>4 DEF ShutOut

LEMMA NextShutOut ==
  ASSUME TypeOK, DeletedFree, \A q \in Slot : KindsFit(q), [Next]_vars,
         NEW a \in Actor, ShutOut(a)
  PROVE  ShutOut(a)'
<1>1. DeletedRemain
  BY DeletedStep
<1>2. CASE UNCHANGED <<now, authCache, session, pc, row>>
  BY <1>1, <1>2 DEF ShutOut, DeletedRemain
<1>3. ASSUME NEW b \in Actor, Disconnect(b) PROVE ShutOut(a)'
  <2>1. ~session'[a].connected
    BY <1>3 DEF Disconnect, NoSession, ShutOut, TypeOK, RequestsOK
  <2> QED BY <1>3, <2>1 DEF Disconnect, ShutOut, tables, reqVars
<1> QED
  BY <1>2, <1>3, AdminLeavesRequests, RequestShutOut, TickShutOut DEF Next, vars, reqVars

LEMMA NextFits ==
  ASSUME TypeOK, [Next]_vars, \A q \in Slot : KindsFit(q)
  PROVE  \A q \in Slot : KindsFit(q)'
<1> SUFFICES ASSUME NEW q \in Slot PROVE KindsFit(q)'
  OBVIOUS
<1>1. CASE Start(q) \/ Continue(q)
  BY <1>1, OwnStepFits DEF TypeOK
<1>2. CASE ~(Start(q) \/ Continue(q))
  <2>1. ASSUME NEW p \in Slot, Start(p) \/ Continue(p) PROVE pc'[q] = pc[q]
    BY <1>2, <2>1, OwnSlotOnly DEF TypeOK
  <2>2. pc'[q] = pc[q]
    BY <2>1, AdminLeavesRequests DEF Next, vars, reqVars, Disconnect, Tick
  <2> QED BY <2>2 DEF KindsFit
<1> QED BY <1>1, <1>2

\* Once a deleted actor is disconnected, nothing that lets it in is cached and no
\* connect holds its old row, it stays so in every behaviour: with any number of
\* connects, late answers, patches and transactions under way.
THEOREM DeletedStaysOut == Spec => OutForGood
<1> DEFINE Inv == TypeOK /\ DeletedFree /\ \A q \in Slot : KindsFit(q)
<1>1. Init => Inv
  BY InitType DEF Init, DeletedFree, ActorFree, KindsFit
<1>2. Inv /\ [Next]_vars => Inv'
  BY NextType, DeletedStep, NextFits
<1>3. Inv /\ [Next]_vars => [\A a \in Actor : ShutOut(a) => ShutOut(a)']_vars
  BY NextShutOut
<1> QED BY <1>1, <1>2, <1>3, PTL DEF Spec, OutForGood
=============================================================================
