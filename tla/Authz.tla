------------------------------- MODULE Authz --------------------------------
(***************************************************************************)
(* Authorization of broker requests over a database that administrators    *)
(* keep changing.                                                          *)
(*                                                                         *)
(* A request slot q is one handler call of AuthzService (validateActor,    *)
(* revalidateActor or checkRoomAccess), with one action per awaited query: *)
(* nothing holds the rows still between two queries, so administrative     *)
(* transactions, the clock and the other requests run in between.  The     *)
(* broker is external: it keeps the set a connect or a revalidate answered *)
(* with, adds what a check allowed, and drops the connection when a        *)
(* revalidate is refused.                                                  *)
(***************************************************************************)
EXTENDS AuthzRules, TtlCache

CONSTANTS
  Slot,          \* handler calls that may be in flight at once
  KindOf,        \* [Slot -> {"connect", "revalidate", "check"}]
  ActorOf,       \* [Slot -> Actor]
  AskRoom,       \* [Slot -> Room]: the room a check's pattern names
  AskSegment,    \* [Slot -> Scope \cup {NoScope}]: its scope segment
  InitialTables, \* databases a run starts from
  Admin,         \* the administrative endpoints a run exercises
  Expiries,      \* expiry times an administrator may set
  TopicLists,    \* topic lists an administrator may set
  Permissions,   \* permissions an administrator may grant
  AuthTtl,       \* time an authenticated token stays cached
  MaxTime,       \* bound of the clock
  MaxWrites      \* bound of the administrative writes

\* An explicit app grant is written by an import only, next to the actor and
\* the app, so it never crosses projects.
GrantsInTenant(d) ==
  \A a \in Actor, p \in App :
    d.appGrant[a][p].state # "absent" => AppProject[p] = ActorProject[a]

\* actor_token.project_id references a project row.
NoOrphans(d) ==
  \A a \in Actor : d.project[ActorProject[a]] = "gone" => d.actor[a].state # "live"

\* room_actor_access.actor_token_id references an actor row.
GrantsNameActors(d) ==
  \A g \in RoomGrant : d.roomGrant[g].state # "absent" /\ GrantTarget[g] \in Actor
                          => d.actor[GrantTarget[g]].state # "absent"

\* A scope is asserted to be of the actor's project before it is written.
ScopesInTenant(d) ==
  \A a \in Actor :
    d.actor[a].scope # NoScope => ScopeProject[d.actor[a].scope] = ActorProject[a]

WellFormed(d) ==
  /\ GrantsInTenant(d)
  /\ NoOrphans(d)
  /\ GrantsNameActors(d)
  /\ ScopesInTenant(d)

ASSUME SlotAssumption ==
  /\ KindOf \in [Slot -> {"connect", "revalidate", "check"}]
  /\ ActorOf \in [Slot -> Actor]
  /\ AskRoom \in [Slot -> Room]
  /\ AskSegment \in [Slot -> Scope \cup {NoScope}]

ASSUME InitialAssumption ==
  \A d \in InitialTables : d \in Database /\ WellFormed(d)

ASSUME InputAssumption ==
  /\ Admin \subseteq {"actor", "scope", "app", "room", "grant", "project"}
  /\ Expiries \subseteq Expiry
  /\ TopicLists \subseteq TopicList
  /\ Permissions \subseteq Permission
  /\ AuthTtl \in Nat /\ MaxTime \in Nat /\ MaxWrites \in Nat

VARIABLES
  now,        \* the clock
  writes,     \* administrative writes so far
  db,         \* the committed database
  assigning,  \* <<actor, scope>>: scope asserted, row not yet written
  dropping,   \* scopes whose delete has counted no actor, not yet written
  patching,   \* room grants read and patched in memory, not yet saved
  authCache,  \* ActorTokenService._authCache, by actor
  pc,         \* the query each request waits for
  row,        \* the actor row it works from
  resolved,   \* the scope it resolved
  access,     \* the app access it collected
  rooms,      \* the rooms it read
  allowed,    \* the topics it will answer with
  session,    \* what the broker caches for a connected actor
  seen        \* history: what admitted the actor since the request began

adminVars == <<assigning, dropping, patching>>
reqVars == <<pc, row, resolved, access, rooms, allowed>>
vars == <<now, writes, db, assigning, dropping, patching, authCache, pc, row,
          resolved, access, rooms, allowed, session, seen>>

NullRow == [state |-> "absent", status |-> "disabled", expiresAt |-> Never,
            scope |-> NoScope]
NoSession == [connected |-> FALSE, topics |-> {}]
Nothing == [apps |-> {}, rooms |-> {}, doors |-> {}, scopes |-> {}]

Steps == {"idle", "token", "verify", "actor", "project", "scope", "appGrants",
          "openApps", "rooms", "roomGrants", "app", "appGrant", "room",
          "checkGrants", "answer", "denied"}

TablesOK ==
  /\ now \in 0..MaxTime
  /\ writes \in 0..MaxWrites
  /\ db \in Database
  /\ assigning \subseteq Actor \X Scope
  /\ dropping \subseteq Scope
  /\ patching \subseteq [grant: RoomGrant, as: GrantRow]

RequestsOK ==
  /\ authCache \in [Actor -> [value: ActorRow, expiresAt: Int]]
  /\ pc \in [Slot -> Steps]
  /\ row \in [Slot -> ActorRow]
  /\ resolved \in [Slot -> Scope \cup {NoScope}]
  /\ access \in [Slot -> SUBSET Access]
  /\ rooms \in [Slot -> SUBSET Room]
  /\ allowed \in [Slot -> SUBSET AllowedTopic]
  /\ session \in [Actor -> [connected: BOOLEAN, topics: SUBSET AllowedTopic]]

HistoryOK ==
  seen \in [Slot -> [apps: SUBSET App, rooms: SUBSET Room,
                     doors: SUBSET Room, scopes: SUBSET Scope]]

TypeOK == TablesOK /\ RequestsOK /\ HistoryOK

Init ==
  /\ now = 0
  /\ writes = 0
  /\ db \in InitialTables
  /\ assigning = {}
  /\ dropping = {}
  /\ patching = {}
  /\ authCache = [a \in Actor |-> NoEntry(NullRow)]
  /\ pc = [q \in Slot |-> "idle"]
  /\ row = [q \in Slot |-> NullRow]
  /\ resolved = [q \in Slot |-> NoScope]
  /\ access = [q \in Slot |-> {}]
  /\ rooms = [q \in Slot |-> {}]
  /\ allowed = [q \in Slot |-> {}]
  /\ session = [a \in Actor |-> NoSession]
  /\ seen = [q \in Slot |-> Nothing]

-----------------------------------------------------------------------------
(* Administrative transactions.  Each is one atomic step, except where a    *)
(* check and the write it protects are separated and no lock joins them.    *)

Write(endpoint) ==
  /\ endpoint \in Admin
  /\ writes < MaxWrites
  /\ writes' = writes + 1
  /\ UNCHANGED <<now, authCache, session, reqVars>>

Deleted(r) == [r EXCEPT !.state = "deleted"]

\* A transaction that holds the actor row FOR SHARE blocks every other update
\* of that row.
ActorFree(a) == \A s \in Scope : <<a, s>> \notin assigning

CreateActor(a) ==
  /\ Write("actor")
  /\ db.actor[a].state = "absent" /\ ActorFree(a)
  /\ db.project[ActorProject[a]] # "gone"
  /\ \E e \in Expiries :
       db' = [db EXCEPT !.actor[a] = [state |-> "live", status |-> "active",
                                      expiresAt |-> e, scope |-> NoScope]]
  /\ UNCHANGED adminVars

\* A patch of status and expiry, and possibly of the scope to null.
UpdateActor(a) ==
  /\ Write("actor")
  /\ db.actor[a].state = "live" /\ ActorFree(a)
  /\ \E st \in {"active", "disabled"}, e \in Expiries \cup {db.actor[a].expiresAt},
       s \in {NoScope, db.actor[a].scope} :
       db' = [db EXCEPT !.actor[a] = [state |-> "live", status |-> st,
                                      expiresAt |-> e, scope |-> s]]
  /\ UNCHANGED adminVars

\* Faulty variant: deletion recorded in the status column.
DeleteActorByStatus(a) ==
  /\ Write("actor")
  /\ db.actor[a].state = "live" /\ ActorFree(a)
  /\ db' = [db EXCEPT !.actor[a].status = "deleted"]
  /\ UNCHANGED adminVars

DeleteActor(a) ==
  /\ Write("actor")
  /\ db.actor[a].state = "live" /\ ActorFree(a)
  /\ db' = [db EXCEPT !.actor[a] = Deleted(@)]
  /\ UNCHANGED adminVars

\* _assertScopeInProject counts the scope without locking it.
AssertScope(a, s) ==
  /\ Write("actor")
  /\ db.actor[a].state \in {"absent", "live"} /\ ActorFree(a)
  /\ db.project[ActorProject[a]] # "gone"
  /\ db.scope[s].state = "live" /\ ScopeProject[s] = ActorProject[a]
  /\ assigning' = assigning \cup {<<a, s>>}
  /\ UNCHANGED <<db, dropping, patching>>

\* The create or the patch the assertion was made for.
WriteScope(a, s) ==
  /\ <<a, s>> \in assigning
  /\ db' = [db EXCEPT !.actor[a] =
              IF db.actor[a].state = "live" THEN [@ EXCEPT !.scope = s]
              ELSE [state |-> "live", status |-> "active",
                    expiresAt |-> Never, scope |-> s]]
  /\ assigning' = assigning \ {<<a, s>>}
  /\ UNCHANGED <<now, writes, authCache, session, reqVars, dropping, patching>>

CreateScope(s) ==
  /\ Write("scope")
  /\ db.scope[s].state = "absent"
  /\ db.project[ScopeProject[s]] # "gone"
  /\ db' = [db EXCEPT !.scope[s] = [state |-> "live", isActive |-> TRUE]]
  /\ UNCHANGED adminVars

UpdateScope(s) ==
  /\ Write("scope")
  /\ db.scope[s].state = "live" /\ s \notin dropping
  /\ \E on \in BOOLEAN : db' = [db EXCEPT !.scope[s] = [@ EXCEPT !.isActive = on]]
  /\ UNCHANGED adminVars

\* delete locks the scope row, then counts the actors bound to it.
CountActors(s) ==
  /\ Write("scope")
  /\ db.scope[s].state = "live" /\ s \notin dropping
  /\ \A a \in Actor : db.actor[a].state = "live" => db.actor[a].scope # s
  /\ dropping' = dropping \cup {s}
  /\ UNCHANGED <<db, assigning, patching>>

RemoveScope(s) ==
  /\ s \in dropping
  /\ db' = [db EXCEPT !.scope[s] = Deleted(@)]
  /\ dropping' = dropping \ {s}
  /\ UNCHANGED <<now, writes, authCache, session, reqVars, assigning, patching>>

CreateApp(p) ==
  /\ Write("app")
  /\ db.app[p].state = "absent"
  /\ db.project[AppProject[p]] # "gone"
  /\ \E m \in {"open", "restricted"}, list \in TopicLists \ {Inherit} :
       db' = [db EXCEPT !.app[p] = [state |-> "live", status |-> "active",
                                    accessMode |-> m, topics |-> list]]
  /\ UNCHANGED adminVars

UpdateApp(p) ==
  /\ Write("app")
  /\ db.app[p].state = "live"
  /\ \E st \in {"active", "disabled"}, m \in {"open", "restricted"},
       list \in TopicLists \cup {db.app[p].topics} :
       db' = [db EXCEPT !.app[p] = [state |-> "live", status |-> st,
                                    accessMode |-> m, topics |-> list]]
  /\ UNCHANGED adminVars

\* Rooms and grants beneath the app are left in place.
DeleteApp(p) ==
  /\ Write("app")
  /\ db.app[p].state = "live"
  /\ db' = [db EXCEPT !.app[p] = Deleted(@)]
  /\ UNCHANGED adminVars

CreateRoom(r) ==
  /\ Write("room")
  /\ db.room[r].state = "absent"
  /\ db.app[RoomApp[r]].state # "absent"
  /\ db.project[AppProject[RoomApp[r]]] # "gone"
  /\ db' = [db EXCEPT !.room[r] = [state |-> "live", status |-> "active"]]
  /\ UNCHANGED adminVars

UpdateRoom(r) ==
  /\ Write("room")
  /\ db.room[r].state = "live"
  /\ \E st \in {"active", "disabled"} : db' = [db EXCEPT !.room[r] = [@ EXCEPT !.status = st]]
  /\ UNCHANGED adminVars

DeleteRoom(r) ==
  /\ Write("room")
  /\ db.room[r].state = "live"
  /\ db' = [db EXCEPT !.room[r] = Deleted(@)]
  /\ UNCHANGED adminVars

\* The projects a grant row goes with: that of its room, and that of the actor
\* it names, which nothing requires to be the same.
GrantProjects(g) ==
  {AppProject[RoomApp[GrantRoom[g]]]}
  \cup { ActorProject[a] : a \in Actor \cap {GrantTarget[g]} }

\* The duplicate check reads without a lock and no index backs it, so two
\* overlapping creates for one target both insert: it is no guard here.
CreateGrant(g) ==
  /\ Write("grant")
  /\ db.roomGrant[g].state = "absent"
  /\ db.room[GrantRoom[g]].state # "absent"
  /\ GrantTarget[g] \in Actor => db.actor[GrantTarget[g]].state # "absent"
  /\ \A j \in GrantProjects(g) : db.project[j] # "gone"
  /\ \E on \in BOOLEAN, e \in Expiries, n \in Permissions, list \in TopicLists :
       db' = [db EXCEPT !.roomGrant[g] =
                [state |-> "live", isActive |-> on, expiresAt |-> e,
                 permission |-> n, topics |-> list]]
  /\ UNCHANGED adminVars

\* Faulty variant: a query that forgets deleted_at.
PatchGrantEvenDeleted(g) ==
  /\ Write("grant")
  /\ db.roomGrant[g].state # "absent"
  /\ \E on \in BOOLEAN, e \in Expiries \cup {db.roomGrant[g].expiresAt},
       n \in Permissions, list \in TopicLists \cup {db.roomGrant[g].topics} :
       patching' = patching \cup
         {[grant |-> g, as |-> [state |-> "live", isActive |-> on, expiresAt |-> e,
                                permission |-> n, topics |-> list]]}
  /\ UNCHANGED <<db, assigning, dropping>>

\* update finds the grant without a lock and patches the entity it read ...
PatchGrant(g) ==
  /\ Write("grant")
  /\ db.roomGrant[g].state = "live"
  /\ \E on \in BOOLEAN, e \in Expiries \cup {db.roomGrant[g].expiresAt},
       n \in Permissions, list \in TopicLists \cup {db.roomGrant[g].topics} :
       patching' = patching \cup
         {[grant |-> g, as |-> [state |-> "live", isActive |-> on, expiresAt |-> e,
                                permission |-> n, topics |-> list]]}
  /\ UNCHANGED <<db, assigning, dropping>>

\* ... and save() writes every column in which the row now differs from that
\* entity, deleted_at included.
SaveGrant(x) ==
  /\ db' = IF \E j \in GrantProjects(x.grant) : db.project[j] = "gone" THEN db
           ELSE [db EXCEPT !.roomGrant[x.grant] = x.as]
  /\ patching' = patching \ {x}
  /\ UNCHANGED <<now, writes, authCache, session, reqVars, assigning, dropping>>

DeleteGrant(g) ==
  /\ Write("grant")
  /\ db.roomGrant[g].state = "live"
  /\ db' = [db EXCEPT !.roomGrant[g] = Deleted(@)]
  /\ UNCHANGED adminVars

\* ProjectFacade.deleteProject marks the project row and nothing else.
DeleteProject(j) ==
  /\ Write("project")
  /\ db.project[j] = "live"
  /\ db' = [db EXCEPT !.project[j] = "deleted"]
  /\ UNCHANGED adminVars

\* ProjectConfigFacade.deleteProject removes the row; foreign keys cascade.
Gone(r) == [r EXCEPT !.state = IF @ = "live" THEN "deleted" ELSE @]

\* Faulty variant: the project row goes, its actors and apps stay.
EraseProjectRow(j) ==
  /\ Write("project")
  /\ db.project[j] # "gone"
  /\ db' = [db EXCEPT !.project[j] = "gone"]
  /\ UNCHANGED adminVars

EraseProject(j) ==
  /\ Write("project")
  /\ db.project[j] # "gone"
  /\ \A a \in Actor : ActorProject[a] = j => ActorFree(a)
  /\ \A s \in dropping : ScopeProject[s] # j
  /\ db' =
       [project |-> [db.project EXCEPT ![j] = "gone"],
        actor |-> [a \in Actor |-> IF ActorProject[a] = j
                     THEN Gone(db.actor[a]) ELSE db.actor[a]],
        scope |-> [s \in Scope |-> IF ScopeProject[s] = j
                     THEN Gone(db.scope[s]) ELSE db.scope[s]],
        app |-> [p \in App |-> IF AppProject[p] = j
                   THEN Gone(db.app[p]) ELSE db.app[p]],
        appGrant |-> [a \in Actor |-> [p \in App |-> IF ActorProject[a] = j
                        THEN Gone(db.appGrant[a][p]) ELSE db.appGrant[a][p]]],
        room |-> [r \in Room |-> IF AppProject[RoomApp[r]] = j
                    THEN Gone(db.room[r]) ELSE db.room[r]],
        roomGrant |-> [g \in RoomGrant |-> IF j \in GrantProjects(g)
                         THEN Gone(db.roomGrant[g]) ELSE db.roomGrant[g]]]
  /\ UNCHANGED adminVars

AdminStep ==
  \/ \E a \in Actor : CreateActor(a) \/ UpdateActor(a) \/ DeleteActor(a)
  \/ \E a \in Actor, s \in Scope : AssertScope(a, s)
  \/ \E s \in Scope : CreateScope(s) \/ UpdateScope(s) \/ CountActors(s)
  \/ \E p \in App : CreateApp(p) \/ UpdateApp(p) \/ DeleteApp(p)
  \/ \E r \in Room : CreateRoom(r) \/ UpdateRoom(r) \/ DeleteRoom(r)
  \/ \E g \in RoomGrant : CreateGrant(g) \/ PatchGrant(g) \/ DeleteGrant(g)
  \/ \E j \in Project : DeleteProject(j) \/ EraseProject(j)

CommitStep ==
  \/ \E a \in Actor, s \in Scope : WriteScope(a, s)
  \/ \E s \in Scope : RemoveScope(s)
  \/ \E x \in patching : SaveGrant(x)

-----------------------------------------------------------------------------
(* Requests.                                                               *)

tables == <<now, writes, db, adminVars>>

At(q, step) == pc[q] = step
GoTo(q, step) == pc' = [pc EXCEPT ![q] = step]

Deny(q) == GoTo(q, "denied") /\ UNCHANGED <<row, resolved, access, rooms, allowed>>

\* authenticateActorToken, cache hit.  validateActor tests the cached row's
\* status and expiry again; a refusal there changes nothing.
ConnectCached(q) ==
  LET a == ActorOf[q]  entry == authCache[a]
  IN /\ KindOf[q] = "connect" /\ At(q, "idle")
     /\ ~session[a].connected
     /\ Hit(entry, now)
     /\ UsableActor(entry.value, now)
     /\ GoTo(q, "project")
     /\ row' = [row EXCEPT ![q] = entry.value]
     /\ UNCHANGED <<tables, authCache, session, resolved, access, rooms, allowed>>

\* Cache miss: TtlCache.get drops an entry past its time.
ConnectMiss(q) ==
  LET a == ActorOf[q]
  IN /\ KindOf[q] = "connect" /\ At(q, "idle")
     /\ ~session[a].connected
     /\ ~Hit(authCache[a], now)
     /\ authCache' = [authCache EXCEPT ![a] = NoEntry(NullRow)]
     /\ GoTo(q, "token")
     /\ UNCHANGED <<tables, session, row, resolved, access, rooms, allowed>>

\* findByKeyId takes its snapshot of the row ...
ReadToken(q) ==
  /\ At(q, "token")
  /\ row' = [row EXCEPT ![q] = db.actor[ActorOf[q]]]
  /\ GoTo(q, "verify")
  /\ UNCHANGED <<tables, authCache, session, resolved, access, rooms, allowed>>

\* ... and when the answer arrives it is verified, cached and used.
VerifyToken(q) ==
  /\ At(q, "verify")
  /\ UNCHANGED <<tables, session>>
  /\ \/ /\ UsableActor(row[q], now)
        /\ authCache' = [authCache EXCEPT ![ActorOf[q]] =
                           Entry(row[q], now, AuthTtl)]
        /\ GoTo(q, "project")
        /\ UNCHANGED <<row, resolved, access, rooms, allowed>>
     \/ /\ ~UsableActor(row[q], now)
        /\ Deny(q)
        /\ UNCHANGED authCache

StartRevalidate(q) ==
  /\ KindOf[q] = "revalidate" /\ At(q, "idle")
  /\ session[ActorOf[q]].connected
  /\ GoTo(q, "actor")
  /\ UNCHANGED <<tables, authCache, session, row, resolved, access, rooms, allowed>>

StartCheck(q) ==
  /\ KindOf[q] = "check" /\ At(q, "idle")
  /\ session[ActorOf[q]].connected
  /\ GoTo(q, "actor")
  /\ UNCHANGED <<tables, authCache, session, row, resolved, access, rooms, allowed>>

\* A revalidate and a check read the actor row itself, never the cache.
ReadActor(q) ==
  LET actor == db.actor[ActorOf[q]]
  IN /\ At(q, "actor")
     /\ UNCHANGED <<tables, authCache, session>>
     /\ \/ /\ UsableActor(actor, now)
           /\ row' = [row EXCEPT ![q] = actor]
           /\ GoTo(q, IF KindOf[q] = "check" THEN "scope" ELSE "project")
           /\ UNCHANGED <<resolved, access, rooms, allowed>>
        \/ ~UsableActor(actor, now) /\ Deny(q)

ReadProject(q) ==
  /\ At(q, "project")
  /\ UNCHANGED <<tables, authCache, session>>
  /\ \/ /\ db.project[ActorProject[ActorOf[q]]] = "live"
        /\ GoTo(q, "scope")
        /\ UNCHANGED <<row, resolved, access, rooms, allowed>>
     \/ db.project[ActorProject[ActorOf[q]]] # "live" /\ Deny(q)

\* A four-part pattern must name the actor's own scope; a three-part one is
\* let through for a scoped actor too.
SegmentFits(q, s) == AskSegment[q] \in {NoScope, s}

\* Faulty variant: a scope that cannot be honoured is dropped.
ReadScopeWidening(q) ==
  LET s == row[q].scope
      kept == IF ScopeHonoured(db, ActorOf[q], s) THEN s ELSE NoScope
  IN /\ At(q, "scope")
     /\ resolved' = [resolved EXCEPT ![q] = kept]
     /\ GoTo(q, IF KindOf[q] = "check" THEN "app" ELSE "appGrants")
     /\ UNCHANGED <<tables, authCache, session, row, access, rooms, allowed>>

ReadScope(q) ==
  LET s == row[q].scope
      ok == /\ ScopeHonoured(db, ActorOf[q], s)
            /\ KindOf[q] = "check" => SegmentFits(q, s)
  IN /\ At(q, "scope")
     /\ UNCHANGED <<tables, authCache, session>>
     /\ \/ /\ ok
           /\ resolved' = [resolved EXCEPT ![q] = s]
           /\ GoTo(q, IF KindOf[q] = "check" THEN "app" ELSE "appGrants")
           /\ UNCHANGED <<row, access, rooms, allowed>>
        \/ ~ok /\ Deny(q)

\* _buildAppAccess, query by query.
ReadAppGrants(q) ==
  /\ At(q, "appGrants")
  /\ access' = [access EXCEPT ![q] = ExplicitAccess(db, ActorOf[q], now)]
  /\ GoTo(q, "openApps")
  /\ UNCHANGED <<tables, authCache, session, row, resolved, rooms, allowed>>

ReadOpenApps(q) ==
  LET held == access[q] \cup OpenAccess(db, ActorOf[q], access[q])
  IN /\ At(q, "openApps")
     /\ access' = [access EXCEPT ![q] = held]
     /\ GoTo(q, IF held = {} THEN "answer" ELSE "rooms")
     /\ UNCHANGED <<tables, authCache, session, row, resolved, rooms, allowed>>

ReadRooms(q) ==
  /\ At(q, "rooms")
  /\ rooms' = [rooms EXCEPT ![q] = RoomsOf(db, access[q])]
  /\ GoTo(q, "roomGrants")
  /\ UNCHANGED <<tables, authCache, session, row, resolved, access, allowed>>

ReadRoomGrants(q) ==
  /\ At(q, "roomGrants")
  /\ \E order \in RowOrders :
       allowed' = [allowed EXCEPT ![q] =
         TopicsOf(db, ActorOf[q], now, access[q], rooms[q], resolved[q],
                  SessionPick(db, ActorOf[q], order))]
  /\ GoTo(q, "answer")
  /\ UNCHANGED <<tables, authCache, session, row, resolved, access, rooms>>

\* checkRoomAccess, query by query.
CheckApp(q) ==
  LET p == RoomApp[AskRoom[q]]
      ok == AppProject[p] = ActorProject[ActorOf[q]] /\ Serves(db.app[p])
  IN /\ At(q, "app")
     /\ UNCHANGED <<tables, authCache, session>>
     /\ \/ /\ ok
           /\ access' = [access EXCEPT ![q] = {AppEntry(db, p)}]
           /\ GoTo(q, IF db.app[p].accessMode = "open" THEN "room" ELSE "appGrant")
           /\ UNCHANGED <<row, resolved, rooms, allowed>>
        \/ ~ok /\ Deny(q)

CheckAppGrant(q) ==
  LET a == ActorOf[q]  p == RoomApp[AskRoom[q]]
  IN /\ At(q, "appGrant")
     /\ UNCHANGED <<tables, authCache, session>>
     /\ \/ /\ HoldsApp(db, a, p, now)
           /\ access' = [access EXCEPT ![q] =
                           { GrantedEntry(x, db.appGrant[a][p]) : x \in @ }]
           /\ GoTo(q, "room")
           /\ UNCHANGED <<row, resolved, rooms, allowed>>
        \/ ~HoldsApp(db, a, p, now) /\ Deny(q)

CheckRoom(q) ==
  /\ At(q, "room")
  /\ UNCHANGED <<tables, authCache, session>>
  /\ \/ /\ Serves(db.room[AskRoom[q]])
        /\ rooms' = [rooms EXCEPT ![q] = {AskRoom[q]}]
        /\ GoTo(q, "checkGrants")
        /\ UNCHANGED <<row, resolved, access, allowed>>
     \/ ~Serves(db.room[AskRoom[q]]) /\ Deny(q)

\* An empty topic list is a refusal.
CheckRoomGrants(q) ==
  /\ At(q, "checkGrants")
  /\ UNCHANGED <<tables, authCache, session>>
  /\ \E order \in RowOrders :
       LET found == TopicsOf(db, ActorOf[q], now, access[q], rooms[q],
                             resolved[q], CheckPick(db, ActorOf[q], order))
       IN \/ /\ found # {}
             /\ allowed' = [allowed EXCEPT ![q] = found]
             /\ GoTo(q, "answer")
             /\ UNCHANGED <<row, resolved, access, rooms>>
          \/ found = {} /\ Deny(q)

\* The answer reaches the broker, and the slot is free again.
Finish(q) ==
  /\ GoTo(q, "idle")
  /\ row' = [row EXCEPT ![q] = NullRow]
  /\ resolved' = [resolved EXCEPT ![q] = NoScope]
  /\ access' = [access EXCEPT ![q] = {}]
  /\ rooms' = [rooms EXCEPT ![q] = {}]
  /\ allowed' = [allowed EXCEPT ![q] = {}]
  /\ UNCHANGED <<tables, authCache>>

Keep(q, topics) ==
  session' = [session EXCEPT ![ActorOf[q]] = [connected |-> TRUE, topics |-> topics]]

AnswerConnect(q) ==
  /\ KindOf[q] = "connect" /\ At(q, "answer")
  /\ Keep(q, allowed[q])
  /\ Finish(q)

\* Faulty variant: the new set is added to the old one.
AnswerRevalidateMerging(q) ==
  /\ KindOf[q] = "revalidate" /\ At(q, "answer")
  /\ IF session[ActorOf[q]].connected
     THEN Keep(q, session[ActorOf[q]].topics \cup allowed[q]) ELSE UNCHANGED session
  /\ Finish(q)

\* A live connection takes the new set over; one that has gone stays gone.
AnswerRevalidate(q) ==
  /\ KindOf[q] = "revalidate" /\ At(q, "answer")
  /\ IF session[ActorOf[q]].connected THEN Keep(q, allowed[q]) ELSE UNCHANGED session
  /\ Finish(q)

AnswerCheck(q) ==
  /\ KindOf[q] = "check" /\ At(q, "answer")
  /\ IF session[ActorOf[q]].connected
     THEN Keep(q, session[ActorOf[q]].topics \cup allowed[q])
     ELSE UNCHANGED session
  /\ Finish(q)

\* Only a refused revalidate ends a connection.
AnswerDenied(q) ==
  /\ At(q, "denied")
  /\ session' = IF KindOf[q] = "revalidate"
                THEN [session EXCEPT ![ActorOf[q]] = NoSession] ELSE session
  /\ Finish(q)

Disconnect(a) ==
  /\ session[a].connected
  /\ session' = [session EXCEPT ![a] = NoSession]
  /\ UNCHANGED <<tables, authCache, reqVars>>

Tick ==
  /\ now < MaxTime
  /\ now' = now + 1
  /\ UNCHANGED <<writes, db, adminVars, authCache, reqVars, session>>

-----------------------------------------------------------------------------
(* History.                                                                *)

\* Some grant the row order may make decisive lets a into r.
CanEnter(d, a, r, t) ==
  \/ ~Private(d, r)
  \/ \E g \in Deciding(d, a, r) : ~Expired(d.roomGrant[g].expiresAt, t)

Observed(old, d, a, t) ==
  [apps |-> old.apps \cup { x.app : x \in FullAccess(d, a, t) },
   rooms |-> old.rooms \cup { r \in Room : Serves(d.room[r]) },
   doors |-> old.doors \cup { r \in Room : CanEnter(d, a, r, t) },
   scopes |-> old.scopes \cup { s \in Scope : ScopeHonoured(d, a, s) }]

RecordSeen ==
  seen' = [q \in Slot |-> IF pc'[q] = "idle" THEN Nothing
                          ELSE Observed(seen[q], db', ActorOf[q], now')]

-----------------------------------------------------------------------------
(* Specification.                                                          *)

Start(q) == ConnectCached(q) \/ ConnectMiss(q) \/ StartRevalidate(q) \/ StartCheck(q)

Continue(q) ==
  \/ ReadToken(q) \/ VerifyToken(q) \/ ReadActor(q) \/ ReadProject(q)
  \/ ReadScope(q) \/ ReadAppGrants(q) \/ ReadOpenApps(q) \/ ReadRooms(q)
  \/ ReadRoomGrants(q) \/ CheckApp(q) \/ CheckAppGrant(q) \/ CheckRoom(q)
  \/ CheckRoomGrants(q)
  \/ AnswerConnect(q) \/ AnswerRevalidate(q) \/ AnswerCheck(q) \/ AnswerDenied(q)

Next ==
  /\ \/ AdminStep
     \/ CommitStep
     \/ \E q \in Slot : Start(q) \/ Continue(q)
     \/ \E a \in Actor : Disconnect(a)
     \/ Tick
  /\ RecordSeen

Spec == Init /\ [][Next]_vars

\* An awaited query is answered, the broker keeps revalidating a live
\* connection, a transaction commits, time passes.  Nobody has to connect,
\* check, disconnect or administer anything.
Fairness ==
  /\ \A q \in Slot : WF_vars(Continue(q) /\ RecordSeen)
  /\ \A q \in Slot : WF_vars(StartRevalidate(q) /\ RecordSeen)
  /\ WF_vars(CommitStep /\ RecordSeen)
  /\ WF_vars(Tick /\ RecordSeen)

FairSpec == Spec /\ Fairness

-----------------------------------------------------------------------------
(* Properties.                                                             *)

SameTenant(a, x) ==
  /\ AppProject[RoomApp[x.room]] = ActorProject[a]
  /\ x.scope # NoScope => ScopeProject[x.scope] = ActorProject[a]

\* Whatever is written while requests are between two queries, and whatever
\* the authentication cache still holds, no connection ever caches a topic of
\* another project, nor one under another project's scope.
TenantIsolation ==
  \A a \in Actor : \A x \in session[a].topics : SameTenant(a, x)

\* An answer assembled from several unsynchronised reads contains a room only
\* if, at some instant since the request began, the room served, its grants
\* let the actor in, and its app admitted the actor.  A room that was closed
\* to the actor for the whole request is never in the answer.
RoomsJustified ==
  \A q \in Slot : \A x \in allowed[q] :
    /\ x.room \in seen[q].rooms \cap seen[q].doors
    /\ RoomApp[x.room] \in seen[q].apps

\* _resolveScope fails closed: an answer for an actor row that names a scope
\* has only addresses in that scope, never unscoped ones, and the scope was
\* live and active at some instant of the request.
ScopeJustified ==
  \A q \in Slot : \A x \in allowed[q] :
    /\ x.scope = row[q].scope
    /\ x.scope # NoScope => x.scope \in seen[q].scopes

\* All the actor may be told by validate or revalidate in one instant.
Held(d, a, t) == UNION { SessionTopics(d, a, t, order) : order \in RowOrders }

\* The passing of time alone takes topics away and never adds one, below apps
\* that are restricted.  (On an open app the expiry of an explicit grant gives
\* way to the open app's own, wider, access.)
TimeNeverWidens ==
  [][now' # now =>
       \A a \in Actor : \A x \in Held(db', a, now') :
         db.app[RoomApp[x.room]].accessMode = "restricted"
           => x \in Held(db, a, now)]_vars

\* Disabling grants never turns a private room public: an actor no standing
\* grant decides for gets into a room it was shut out of only when a grant row
\* is deleted.
OnlyDeletionReopens ==
  [][\A a \in Actor, r \in Room :
       /\ ~CanEnter(db, a, r, now) /\ CanEnter(db', a, r, now')
       /\ Deciding(db', a, r) = {}
       => \E g \in RoomGrant : /\ GrantRoom[g] = r
                               /\ db.roomGrant[g].state = "live"
                               /\ db'.roomGrant[g].state = "deleted"]_vars

RevokedForGood(g) ==
  db.roomGrant[g].state = "deleted" /\ \A x \in patching : x.grant # g

\* roomActorAccess.repository.ts: "a resurrected grant here silently widens what
\* an actor can reach".  A revoked grant stands again only if a patch that had
\* read it before it was revoked is saved afterwards; once no such patch is in
\* flight, no call and no order of calls brings it back.
RevocationIsFinal ==
  [][\A g \in RoomGrant : RevokedForGood(g) => RevokedForGood(g)']_vars

\* Where check and validate do agree: the project is live, the app is not both
\* open and explicitly granted, and no two standing grants on the room name the
\* actor.
Comparable(d, a, r, t) ==
  /\ d.project[ActorProject[a]] = "live"
  /\ d.app[RoomApp[r]].accessMode = "open" => ~HoldsApp(d, a, RoomApp[r], t)
  /\ \A g, h \in NamingActor(d, a, r) : g = h

AnswerAlike(d, a, r, t, order) ==
  CheckTopics(d, a, t, r, order) = { x \in SessionTopics(d, a, t, order) : x.room = r }

\* In one database, and with the grant rows in one order, checkRoomAccess
\* answers for a room exactly what validate answers for that room, although one
\* takes the first and the other the last of the rows that name the actor.  The
\* three cases left out are those in which the code does not (see below).
CheckAgrees ==
  \A a \in Actor, r \in Room, order \in RowOrders :
    Comparable(db, a, r, now) => AnswerAlike(db, a, r, now, order)

\* The same without the restriction, as the comments and the tests put it.
CheckMatchesValidate ==
  \A a \in Actor, r \in Room, order \in RowOrders : AnswerAlike(db, a, r, now, order)

\* accessScope.facade.ts: delete refuses while any actor is bound to the scope.
ScopeOutlivesItsActors ==
  \A a \in Actor : db.actor[a].state = "live" /\ db.actor[a].scope # NoScope
                     => db.scope[db.actor[a].scope].state = "live"

Quiet(a) ==
  /\ \A q \in Slot : KindOf[q] = "connect" /\ ActorOf[q] = a => pc[q] = "idle"
  /\ authCache[a].expiresAt < MaxTime

\* A deleted actor is out for good, although its cached authentication lets it
\* reconnect for a while: revalidation drops it each time, and the entry ages
\* out.
RevokedStaysOut ==
  \A a \in Actor :
    db.actor[a].state = "deleted" /\ Quiet(a) ~> []~session[a].connected

\* Deleted and disconnected, its cached authentication worth nothing, and no
\* connect on its way that has read the row as it was.
ShutOut(a) ==
  /\ db.actor[a].state = "deleted" /\ ~session[a].connected
  /\ ~(Hit(authCache[a], now) /\ UsableActor(authCache[a].value, now))
  /\ \A q \in Slot : KindOf[q] = "connect" /\ ActorOf[q] = a =>
       \/ pc[q] \in {"idle", "token", "denied"}
       \/ pc[q] = "verify" /\ ~Serves(row[q])

\* From there no order of connects, late answers and writes lets it in again:
\* nothing caches the deleted row, no patch brings it back.
OutForGood == [][\A a \in Actor : ShutOut(a) => ShutOut(a)']_vars

Entitled(a) ==
  Held(db, a, now) \cup
  UNION { CheckTopics(db, a, now, r, order) : r \in Room, order \in RowOrders }

\* Hard-deleting a project ends what its actors are entitled to by either
\* resolution, although checkRoomAccess never reads the project row.
ErasedGivesNothing ==
  \A a \in Actor : db.project[ActorProject[a]] = "gone" => Entitled(a) = {}

Settled(a) ==
  /\ writes = MaxWrites /\ assigning = {} /\ dropping = {} /\ patching = {}
  /\ now = MaxTime /\ Quiet(a)

\* Once administrators are done and cached authentications are old, what the
\* broker caches for a connection comes down to what the tables grant, and
\* stays there, whichever torn reads and late answers came before.
SessionConverges ==
  \A a \in Actor : Settled(a) ~> [](session[a].topics \subseteq Entitled(a))
=============================================================================
