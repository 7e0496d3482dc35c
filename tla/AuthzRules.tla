----------------------------- MODULE AuthzRules -----------------------------
(***************************************************************************)
(* The rows authorization is decided from, and the rules of AuthzService   *)
(* that decide, as operators over a database value d.                      *)
(*                                                                         *)
(* d is one record with a table per field; a table maps every id that can  *)
(* ever exist to its row.  A row is "absent" until it is inserted and      *)
(* "deleted" once deleted_at is set or the row is gone: no query of this   *)
(* code sees either, and ids are UUIDs that are never reused.  Foreign     *)
(* keys and the target of a grant are immutable in the code, hence         *)
(* constants.  A slug is represented by the id of the live row it names.   *)
(***************************************************************************)
EXTENDS Integers, FiniteSets

CONSTANTS
  Project, Actor, Scope, App, Room, RoomGrant, Topic,
  ActorType,      \* values of actor_token.actor_type
  ActorProject,   \* [Actor -> Project]
  TypeOf,         \* [Actor -> ActorType]
  ScopeProject,   \* [Scope -> Project]
  AppProject,     \* [App -> Project]
  RoomApp,        \* [Room -> App]
  GrantRoom,      \* [RoomGrant -> Room]
  GrantTarget,    \* [RoomGrant -> Actor \cup ActorType]
  NoScope,        \* accessScopeId = null
  Inherit,        \* topics = null
  Never           \* expiresAt = null

ASSUME KeysAssumption ==
  /\ ActorProject \in [Actor -> Project]
  /\ TypeOf \in [Actor -> ActorType]
  /\ ScopeProject \in [Scope -> Project]
  /\ AppProject \in [App -> Project]
  /\ RoomApp \in [Room -> App]
  /\ GrantRoom \in [RoomGrant -> Room]
  /\ GrantTarget \in [RoomGrant -> Actor \cup ActorType]
  /\ IsFiniteSet(RoomGrant)

ASSUME NullsAssumption ==
  /\ NoScope \notin Scope
  /\ \A list \in SUBSET Topic : Inherit # list
  /\ Never \notin Int
  /\ Actor \cap ActorType = {}

-----------------------------------------------------------------------------
(* Rows. *)

RowState == {"absent", "live", "deleted"}
Permission == {"subscribe", "publish", "pubSub"}
TopicList == {Inherit} \cup SUBSET Topic
Expiry == {Never} \cup Nat

ActorRow == [state: RowState, status: {"active", "disabled"},
             expiresAt: Expiry, scope: Scope \cup {NoScope}]
ScopeRow == [state: RowState, isActive: BOOLEAN]
AppRow == [state: RowState, status: {"active", "disabled"},
           accessMode: {"open", "restricted"}, topics: TopicList]
RoomRow == [state: RowState, status: {"active", "disabled"}]
GrantRow == [state: RowState, isActive: BOOLEAN, expiresAt: Expiry,
             permission: Permission, topics: TopicList]

\* A soft-deleted project keeps its row; a hard-deleted one is "gone".
Database == [project: [Project -> {"live", "deleted", "gone"}],
             actor: [Actor -> ActorRow],
             scope: [Scope -> ScopeRow],
             app: [App -> AppRow],
             appGrant: [Actor -> [App -> GrantRow]],
             room: [Room -> RoomRow],
             roomGrant: [RoomGrant -> GrantRow]]

\* What an actor holds for one app while its access is being built.
Access == [app: App, permission: Permission, topics: TopicList,
           appTopics: TopicList]

\* One entry of allowedTopics: room, topic name, permission, and the scope
\* segment of the address (slug in the pattern, id in the topic).
AllowedTopic == [room: Room, topic: Topic, permission: Permission,
                 scope: Scope \cup {NoScope}]

-----------------------------------------------------------------------------
(* Conditions on single rows. *)

Expired(e, t) == e # Never /\ e < t

Coalesce(list, fallback) == IF list = Inherit THEN fallback ELSE list

Serves(row) == row.state = "live" /\ row.status = "active"

\* Faulty variant: a query that forgets deleted_at.
UsableActorEvenDeleted(row, t) == row.status = "active" /\ ~Expired(row.expiresAt, t)

UsableActor(row, t) == Serves(row) /\ ~Expired(row.expiresAt, t)

Standing(grant) == grant.state = "live" /\ grant.isActive

\* _resolveScope: an actor that names no scope is unscoped; one that names a
\* scope is honoured only if the scope is live, active and of its project.
ScopeHonoured(d, a, s) ==
  \/ s = NoScope
  \/ /\ s \in Scope
     /\ ScopeProject[s] = ActorProject[a]
     /\ d.scope[s].state = "live"
     /\ d.scope[s].isActive

-----------------------------------------------------------------------------
(* App level. *)

\* What an app gives an actor that no explicit grant restricts: every topic of
\* the app, both directions.
AppEntry(d, p) == [app |-> p, permission |-> "pubSub",
                   topics |-> d.app[p].topics, appTopics |-> d.app[p].topics]

\* The same entry under an explicit grant.
GrantedEntry(x, grant) ==
  [x EXCEPT !.permission = grant.permission,
            !.topics = Coalesce(grant.topics, x.appTopics)]

HoldsApp(d, a, p, t) ==
  Standing(d.appGrant[a][p]) /\ ~Expired(d.appGrant[a][p].expiresAt, t)

\* Faulty variant: the expiry of an app grant is not looked at.
ExplicitAccessForever(d, a, t) ==
  { GrantedEntry(AppEntry(d, p), d.appGrant[a][p]) :
      p \in { x \in App : Standing(d.appGrant[a][x]) /\ Serves(d.app[x]) } }

\* Explicit grants that stand and are unexpired, on apps that serve.  The
\* app's project is not looked at here.
ExplicitAccess(d, a, t) ==
  { GrantedEntry(AppEntry(d, p), d.appGrant[a][p]) :
      p \in { x \in App : HoldsApp(d, a, x, t) /\ Serves(d.app[x]) } }

\* Faulty variant: open apps of every project.
OpenAccessAnywhere(d, a, held) ==
  { AppEntry(d, p) :
      p \in { x \in App : /\ Serves(d.app[x]) /\ d.app[x].accessMode = "open"
                          /\ \A h \in held : h.app # x } }

\* Open apps of the actor's project that are not held explicitly.
OpenAccess(d, a, held) ==
  { AppEntry(d, p) :
      p \in { x \in App : /\ AppProject[x] = ActorProject[a]
                          /\ Serves(d.app[x])
                          /\ d.app[x].accessMode = "open"
                          /\ \A h \in held : h.app # x } }

\* Faulty variant: disabled rooms too.
RoomsOfAnyStatus(d, access) ==
  { r \in Room : d.room[r].state = "live" /\ \E x \in access : x.app = RoomApp[r] }

RoomsOf(d, access) ==
  { r \in Room : Serves(d.room[r]) /\ \E x \in access : x.app = RoomApp[r] }

-----------------------------------------------------------------------------
(* Room level. *)

GrantsOn(d, r) ==
  { g \in RoomGrant : GrantRoom[g] = r /\ d.roomGrant[g].state = "live" }

\* Faulty variant: disabled grants do not count.
PrivateWhileStanding(d, r) == \E g \in GrantsOn(d, r) : d.roomGrant[g].isActive

\* A room is private iff a grant row exists on it, disabled ones included.
Private(d, r) == GrantsOn(d, r) # {}

StandingOn(d, r) == { g \in GrantsOn(d, r) : d.roomGrant[g].isActive }
NamingActor(d, a, r) == { g \in StandingOn(d, r) : GrantTarget[g] = a }
NamingType(d, a, r) == { g \in StandingOn(d, r) : GrantTarget[g] = TypeOf[a] }

\* The grants that may decide for a on r: those naming a, else those naming
\* its type.  No index excludes duplicates.
Deciding(d, a, r) ==
  IF NamingActor(d, a, r) # {} THEN NamingActor(d, a, r) ELSE NamingType(d, a, r)

\* The orders the grant rows may come back in: no query asks for one.
RowOrders ==
  { order \in [RoomGrant -> 1..Cardinality(RoomGrant)] :
      \A g, h \in RoomGrant : order[g] = order[h] => g = h }

First(grants, order) == CHOOSE g \in grants : \A h \in grants : order[g] <= order[h]
Last(grants, order) == CHOOSE g \in grants : \A h \in grants : order[h] <= order[g]

Decided(d, a) == { r \in Room : Deciding(d, a, r) # {} }

\* Faulty variant: a later type grant displaces one that names the actor.
SessionPickDisplaced(d, a, order) ==
  [r \in Decided(d, a) |->
     IF NamingType(d, a, r) # {} THEN First(NamingType(d, a, r), order)
     ELSE Last(NamingActor(d, a, r), order)]

\* The grant that decides on each room.  _buildAppAccess lets a row that names
\* the actor overwrite an earlier one, and the first row of its type fill what
\* is still open; checkRoomAccess takes the first row it finds of either kind.
SessionPick(d, a, order) ==
  [r \in Decided(d, a) |->
     IF NamingActor(d, a, r) # {} THEN Last(NamingActor(d, a, r), order)
     ELSE First(NamingType(d, a, r), order)]

CheckPick(d, a, order) ==
  [r \in Decided(d, a) |-> First(Deciding(d, a, r), order)]

\* Do the room's own grants let a in?
Admitted(d, a, r, t, pick) ==
  \/ ~Private(d, r)
  \/ /\ Deciding(d, a, r) # {}
     /\ ~Expired(d.roomGrant[pick[r]].expiresAt, t)

\* _buildAllowedTopic for each topic of a list; null yields none.
Address(r, list, permission, s) ==
  { [room |-> r, topic |-> n, permission |-> permission, scope |-> s] :
      n \in IF list = Inherit THEN {} ELSE list }

\* Faulty variant: an expired grant falls back to what the app gives.
RoomTopicsFallingBack(d, a, t, x, r, s, pick) ==
  IF Private(d, r) /\ Deciding(d, a, r) = {} THEN {}
  ELSE IF ~Admitted(d, a, r, t, pick) \/ ~Private(d, r)
       THEN Address(r, x.topics, x.permission, s)
  ELSE Address(r, Coalesce(d.roomGrant[pick[r]].topics, x.appTopics),
               d.roomGrant[pick[r]].permission, s)

\* The topics access entry x gives on room r.
RoomTopics(d, a, t, x, r, s, pick) ==
  IF ~Admitted(d, a, r, t, pick) THEN {}
  ELSE IF ~Private(d, r) THEN Address(r, x.topics, x.permission, s)
  ELSE Address(r, Coalesce(d.roomGrant[pick[r]].topics, x.appTopics),
               d.roomGrant[pick[r]].permission, s)

TopicsOf(d, a, t, access, rooms, s, pick) ==
  UNION { UNION { RoomTopics(d, a, t, x, r, s, pick) :
                    r \in { y \in rooms : RoomApp[y] = x.app } } :
            x \in access }

-----------------------------------------------------------------------------
(* The two resolutions as one read of the database, against which the      *)
(* multi-query versions in Authz are compared.                             *)

FullAccess(d, a, t) ==
  LET explicit == ExplicitAccess(d, a, t)
  IN explicit \cup OpenAccess(d, a, explicit)

\* Every topic validate and revalidate hand out.
SessionTopics(d, a, t, order) ==
  LET access == FullAccess(d, a, t)
      s == d.actor[a].scope
  IN IF /\ UsableActor(d.actor[a], t)
        /\ d.project[ActorProject[a]] = "live"
        /\ ScopeHonoured(d, a, s)
     THEN TopicsOf(d, a, t, access, RoomsOf(d, access), s, SessionPick(d, a, order))
     ELSE {}

\* What checkRoomAccess holds for the app of the room it was asked about.
CheckAccess(d, a, t, p) ==
  IF AppProject[p] # ActorProject[a] \/ ~Serves(d.app[p]) THEN {}
  ELSE IF d.app[p].accessMode = "open" THEN {AppEntry(d, p)}
  ELSE IF HoldsApp(d, a, p, t)
       THEN {GrantedEntry(AppEntry(d, p), d.appGrant[a][p])}
  ELSE {}

\* Every topic checkRoomAccess hands out for room r.
CheckTopics(d, a, t, r, order) ==
  LET s == d.actor[a].scope
      rooms == IF Serves(d.room[r]) THEN {r} ELSE {}
  IN IF UsableActor(d.actor[a], t) /\ ScopeHonoured(d, a, s)
     THEN TopicsOf(d, a, t, CheckAccess(d, a, t, RoomApp[r]), rooms, s,
                  CheckPick(d, a, order))
     ELSE {}
=============================================================================
