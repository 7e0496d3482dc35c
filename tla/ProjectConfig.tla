--------------------------- MODULE ProjectConfig ----------------------------
(***************************************************************************)
(* The configuration of a project as one document: an export reads table   *)
(* after table with no transaction around the reads, while administrators  *)
(* keep writing; an import creates the whole project in one transaction,   *)
(* in another deployment, or refuses the document.                         *)
(*                                                                         *)
(* Below the export runs module Authz, whose variables are the tables; the *)
(* tables authorization never reads are added here.  A document has the    *)
(* shape of the tables it lists, and a row it does not list is "absent".   *)
(* A document addresses rows by slug and an import mints new ids: both are *)
(* represented by the id of the row the slug named.                        *)
(***************************************************************************)
EXTENDS Authz, FiniteSets

CONSTANTS
  Exported,     \* the project that is exported
  Lobby,
  LobbyApp,     \* [Lobby -> App]
  Unlimited,    \* a null limit
  Default,      \* "the host's default"
  Unsynced,     \* limitsSyncedAt = null: the columns have not been written
  Irregular,    \* rows whose slug does not match the pattern of the document
  Limits,       \* limits a run synchronises
  InitialLimits, \* and those it starts from
  HandWritten,  \* documents that no export wrote
  MaxEdits      \* bound of the writes to lobbies and limits

\* connections stands for both caps, expiry for the session lifetime.  Only the
\* HTTP endpoint looks at the sign of a limit.
LimitRow == [connections: Int \cup {Unlimited}, expiry: Int \cup {Unlimited}]
Listing == {"absent", "live"}

\* The rows of a document, one operator for each of its DTOs.
ScopeDoc == [state: Listing, isActive: BOOLEAN]
AppDoc == [state: Listing, status: {"active", "disabled"},
           accessMode: {"open", "restricted"}, topics: SUBSET Topic]
RoomDoc == [state: Listing, status: {"active", "disabled"}]
GrantDoc == { x \in GrantRow : x.state \in Listing }
ActorDoc == { x \in ActorRow : x.state \in Listing }

\* ProjectConfigDocDto.  usable is FALSE if the version is unknown or a slug
\* occurs twice.
Document ==
  [usable: BOOLEAN,
   limits: LimitRow \cup {Unsynced},
   scope: [Scope -> ScopeDoc],
   app: [App -> AppDoc],
   room: [Room -> RoomDoc],
   roomGrant: [RoomGrant -> GrantDoc],
   lobby: SUBSET Lobby,
   members: SUBSET (Lobby \X Room),
   actor: [Actor -> ActorDoc],
   appGrant: [Actor -> [App -> GrantDoc]]]

ASSUME ConfigAssumption ==
  /\ Exported \in Project
  /\ LobbyApp \in [Lobby -> App]
  /\ Unsynced \notin LimitRow
  /\ Unlimited \notin Int
  /\ Irregular \subseteq Scope \cup App \cup Room \cup Lobby
  /\ Limits \subseteq LimitRow /\ InitialLimits \subseteq LimitRow \cup {Unsynced}
  /\ HandWritten \subseteq Document
  /\ MaxEdits \in Nat

\* Ids are UUIDs: no two tables share one.
ASSUME IdAssumption ==
  LET kinds == <<Scope, App, Room, RoomGrant, Actor, Lobby>>
  IN \A i, j \in DOMAIN kinds : i # j => kinds[i] \cap kinds[j] = {}

VARIABLES
  edits,    \* writes to lobbies and limits so far
  limits,   \* the limit columns of the project, or Unsynced
  lobby,    \* state of each lobby row
  members,  \* rows of lobby_room
  step,     \* the query the export awaits
  todo,     \* rooms, lobbies or actors the present loop still has to visit
  apps,     \* apps the outer loop still has to visit
  here,     \* the app or the actor it is at
  doc,      \* what it has written so far
  copy,     \* the other deployment, once a document was imported there
  steady,   \* history: rows live at every instant since the export began
  joined,   \* history: memberships there were at every instant since then
  bound,    \* history: scopes each actor was bound to since then
  quiet     \* history: has nothing been written since then?

lobbyVars == <<edits, limits, lobby, members>>
exportVars == <<step, todo, apps, here, doc>>
historyVars == <<steady, joined, bound, quiet>>
configVars == <<vars, lobbyVars, exportVars, copy, historyVars>>

-----------------------------------------------------------------------------
(* Tables authorization does not read.                                     *)

ProjectOf(l) == AppProject[LobbyApp[l]]

\* Lobbies and memberships go with an erased project.
LiveLobbies(d) == { l \in Lobby : lobby[l] = "live" /\ d.project[ProjectOf(l)] # "gone" }
Memberships(d) == { m \in members : d.project[ProjectOf(m[1])] # "gone" }

Edit ==
  /\ edits < MaxEdits
  /\ edits' = edits + 1
  /\ UNCHANGED <<vars, exportVars, copy>>

CreateLobby(l) ==
  /\ Edit
  /\ lobby[l] = "absent" /\ db.app[LobbyApp[l]].state # "absent"
  /\ db.project[ProjectOf(l)] # "gone"
  /\ lobby' = [lobby EXCEPT ![l] = "live"]
  /\ UNCHANGED <<limits, members>>

\* Membership rows outlive the lobby row.
DeleteLobby(l) ==
  /\ Edit
  /\ l \in LiveLobbies(db)
  /\ lobby' = [lobby EXCEPT ![l] = "deleted"]
  /\ UNCHANGED <<limits, members>>

AddMember(l, r) ==
  /\ Edit
  /\ l \in LiveLobbies(db) /\ db.room[r].state = "live" /\ RoomApp[r] = LobbyApp[l]
  /\ <<l, r>> \notin members
  /\ members' = members \cup {<<l, r>>}
  /\ UNCHANGED <<limits, lobby>>

RemoveMember(l, r) ==
  /\ Edit
  /\ l \in LiveLobbies(db) /\ <<l, r>> \in members
  /\ members' = members \ {<<l, r>>}
  /\ UNCHANGED <<limits, lobby>>

\* Zero and less are limits like any other here; only resolution knows better.
SyncLimits ==
  /\ Edit
  /\ db.project[Exported] = "live"
  /\ limits' \in Limits
  /\ UNCHANGED <<lobby, members>>

\* _resolveLimits: zero is never authoritative; null is unlimited only where
\* limits were synchronised, and never for the session lifetime.  A negative
\* cap is handed out as it stands.
ResolveLimits(columns) ==
  IF columns = Unsynced THEN [connections |-> Default, expiry |-> Default]
  ELSE [connections |-> IF columns.connections = 0 THEN Default ELSE columns.connections,
        expiry |-> IF columns.expiry # Unlimited /\ columns.expiry > 0
                   THEN columns.expiry ELSE Default]

-----------------------------------------------------------------------------
(* exportProject, one action per query.                                    *)

NoScopeRow == [state |-> "absent", isActive |-> FALSE]
NoAppRow == [state |-> "absent", status |-> "active", accessMode |-> "open",
             topics |-> {}]
NoRoomRow == [state |-> "absent", status |-> "active"]
NoGrantRow == [state |-> "absent", isActive |-> FALSE, expiresAt |-> Never,
               permission |-> "pubSub", topics |-> Inherit]

EmptyDoc ==
  [usable |-> TRUE, limits |-> Unsynced,
   scope |-> [s \in Scope |-> NoScopeRow],
   app |-> [p \in App |-> NoAppRow],
   room |-> [r \in Room |-> NoRoomRow],
   roomGrant |-> [g \in RoomGrant |-> NoGrantRow],
   lobby |-> {}, members |-> {},
   actor |-> [a \in Actor |-> NullRow],
   appGrant |-> [a \in Actor |-> [p \in App |-> NoGrantRow]]]

Listed(table) == { x \in DOMAIN table : table[x].state = "live" }

\* The rows of `found`, the others as `written` has them.
Take(table, found, written) == [x \in DOMAIN table |->
  IF x \in found THEN table[x] ELSE written[x]]

Query(from, to) == step = from /\ step' = to /\ UNCHANGED <<vars, lobbyVars, copy>>

ExportProject ==
  /\ Query("idle", "scopes")
  /\ db.project[Exported] = "live"
  /\ doc' = [EmptyDoc EXCEPT !.limits = limits]
  /\ UNCHANGED <<todo, apps, here>>

\* Faulty variant: active scopes only.
ExportActiveScopes ==
  /\ Query("scopes", "apps")
  /\ LET found == { s \in Listed(db.scope) : ScopeProject[s] = Exported
                                             /\ db.scope[s].isActive }
     IN doc' = [doc EXCEPT !.scope = Take(db.scope, found, @)]
  /\ UNCHANGED <<todo, apps, here>>

\* Faulty variant: deleted scopes too.
ExportScopesEvenDeleted ==
  /\ Query("scopes", "apps")
  /\ LET found == { s \in Scope : ScopeProject[s] = Exported }
     IN doc' = [doc EXCEPT !.scope = Take(db.scope, found, @)]
  /\ UNCHANGED <<todo, apps, here>>

ExportScopes ==
  /\ Query("scopes", "apps")
  /\ LET found == { s \in Listed(db.scope) : ScopeProject[s] = Exported }
     IN doc' = [doc EXCEPT !.scope = Take(db.scope, found, @)]
  /\ UNCHANGED <<todo, apps, here>>

\* An app without a topic list is written with an empty one.
ExportApps ==
  /\ Query("apps", "lobbyRooms")
  /\ LET found == { p \in Listed(db.app) : AppProject[p] = Exported }
     IN /\ doc' = [doc EXCEPT !.app =
               Take([p \in App |-> [db.app[p] EXCEPT !.topics = Coalesce(@, {})]], found, @)]
        /\ apps' = found
  /\ UNCHANGED <<todo, here>>

\* The next app: its rooms ...
ExportRooms(p) ==
  /\ Query("lobbyRooms", "typeGrants")
  /\ todo = {} /\ p \in apps
  /\ LET found == { r \in Listed(db.room) : RoomApp[r] = p }
     IN /\ doc' = [doc EXCEPT !.room = Take(db.room, found, @)]
        /\ todo' = found
  /\ apps' = apps \ {p} /\ here' = p

\* Faulty variant: standing grants only.
ExportActiveTypeGrants(r) ==
  /\ Query("typeGrants", "typeGrants")
  /\ r \in todo /\ todo' = todo \ {r}
  /\ LET found == { g \in GrantsOn(db, r) : GrantTarget[g] \in ActorType
                                            /\ db.roomGrant[g].isActive }
     IN doc' = [doc EXCEPT !.roomGrant =
          Take([g \in RoomGrant |-> [db.roomGrant[g] EXCEPT !.expiresAt = Never]],
               found, @)]
  /\ UNCHANGED <<apps, here>>

\* ... the type grants of each of them, for which a document has no expiry ...
ExportTypeGrants(r) ==
  /\ Query("typeGrants", "typeGrants")
  /\ r \in todo /\ todo' = todo \ {r}
  /\ LET found == { g \in GrantsOn(db, r) : GrantTarget[g] \in ActorType }
     IN doc' = [doc EXCEPT !.roomGrant =
          Take([g \in RoomGrant |-> [db.roomGrant[g] EXCEPT !.expiresAt = Never]],
               found, @)]
  /\ UNCHANGED <<apps, here>>

\* ... its lobbies ...
ExportLobbies ==
  /\ Query("typeGrants", "lobbyRooms")
  /\ todo = {}
  /\ todo' = { l \in LiveLobbies(db) : LobbyApp[l] = here }
  /\ doc' = [doc EXCEPT !.lobby = @ \cup todo']
  /\ UNCHANGED <<apps, here>>

\* Faulty variant: every membership, whether or not its room was exported.
ExportEveryMembership(l) ==
  /\ Query("lobbyRooms", "lobbyRooms")
  /\ l \in todo /\ todo' = todo \ {l}
  /\ doc' = [doc EXCEPT !.members = @ \cup { m \in Memberships(db) : m[1] = l }]
  /\ UNCHANGED <<apps, here>>

\* ... and the members of each, those that are rooms of the document.
ExportLobbyRooms(l) ==
  /\ Query("lobbyRooms", "lobbyRooms")
  /\ l \in todo /\ todo' = todo \ {l}
  /\ doc' = [doc EXCEPT !.members = @ \cup
       { m \in Memberships(db) : m[1] = l /\ m[2] \in Listed(doc.room) }]
  /\ UNCHANGED <<apps, here>>

\* A scope the document does not list is written as none.
ExportActors ==
  /\ Query("lobbyRooms", "appGrants")
  /\ todo = {} /\ apps = {}
  /\ todo' = { a \in Listed(db.actor) : ActorProject[a] = Exported }
  /\ LET slugOf(s) == IF s \in Listed(doc.scope) THEN s ELSE NoScope
     IN doc' = [doc EXCEPT !.actor =
          Take([a \in Actor |-> [db.actor[a] EXCEPT !.scope = slugOf(@)]], todo', @)]
  /\ UNCHANGED <<apps, here>>

\* The app grants of the next actor, on apps of the document ...
ExportAppGrants(a) ==
  /\ Query("appGrants", "roomGrants")
  /\ a \in todo /\ here' = a
  /\ doc' = [doc EXCEPT !.appGrant[a] =
       Take(db.appGrant[a], Listed(db.appGrant[a]) \cap Listed(doc.app), @)]
  /\ UNCHANGED <<todo, apps>>

\* ... and its room grants, on rooms of the document.
ExportRoomGrants ==
  /\ Query("roomGrants", "appGrants")
  /\ todo' = todo \ {here}
  /\ LET found == { g \in Listed(db.roomGrant) : /\ GrantTarget[g] = here
                                                 /\ GrantRoom[g] \in Listed(doc.room) }
     IN doc' = [doc EXCEPT !.roomGrant = Take(db.roomGrant, found, @)]
  /\ UNCHANGED <<apps, here>>

\* Signing keys travel by name only.
ExportKeys ==
  /\ Query("appGrants", "written")
  /\ todo = {}
  /\ UNCHANGED <<todo, apps, here, doc>>

-----------------------------------------------------------------------------
(* importProject.                                                          *)

AtLeastOne(limit) == limit = Unlimited \/ limit >= 1

LimitsValid(columns) ==
  columns = Unsynced \/ (AtLeastOne(columns.connections) /\ AtLeastOne(columns.expiry))

\* The pattern of slugs, which a row that was declared at start, created in
\* process or named from its title need not match.
SlugsValid(d) ==
  Irregular \cap (Listed(d.scope) \cup Listed(d.app) \cup Listed(d.room) \cup d.lobby) = {}

\* What the document refers to, it lists.
RefersWithin(d) ==
  /\ \A m \in d.members : m[2] \in Listed(d.room)
  /\ \A a \in Listed(d.actor) :
       /\ d.actor[a].scope \in {NoScope} \cup Listed(d.scope)
       /\ Listed(d.appGrant[a]) \subseteq Listed(d.app)
  /\ \A g \in Listed(d.roomGrant) : GrantRoom[g] \in Listed(d.room)

\* The validated DTO, then the checks of the service.
Accepts(d) == LimitsValid(d.limits) /\ SlugsValid(d) /\ d.usable /\ RefersWithin(d)

\* Faulty variant: the access mode is left to its default.
ImportedOpen(d) ==
  [project |-> [j \in Project |-> IF j = Exported THEN "live" ELSE "gone"],
   actor |-> d.actor, scope |-> d.scope, room |-> d.room, appGrant |-> d.appGrant,
   app |-> [p \in App |-> [d.app[p] EXCEPT !.accessMode = "open"]],
   roomGrant |-> d.roomGrant]

\* Faulty variant: a grant without topics is imported with an empty list.
ImportedWithoutInheritance(d) ==
  [project |-> [j \in Project |-> IF j = Exported THEN "live" ELSE "gone"],
   actor |-> d.actor, scope |-> d.scope, room |-> d.room, appGrant |-> d.appGrant,
   app |-> d.app,
   roomGrant |-> [g \in RoomGrant |->
                    [d.roomGrant[g] EXCEPT !.topics = Coalesce(@, {})]]]

\* The tables authorization reads, in a deployment that holds this project
\* alone.
Imported(d) ==
  [project |-> [j \in Project |-> IF j = Exported THEN "live" ELSE "gone"],
   actor |-> d.actor, scope |-> d.scope, room |-> d.room, appGrant |-> d.appGrant,
   app |-> d.app, roomGrant |-> d.roomGrant]

\* Faulty variant: limits count as synchronised, mentioned or not.
ImportedLimitsSynced(d) ==
  IF d.limits = Unsynced THEN [connections |-> Unlimited, expiry |-> Unlimited]
  ELSE d.limits

ImportedLimits(d) == d.limits

NoCopy == [outcome |-> "none", tables |-> Imported(EmptyDoc), limits |-> Unsynced]

\* One transaction: all of the document, or nothing.
ImportResult(d) ==
  IF Accepts(d)
  THEN [outcome |-> "accepted", tables |-> Imported(d), limits |-> ImportedLimits(d)]
  ELSE [NoCopy EXCEPT !.outcome = "refused"]

ImportExport ==
  /\ step = "written" /\ step' = "imported"
  /\ copy' = ImportResult(doc)
  /\ UNCHANGED <<vars, lobbyVars, todo, apps, here, doc>>

ImportHandWritten ==
  /\ step = "idle" /\ step' = "imported"
  /\ \E d \in HandWritten : doc' = d /\ copy' = ImportResult(d)
  /\ UNCHANGED <<vars, lobbyVars, todo, apps, here>>

-----------------------------------------------------------------------------
(* History.                                                                *)

\* Ids of the rows of the exported project that are live.
LiveRows ==
  { s \in Listed(db.scope) : ScopeProject[s] = Exported }
  \cup { p \in Listed(db.app) : AppProject[p] = Exported }
  \cup { r \in Listed(db.room) : AppProject[RoomApp[r]] = Exported }
  \cup { g \in Listed(db.roomGrant) : AppProject[RoomApp[GrantRoom[g]]] = Exported }
  \cup { a \in Listed(db.actor) : ActorProject[a] = Exported }
  \cup { l \in LiveLobbies(db) : ProjectOf(l) = Exported }

Reading == step \notin {"idle", "imported"}

RecordExport ==
  LET begins == ~Reading
  IN /\ steady' = IF ~Reading' THEN {} ELSE IF begins THEN LiveRows
                  ELSE steady \cap LiveRows'
     /\ joined' = IF ~Reading' THEN {} ELSE IF begins THEN Memberships(db)
                  ELSE joined \cap Memberships(db)'
     /\ bound' = IF ~Reading' THEN [a \in Actor |-> {}]
                 ELSE [a \in Actor |-> bound[a] \cup {db'.actor[a].scope}]
     /\ quiet' = IF begins /\ Reading' THEN TRUE
                 ELSE quiet /\ UNCHANGED <<db, limits, lobby, members>>

-----------------------------------------------------------------------------
ConfigInit ==
  /\ Init
  /\ edits = 0 /\ limits \in InitialLimits
  /\ lobby \in [Lobby -> {"absent", "live"}]
  /\ members \in SUBSET { m \in Lobby \X Room : /\ RoomApp[m[2]] = LobbyApp[m[1]]
                                               /\ lobby[m[1]] # "absent"
                                               /\ db.room[m[2]].state # "absent" }
  /\ step = "idle" /\ todo = {} /\ apps = {} /\ here = NoScope
  /\ doc = EmptyDoc /\ copy = NoCopy
  /\ steady = {} /\ joined = {} /\ bound = [a \in Actor |-> {}] /\ quiet = FALSE

EditStep ==
  \/ \E l \in Lobby : CreateLobby(l) \/ DeleteLobby(l)
  \/ \E l \in Lobby, r \in Room : AddMember(l, r) \/ RemoveMember(l, r)
  \/ SyncLimits

ExportStep ==
  \/ ExportProject \/ ExportScopes \/ ExportApps
  \/ \E p \in App : ExportRooms(p)
  \/ \E r \in Room : ExportTypeGrants(r)
  \/ ExportLobbies
  \/ \E l \in Lobby : ExportLobbyRooms(l)
  \/ ExportActors
  \/ \E a \in Actor : ExportAppGrants(a)
  \/ ExportRoomGrants \/ ExportKeys

ConfigNext ==
  /\ \/ Next /\ UNCHANGED <<lobbyVars, exportVars, copy>>
     \/ EditStep
     \/ ExportStep
     \/ ImportExport \/ ImportHandWritten
  /\ RecordExport

ConfigSpec == ConfigInit /\ [][ConfigNext]_configVars

-----------------------------------------------------------------------------
(* Properties.                                                             *)

ConfigTypeOK ==
  /\ edits \in 0..MaxEdits
  /\ limits \in LimitRow \cup {Unsynced}
  /\ lobby \in [Lobby -> RowState]
  /\ members \subseteq Lobby \X Room
  /\ step \in {"idle", "scopes", "apps", "typeGrants", "lobbyRooms", "appGrants",
               "roomGrants", "written", "imported"}
  /\ todo \subseteq Room \cup Lobby \cup Actor
  /\ apps \subseteq App
  /\ here \in App \cup Actor \cup {NoScope}
  /\ doc \in Document
  /\ copy \in [outcome: {"none", "accepted", "refused"}, tables: Database,
               limits: LimitRow \cup {Unsynced}]
  /\ steady \subseteq Scope \cup App \cup Room \cup RoomGrant \cup Actor \cup Lobby
  /\ joined \subseteq Lobby \X Room
  /\ bound \in [Actor -> SUBSET (Scope \cup {NoScope})]
  /\ quiet \in BOOLEAN

\* Whatever is written between the reads of an export, nothing it wrote refers
\* to something it left out.  An import refuses what was exported for two things
\* only, which no interleaving brings about: a limit below one and a slug outside
\* the pattern, both of which the tables can hold.
ExportImports ==
  step = "written" /\ LimitsValid(doc.limits) /\ SlugsValid(doc) => Accepts(doc)

\* What a row needs beside it to be exported.
Rests(x) ==
  CASE x \in Room -> {RoomApp[x]}
    [] x \in RoomGrant -> {GrantRoom[x], RoomApp[GrantRoom[x]]}
                            \cup ({GrantTarget[x]} \ ActorType)
    [] x \in Lobby -> {LobbyApp[x]}
    [] OTHER -> {}

InDocument ==
  Listed(doc.scope) \cup Listed(doc.app) \cup Listed(doc.room)
  \cup Listed(doc.roomGrant) \cup Listed(doc.actor) \cup doc.lobby

\* A row that stands throughout the export, on rows that stand throughout, is
\* in the document, whichever writes came between the reads.  In particular a
\* room kept private by such a grant is private in the copy.
StandingRowsExported ==
  step = "written" =>
    /\ { x \in steady : Rests(x) \subseteq steady } \subseteq InDocument
    /\ { m \in joined : {m[1], m[2], LobbyApp[m[1]]} \subseteq steady } \subseteq doc.members

\* An actor is exported without a scope, project-wide that is, only if while
\* the export ran it had none or was bound to a scope that did not stand
\* throughout.
ScopeNotLost ==
  step = "written" =>
    \A a \in Listed(doc.actor) : doc.actor[a].scope = NoScope =>
      \E s \in bound[a] : s = NoScope \/ s \notin steady

\* A copy that was made while nothing was written.
Faithful == quiet /\ copy.outcome = "accepted"

\* Moving a project costs none of its actors a topic: whoever is told of a topic
\* by the original, now or later, is told of it by the copy.
CopyKeepsAccess ==
  Faithful => \A a \in Actor, t \in {now, now + 1} :
    ActorProject[a] = Exported => Held(db, a, t) \subseteq Held(copy.tables, a, t)

\* It gives an actor a topic the original does not in three cases only: the
\* actor is bound to a deleted scope, its type grant has expired, or grants that
\* name deleted actors or actors of other projects were all that kept the room
\* private.
CopyWidensOnly ==
  Faithful => \A a \in Actor, t \in {now, now + 1} :
    \A x \in Held(copy.tables, a, t) \ Held(db, a, t) :
      \/ db.actor[a].scope # NoScope /\ db.scope[db.actor[a].scope].state # "live"
      \/ \E g \in GrantsOn(db, x.room) :
           GrantTarget[g] = TypeOf[a] /\ Expired(db.roomGrant[g].expiresAt, t)
      \/ /\ ~Private(copy.tables, x.room) /\ Private(db, x.room)
         /\ \A g \in GrantsOn(db, x.room) :
              /\ GrantTarget[g] \in Actor
              /\ \/ db.actor[GrantTarget[g]].state = "deleted"
                 \/ ActorProject[GrantTarget[g]] # Exported

\* The copy enforces the limits of the original: a null is unlimited in both, or
\* stands for the default in both where limits were never synchronised.  Zero and
\* negative limits never get this far: an import refuses them.
LimitsSurvive ==
  Faithful => ResolveLimits(copy.limits) = ResolveLimits(limits)
=============================================================================
