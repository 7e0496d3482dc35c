------------------------- MODULE ProjectConfigProofs --------------------------
(***************************************************************************)
(* Theorems about exports, for any tables and any writes between the reads:*)
(* a document refers to nothing it leaves out, and leaves out nothing that *)
(* stood all the time.  And about copies made while nothing was written:   *)
(* they tell every actor what the original tells it, and more in three     *)
(* cases only.                                                             *)
(***************************************************************************)
EXTENDS ProjectConfig, AuthzAdminProofs

-----------------------------------------------------------------------------
(* Rows and documents.                                                     *)

LEMMA DisjointIds ==
  /\ \A x \in Scope : x \notin App /\ x \notin Room /\ x \notin RoomGrant
                        /\ x \notin Actor /\ x \notin Lobby
  /\ \A x \in App : x \notin Room /\ x \notin RoomGrant /\ x \notin Actor /\ x \notin Lobby
  /\ \A x \in Room : x \notin RoomGrant /\ x \notin Actor /\ x \notin Lobby
  /\ \A x \in RoomGrant : x \notin Actor /\ x \notin Lobby
  /\ \A x \in Actor : x \notin Lobby
<1> DEFINE kinds == <<Scope, App, Room, RoomGrant, Actor, Lobby>>
<1>1. /\ 1 \in DOMAIN kinds /\ 2 \in DOMAIN kinds /\ 3 \in DOMAIN kinds
      /\ 4 \in DOMAIN kinds /\ 5 \in DOMAIN kinds /\ 6 \in DOMAIN kinds
      /\ kinds[1] = Scope /\ kinds[2] = App /\ kinds[3] = Room
      /\ kinds[4] = RoomGrant /\ kinds[5] = Actor /\ kinds[6] = Lobby
  OBVIOUS
<1>2. \A i, j \in DOMAIN kinds : i # j => kinds[i] \cap kinds[j] = {}
  BY IdAssumption
<1> HIDE DEF kinds
<1>3. /\ Scope \cap App = {} /\ Scope \cap Room = {} /\ Scope \cap RoomGrant = {}
      /\ Scope \cap Actor = {} /\ Scope \cap Lobby = {}
  BY <1>1, <1>2
<1>4. /\ App \cap Room = {} /\ App \cap RoomGrant = {} /\ App \cap Actor = {}
      /\ App \cap Lobby = {}
  BY <1>1, <1>2
<1>5. /\ Room \cap RoomGrant = {} /\ Room \cap Actor = {} /\ Room \cap Lobby = {}
      /\ RoomGrant \cap Actor = {} /\ RoomGrant \cap Lobby = {} /\ Actor \cap Lobby = {}
  BY <1>1, <1>2
<1> QED BY <1>3, <1>4, <1>5

\* What an export writes for a row: null topics of an app as none, a type grant
\* without its expiry, an actor with the scope the document knows it by.
AppWritten(r) == [r EXCEPT !.topics = Coalesce(@, {})]
TypeGrantWritten(r) == [r EXCEPT !.expiresAt = Never]
ActorWritten(r, scopes) == [r EXCEPT !.scope = IF @ \in scopes THEN @ ELSE NoScope]

LEMMA RowsWritten ==
  /\ \A r \in AppRow : /\ AppWritten(r) \in AppRow
                       /\ AppWritten(r).topics = Coalesce(r.topics, {})
                       /\ AppWritten(r).topics \in SUBSET Topic
                       /\ AppWritten(r).state = r.state /\ AppWritten(r).status = r.status
                       /\ AppWritten(r).accessMode = r.accessMode
  /\ \A r \in GrantRow : /\ TypeGrantWritten(r) \in GrantRow
                         /\ TypeGrantWritten(r).state = r.state
                         /\ TypeGrantWritten(r).isActive = r.isActive
                         /\ TypeGrantWritten(r).expiresAt = Never
                         /\ TypeGrantWritten(r).permission = r.permission
                         /\ TypeGrantWritten(r).topics = r.topics
  /\ \A r \in ActorRow : \A S :
         /\ ActorWritten(r, S) \in ActorRow
         /\ ActorWritten(r, S).state = r.state
         /\ ActorWritten(r, S).status = r.status
         /\ ActorWritten(r, S).expiresAt = r.expiresAt
         /\ ActorWritten(r, S).scope = IF r.scope \in S THEN r.scope ELSE NoScope
<1>1. \A r \in AppRow : Coalesce(r.topics, {}) \in SUBSET Topic
  BY DEF AppRow, TopicList, Coalesce
<1>2. \A r \in AppRow : /\ AppWritten(r) \in AppRow
                       /\ AppWritten(r).topics = Coalesce(r.topics, {})
                       /\ AppWritten(r).topics \in SUBSET Topic
                       /\ AppWritten(r).state = r.state /\ AppWritten(r).status = r.status
                       /\ AppWritten(r).accessMode = r.accessMode
  BY <1>1 DEF AppWritten, AppRow, TopicList
<1>3. \A r \in GrantRow : /\ TypeGrantWritten(r) \in GrantRow
                         /\ TypeGrantWritten(r).state = r.state
                         /\ TypeGrantWritten(r).isActive = r.isActive
                         /\ TypeGrantWritten(r).expiresAt = Never
                         /\ TypeGrantWritten(r).permission = r.permission
                         /\ TypeGrantWritten(r).topics = r.topics
  BY DEF TypeGrantWritten, GrantRow, Expiry
<1>4. \A r \in ActorRow : \A S :
         /\ ActorWritten(r, S) \in ActorRow
         /\ ActorWritten(r, S).state = r.state
         /\ ActorWritten(r, S).status = r.status
         /\ ActorWritten(r, S).expiresAt = r.expiresAt
         /\ ActorWritten(r, S).scope = IF r.scope \in S THEN r.scope ELSE NoScope
  BY DEF ActorWritten, ActorRow
<1> QED BY <1>2, <1>3, <1>4

\* A live row, without what a document leaves out of it, can stand in one.
LEMMA RowDocs ==
  ASSUME NEW d \in Database
  PROVE  /\ \A s \in Listed(d.scope) : d.scope[s] \in ScopeDoc
         /\ \A p \in Listed(d.app) : AppWritten(d.app[p]) \in AppDoc
         /\ \A r \in Listed(d.room) : d.room[r] \in RoomDoc
         /\ \A g \in Listed(d.roomGrant) : d.roomGrant[g] \in GrantDoc
         /\ \A a \in Actor : \A p \in Listed(d.appGrant[a]) : d.appGrant[a][p] \in GrantDoc
         /\ \A a \in Listed(d.actor) : d.actor[a] \in ActorDoc
<1> USE DEF Listed, Listing, RowState
<1>1. \A s \in Listed(d.scope) : d.scope[s] \in ScopeDoc
  BY DEF Database, ScopeRow, ScopeDoc
<1>2. \A p \in Listed(d.app) : AppWritten(d.app[p]) \in AppDoc
  <2> SUFFICES ASSUME NEW p \in Listed(d.app) PROVE AppWritten(d.app[p]) \in AppDoc
    OBVIOUS
  <2>1. d.app[p] \in AppRow /\ d.app[p].state = "live"
    BY DEF Database
  <2>2. AppWritten(d.app[p]) \in AppRow /\ AppWritten(d.app[p]).state = "live"
        /\ AppWritten(d.app[p]).topics \in SUBSET Topic
    BY <2>1, RowsWritten
  <2> HIDE DEF Listed
  <2> QED BY <2>2 DEF AppRow, AppDoc
<1>3. \A r \in Listed(d.room) : d.room[r] \in RoomDoc
  BY DEF Database, RoomRow, RoomDoc
<1>4. \A g \in Listed(d.roomGrant) : d.roomGrant[g] \in GrantDoc
  BY DEF Database, GrantDoc
<1>5. \A a \in Actor : \A p \in Listed(d.appGrant[a]) : d.appGrant[a][p] \in GrantDoc
  BY DEF Database, GrantDoc
<1>6. \A a \in Listed(d.actor) : d.actor[a] \in ActorDoc
  BY DEF Database, ActorDoc
<1> QED BY <1>1, <1>2, <1>3, <1>4, <1>5, <1>6

LEMMA EmptyDocument == EmptyDoc \in Document
<1> USE DEF Listing, RowState
<1>1. NoScopeRow \in ScopeDoc
  BY DEF NoScopeRow, ScopeDoc
<1>2. NoAppRow \in AppDoc
  BY DEF NoAppRow, AppDoc, TopicList
<1>3. NoRoomRow \in RoomDoc
  BY DEF NoRoomRow, RoomDoc
<1>4. NoGrantRow \in GrantDoc
  BY DEF NoGrantRow, GrantDoc, GrantRow, TopicList, Expiry, Permission
<1>5. NullRow \in ActorDoc
  BY DEF NullRow, ActorDoc, ActorRow, Expiry
<1>6. NoRoomRow \in RoomDoc /\ [a \in Actor |-> [p \in App |-> NoGrantRow]] \in [Actor -> [App -> GrantDoc]]
  BY <1>3, <1>4
<1> QED BY <1>1, <1>2, <1>3, <1>4, <1>5, <1>6 DEF EmptyDoc, Document

\* What an import writes are tables.
LEMMA ImportedTables ==
  ASSUME NEW d \in Document
  PROVE  Imported(d) \in Database /\ d.limits \in LimitRow \cup {Unsynced}
<1>1. /\ ScopeDoc \subseteq ScopeRow /\ AppDoc \subseteq AppRow /\ RoomDoc \subseteq RoomRow
      /\ GrantDoc \subseteq GrantRow /\ ActorDoc \subseteq ActorRow
  BY DEF ScopeDoc, ScopeRow, AppDoc, AppRow, RoomDoc, RoomRow, GrantDoc, ActorDoc,
     Listing, RowState, TopicList
<1>2. /\ d.scope \in [Scope -> ScopeDoc] /\ d.app \in [App -> AppDoc]
      /\ d.room \in [Room -> RoomDoc] /\ d.roomGrant \in [RoomGrant -> GrantDoc]
      /\ d.actor \in [Actor -> ActorDoc] /\ d.appGrant \in [Actor -> [App -> GrantDoc]]
      /\ d.limits \in LimitRow \cup {Unsynced}
  BY DEF Document
<1>3. /\ d.scope \in [Scope -> ScopeRow] /\ d.app \in [App -> AppRow]
      /\ d.room \in [Room -> RoomRow] /\ d.roomGrant \in [RoomGrant -> GrantRow]
      /\ d.actor \in [Actor -> ActorRow] /\ d.appGrant \in [Actor -> [App -> GrantRow]]
  BY <1>1, <1>2
<1> QED BY <1>2, <1>3 DEF Imported, Database

LEMMA ImportType ==
  ASSUME NEW d \in Document
  PROVE  ImportResult(d) \in [outcome: {"none", "accepted", "refused"}, tables: Database,
                              limits: LimitRow \cup {Unsynced}]
BY ImportedTables, EmptyDocument DEF ImportResult, NoCopy, ImportedLimits

-----------------------------------------------------------------------------
(* What stands.  steady holds ids of every table; an id says which.        *)

LEMMA LiveRowsByTable ==
  ASSUME db \in Database
  PROVE  /\ \A s \in Scope \cap LiveRows : s \in Listed(db.scope) /\ ScopeProject[s] = Exported
         /\ \A p \in App \cap LiveRows : p \in Listed(db.app) /\ AppProject[p] = Exported
         /\ \A r \in Room \cap LiveRows : r \in Listed(db.room)
         /\ \A g \in RoomGrant \cap LiveRows : g \in Listed(db.roomGrant)
         /\ \A a \in Actor \cap LiveRows : a \in Listed(db.actor) /\ ActorProject[a] = Exported
         /\ \A l \in Lobby \cap LiveRows : l \in LiveLobbies(db)
<1>1. /\ Listed(db.scope) \subseteq Scope /\ Listed(db.app) \subseteq App
      /\ Listed(db.room) \subseteq Room /\ Listed(db.roomGrant) \subseteq RoomGrant
      /\ Listed(db.actor) \subseteq Actor /\ LiveLobbies(db) \subseteq Lobby
  BY DEF Database, Listed, LiveLobbies
<1>2. \A x \in LiveRows :
        \/ x \in Listed(db.scope) /\ ScopeProject[x] = Exported
        \/ x \in Listed(db.app) /\ AppProject[x] = Exported
        \/ x \in Listed(db.room)
        \/ x \in Listed(db.roomGrant)
        \/ x \in Listed(db.actor) /\ ActorProject[x] = Exported
        \/ x \in LiveLobbies(db)
  BY DEF LiveRows
<1> QED BY <1>1, <1>2, DisjointIds

\* What the history holds while an export runs: less and less of what stands,
\* and every scope an actor is bound to.
LEMMA HistoryShrinks ==
  ASSUME RecordExport, Reading, Reading'
  PROVE  /\ steady' \subseteq steady /\ steady' \subseteq LiveRows'
         /\ joined' \subseteq joined /\ joined' \subseteq Memberships(db)'
         /\ \A a \in Actor : bound'[a] = bound[a] \cup {db'.actor[a].scope}
BY DEF RecordExport

LEMMA HistoryEnds ==
  ASSUME RecordExport, ~Reading'
  PROVE  steady' = {} /\ joined' = {} /\ bound' = [a \in Actor |-> {}]
BY DEF RecordExport

LEMMA HistoryBegins ==
  ASSUME RecordExport, ~Reading, Reading'
  PROVE  /\ steady' = LiveRows /\ joined' = Memberships(db)
         /\ bound' = [a \in Actor |-> bound[a] \cup {db'.actor[a].scope}]
BY DEF RecordExport

\* A query sees the tables that still stand when it has returned.
LEMMA QueryHistory ==
  ASSUME NEW from, NEW to, Query(from, to), RecordExport, Reading, Reading'
  PROVE  /\ steady' \subseteq steady /\ steady' \subseteq LiveRows
         /\ joined' \subseteq joined /\ joined' \subseteq Memberships(db)
         /\ \A a \in Actor : bound'[a] = bound[a] \cup {db.actor[a].scope}
<1>1. db' = db /\ UNCHANGED lobbyVars
  BY DEF Query, vars
<1>2. LiveRows' = LiveRows /\ Memberships(db)' = Memberships(db)
  BY <1>1 DEF LiveRows, LiveLobbies, Memberships, lobbyVars
<1> QED BY <1>1, <1>2, HistoryShrinks

-----------------------------------------------------------------------------
(* Types.                                                                  *)

HistoryTypeOK ==
  /\ steady \subseteq Scope \cup App \cup Room \cup RoomGrant \cup Actor \cup Lobby
  /\ joined \subseteq Lobby \X Room
  /\ bound \in [Actor -> SUBSET (Scope \cup {NoScope})]
  /\ quiet \in BOOLEAN

TablesTypeOK ==
  /\ edits \in 0..MaxEdits
  /\ limits \in LimitRow \cup {Unsynced}
  /\ lobby \in [Lobby -> RowState]
  /\ members \subseteq Lobby \X Room

ExportTypeOK ==
  /\ step \in {"idle", "scopes", "apps", "typeGrants", "lobbyRooms", "appGrants",
               "roomGrants", "written", "imported"}
  /\ todo \subseteq Room \cup Lobby \cup Actor
  /\ apps \subseteq App
  /\ here \in App \cup Actor \cup {NoScope}
  /\ doc \in Document
  /\ copy \in [outcome: {"none", "accepted", "refused"}, tables: Database,
               limits: LimitRow \cup {Unsynced}]

LEMMA HistoryKeepsType ==
  ASSUME TypeOK', TypeOK, TablesTypeOK, HistoryTypeOK, RecordExport
  PROVE  HistoryTypeOK'
<1>1. LiveRows \subseteq Scope \cup App \cup Room \cup RoomGrant \cup Actor \cup Lobby
  BY DEF LiveRows, Listed, LiveLobbies, TypeOK, TablesOK, Database
<1>2. Memberships(db) \subseteq Lobby \X Room
  BY DEF Memberships, TablesTypeOK
<1>3. \A a \in Actor : db'.actor[a].scope \in Scope \cup {NoScope}
  BY DEF TypeOK, TablesOK, Database, ActorRow
<1>4. steady' \subseteq steady \cup LiveRows /\ joined' \subseteq joined \cup Memberships(db)
  BY DEF RecordExport
<1>5. bound' \in [Actor -> SUBSET (Scope \cup {NoScope})]
  BY <1>3 DEF RecordExport, HistoryTypeOK
<1>6. quiet' \in BOOLEAN
  BY DEF RecordExport, HistoryTypeOK
<1> QED BY <1>1, <1>2, <1>4, <1>5, <1>6 DEF HistoryTypeOK

LEMMA EditType ==
  ASSUME TypeOK, TablesTypeOK, EditStep
  PROVE  TablesTypeOK' /\ UNCHANGED <<vars, exportVars, copy>>
<1> USE DEF TablesTypeOK, Edit
<1>a. edits < MaxEdits => edits + 1 \in 0..MaxEdits
  BY ConfigAssumption
<1>1. ASSUME NEW l \in Lobby, CreateLobby(l) \/ DeleteLobby(l)
      PROVE  TablesTypeOK' /\ UNCHANGED <<vars, exportVars, copy>>
  BY <1>1, <1>a DEF CreateLobby, DeleteLobby, RowState
<1>2. ASSUME NEW l \in Lobby, NEW r \in Room, AddMember(l, r) \/ RemoveMember(l, r)
      PROVE  TablesTypeOK' /\ UNCHANGED <<vars, exportVars, copy>>
  BY <1>2, <1>a DEF AddMember, RemoveMember
<1>3. CASE SyncLimits
  BY <1>3, <1>a, ConfigAssumption DEF SyncLimits
<1> QED BY <1>1, <1>2, <1>3 DEF EditStep

-----------------------------------------------------------------------------
(* What each query adds to the document.                                   *)

LEMMA ScopesQuery ==
  ASSUME db \in Database, doc \in Document, ExportScopes
  PROVE  /\ doc' \in Document /\ doc' = [doc EXCEPT !.scope = doc'.scope]
         /\ Listed(doc'.scope) =
              { s \in Listed(db.scope) : ScopeProject[s] = Exported } \cup Listed(doc.scope)
<1> DEFINE found == { s \in Listed(db.scope) : ScopeProject[s] = Exported }
<1>1. db.scope \in [Scope -> ScopeRow] /\ doc.scope \in [Scope -> ScopeDoc]
  BY DEF Database, Document
<1>2. /\ Take(db.scope, found, doc.scope) \in [Scope -> ScopeDoc]
      /\ Listed(Take(db.scope, found, doc.scope)) = found \cup Listed(doc.scope)
  <2>1. found \subseteq Listed(db.scope) /\ \A x \in Listed(db.scope) : db.scope[x] \in ScopeDoc
    BY RowDocs
  <2> HIDE DEF found
  <2> QED BY <1>1, <2>1 DEF Take, Listed
<1>3. doc' = [doc EXCEPT !.scope = Take(db.scope, found, doc.scope)]
  BY DEF ExportScopes, Document
<1> QED BY <1>2, <1>3 DEF Document

LEMMA AppsQuery ==
  ASSUME db \in Database, doc \in Document, ExportApps
  PROVE  /\ doc' \in Document /\ doc' = [doc EXCEPT !.app = doc'.app]
         /\ apps' = { p \in Listed(db.app) : AppProject[p] = Exported }
         /\ Listed(doc'.app) = apps' \cup Listed(doc.app)
<1> DEFINE found == { p \in Listed(db.app) : AppProject[p] = Exported }
           table == [p \in App |-> AppWritten(db.app[p])]
<1>1. db.app \in [App -> AppRow] /\ doc.app \in [App -> AppDoc]
  BY DEF Database, Document
<1>2. /\ Take(table, found, doc.app) \in [App -> AppDoc]
      /\ Listed(Take(table, found, doc.app)) = found \cup Listed(doc.app)
  <2>1. /\ found \subseteq Listed(db.app) /\ Listed(db.app) \subseteq App
        /\ \A x \in Listed(db.app) : table[x] \in AppDoc /\ table[x].state = "live"
    BY <1>1, RowDocs, RowsWritten DEF Listed
  <2> HIDE DEF found
  <2> QED BY <1>1, <2>1 DEF Take, Listed
<1>3. doc' = [doc EXCEPT !.app = Take(table, found, doc.app)] /\ apps' = found
  BY DEF ExportApps, Document, AppWritten
<1>4. \A p \in App : Take(table, found, doc.app)[p] =
        IF p \in found THEN AppWritten(db.app[p]) ELSE doc.app[p]
  BY DEF Take
<1> HIDE DEF table, found
<1> QED BY <1>2, <1>3, <1>4 DEF Document, found

LEMMA RoomsQuery ==
  ASSUME db \in Database, doc \in Document, NEW p \in App, ExportRooms(p)
  PROVE  /\ doc' \in Document /\ doc' = [doc EXCEPT !.room = doc'.room]
         /\ todo' = { r \in Listed(db.room) : RoomApp[r] = p }
         /\ Listed(doc'.room) = todo' \cup Listed(doc.room)
<1> DEFINE found == { r \in Listed(db.room) : RoomApp[r] = p }
<1>1. db.room \in [Room -> RoomRow] /\ doc.room \in [Room -> RoomDoc]
  BY DEF Database, Document
<1>2. /\ Take(db.room, found, doc.room) \in [Room -> RoomDoc]
      /\ Listed(Take(db.room, found, doc.room)) = found \cup Listed(doc.room)
  <2>1. found \subseteq Listed(db.room) /\ \A x \in Listed(db.room) : db.room[x] \in RoomDoc
    BY RowDocs
  <2> HIDE DEF found
  <2> QED BY <1>1, <2>1 DEF Take, Listed
<1>3. doc' = [doc EXCEPT !.room = Take(db.room, found, doc.room)] /\ todo' = found
  BY DEF ExportRooms, Document
<1> QED BY <1>2, <1>3 DEF Document

LEMMA TypeGrantsQuery ==
  ASSUME db \in Database, doc \in Document, NEW r \in Room, ExportTypeGrants(r)
  PROVE  /\ doc' \in Document /\ doc' = [doc EXCEPT !.roomGrant = doc'.roomGrant]
         /\ Listed(doc'.roomGrant) =
              { g \in GrantsOn(db, r) : GrantTarget[g] \in ActorType } \cup Listed(doc.roomGrant)
<1> DEFINE found == { g \in GrantsOn(db, r) : GrantTarget[g] \in ActorType }
           table == [g \in RoomGrant |-> [db.roomGrant[g] EXCEPT !.expiresAt = Never]]
<1>1. db.roomGrant \in [RoomGrant -> GrantRow] /\ doc.roomGrant \in [RoomGrant -> GrantDoc]
  BY DEF Database, Document
<1>2. /\ table \in [RoomGrant -> GrantRow]
      /\ \A g \in RoomGrant : table[g].state = db.roomGrant[g].state
  BY <1>1 DEF GrantRow, Expiry
<1>3. found \subseteq Listed(table) /\ \A g \in Listed(table) : table[g] \in GrantDoc
  BY <1>1, <1>2 DEF GrantsOn, Listed, GrantDoc, Listing
<1> HIDE DEF found, table
<1>4. /\ Take(table, found, doc.roomGrant) \in [RoomGrant -> GrantDoc]
      /\ Listed(Take(table, found, doc.roomGrant)) = found \cup Listed(doc.roomGrant)
  BY <1>1, <1>2, <1>3 DEF Take, Listed
<1>5. doc' = [doc EXCEPT !.roomGrant = Take(table, found, doc.roomGrant)]
  BY DEF ExportTypeGrants, Document, found, table
<1> QED BY <1>4, <1>5 DEF Document, found

LEMMA ActorsQuery ==
  ASSUME db \in Database, doc \in Document, ExportActors
  PROVE  /\ doc' \in Document /\ doc' = [doc EXCEPT !.actor = doc'.actor]
         /\ todo' = { a \in Listed(db.actor) : ActorProject[a] = Exported }
         /\ Listed(doc'.actor) = todo' \cup Listed(doc.actor)
         /\ \A a \in Actor : doc'.actor[a].scope =
              IF a \notin todo' THEN doc.actor[a].scope
              ELSE IF db.actor[a].scope \in Listed(doc.scope) THEN db.actor[a].scope
              ELSE NoScope
<1> DEFINE slugOf(s) == IF s \in Listed(doc.scope) THEN s ELSE NoScope
           found == { a \in Listed(db.actor) : ActorProject[a] = Exported }
           table == [a \in Actor |-> [db.actor[a] EXCEPT !.scope = slugOf(@)]]
<1>1. db.actor \in [Actor -> ActorRow] /\ doc.actor \in [Actor -> ActorDoc]
  BY DEF Database, Document
<1>2. /\ table \in [Actor -> ActorRow]
      /\ \A a \in Actor : table[a].state = db.actor[a].state
                          /\ table[a].scope = slugOf(db.actor[a].scope)
  BY <1>1 DEF ActorRow
<1>3. found \subseteq Listed(table) /\ \A a \in Listed(table) : table[a] \in ActorDoc
  BY <1>1, <1>2 DEF Listed, ActorDoc, Listing
<1>a. doc' = [doc EXCEPT !.actor = Take(table, found, doc.actor)] /\ todo' = found
  BY <1>1 DEF ExportActors, Document
<1> HIDE DEF found, table
<1>4. /\ Take(table, found, doc.actor) \in [Actor -> ActorDoc]
      /\ Listed(Take(table, found, doc.actor)) = found \cup Listed(doc.actor)
      /\ \A a \in Actor : Take(table, found, doc.actor)[a] =
                            IF a \in found THEN table[a] ELSE doc.actor[a]
  BY <1>1, <1>2, <1>3 DEF Take, Listed
<1>5. doc'.actor = Take(table, found, doc.actor)
  BY <1>a DEF Document
<1>6. doc' \in Document /\ doc' = [doc EXCEPT !.actor = doc'.actor]
  BY <1>4, <1>5, <1>a DEF Document
<1>7. todo' = { a \in Listed(db.actor) : ActorProject[a] = Exported }
  BY <1>a DEF found
<1> QED BY <1>2, <1>4, <1>5, <1>6, <1>7, <1>a

LEMMA AppGrantsQuery ==
  ASSUME db \in Database, doc \in Document, NEW a \in Actor, ExportAppGrants(a)
  PROVE  /\ doc' \in Document /\ doc' = [doc EXCEPT !.appGrant = doc'.appGrant]
         /\ \A b \in Actor : Listed(doc'.appGrant[b]) =
              IF b = a THEN (Listed(db.appGrant[a]) \cap Listed(doc.app)) \cup Listed(doc.appGrant[a])
              ELSE Listed(doc.appGrant[b])
<1> DEFINE found == Listed(db.appGrant[a]) \cap Listed(doc.app)
<1>1. /\ db.appGrant[a] \in [App -> GrantRow]
      /\ doc.appGrant \in [Actor -> [App -> GrantDoc]] /\ doc.appGrant[a] \in [App -> GrantDoc]
  BY DEF Database, Document
<1>2. /\ Take(db.appGrant[a], found, doc.appGrant[a]) \in [App -> GrantDoc]
      /\ Listed(Take(db.appGrant[a], found, doc.appGrant[a])) = found \cup Listed(doc.appGrant[a])
  <2>1. /\ found \subseteq Listed(db.appGrant[a])
        /\ \A x \in Listed(db.appGrant[a]) : db.appGrant[a][x] \in GrantDoc
    BY RowDocs
  <2> HIDE DEF found
  <2> QED BY <1>1, <2>1 DEF Take, Listed
<1>3. doc' = [doc EXCEPT !.appGrant =
                [doc.appGrant EXCEPT ![a] = Take(db.appGrant[a], found, doc.appGrant[a])]]
  BY DEF ExportAppGrants, Document
<1> HIDE DEF found
<1>4. doc'.appGrant = [doc.appGrant EXCEPT ![a] = Take(db.appGrant[a], found, doc.appGrant[a])]
  BY <1>3 DEF Document
<1>5. doc' \in Document /\ doc' = [doc EXCEPT !.appGrant = doc'.appGrant]
  BY <1>1, <1>2, <1>3, <1>4 DEF Document
<1>6. \A b \in Actor : doc'.appGrant[b] =
        IF b = a THEN Take(db.appGrant[a], found, doc.appGrant[a]) ELSE doc.appGrant[b]
  BY <1>1, <1>4
<1> QED BY <1>2, <1>5, <1>6 DEF found

LEMMA RoomGrantsQuery ==
  ASSUME db \in Database, doc \in Document, ExportRoomGrants
  PROVE  /\ doc' \in Document /\ doc' = [doc EXCEPT !.roomGrant = doc'.roomGrant]
         /\ Listed(doc'.roomGrant) =
              { g \in Listed(db.roomGrant) : /\ GrantTarget[g] = here
                                             /\ GrantRoom[g] \in Listed(doc.room) }
                \cup Listed(doc.roomGrant)
<1> DEFINE found == { g \in Listed(db.roomGrant) : /\ GrantTarget[g] = here
                                                   /\ GrantRoom[g] \in Listed(doc.room) }
<1>1. db.roomGrant \in [RoomGrant -> GrantRow] /\ doc.roomGrant \in [RoomGrant -> GrantDoc]
  BY DEF Database, Document
<1>2. /\ Take(db.roomGrant, found, doc.roomGrant) \in [RoomGrant -> GrantDoc]
      /\ Listed(Take(db.roomGrant, found, doc.roomGrant)) = found \cup Listed(doc.roomGrant)
  <2>1. found \subseteq Listed(db.roomGrant) /\ \A x \in Listed(db.roomGrant) : db.roomGrant[x] \in GrantDoc
    BY RowDocs
  <2> HIDE DEF found
  <2> QED BY <1>1, <2>1 DEF Take, Listed
<1>3. doc' = [doc EXCEPT !.roomGrant = Take(db.roomGrant, found, doc.roomGrant)]
  BY DEF ExportRoomGrants, Document
<1> QED BY <1>2, <1>3 DEF Document

-----------------------------------------------------------------------------
(* Why a document imports: the reads go from what is referred to, to what  *)
(* refers to it, and what is not in the document by then is left out.      *)

Closed(d) ==
  /\ d.usable
  /\ \A m \in d.members : m[2] \in Listed(d.room)
  /\ \A a \in Actor : /\ d.actor[a].scope \in {NoScope} \cup Listed(d.scope)
                      /\ Listed(d.appGrant[a]) \subseteq Listed(d.app)
  /\ \A g \in Listed(d.roomGrant) : GrantRoom[g] \in Listed(d.room)

DocInv ==
  /\ Reading => Closed(doc)
  /\ step = "typeGrants" => todo \subseteq Listed(doc.room)

LEMMA FirstDoc ==
  ASSUME limits \in LimitRow \cup {Unsynced}, ExportProject
  PROVE  doc' \in Document /\ Closed(doc') /\ Listed(doc'.actor) = {}
<1>1. doc' = [EmptyDoc EXCEPT !.limits = limits] /\ EmptyDoc \in Document
  BY EmptyDocument DEF ExportProject
<1>2. doc' \in Document
  BY <1>1 DEF Document
<1>3. /\ EmptyDoc.usable /\ EmptyDoc.members = {} /\ Listed(EmptyDoc.roomGrant) = {}
      /\ Listed(EmptyDoc.actor) = {}
      /\ \A a \in Actor : /\ EmptyDoc.actor[a].scope = NoScope
                          /\ Listed(EmptyDoc.appGrant[a]) = {}
  BY DEF EmptyDoc, NullRow, NoGrantRow, Listed
<1>4. /\ doc'.usable /\ doc'.members = {} /\ Listed(doc'.roomGrant) = {}
      /\ Listed(doc'.actor) = {}
      /\ \A a \in Actor : /\ doc'.actor[a].scope = NoScope
                          /\ Listed(doc'.appGrant[a]) = {}
  BY <1>1, <1>3 DEF Document
<1> QED BY <1>2, <1>4 DEF Closed

LEMMA ExportKeepsDoc ==
  ASSUME TypeOK, TablesTypeOK, ExportTypeOK, DocInv, ExportStep
  PROVE  ExportTypeOK' /\ DocInv'
<1> USE DEF TypeOK, TablesOK, ExportTypeOK, DocInv, Reading, Query
<1>b. /\ Listed(db.room) \subseteq Room /\ Listed(db.actor) \subseteq Actor
      /\ Listed(db.app) \subseteq App /\ LiveLobbies(db) \subseteq Lobby
  BY DEF Database, Listed, LiveLobbies
<1>1. CASE ExportProject
  BY <1>1, FirstDoc DEF ExportProject, TablesTypeOK
<1>2. CASE ExportScopes
  <2>1. doc' \in Document /\ Closed(doc')
    BY <1>2, ScopesQuery DEF Closed, Document, ExportScopes
  <2> QED BY <1>2, <2>1 DEF ExportScopes
<1>3. CASE ExportApps
  <2>1. doc' \in Document /\ Closed(doc')
    BY <1>3, AppsQuery DEF Closed, Document, ExportApps
  <2> QED BY <1>3, <1>b, <2>1, AppsQuery DEF ExportApps
<1>4. ASSUME NEW p \in App, ExportRooms(p) PROVE ExportTypeOK' /\ DocInv'
  <2>1. doc' \in Document /\ Closed(doc')
    BY <1>4, RoomsQuery DEF Closed, Document, ExportRooms
  <2>2. todo' \subseteq Room /\ todo' \subseteq Listed(doc'.room)
    BY <1>4, <1>b, RoomsQuery
  <2> QED BY <1>4, <2>1, <2>2 DEF ExportRooms
<1>5. ASSUME NEW r \in Room, ExportTypeGrants(r) PROVE ExportTypeOK' /\ DocInv'
  <2>1. r \in Listed(doc.room) /\ doc' \in Document /\ doc' = [doc EXCEPT !.roomGrant = doc'.roomGrant]
    BY <1>5, TypeGrantsQuery DEF ExportTypeGrants
  <2>2. Listed(doc'.roomGrant) =
          { g \in GrantsOn(db, r) : GrantTarget[g] \in ActorType } \cup Listed(doc.roomGrant)
    BY <1>5, TypeGrantsQuery
  <2>3. \A g \in GrantsOn(db, r) : GrantRoom[g] = r
    BY DEF GrantsOn
  <2>4. doc'.room = doc.room /\ Closed(doc')
    BY <1>5, <2>1, <2>2, <2>3 DEF Closed, Document, ExportTypeGrants
  <2> QED BY <1>5, <2>1, <2>4 DEF ExportTypeGrants
<1>6. CASE ExportLobbies
  <2>1. /\ doc' = [doc EXCEPT !.lobby = doc.lobby \cup todo']
        /\ todo' \subseteq Lobby
    BY <1>6, <1>b DEF ExportLobbies, Document
  <2>2. Closed(doc)
    BY <1>6 DEF ExportLobbies
  <2>3. doc' \in Document
    BY <2>1 DEF Document
  <2>4. Closed(doc')
    BY <2>1, <2>2 DEF Closed, Document
  <2> QED BY <1>6, <2>1, <2>3, <2>4 DEF ExportLobbies
<1>7. ASSUME NEW l \in Lobby, ExportLobbyRooms(l) PROVE ExportTypeOK' /\ DocInv'
  <2> DEFINE found == { m \in Memberships(db) : m[1] = l /\ m[2] \in Listed(doc.room) }
  <2>1. doc' = [doc EXCEPT !.members = doc.members \cup found]
    BY <1>7 DEF ExportLobbyRooms, Document
  <2>2. found \subseteq Lobby \X Room
    BY DEF Memberships, TablesTypeOK
  <2>3. doc' \in Document /\ Closed(doc')
    BY <1>7, <2>1, <2>2 DEF Closed, Document, ExportLobbyRooms
  <2> QED BY <1>7, <2>3 DEF ExportLobbyRooms
<1>8. CASE ExportActors
  <2>1. doc' \in Document /\ doc' = [doc EXCEPT !.actor = doc'.actor] /\ todo' \subseteq Actor
    BY <1>8, <1>b, ActorsQuery
  <2>2. \A a \in Actor : doc'.actor[a].scope \in {NoScope} \cup Listed(doc.scope)
    BY <1>8, ActorsQuery DEF ExportActors, Closed
  <2>3. Closed(doc')
    BY <1>8, <2>1, <2>2 DEF Closed, Document, ExportActors
  <2> QED BY <1>8, <2>1, <2>3 DEF ExportActors
<1>9. ASSUME NEW a \in Actor, ExportAppGrants(a) PROVE ExportTypeOK' /\ DocInv'
  <2>1. doc' \in Document /\ doc' = [doc EXCEPT !.appGrant = doc'.appGrant]
    BY <1>9, AppGrantsQuery
  <2>2. \A b \in Actor : Listed(doc'.appGrant[b]) \subseteq Listed(doc.app)
    <3>1. Closed(doc)
      BY <1>9 DEF ExportAppGrants
    <3>2. \A b \in Actor : Listed(doc.appGrant[b]) \subseteq Listed(doc.app)
      BY <3>1 DEF Closed
    <3> QED BY <1>9, <3>2, AppGrantsQuery
  <2>3. Closed(doc')
    BY <1>9, <2>1, <2>2 DEF Closed, Document, ExportAppGrants
  <2> QED BY <1>9, <2>1, <2>3 DEF ExportAppGrants
<1>10. CASE ExportRoomGrants
  <2>1. doc' \in Document /\ Closed(doc')
    BY <1>10, RoomGrantsQuery DEF Closed, Document, ExportRoomGrants
  <2> QED BY <1>10, <2>1 DEF ExportRoomGrants
<1>11. CASE ExportKeys
  BY <1>11 DEF ExportKeys
<1> QED BY <1>1, <1>2, <1>3, <1>4, <1>5, <1>6, <1>7, <1>8, <1>9, <1>10, <1>11 DEF ExportStep

LEMMA ImportKeepsDoc ==
  ASSUME ExportTypeOK, DocInv, ImportExport \/ ImportHandWritten
  PROVE  ExportTypeOK' /\ DocInv'
<1> USE DEF ExportTypeOK, DocInv, Reading
<1>1. CASE ImportExport
  BY <1>1, ImportType DEF ImportExport
<1>2. CASE ImportHandWritten
  <2>1. PICK d \in HandWritten : doc' = d /\ copy' = ImportResult(d)
    BY <1>2 DEF ImportHandWritten
  <2>2. d \in Document
    BY <2>1, ConfigAssumption
  <2> QED BY <1>2, <2>1, <2>2, ImportType DEF ImportHandWritten
<1> QED BY <1>1, <1>2

ConfigTypeInv == TypeOK /\ TablesTypeOK /\ ExportTypeOK /\ HistoryTypeOK /\ DocInv

LEMMA ConfigStart == ConfigInit => ConfigTypeInv
<1> SUFFICES ASSUME ConfigInit PROVE ConfigTypeInv
  OBVIOUS
<1>1. TypeOK
  BY InitType DEF ConfigInit
<1>2. TablesTypeOK
  BY ConfigAssumption DEF ConfigInit, TablesTypeOK, RowState
<1>3. ExportTypeOK /\ DocInv
  BY EmptyDocument, ImportedTables
  DEF ConfigInit, ExportTypeOK, DocInv, Reading, NoCopy
<1>4. HistoryTypeOK
  BY DEF ConfigInit, HistoryTypeOK
<1> QED BY <1>1, <1>2, <1>3, <1>4 DEF ConfigTypeInv

LEMMA ConfigStep == ConfigTypeInv /\ [ConfigNext]_configVars => ConfigTypeInv'
<1> SUFFICES ASSUME ConfigTypeInv, [ConfigNext]_configVars PROVE ConfigTypeInv'
  OBVIOUS
<1> USE DEF ConfigTypeInv
<1>a. ASSUME UNCHANGED lobbyVars PROVE TablesTypeOK'
  BY <1>a DEF lobbyVars, TablesTypeOK
<1>b. ASSUME UNCHANGED <<exportVars, copy>> PROVE ExportTypeOK' /\ DocInv'
  BY <1>b DEF exportVars, ExportTypeOK, DocInv, Reading
<1>c. ASSUME UNCHANGED vars PROVE TypeOK'
  BY <1>c, NextType
<1>1. CASE UNCHANGED configVars
  <2>1. HistoryTypeOK'
    BY <1>1 DEF configVars, historyVars, HistoryTypeOK
  <2> QED BY <1>1, <1>a, <1>b, <1>c, <2>1 DEF configVars
<1>2. CASE ConfigNext
  <2>1. TypeOK' /\ TablesTypeOK' /\ ExportTypeOK' /\ DocInv'
    <3>1. CASE Next /\ UNCHANGED <<lobbyVars, exportVars, copy>>
      BY <3>1, <1>a, <1>b, NextType
    <3>2. CASE EditStep
      BY <3>2, <1>b, <1>c, EditType
    <3>3. CASE ExportStep
      <4>1. UNCHANGED <<vars, lobbyVars>>
        BY <3>3 DEF ExportStep, ExportProject, ExportScopes, ExportApps, ExportRooms,
           ExportTypeGrants, ExportLobbies, ExportLobbyRooms, ExportActors,
           ExportAppGrants, ExportRoomGrants, ExportKeys, Query
      <4> QED BY <3>3, <1>a, <1>c, <4>1, ExportKeepsDoc
    <3>4. CASE ImportExport \/ ImportHandWritten
      <4>1. UNCHANGED <<vars, lobbyVars>>
        BY <3>4 DEF ImportExport, ImportHandWritten
      <4> QED BY <3>4, <1>a, <1>c, <4>1, ImportKeepsDoc
    <3> QED BY <1>2, <3>1, <3>2, <3>3, <3>4 DEF ConfigNext
  <2> QED BY <1>2, <2>1, HistoryKeepsType DEF ConfigNext
<1> QED BY <1>1, <1>2

\* Every reachable state of tables, export, copy and history is well typed, and
\* what an import of a validated document writes are tables.
THEOREM ConfigTypeCorrect == ConfigSpec => []ConfigTypeOK
<1>1. ConfigTypeInv => ConfigTypeOK
  BY DEF ConfigTypeInv, ConfigTypeOK, TablesTypeOK, ExportTypeOK, HistoryTypeOK
<1> QED BY <1>1, ConfigStart, ConfigStep, PTL DEF ConfigSpec

\* However many rows are written between the reads of an export, its document
\* is closed: whatever a membership, an actor or a grant in it refers to, it
\* lists, so that an import refuses it for a limit below one or a slug outside
\* the pattern and for nothing else.
THEOREM ExportsImport == ConfigSpec => []ExportImports
<1>1. ConfigTypeInv => ExportImports
  <2> SUFFICES ASSUME ConfigTypeInv, step = "written", LimitsValid(doc.limits), SlugsValid(doc)
               PROVE  Accepts(doc)
    BY DEF ExportImports
  <2>1. Closed(doc) /\ doc \in Document
    BY DEF ConfigTypeInv, DocInv, Reading, ExportTypeOK
  <2>2. Listed(doc.actor) \subseteq Actor
    BY <2>1 DEF Listed, Document
  <2> QED BY <2>1, <2>2 DEF Accepts, RefersWithin, Closed
<1> QED BY <1>1, ConfigStart, ConfigStep, PTL DEF ConfigSpec

-----------------------------------------------------------------------------
(* Why nothing that stands is left out: each loop visits what the query    *)
(* before it found, and a row that stands throughout is found whenever its *)
(* query comes.  Until then the loop has its app, room or actor before it. *)

PastScopes == Reading /\ step # "scopes"
PastApps == PastScopes /\ step # "apps"
PastActors == step \in {"appGrants", "roomGrants", "written"}

\* Where the loops are.
LoopInv ==
  /\ step \in {"idle", "scopes", "apps"} => todo = {}
  /\ step = "typeGrants" => here \notin apps
  /\ step = "lobbyRooms" => \A l \in todo : LobbyApp[l] \notin apps
  /\ PastActors => apps = {}

\* A lobby has rooms of its own app only.
MembersFit == \A m \in members : RoomApp[m[2]] = LobbyApp[m[1]]

ScopesHeld == PastScopes => Scope \cap steady \subseteq Listed(doc.scope)
AppsHeld == PastApps => App \cap steady \subseteq Listed(doc.app)
ActorsHeld == PastActors => Actor \cap steady \subseteq Listed(doc.actor)

RoomsHeld ==
  PastApps => \A r \in Room \cap steady :
    RoomApp[r] \in steady => r \in Listed(doc.room) \/ RoomApp[r] \in apps

TypeGrantsHeld ==
  PastApps => \A g \in RoomGrant \cap steady :
    GrantTarget[g] \in ActorType /\ {GrantRoom[g], RoomApp[GrantRoom[g]]} \subseteq steady =>
      \/ g \in Listed(doc.roomGrant)
      \/ RoomApp[GrantRoom[g]] \in apps
      \/ step = "typeGrants" /\ GrantRoom[g] \in todo

ActorGrantsHeld ==
  PastActors => \A g \in RoomGrant \cap steady :
    GrantTarget[g] \in Actor
      /\ {GrantTarget[g], GrantRoom[g], RoomApp[GrantRoom[g]]} \subseteq steady =>
      \/ g \in Listed(doc.roomGrant)
      \/ step # "written" /\ GrantTarget[g] \in todo

LobbiesHeld ==
  PastApps => \A l \in Lobby \cap steady :
    LobbyApp[l] \in steady =>
      \/ l \in doc.lobby
      \/ LobbyApp[l] \in apps
      \/ step = "typeGrants" /\ LobbyApp[l] = here

MembersHeld ==
  PastApps => \A m \in joined :
    {m[1], m[2], LobbyApp[m[1]]} \subseteq steady =>
      \/ m \in doc.members
      \/ LobbyApp[m[1]] \in apps
      \/ step = "typeGrants" /\ LobbyApp[m[1]] = here
      \/ step = "lobbyRooms" /\ m[1] \in todo

\* An actor's scope is lost only with the scope.
ScopesBound ==
  Reading => \A a \in Listed(doc.actor) :
    doc.actor[a].scope = NoScope => \E s \in bound[a] : s = NoScope \/ s \notin steady

HeldInv ==
  /\ ScopesHeld /\ AppsHeld /\ ActorsHeld /\ RoomsHeld
  /\ TypeGrantsHeld /\ ActorGrantsHeld /\ LobbiesHeld /\ MembersHeld /\ ScopesBound

\* What history forgets need not be in the document.
LEMMA HeldForgets ==
  ASSUME HeldInv, ExportTypeOK, UNCHANGED exportVars, RecordExport
  PROVE  HeldInv'
<1> USE DEF HeldInv, exportVars
<1>1. CASE Reading
  <2>1. /\ steady' \subseteq steady /\ joined' \subseteq joined
        /\ \A a \in Actor : bound[a] \subseteq bound'[a]
    BY <1>1, HistoryShrinks DEF Reading
  <2>2. PastScopes' = PastScopes /\ PastApps' = PastApps /\ PastActors' = PastActors
    BY DEF PastScopes, PastApps, PastActors, Reading
  <2>3. ScopesHeld' /\ AppsHeld' /\ ActorsHeld' /\ RoomsHeld'
    BY <2>1, <2>2 DEF ScopesHeld, AppsHeld, ActorsHeld, RoomsHeld
  <2>4. TypeGrantsHeld' /\ ActorGrantsHeld' /\ LobbiesHeld'
    BY <2>1, <2>2 DEF TypeGrantsHeld, ActorGrantsHeld, LobbiesHeld
  <2>5. MembersHeld'
    BY <2>1, <2>2 DEF MembersHeld
  <2>6. Listed(doc.actor) \subseteq Actor
    BY DEF ExportTypeOK, Document, Listed
  <2>7. ScopesBound'
    BY <2>1, <2>6 DEF ScopesBound, Reading
  <2> QED BY <2>3, <2>4, <2>5, <2>7
<1>2. CASE ~Reading
  BY <1>2 DEF Reading, PastScopes, PastApps, PastActors, ScopesHeld, AppsHeld, ActorsHeld,
     RoomsHeld, TypeGrantsHeld, ActorGrantsHeld, LobbiesHeld, MembersHeld, ScopesBound
<1> QED BY <1>1, <1>2

\* The queries before the loops.
LEMMA FirstQueriesHold ==
  ASSUME ConfigTypeInv, LoopInv, HeldInv, RecordExport,
         ExportProject \/ ExportScopes \/ ExportApps
  PROVE  LoopInv' /\ HeldInv'
<1> USE DEF ConfigTypeInv, TypeOK, TablesOK, ExportTypeOK, TablesTypeOK, Reading, PastScopes,
            PastApps, PastActors
<1>a. /\ LiveRows \cap Scope \subseteq { s \in Listed(db.scope) : ScopeProject[s] = Exported }
      /\ LiveRows \cap App \subseteq { p \in Listed(db.app) : AppProject[p] = Exported }
  BY LiveRowsByTable
<1>1. CASE ExportProject
  <2>1. step' = "scopes" /\ todo' = {} /\ Listed(doc'.actor) = {}
    BY <1>1, FirstDoc DEF ExportProject, Query, LoopInv
  <2>2. LoopInv'
    BY <2>1 DEF LoopInv
  <2>3. ScopesBound'
    BY <2>1 DEF ScopesBound
  <2> QED BY <2>1, <2>2, <2>3 DEF HeldInv, ScopesHeld, AppsHeld, ActorsHeld, RoomsHeld,
             TypeGrantsHeld, ActorGrantsHeld, LobbiesHeld, MembersHeld
<1>2. CASE ExportScopes
  <2>1. /\ Query("scopes", "apps") /\ todo' = todo
        /\ doc' = [doc EXCEPT !.scope = doc'.scope]
        /\ { s \in Listed(db.scope) : ScopeProject[s] = Exported } \subseteq Listed(doc'.scope)
    BY <1>2, ScopesQuery DEF ExportScopes
  <2>2. step = "scopes" /\ step' = "apps"
    BY <2>1 DEF Query
  <2>3. /\ steady' \subseteq steady /\ steady' \subseteq LiveRows
        /\ \A a \in Actor : bound[a] \subseteq bound'[a]
    BY <2>1, <2>2, QueryHistory
  <2>4. LoopInv'
    BY <2>1, <2>2 DEF LoopInv
  <2>5. ScopesHeld'
    BY <1>a, <2>1, <2>3 DEF ScopesHeld
  <2>6. doc'.actor = doc.actor /\ Listed(doc.actor) \subseteq Actor
    BY <2>1 DEF Document, Listed
  <2>7. ScopesBound'
    BY <2>2, <2>3, <2>6 DEF HeldInv, ScopesBound
  <2> QED BY <2>2, <2>4, <2>5, <2>7 DEF HeldInv, AppsHeld, ActorsHeld, RoomsHeld,
             TypeGrantsHeld, ActorGrantsHeld, LobbiesHeld, MembersHeld
<1>3. CASE ExportApps
  <2>1. /\ Query("apps", "lobbyRooms") /\ todo' = todo
        /\ doc' = [doc EXCEPT !.app = doc'.app]
        /\ apps' = { p \in Listed(db.app) : AppProject[p] = Exported }
        /\ apps' \subseteq Listed(doc'.app)
    BY <1>3, AppsQuery DEF ExportApps
  <2>2. step = "apps" /\ step' = "lobbyRooms" /\ todo' = {}
    BY <2>1 DEF Query, LoopInv
  <2>3. /\ steady' \subseteq steady /\ steady' \subseteq LiveRows
        /\ joined' \subseteq joined
        /\ \A a \in Actor : bound[a] \subseteq bound'[a]
    BY <2>1, <2>2, QueryHistory
  <2>4. \A p \in App \cap steady' : p \in apps'
    BY <1>a, <2>1, <2>3
  <2>5. /\ \A r \in Room : RoomApp[r] \in App
        /\ \A g \in RoomGrant : RoomApp[GrantRoom[g]] \in App
        /\ \A l \in Lobby : LobbyApp[l] \in App
        /\ \A m \in joined : LobbyApp[m[1]] \in App
    BY KeysAssumption, ConfigAssumption DEF HistoryTypeOK
  <2>6. LoopInv'
    BY <2>2 DEF LoopInv
  <2>7. doc'.scope = doc.scope /\ doc'.actor = doc.actor /\ Listed(doc.actor) \subseteq Actor
    BY <2>1 DEF Document, Listed
  <2>8. ScopesHeld' /\ AppsHeld'
    BY <2>1, <2>2, <2>3, <2>4, <2>7 DEF HeldInv, ScopesHeld, AppsHeld
  <2>9. RoomsHeld' /\ TypeGrantsHeld' /\ LobbiesHeld' /\ MembersHeld'
    BY <2>3, <2>4, <2>5 DEF RoomsHeld, TypeGrantsHeld, LobbiesHeld, MembersHeld
  <2>10. ScopesBound'
    BY <2>2, <2>3, <2>7 DEF HeldInv, ScopesBound
  <2> QED BY <2>2, <2>6, <2>8, <2>9, <2>10 DEF HeldInv, ActorsHeld, ActorGrantsHeld
<1> QED BY <1>1, <1>2, <1>3

\* The loop over the apps.
LEMMA AppLoopHolds ==
  ASSUME ConfigTypeInv, LoopInv, MembersFit, HeldInv, RecordExport,
         \/ \E p \in App : ExportRooms(p)
         \/ \E r \in Room : ExportTypeGrants(r)
         \/ ExportLobbies
         \/ \E l \in Lobby : ExportLobbyRooms(l)
  PROVE  LoopInv' /\ HeldInv'
<1> USE DEF ConfigTypeInv, TypeOK, TablesOK, ExportTypeOK, TablesTypeOK, Reading, PastScopes,
            PastApps, PastActors
<1>a. /\ Query("lobbyRooms", "typeGrants") \/ Query("typeGrants", "typeGrants")
           \/ Query("typeGrants", "lobbyRooms") \/ Query("lobbyRooms", "lobbyRooms")
      /\ step \in {"typeGrants", "lobbyRooms"} /\ step' \in {"typeGrants", "lobbyRooms"}
  BY DEF ExportRooms, ExportTypeGrants, ExportLobbies, ExportLobbyRooms, Query
<1>b. /\ steady' \subseteq steady /\ steady' \subseteq LiveRows
      /\ joined' \subseteq joined /\ joined' \subseteq Memberships(db)
      /\ \A a \in Actor : bound[a] \subseteq bound'[a]
  BY <1>a, QueryHistory
<1>c. /\ \A r \in Room \cap steady' : r \in Listed(db.room)
      /\ \A g \in RoomGrant \cap steady' : g \in Listed(db.roomGrant)
      /\ \A l \in Lobby \cap steady' : l \in LiveLobbies(db)
  BY <1>b, LiveRowsByTable
<1>d. /\ \A g \in RoomGrant : GrantRoom[g] \in Room
      /\ \A m \in joined : m \in Lobby \X Room
      /\ \A m \in joined' : RoomApp[m[2]] = LobbyApp[m[1]]
      /\ Listed(doc.actor) \subseteq Actor
  BY <1>b, KeysAssumption DEF HistoryTypeOK, Memberships, MembersFit, Document, Listed
<1>e. ASSUME UNCHANGED <<doc.scope, doc.app, doc.actor>>
      PROVE  ScopesHeld' /\ AppsHeld' /\ ScopesBound' /\ ActorsHeld' /\ ActorGrantsHeld'
  <2>1. ScopesHeld' /\ AppsHeld' /\ ActorsHeld' /\ ActorGrantsHeld'
    BY <1>a, <1>b, <1>e DEF HeldInv, ScopesHeld, AppsHeld, ActorsHeld, ActorGrantsHeld
  <2>2. ScopesBound'
    BY <1>a, <1>b, <1>d, <1>e DEF HeldInv, ScopesBound
  <2> QED BY <2>1, <2>2
<1>1. ASSUME NEW p \in App, ExportRooms(p) PROVE LoopInv' /\ HeldInv'
  <2>1. /\ doc' = [doc EXCEPT !.room = doc'.room]
        /\ todo' = { r \in Listed(db.room) : RoomApp[r] = p }
        /\ Listed(doc'.room) = todo' \cup Listed(doc.room)
        /\ step = "lobbyRooms" /\ step' = "typeGrants"
        /\ p \in apps /\ apps' = apps \ {p} /\ here' = p /\ todo = {}
    BY <1>1, RoomsQuery DEF ExportRooms, Query
  <2>2. UNCHANGED <<doc.scope, doc.app, doc.actor, doc.roomGrant, doc.lobby, doc.members>>
    BY <2>1 DEF Document
  <2>3. LoopInv'
    BY <2>1 DEF LoopInv
  <2>4. RoomsHeld'
    BY <1>b, <1>c, <2>1 DEF HeldInv, RoomsHeld
  <2>5. TypeGrantsHeld'
    BY <1>b, <1>c, <1>d, <2>1, <2>2 DEF HeldInv, TypeGrantsHeld
  <2>6. LobbiesHeld'
    BY <1>b, <2>1, <2>2 DEF HeldInv, LobbiesHeld
  <2>7. MembersHeld'
    BY <1>b, <2>1, <2>2 DEF HeldInv, MembersHeld
  <2> QED BY <1>e, <2>2, <2>3, <2>4, <2>5, <2>6, <2>7 DEF HeldInv
<1>2. ASSUME NEW r \in Room, ExportTypeGrants(r) PROVE LoopInv' /\ HeldInv'
  <2>1. /\ doc' = [doc EXCEPT !.roomGrant = doc'.roomGrant]
        /\ Listed(doc'.roomGrant) =
             { g \in GrantsOn(db, r) : GrantTarget[g] \in ActorType } \cup Listed(doc.roomGrant)
        /\ step = "typeGrants" /\ step' = "typeGrants"
        /\ r \in todo /\ todo' = todo \ {r} /\ apps' = apps /\ here' = here
    BY <1>2, TypeGrantsQuery DEF ExportTypeGrants, Query
  <2>2. UNCHANGED <<doc.scope, doc.app, doc.actor, doc.room, doc.lobby, doc.members>>
    BY <2>1 DEF Document
  <2>3. LoopInv'
    BY <2>1 DEF LoopInv
  <2>4. RoomsHeld'
    BY <1>b, <2>1, <2>2 DEF HeldInv, RoomsHeld
  <2>5. \A g \in RoomGrant : g \in Listed(db.roomGrant) /\ GrantRoom[g] = r => g \in GrantsOn(db, r)
    BY DEF GrantsOn, Listed
  <2>6. TypeGrantsHeld'
    BY <1>b, <1>c, <1>d, <2>1, <2>5 DEF HeldInv, TypeGrantsHeld
  <2>7. LobbiesHeld'
    BY <1>b, <2>1, <2>2 DEF HeldInv, LobbiesHeld
  <2>8. MembersHeld'
    BY <1>b, <2>1, <2>2 DEF HeldInv, MembersHeld
  <2> QED BY <1>e, <2>2, <2>3, <2>4, <2>6, <2>7, <2>8 DEF HeldInv
<1>3. CASE ExportLobbies
  <2>1. /\ doc' = [doc EXCEPT !.lobby = doc.lobby \cup todo']
        /\ todo' = { l \in LiveLobbies(db) : LobbyApp[l] = here }
        /\ step = "typeGrants" /\ step' = "lobbyRooms"
        /\ todo = {} /\ apps' = apps /\ here' = here
    BY <1>3 DEF ExportLobbies, Query, Document
  <2>2. /\ UNCHANGED <<doc.scope, doc.app, doc.actor, doc.room, doc.roomGrant, doc.members>>
        /\ doc'.lobby = doc.lobby \cup todo'
    BY <2>1 DEF Document
  <2>3. LoopInv'
    BY <2>1 DEF LoopInv
  <2>4. RoomsHeld' /\ TypeGrantsHeld'
    BY <1>b, <2>1, <2>2 DEF HeldInv, RoomsHeld, TypeGrantsHeld
  <2>5. LobbiesHeld'
    BY <1>b, <1>c, <2>1, <2>2 DEF HeldInv, LobbiesHeld
  <2>6. MembersHeld'
    BY <1>b, <1>c, <1>d, <2>1, <2>2 DEF HeldInv, MembersHeld
  <2> QED BY <1>e, <2>2, <2>3, <2>4, <2>5, <2>6 DEF HeldInv
<1>4. ASSUME NEW l \in Lobby, ExportLobbyRooms(l) PROVE LoopInv' /\ HeldInv'
  <2> DEFINE found == { m \in Memberships(db) : m[1] = l /\ m[2] \in Listed(doc.room) }
  <2>1. /\ doc' = [doc EXCEPT !.members = doc.members \cup found]
        /\ step = "lobbyRooms" /\ step' = "lobbyRooms"
        /\ l \in todo /\ todo' = todo \ {l} /\ apps' = apps /\ here' = here
    BY <1>4 DEF ExportLobbyRooms, Query, Document
  <2>2. /\ UNCHANGED <<doc.scope, doc.app, doc.actor, doc.room, doc.roomGrant, doc.lobby>>
        /\ doc'.members = doc.members \cup found
    BY <2>1 DEF Document
  <2>3. LoopInv'
    BY <2>1 DEF LoopInv
  <2>4. RoomsHeld' /\ TypeGrantsHeld' /\ LobbiesHeld'
    BY <1>b, <2>1, <2>2 DEF HeldInv, RoomsHeld, TypeGrantsHeld, LobbiesHeld
  <2>5. ASSUME NEW m \in joined', {m[1], m[2], LobbyApp[m[1]]} \subseteq steady', m[1] = l
        PROVE  m \in found
    <3>1. m \in Memberships(db) /\ m[2] \in Room /\ RoomApp[m[2]] = LobbyApp[l]
      BY <1>b, <1>d, <2>5
    <3>2. LobbyApp[l] \notin apps
      BY <2>1 DEF LoopInv
    <3>3. m[2] \in Listed(doc.room)
      BY <1>a, <1>b, <2>5, <3>1, <3>2 DEF HeldInv, RoomsHeld
    <3> QED BY <2>5, <3>1, <3>3
  <2> HIDE DEF found
  <2>6. MembersHeld'
    BY <1>b, <2>1, <2>2, <2>5 DEF HeldInv, MembersHeld
  <2> QED BY <1>e, <2>2, <2>3, <2>4, <2>6 DEF HeldInv
<1> QED BY <1>1, <1>2, <1>3, <1>4

\* The loop over the actors.
LEMMA ActorLoopHolds ==
  ASSUME ConfigTypeInv, LoopInv, HeldInv, RecordExport,
         \/ ExportActors
         \/ \E a \in Actor : ExportAppGrants(a)
         \/ ExportRoomGrants
         \/ ExportKeys
  PROVE  LoopInv' /\ HeldInv'
<1> USE DEF ConfigTypeInv, TypeOK, TablesOK, ExportTypeOK, TablesTypeOK, Reading, PastScopes,
            PastApps, PastActors
<1>a. /\ Query("lobbyRooms", "appGrants") \/ Query("appGrants", "roomGrants")
           \/ Query("roomGrants", "appGrants") \/ Query("appGrants", "written")
      /\ step \in {"lobbyRooms", "appGrants", "roomGrants"}
      /\ step' \in {"appGrants", "roomGrants", "written"}
      /\ apps = {} /\ apps' = {}
      /\ step = "lobbyRooms" => todo = {}
  BY DEF ExportActors, ExportAppGrants, ExportRoomGrants, ExportKeys, Query, LoopInv
<1>b. /\ steady' \subseteq steady /\ steady' \subseteq LiveRows
      /\ joined' \subseteq joined
      /\ \A a \in Actor : bound'[a] = bound[a] \cup {db.actor[a].scope}
  BY <1>a, QueryHistory
<1>c. /\ \A g \in RoomGrant \cap steady' : g \in Listed(db.roomGrant)
      /\ \A a \in Actor \cap steady' : a \in Listed(db.actor) /\ ActorProject[a] = Exported
  BY <1>b, LiveRowsByTable
<1>d. /\ \A g \in RoomGrant : GrantRoom[g] \in Room
      /\ Listed(doc.actor) \subseteq Actor
      /\ \A a \in Actor : db.actor[a].scope \in Scope \cup {NoScope}
  BY KeysAssumption DEF Document, Listed, Database, ActorRow
<1>e. ASSUME UNCHANGED <<doc.scope, doc.app, doc.room, doc.lobby, doc.members>>
      PROVE  LoopInv' /\ ScopesHeld' /\ AppsHeld' /\ RoomsHeld' /\ LobbiesHeld' /\ MembersHeld'
  <2>1. LoopInv'
    BY <1>a DEF LoopInv
  <2>2. ScopesHeld' /\ AppsHeld' /\ RoomsHeld'
    BY <1>a, <1>b, <1>e DEF HeldInv, ScopesHeld, AppsHeld, RoomsHeld
  <2>3. LobbiesHeld' /\ MembersHeld'
    BY <1>a, <1>b, <1>e DEF HeldInv, LobbiesHeld, MembersHeld
  <2> QED BY <2>1, <2>2, <2>3
<1>f. ASSUME UNCHANGED doc.actor, step # "lobbyRooms"
      PROVE  ActorsHeld' /\ ScopesBound'
  <2>1. ActorsHeld'
    BY <1>a, <1>b, <1>f DEF HeldInv, ActorsHeld
  <2>2. ScopesBound'
    BY <1>a, <1>b, <1>d, <1>f DEF HeldInv, ScopesBound
  <2> QED BY <2>1, <2>2
<1>g. ASSUME Listed(doc.roomGrant) \subseteq Listed(doc'.roomGrant)
      PROVE  TypeGrantsHeld'
  BY <1>a, <1>b, <1>g DEF HeldInv, TypeGrantsHeld
<1>1. CASE ExportActors
  <2>1. /\ doc' = [doc EXCEPT !.actor = doc'.actor]
        /\ todo' = { a \in Listed(db.actor) : ActorProject[a] = Exported }
        /\ Listed(doc'.actor) = todo' \cup Listed(doc.actor)
        /\ \A a \in Actor : doc'.actor[a].scope =
             IF a \notin todo' THEN doc.actor[a].scope
             ELSE IF db.actor[a].scope \in Listed(doc.scope) THEN db.actor[a].scope
             ELSE NoScope
        /\ step = "lobbyRooms" /\ step' = "appGrants"
    BY <1>1, ActorsQuery DEF ExportActors, Query
  <2>2. UNCHANGED <<doc.scope, doc.app, doc.room, doc.roomGrant, doc.lobby, doc.members>>
    BY <2>1 DEF Document
  <2>3. ActorsHeld' /\ ActorGrantsHeld'
    <3>1. \A a \in Actor \cap steady' : a \in todo'
      BY <1>c, <2>1
    <3>2. ActorsHeld'
      BY <2>1, <3>1 DEF ActorsHeld
    <3>3. ActorGrantsHeld'
      BY <2>1, <3>1 DEF ActorGrantsHeld
    <3> QED BY <3>2, <3>3
  <2>4. ASSUME NEW a \in Listed(doc'.actor), doc'.actor[a].scope = NoScope
        PROVE  \E s \in bound'[a] : s = NoScope \/ s \notin steady'
    <3>1. a \in Actor
      BY <1>d, <2>1 DEF Listed, Database
    <3>2. CASE a \notin todo'
      BY <1>b, <2>1, <2>4, <3>1, <3>2 DEF HeldInv, ScopesBound
    <3>3. CASE a \in todo'
      <4>1. db.actor[a].scope \in bound'[a]
        BY <1>b, <3>1
      <4>2. db.actor[a].scope # NoScope => db.actor[a].scope \notin Listed(doc.scope)
        BY <2>1, <2>4, <3>1, <3>3
      <4>3. db.actor[a].scope # NoScope => db.actor[a].scope \notin steady
        BY <1>d, <2>1, <3>1, <4>2 DEF HeldInv, ScopesHeld
      <4> QED BY <1>b, <4>1, <4>3
    <3> QED BY <3>2, <3>3
  <2>5. ScopesBound'
    BY <2>4 DEF ScopesBound
  <2>6. Listed(doc'.roomGrant) = Listed(doc.roomGrant)
    BY <2>2
  <2> QED BY <1>e, <1>g, <2>2, <2>3, <2>5, <2>6 DEF HeldInv
<1>2. ASSUME NEW a \in Actor, ExportAppGrants(a) PROVE LoopInv' /\ HeldInv'
  <2>1. /\ doc' = [doc EXCEPT !.appGrant = doc'.appGrant] /\ todo' = todo
        /\ step = "appGrants" /\ step' = "roomGrants"
    BY <1>2, AppGrantsQuery DEF ExportAppGrants, Query
  <2>2. /\ UNCHANGED <<doc.scope, doc.app, doc.room, doc.lobby, doc.members>>
        /\ UNCHANGED <<doc.actor, doc.roomGrant>>
    BY <2>1 DEF Document
  <2>3. ActorGrantsHeld'
    BY <1>b, <2>1, <2>2 DEF HeldInv, ActorGrantsHeld
  <2> QED BY <1>e, <1>f, <1>g, <2>1, <2>2, <2>3 DEF HeldInv
<1>3. CASE ExportRoomGrants
  <2> DEFINE found == { g \in Listed(db.roomGrant) : /\ GrantTarget[g] = here
                                                     /\ GrantRoom[g] \in Listed(doc.room) }
  <2>1. /\ doc' = [doc EXCEPT !.roomGrant = doc'.roomGrant]
        /\ Listed(doc'.roomGrant) = found \cup Listed(doc.roomGrant)
        /\ todo' = todo \ {here}
        /\ step = "roomGrants" /\ step' = "appGrants"
    BY <1>3, RoomGrantsQuery DEF ExportRoomGrants, Query
  <2>2. /\ UNCHANGED <<doc.scope, doc.app, doc.room, doc.lobby, doc.members>>
        /\ UNCHANGED doc.actor
    BY <2>1 DEF Document
  <2>3. ASSUME NEW g \in RoomGrant \cap steady', GrantTarget[g] = here,
               {GrantRoom[g], RoomApp[GrantRoom[g]]} \subseteq steady'
        PROVE  g \in found
    <3>1. GrantRoom[g] \in Listed(doc.room)
      BY <1>a, <1>b, <1>d, <2>3 DEF HeldInv, RoomsHeld
    <3> QED BY <1>c, <2>3, <3>1
  <2> HIDE DEF found
  <2>4. ActorGrantsHeld'
    BY <1>b, <2>1, <2>3 DEF HeldInv, ActorGrantsHeld
  <2> QED BY <1>e, <1>f, <1>g, <2>1, <2>2, <2>4 DEF HeldInv
<1>4. CASE ExportKeys
  <2>1. doc' = doc /\ todo' = todo /\ todo = {} /\ step = "appGrants" /\ step' = "written"
    BY <1>4 DEF ExportKeys, Query
  <2>2. ActorGrantsHeld'
    BY <1>b, <2>1 DEF HeldInv, ActorGrantsHeld
  <2> QED BY <1>e, <1>f, <1>g, <2>1, <2>2 DEF HeldInv
<1> QED BY <1>1, <1>2, <1>3, <1>4

LEMMA EditsFit ==
  ASSUME MembersFit, ConfigNext
  PROVE  MembersFit'
<1>1. CASE UNCHANGED members
  BY <1>1 DEF MembersFit
<1>2. ASSUME NEW l \in Lobby, NEW r \in Room, AddMember(l, r) \/ RemoveMember(l, r)
      PROVE  MembersFit'
  BY <1>2 DEF AddMember, RemoveMember, MembersFit
<1>3. UNCHANGED members \/ \E l \in Lobby, r \in Room : AddMember(l, r) \/ RemoveMember(l, r)
  BY DEF ConfigNext, EditStep, CreateLobby, DeleteLobby, SyncLimits, ExportStep,
     ExportProject, ExportScopes, ExportApps, ExportRooms, ExportTypeGrants,
     ExportLobbies, ExportLobbyRooms, ExportActors, ExportAppGrants, ExportRoomGrants,
     ExportKeys, Query, ImportExport, ImportHandWritten, lobbyVars
<1> QED BY <1>1, <1>2, <1>3

ExportInv == ConfigTypeInv /\ LoopInv /\ MembersFit /\ HeldInv

LEMMA ExportStart == ConfigInit => ExportInv
<1> SUFFICES ASSUME ConfigInit PROVE ExportInv
  OBVIOUS
<1>1. ConfigTypeInv /\ step = "idle" /\ todo = {} /\ steady = {}
  BY ConfigStart DEF ConfigInit
<1>2. LoopInv
  BY <1>1 DEF LoopInv, PastActors
<1>3. MembersFit
  BY DEF ConfigInit, MembersFit
<1>4. HeldInv
  BY <1>1 DEF HeldInv, ScopesHeld, AppsHeld, ActorsHeld, RoomsHeld, TypeGrantsHeld,
     ActorGrantsHeld, LobbiesHeld, MembersHeld, ScopesBound, Reading, PastScopes,
     PastApps, PastActors
<1> QED BY <1>1, <1>2, <1>3, <1>4 DEF ExportInv

LEMMA ExportSteps == ExportInv /\ [ConfigNext]_configVars => ExportInv'
<1> SUFFICES ASSUME ExportInv, [ConfigNext]_configVars PROVE ExportInv'
  OBVIOUS
<1> USE DEF ExportInv
<1>a. ConfigTypeInv'
  BY ConfigStep
<1>b. ASSUME UNCHANGED exportVars PROVE LoopInv'
  BY <1>b DEF exportVars, LoopInv, PastActors
<1>1. CASE UNCHANGED configVars
  <2>1. UNCHANGED <<exportVars, steady, joined, bound, members>>
    BY <1>1 DEF configVars, historyVars, lobbyVars
  <2>2. MembersFit'
    BY <2>1 DEF MembersFit
  <2>3. HeldInv'
    BY <2>1 DEF HeldInv, exportVars, ScopesHeld, AppsHeld, ActorsHeld, RoomsHeld,
       TypeGrantsHeld, ActorGrantsHeld, LobbiesHeld, MembersHeld, ScopesBound, Reading,
       PastScopes, PastApps, PastActors
  <2> QED BY <1>a, <1>b, <2>1, <2>2, <2>3
<1>2. CASE ConfigNext
  <2>1. MembersFit' /\ RecordExport
    BY <1>2, EditsFit DEF ConfigNext
  <2>2. LoopInv' /\ HeldInv'
    <3>1. CASE UNCHANGED exportVars
      BY <1>b, <2>1, <3>1, HeldForgets DEF ConfigTypeInv
    <3>2. CASE ExportStep
      BY <2>1, <3>2, FirstQueriesHold, AppLoopHolds, ActorLoopHolds DEF ExportStep
    <3>3. CASE ImportExport \/ ImportHandWritten
      <4>1. step' = "imported"
        BY <3>3 DEF ImportExport, ImportHandWritten
      <4> QED BY <4>1 DEF LoopInv, HeldInv, ScopesHeld, AppsHeld, ActorsHeld, RoomsHeld,
                 TypeGrantsHeld, ActorGrantsHeld, LobbiesHeld, MembersHeld, ScopesBound,
                 Reading, PastScopes, PastApps, PastActors
    <3> QED BY <1>2, <3>1, <3>2, <3>3, EditType DEF ConfigNext, ConfigTypeInv
  <2> QED BY <1>a, <2>1, <2>2
<1> QED BY <1>1, <1>2

\* Whatever is written between the reads of an export, what stood throughout
\* and rests on what stood throughout is in the document.
THEOREM StandingRowsKept == ConfigSpec => []StandingRowsExported
<1>1. ExportInv => StandingRowsExported
  <2> SUFFICES ASSUME ExportInv, step = "written" PROVE StandingRowsExported
    BY DEF StandingRowsExported
  <2> USE DEF ExportInv, HeldInv
  <2>a. PastScopes /\ PastApps /\ PastActors /\ apps = {}
    BY DEF PastScopes, PastApps, PastActors, Reading, LoopInv
  <2>1. ASSUME NEW x \in steady, Rests(x) \subseteq steady PROVE x \in InDocument
    <3>1. CASE x \in Scope
      BY <2>a, <3>1 DEF ScopesHeld, InDocument
    <3>2. CASE x \in App
      BY <2>a, <3>2 DEF AppsHeld, InDocument
    <3>3. CASE x \in Room
      <4>1. RoomApp[x] \in steady
        BY <2>1, <3>3, DisjointIds DEF Rests
      <4> QED BY <2>a, <3>3, <4>1 DEF RoomsHeld, InDocument
    <3>4. CASE x \in RoomGrant
      <4>1. Rests(x) = {GrantRoom[x], RoomApp[GrantRoom[x]]} \cup ({GrantTarget[x]} \ ActorType)
        BY <3>4, DisjointIds DEF Rests
      <4>2. GrantTarget[x] \in Actor \cup ActorType
        BY <3>4, KeysAssumption
      <4>3. CASE GrantTarget[x] \in ActorType
        BY <2>1, <2>a, <3>4, <4>1, <4>3 DEF TypeGrantsHeld, InDocument
      <4>4. CASE GrantTarget[x] \notin ActorType
        BY <2>1, <2>a, <3>4, <4>1, <4>2, <4>4 DEF ActorGrantsHeld, InDocument
      <4> QED BY <4>3, <4>4
    <3>5. CASE x \in Actor
      BY <2>a, <3>5 DEF ActorsHeld, InDocument
    <3>6. CASE x \in Lobby
      <4>1. LobbyApp[x] \in steady
        BY <2>1, <3>6, DisjointIds DEF Rests
      <4> QED BY <2>a, <3>6, <4>1 DEF LobbiesHeld, InDocument
    <3> QED BY <2>1, <3>1, <3>2, <3>3, <3>4, <3>5, <3>6 DEF ConfigTypeInv, HistoryTypeOK
  <2>2. ASSUME NEW m \in joined, {m[1], m[2], LobbyApp[m[1]]} \subseteq steady
        PROVE  m \in doc.members
    BY <2>2, <2>a DEF MembersHeld
  <2> QED BY <2>1, <2>2 DEF StandingRowsExported
<1> QED BY <1>1, ExportStart, ExportSteps, PTL DEF ConfigSpec

\* An actor loses its scope in a document only with the scope, or if it had
\* none at some time of the export.
THEOREM ScopesKept == ConfigSpec => []ScopeNotLost
<1>1. ExportInv => ScopeNotLost
  BY DEF ExportInv, HeldInv, ScopesBound, ScopeNotLost, Reading
<1> QED BY <1>1, ExportStart, ExportSteps, PTL DEF ConfigSpec

-----------------------------------------------------------------------------
(* Limits, of a copy made while nothing was written.                       *)

LimitsInv ==
  /\ step = "idle" => ~quiet
  /\ step # "imported" => copy.outcome = "none"
  /\ Reading /\ quiet => doc.limits = limits
  /\ quiet /\ copy.outcome = "accepted" => copy.limits = limits

\* The later queries leave the limits in the document alone.
LEMMA LimitsRead ==
  ASSUME ConfigTypeInv, ExportStep
  PROVE  doc'.limits = IF step = "idle" THEN limits ELSE doc.limits
<1> USE DEF ConfigTypeInv, TypeOK, TablesOK, ExportTypeOK
<1>1. CASE ExportProject
  BY <1>1, EmptyDocument DEF ExportProject, Query, Document
<1>2. CASE ExportScopes
  BY <1>2 DEF ExportScopes, Query, Document
<1>3. CASE ExportApps
  BY <1>3 DEF ExportApps, Query, Document
<1>4. ASSUME NEW p \in App, ExportRooms(p)
      PROVE  step # "idle" /\ doc'.limits = doc.limits
  BY <1>4 DEF ExportRooms, Query, Document
<1>5. ASSUME NEW r \in Room, ExportTypeGrants(r)
      PROVE  step # "idle" /\ doc'.limits = doc.limits
  BY <1>5 DEF ExportTypeGrants, Query, Document
<1>6. CASE ExportLobbies
  BY <1>6 DEF ExportLobbies, Query, Document
<1>7. ASSUME NEW l \in Lobby, ExportLobbyRooms(l)
      PROVE  step # "idle" /\ doc'.limits = doc.limits
  BY <1>7 DEF ExportLobbyRooms, Query, Document
<1>8. CASE ExportActors
  BY <1>8 DEF ExportActors, Query, Document
<1>9. ASSUME NEW a \in Actor, ExportAppGrants(a)
      PROVE  step # "idle" /\ doc'.limits = doc.limits
  BY <1>9 DEF ExportAppGrants, Query, Document
<1>10. CASE ExportRoomGrants
  BY <1>10 DEF ExportRoomGrants, Query, Document
<1>11. CASE ExportKeys
  BY <1>11 DEF ExportKeys, Query
<1> QED BY <1>1, <1>2, <1>3, <1>4, <1>5, <1>6, <1>7, <1>8, <1>9, <1>10, <1>11 DEF ExportStep

LEMMA LimitsStep ==
  ASSUME ConfigTypeInv, LimitsInv, [ConfigNext]_configVars
  PROVE  LimitsInv'
<1> USE DEF LimitsInv
<1>1. CASE UNCHANGED configVars
  BY <1>1 DEF configVars, historyVars, lobbyVars, exportVars, Reading
<1>2. CASE ConfigNext
  <2>1. RecordExport
    BY <1>2 DEF ConfigNext
  <2>2. CASE UNCHANGED <<exportVars, copy>>
    <3>1. ~Reading /\ quiet' => quiet /\ limits' = limits
      BY <2>1, <2>2 DEF RecordExport, Reading, exportVars
    <3>2. Reading /\ quiet' => quiet /\ limits' = limits
      BY <2>1 DEF RecordExport
    <3> QED BY <2>2, <3>1, <3>2 DEF exportVars, Reading
  <2>3. CASE ExportStep
    <3>1. UNCHANGED <<limits, copy>> /\ Reading' /\ step' # "idle"
      BY <2>3 DEF ExportStep, ExportProject, ExportScopes, ExportApps, ExportRooms,
         ExportTypeGrants, ExportLobbies, ExportLobbyRooms, ExportActors,
         ExportAppGrants, ExportRoomGrants, ExportKeys, Query, Reading, lobbyVars
    <3>2. step # "imported"
      BY <2>3 DEF ExportStep, ExportProject, ExportScopes, ExportApps, ExportRooms,
         ExportTypeGrants, ExportLobbies, ExportLobbyRooms, ExportActors,
         ExportAppGrants, ExportRoomGrants, ExportKeys, Query
    <3>3. step # "idle" /\ quiet' => quiet
      BY <2>1, <3>2 DEF RecordExport, Reading
    <3> QED BY <2>3, <3>1, <3>2, <3>3, LimitsRead DEF Reading
  <2>4. CASE ImportExport
    <3>1. step = "written" /\ step' = "imported" /\ copy' = ImportResult(doc) /\ limits' = limits
      BY <2>4 DEF ImportExport, lobbyVars
    <3>2. quiet' => quiet
      BY <2>1, <3>1 DEF RecordExport, Reading
    <3>3. copy'.outcome = "accepted" => copy'.limits = doc.limits
      BY <3>1 DEF ImportResult, ImportedLimits, NoCopy
    <3> QED BY <3>1, <3>2, <3>3 DEF Reading
  <2>5. CASE ImportHandWritten
    <3>1. step = "idle" /\ step' = "imported"
      BY <2>5 DEF ImportHandWritten
    <3>2. ~quiet'
      BY <2>1, <3>1 DEF RecordExport, Reading
    <3> QED BY <3>1, <3>2 DEF Reading
  <2> QED BY <1>2, <2>2, <2>3, <2>4, <2>5, EditType DEF ConfigNext, ConfigTypeInv
<1> QED BY <1>1, <1>2

\* A copy made while nothing was written enforces the limits of the
\* original: null, zero and never synchronised keep their meanings.
THEOREM LimitsKept == ConfigSpec => []LimitsSurvive
<1>1. ConfigInit => ConfigTypeInv /\ LimitsInv
  BY ConfigStart DEF ConfigInit, LimitsInv, NoCopy, Reading
<1>2. ConfigTypeInv /\ LimitsInv /\ [ConfigNext]_configVars => (ConfigTypeInv /\ LimitsInv)'
  BY ConfigStep, LimitsStep
<1>3. LimitsInv => LimitsSurvive
  BY DEF LimitsInv, LimitsSurvive, Faithful
<1> QED BY <1>1, <1>2, <1>3, PTL DEF ConfigSpec

-----------------------------------------------------------------------------
(* Copies.  What a copy made while nothing was written holds, table by     *)
(* table: the live rows of the project, and of its grants those that name  *)
(* a type or one of its live actors.                                       *)

LiveScopes(d) == { s \in Listed(d.scope) : ScopeProject[s] = Exported }
LiveApps(d) == { p \in Listed(d.app) : AppProject[p] = Exported }
LiveRooms(d) == { r \in Listed(d.room) : RoomApp[r] \in LiveApps(d) }
LiveActors(d) == { a \in Listed(d.actor) : ActorProject[a] = Exported }

ScopesMirror(d, c) == \A s \in Scope :
  c.scope[s] = IF s \in LiveScopes(d) THEN d.scope[s] ELSE NoScopeRow
AppsMirror(d, c) == \A p \in App :
  c.app[p] = IF p \in LiveApps(d) THEN AppWritten(d.app[p]) ELSE NoAppRow
RoomsMirror(d, c) == \A r \in Room :
  c.room[r] = IF r \in LiveRooms(d) THEN d.room[r] ELSE NoRoomRow
ActorsMirror(d, c) == \A a \in Actor :
  c.actor[a] = IF a \in LiveActors(d) THEN ActorWritten(d.actor[a], LiveScopes(d)) ELSE NullRow
AppGrantsMirror(d, c) == \A a \in Actor, p \in App :
  c.appGrant[a][p] = IF a \in LiveActors(d) /\ p \in LiveApps(d) \cap Listed(d.appGrant[a])
                     THEN d.appGrant[a][p] ELSE NoGrantRow
TypeGrantsMirror(d, c) == \A g \in RoomGrant : GrantTarget[g] \in ActorType =>
  c.roomGrant[g] = IF g \in Listed(d.roomGrant) /\ GrantRoom[g] \in LiveRooms(d)
                   THEN TypeGrantWritten(d.roomGrant[g]) ELSE NoGrantRow
ActorGrantsMirror(d, c) == \A g \in RoomGrant : GrantTarget[g] \in Actor =>
  c.roomGrant[g] = IF /\ g \in Listed(d.roomGrant) /\ GrantRoom[g] \in LiveRooms(d)
                      /\ GrantTarget[g] \in LiveActors(d)
                   THEN d.roomGrant[g] ELSE NoGrantRow

Mirrors(d, c) ==
  /\ ScopesMirror(d, c) /\ AppsMirror(d, c) /\ RoomsMirror(d, c) /\ ActorsMirror(d, c)
  /\ AppGrantsMirror(d, c) /\ TypeGrantsMirror(d, c) /\ ActorGrantsMirror(d, c)

\* The same of a document in the making.
RoomsRead == { r \in LiveRooms(db) : PastApps /\ RoomApp[r] \notin apps }

ScopesSoFar ==
  IF PastScopes THEN ScopesMirror(db, doc) ELSE doc.scope = EmptyDoc.scope
AppsSoFar ==
  IF PastApps THEN AppsMirror(db, doc) /\ apps \subseteq LiveApps(db)
  ELSE doc.app = EmptyDoc.app
ActorsSoFar ==
  IF PastActors THEN ActorsMirror(db, doc) /\ todo \subseteq LiveActors(db)
  ELSE doc.actor = EmptyDoc.actor
RoomsSoFar == \A r \in Room :
  doc.room[r] = IF r \in RoomsRead THEN db.room[r] ELSE NoRoomRow
AppGrantsSoFar == \A a \in Actor, p \in App :
  doc.appGrant[a][p] =
    IF /\ PastActors /\ a \in LiveActors(db)
       /\ a \in todo => step = "roomGrants" /\ a = here
       /\ p \in LiveApps(db) \cap Listed(db.appGrant[a])
    THEN db.appGrant[a][p] ELSE NoGrantRow
TypeGrantsSoFar == \A g \in RoomGrant : GrantTarget[g] \in ActorType =>
  doc.roomGrant[g] =
    IF /\ g \in Listed(db.roomGrant) /\ GrantRoom[g] \in RoomsRead
       /\ step = "typeGrants" => GrantRoom[g] \notin todo
    THEN TypeGrantWritten(db.roomGrant[g]) ELSE NoGrantRow
ActorGrantsSoFar == \A g \in RoomGrant : GrantTarget[g] \in Actor =>
  doc.roomGrant[g] =
    IF /\ g \in Listed(db.roomGrant) /\ GrantRoom[g] \in RoomsRead
       /\ PastActors /\ GrantTarget[g] \in LiveActors(db) \ todo
    THEN db.roomGrant[g] ELSE NoGrantRow

MirrorsSoFar ==
  /\ db.project[Exported] = "live"
  /\ step = "roomGrants" => here \in todo
  /\ step = "written" => todo = {}
  /\ ScopesSoFar /\ AppsSoFar /\ ActorsSoFar /\ RoomsSoFar
  /\ AppGrantsSoFar /\ TypeGrantsSoFar /\ ActorGrantsSoFar

CopyInv ==
  /\ Reading /\ quiet => MirrorsSoFar
  /\ Faithful => Mirrors(db, copy.tables) /\ db.project[Exported] = "live"
                   /\ copy.tables.project[Exported] = "live"

\* What each query writes, row by row.
LEMMA ScopeRows ==
  ASSUME db \in Database, doc \in Document, ExportScopes
  PROVE  \A s \in Scope :
           doc'.scope[s] = IF s \in LiveScopes(db) THEN db.scope[s] ELSE doc.scope[s]
<1>1. doc'.scope = Take(db.scope, LiveScopes(db), doc.scope)
  BY DEF ExportScopes, Document, LiveScopes
<1>2. DOMAIN db.scope = Scope
  BY DEF Database
<1> QED BY <1>1, <1>2 DEF Take

LEMMA AppRows ==
  ASSUME db \in Database, doc \in Document, ExportApps
  PROVE  /\ apps' = LiveApps(db)
         /\ \A p \in App :
              doc'.app[p] = IF p \in LiveApps(db) THEN AppWritten(db.app[p]) ELSE doc.app[p]
<1> DEFINE table == [p \in App |-> AppWritten(db.app[p])]
<1>1. doc'.app = Take(table, LiveApps(db), doc.app) /\ apps' = LiveApps(db)
  BY DEF ExportApps, Document, LiveApps, AppWritten
<1>2. DOMAIN table = App /\ \A p \in App : table[p] = AppWritten(db.app[p])
  OBVIOUS
<1> HIDE DEF table
<1> QED BY <1>1, <1>2 DEF Take

LEMMA RoomRows ==
  ASSUME db \in Database, doc \in Document, NEW p \in App, ExportRooms(p)
  PROVE  \A r \in Room :
           doc'.room[r] = IF r \in Listed(db.room) /\ RoomApp[r] = p
                          THEN db.room[r] ELSE doc.room[r]
<1> DEFINE found == { r \in Listed(db.room) : RoomApp[r] = p }
<1>1. doc'.room = Take(db.room, found, doc.room)
  BY DEF ExportRooms, Document
<1>2. DOMAIN db.room = Room
  BY DEF Database
<1> QED BY <1>1, <1>2 DEF Take

LEMMA TypeGrantRows ==
  ASSUME db \in Database, doc \in Document, NEW r \in Room, ExportTypeGrants(r)
  PROVE  \A g \in RoomGrant :
           doc'.roomGrant[g] =
             IF g \in Listed(db.roomGrant) /\ GrantRoom[g] = r /\ GrantTarget[g] \in ActorType
             THEN TypeGrantWritten(db.roomGrant[g]) ELSE doc.roomGrant[g]
<1> DEFINE found == { g \in GrantsOn(db, r) : GrantTarget[g] \in ActorType }
           table == [g \in RoomGrant |-> TypeGrantWritten(db.roomGrant[g])]
<1>1. doc'.roomGrant = Take(table, found, doc.roomGrant)
  BY DEF ExportTypeGrants, Document, TypeGrantWritten
<1>2. DOMAIN table = RoomGrant /\ \A g \in RoomGrant : table[g] = TypeGrantWritten(db.roomGrant[g])
  OBVIOUS
<1>3. \A g \in RoomGrant : g \in found <=> /\ g \in Listed(db.roomGrant) /\ GrantRoom[g] = r
                                          /\ GrantTarget[g] \in ActorType
  BY DEF GrantsOn, Listed, Database
<1> HIDE DEF table, found
<1> QED BY <1>1, <1>2, <1>3 DEF Take

LEMMA ActorRows ==
  ASSUME db \in Database, doc \in Document, ExportActors
  PROVE  /\ todo' = LiveActors(db)
         /\ \A a \in Actor :
              doc'.actor[a] = IF a \in LiveActors(db)
                              THEN ActorWritten(db.actor[a], Listed(doc.scope)) ELSE doc.actor[a]
<1> DEFINE table == [a \in Actor |-> ActorWritten(db.actor[a], Listed(doc.scope))]
<1>1. doc'.actor = Take(table, LiveActors(db), doc.actor) /\ todo' = LiveActors(db)
  BY DEF ExportActors, Document, LiveActors, ActorWritten
<1>2. DOMAIN table = Actor
      /\ \A a \in Actor : table[a] = ActorWritten(db.actor[a], Listed(doc.scope))
  OBVIOUS
<1> HIDE DEF table
<1> QED BY <1>1, <1>2 DEF Take

LEMMA AppGrantRows ==
  ASSUME db \in Database, doc \in Document, NEW a \in Actor, ExportAppGrants(a)
  PROVE  \A b \in Actor, p \in App :
           doc'.appGrant[b][p] =
             IF b = a /\ p \in Listed(db.appGrant[a]) \cap Listed(doc.app)
             THEN db.appGrant[b][p] ELSE doc.appGrant[b][p]
<1> DEFINE found == Listed(db.appGrant[a]) \cap Listed(doc.app)
<1>1. doc'.appGrant = [doc.appGrant EXCEPT ![a] = Take(db.appGrant[a], found, doc.appGrant[a])]
  BY DEF ExportAppGrants, Document
<1>2. DOMAIN db.appGrant[a] = App /\ DOMAIN doc.appGrant = Actor
  BY DEF Database, Document
<1>3. \A p \in App : Take(db.appGrant[a], found, doc.appGrant[a])[p] =
        IF p \in found THEN db.appGrant[a][p] ELSE doc.appGrant[a][p]
  BY <1>2 DEF Take
<1> HIDE DEF found
<1>4. \A b \in Actor : doc'.appGrant[b] =
        IF b = a THEN Take(db.appGrant[a], found, doc.appGrant[a]) ELSE doc.appGrant[b]
  BY <1>1, <1>2
<1> QED BY <1>3, <1>4 DEF found

LEMMA ActorGrantRows ==
  ASSUME db \in Database, doc \in Document, ExportRoomGrants
  PROVE  \A g \in RoomGrant :
           doc'.roomGrant[g] =
             IF g \in Listed(db.roomGrant) /\ GrantTarget[g] = here
                  /\ GrantRoom[g] \in Listed(doc.room)
             THEN db.roomGrant[g] ELSE doc.roomGrant[g]
<1> DEFINE found == { g \in Listed(db.roomGrant) : /\ GrantTarget[g] = here
                                                   /\ GrantRoom[g] \in Listed(doc.room) }
<1>1. doc'.roomGrant = Take(db.roomGrant, found, doc.roomGrant)
  BY DEF ExportRoomGrants, Document
<1>2. DOMAIN db.roomGrant = RoomGrant
  BY DEF Database
<1> QED BY <1>1, <1>2 DEF Take

\* What the document lists by now.
LEMMA ReadSoFar ==
  ASSUME db \in Database, doc \in Document, MirrorsSoFar
  PROVE  /\ PastScopes => Listed(doc.scope) = LiveScopes(db)
         /\ PastApps => Listed(doc.app) = LiveApps(db)
         /\ Listed(doc.room) = RoomsRead
<1>1. /\ DOMAIN doc.scope = Scope /\ DOMAIN doc.app = App /\ DOMAIN doc.room = Room
      /\ DOMAIN db.scope = Scope /\ DOMAIN db.app = App /\ DOMAIN db.room = Room
      /\ \A p \in App : db.app[p] \in AppRow
  BY DEF Document, Database
<1>2. /\ LiveScopes(db) \subseteq Scope
      /\ \A s \in LiveScopes(db) : db.scope[s].state = "live"
  BY <1>1 DEF LiveScopes, Listed
<1>3. /\ LiveApps(db) \subseteq App
      /\ \A p \in LiveApps(db) : AppWritten(db.app[p]).state = "live"
  BY <1>1, RowsWritten DEF LiveApps, Listed
<1>4. RoomsRead \subseteq Room /\ \A r \in RoomsRead : db.room[r].state = "live"
  BY <1>1 DEF RoomsRead, LiveRooms, Listed
<1>5. NoScopeRow.state # "live" /\ NoAppRow.state # "live" /\ NoRoomRow.state # "live"
  BY DEF NoScopeRow, NoAppRow, NoRoomRow
<1>6. PastScopes => Listed(doc.scope) = LiveScopes(db)
  BY <1>1, <1>2, <1>5 DEF MirrorsSoFar, ScopesSoFar, ScopesMirror, Listed
<1>7. PastApps => Listed(doc.app) = LiveApps(db)
  BY <1>1, <1>3, <1>5 DEF MirrorsSoFar, AppsSoFar, AppsMirror, Listed
<1>8. Listed(doc.room) = RoomsRead
  BY <1>1, <1>4, <1>5 DEF MirrorsSoFar, RoomsSoFar, Listed
<1> QED BY <1>6, <1>7, <1>8

\* The queries before the loops.
LEMMA FirstQueriesMirror ==
  ASSUME ConfigTypeInv, Reading => MirrorsSoFar,
         ExportProject \/ ExportScopes \/ ExportApps
  PROVE  MirrorsSoFar'
<1> USE DEF ConfigTypeInv, TypeOK, TablesOK, ExportTypeOK, Query, Reading, PastScopes,
            PastApps, PastActors
<1>d. db' = db
  BY DEF ExportProject, ExportScopes, ExportApps, vars
<1>1. CASE ExportProject
  <2>1. /\ doc'.scope = EmptyDoc.scope /\ doc'.app = EmptyDoc.app /\ doc'.room = EmptyDoc.room
        /\ doc'.actor = EmptyDoc.actor /\ doc'.appGrant = EmptyDoc.appGrant
        /\ doc'.roomGrant = EmptyDoc.roomGrant
    BY <1>1, EmptyDocument DEF ExportProject, Document
  <2>2. /\ \A r \in Room : EmptyDoc.room[r] = NoRoomRow
        /\ \A a \in Actor, p \in App : EmptyDoc.appGrant[a][p] = NoGrantRow
        /\ \A g \in RoomGrant : EmptyDoc.roomGrant[g] = NoGrantRow
    BY DEF EmptyDoc
  <2>3. step' = "scopes" /\ db.project[Exported] = "live"
    BY <1>1 DEF ExportProject
  <2> QED BY <1>d, <2>1, <2>2, <2>3 DEF MirrorsSoFar, ScopesSoFar, AppsSoFar, ActorsSoFar,
        RoomsSoFar, AppGrantsSoFar, TypeGrantsSoFar, ActorGrantsSoFar, RoomsRead
<1>2. CASE ExportScopes
  <2>1. step = "scopes" /\ step' = "apps" /\ MirrorsSoFar
    BY <1>2 DEF ExportScopes
  <2>2. doc' = [doc EXCEPT !.scope = doc'.scope]
    BY <1>2, ScopesQuery
  <2>3. /\ doc'.app = doc.app /\ doc'.room = doc.room /\ doc'.actor = doc.actor
        /\ doc'.appGrant = doc.appGrant /\ doc'.roomGrant = doc.roomGrant
    BY <2>2 DEF Document
  <2>4. ScopesSoFar'
    <3>1. \A s \in Scope : doc.scope[s] = NoScopeRow
      BY <2>1 DEF MirrorsSoFar, ScopesSoFar, EmptyDoc
    <3> QED BY <1>d, <1>2, <2>1, <3>1, ScopeRows DEF ScopesSoFar, ScopesMirror
  <2>5. RoomsRead = {} /\ RoomsRead' = {}
    BY <2>1 DEF RoomsRead
  <2> QED BY <1>d, <2>1, <2>3, <2>4, <2>5 DEF MirrorsSoFar, AppsSoFar, ActorsSoFar,
        RoomsSoFar, AppGrantsSoFar, TypeGrantsSoFar, ActorGrantsSoFar
<1>3. CASE ExportApps
  <2>1. step = "apps" /\ step' = "lobbyRooms" /\ MirrorsSoFar
    BY <1>3 DEF ExportApps
  <2>2. doc' = [doc EXCEPT !.app = doc'.app]
    BY <1>3, AppsQuery
  <2>3. /\ doc'.scope = doc.scope /\ doc'.room = doc.room /\ doc'.actor = doc.actor
        /\ doc'.appGrant = doc.appGrant /\ doc'.roomGrant = doc.roomGrant
    BY <2>2 DEF Document
  <2>4. AppsSoFar' /\ apps' = LiveApps(db)
    <3>1. \A p \in App : doc.app[p] = NoAppRow
      BY <2>1 DEF MirrorsSoFar, AppsSoFar, EmptyDoc
    <3> QED BY <1>d, <1>3, <2>1, <3>1, AppRows DEF AppsSoFar, AppsMirror
  <2>5. RoomsRead = {} /\ RoomsRead' = {}
    BY <1>d, <2>1, <2>4 DEF RoomsRead, LiveRooms
  <2>6. ScopesSoFar'
    BY <1>d, <2>1, <2>3 DEF MirrorsSoFar, ScopesSoFar, ScopesMirror
  <2> QED BY <1>d, <2>1, <2>3, <2>4, <2>5, <2>6 DEF MirrorsSoFar, ActorsSoFar,
        RoomsSoFar, AppGrantsSoFar, TypeGrantsSoFar, ActorGrantsSoFar
<1> QED BY <1>1, <1>2, <1>3

\* The loop over the apps.
LEMMA AppLoopMirrors ==
  ASSUME ConfigTypeInv, LoopInv, MirrorsSoFar,
         \/ \E p \in App : ExportRooms(p)
         \/ \E r \in Room : ExportTypeGrants(r)
         \/ ExportLobbies
         \/ \E l \in Lobby : ExportLobbyRooms(l)
  PROVE  MirrorsSoFar'
<1> USE DEF ConfigTypeInv, TypeOK, TablesOK, ExportTypeOK, Query, Reading, PastScopes,
            PastApps, PastActors
<1>d. db' = db /\ ~PastActors' /\ PastApps' /\ ~PastActors /\ PastApps
  BY DEF ExportRooms, ExportTypeGrants, ExportLobbies, ExportLobbyRooms, vars
<1>b. DOMAIN db.room = Room /\ DOMAIN db.roomGrant = RoomGrant
  BY DEF Database
<1>f. ASSUME apps' \subseteq apps, doc'.scope = doc.scope, doc'.app = doc.app,
             doc'.actor = doc.actor, doc'.appGrant = doc.appGrant,
             RoomsSoFar', TypeGrantsSoFar',
             \A g \in RoomGrant : GrantTarget[g] \in Actor => doc'.roomGrant[g] = doc.roomGrant[g]
      PROVE  MirrorsSoFar'
  <2>1. ScopesSoFar' /\ AppsSoFar' /\ ActorsSoFar'
    BY <1>d, <1>f DEF MirrorsSoFar, ScopesSoFar, AppsSoFar, ActorsSoFar, ScopesMirror, AppsMirror
  <2>2. AppGrantsSoFar' /\ ActorGrantsSoFar'
    BY <1>d, <1>f DEF MirrorsSoFar, AppGrantsSoFar, ActorGrantsSoFar
  <2> QED BY <1>d, <1>f, <2>1, <2>2 DEF MirrorsSoFar
<1>1. ASSUME NEW p \in App, ExportRooms(p) PROVE MirrorsSoFar'
  <2>1. /\ step = "lobbyRooms" /\ step' = "typeGrants" /\ p \in apps /\ apps' = apps \ {p}
        /\ todo' = { r \in Listed(db.room) : RoomApp[r] = p }
    BY <1>1 DEF ExportRooms
  <2>2. doc' = [doc EXCEPT !.room = doc'.room]
    BY <1>1, RoomsQuery
  <2>3. /\ doc'.scope = doc.scope /\ doc'.app = doc.app /\ doc'.actor = doc.actor
        /\ doc'.appGrant = doc.appGrant /\ doc'.roomGrant = doc.roomGrant
    BY <2>2 DEF Document
  <2>4. p \in LiveApps(db)
    BY <1>d, <2>1 DEF MirrorsSoFar, AppsSoFar
  <2>5. RoomsRead' = RoomsRead \cup todo' /\ RoomsRead \cap todo' = {}
    BY <1>d, <2>1, <2>4 DEF RoomsRead, LiveRooms
  <2>6. RoomsSoFar'
    BY <1>1, <1>b, <1>d, <2>1, <2>5, RoomRows DEF MirrorsSoFar, RoomsSoFar
  <2>7. TypeGrantsSoFar'
    <3>1. \A g \in RoomGrant :
            (GrantRoom[g] \in RoomsRead' /\ (step' = "typeGrants" => GrantRoom[g] \notin todo'))
              <=> GrantRoom[g] \in RoomsRead
      BY <2>1, <2>5
    <3> QED BY <1>d, <2>1, <2>3, <3>1 DEF MirrorsSoFar, TypeGrantsSoFar
  <2> QED BY <1>f, <2>1, <2>3, <2>6, <2>7
<1>2. ASSUME NEW r \in Room, ExportTypeGrants(r) PROVE MirrorsSoFar'
  <2>1. /\ step = "typeGrants" /\ step' = "typeGrants" /\ r \in todo /\ todo' = todo \ {r}
        /\ apps' = apps
    BY <1>2 DEF ExportTypeGrants
  <2>2. doc' = [doc EXCEPT !.roomGrant = doc'.roomGrant]
    BY <1>2, TypeGrantsQuery
  <2>3. /\ doc'.scope = doc.scope /\ doc'.app = doc.app /\ doc'.actor = doc.actor
        /\ doc'.appGrant = doc.appGrant /\ doc'.room = doc.room
    BY <2>2 DEF Document
  <2>4. r \in RoomsRead /\ RoomsRead' = RoomsRead
    BY <1>d, <2>1, ReadSoFar DEF DocInv, RoomsRead
  <2>5. RoomsSoFar'
    BY <1>d, <2>3, <2>4 DEF MirrorsSoFar, RoomsSoFar
  <2>6. TypeGrantsSoFar'
    BY <1>2, <1>d, <2>1, <2>4, TypeGrantRows DEF MirrorsSoFar, TypeGrantsSoFar
  <2>7. \A g \in RoomGrant : GrantTarget[g] \in Actor => doc'.roomGrant[g] = doc.roomGrant[g]
    BY <1>2, TypeGrantRows, NullsAssumption
  <2> QED BY <1>f, <2>1, <2>3, <2>5, <2>6, <2>7
<1>3. CASE ExportLobbies \/ \E l \in Lobby : ExportLobbyRooms(l)
  <2>1. /\ doc'.scope = doc.scope /\ doc'.app = doc.app /\ doc'.actor = doc.actor
        /\ doc'.appGrant = doc.appGrant /\ doc'.room = doc.room
        /\ doc'.roomGrant = doc.roomGrant
    BY <1>3 DEF ExportLobbies, ExportLobbyRooms, Document
  <2>2. apps' = apps /\ step' # "typeGrants" /\ (step = "typeGrants" => todo = {})
    BY <1>3 DEF ExportLobbies, ExportLobbyRooms
  <2>3. RoomsRead' = RoomsRead
    BY <1>d, <2>2 DEF RoomsRead
  <2>4. RoomsSoFar' /\ TypeGrantsSoFar'
    BY <1>d, <2>1, <2>2, <2>3 DEF MirrorsSoFar, RoomsSoFar, TypeGrantsSoFar
  <2> QED BY <1>f, <2>1, <2>2, <2>4
<1> QED BY <1>1, <1>2, <1>3

\* The loop over the actors.
LEMMA ActorLoopMirrors ==
  ASSUME ConfigTypeInv, LoopInv, MirrorsSoFar,
         \/ ExportActors
         \/ \E a \in Actor : ExportAppGrants(a)
         \/ ExportRoomGrants \/ ExportKeys
  PROVE  MirrorsSoFar'
<1> USE DEF ConfigTypeInv, TypeOK, TablesOK, ExportTypeOK, Query, Reading, PastScopes,
            PastApps, PastActors
<1>d. /\ db' = db /\ PastActors' /\ apps = {} /\ apps' = {}
      /\ step # "typeGrants" /\ step' # "typeGrants" /\ PastApps
  BY DEF ExportActors, ExportAppGrants, ExportRoomGrants, ExportKeys, vars, LoopInv
<1>r. RoomsRead' = RoomsRead /\ RoomsRead = Listed(doc.room)
  BY <1>d, ReadSoFar DEF RoomsRead
<1>f. ASSUME doc'.scope = doc.scope, doc'.app = doc.app, doc'.room = doc.room,
             ActorsSoFar', AppGrantsSoFar', ActorGrantsSoFar',
             \A g \in RoomGrant :
               GrantTarget[g] \in ActorType => doc'.roomGrant[g] = doc.roomGrant[g],
             step' = "roomGrants" => here' \in todo', step' = "written" => todo' = {}
      PROVE  MirrorsSoFar'
  <2>1. ScopesSoFar' /\ AppsSoFar' /\ RoomsSoFar'
    BY <1>d, <1>f, <1>r DEF MirrorsSoFar, ScopesSoFar, AppsSoFar, RoomsSoFar, ScopesMirror, AppsMirror
  <2>2. TypeGrantsSoFar'
    BY <1>d, <1>f, <1>r DEF MirrorsSoFar, TypeGrantsSoFar
  <2> QED BY <1>d, <1>f, <2>1, <2>2 DEF MirrorsSoFar
<1>1. CASE ExportActors
  <2>1. step = "lobbyRooms" /\ step' = "appGrants"
    BY <1>1 DEF ExportActors
  <2>2. doc' = [doc EXCEPT !.actor = doc'.actor]
    BY <1>1, ActorsQuery
  <2>3. /\ doc'.scope = doc.scope /\ doc'.app = doc.app /\ doc'.room = doc.room
        /\ doc'.appGrant = doc.appGrant /\ doc'.roomGrant = doc.roomGrant
    BY <2>2 DEF Document
  <2>4. ActorsSoFar' /\ todo' = LiveActors(db)
    <3>1. \A a \in Actor : doc.actor[a] = NullRow
      BY <2>1 DEF MirrorsSoFar, ActorsSoFar, EmptyDoc
    <3>2. Listed(doc.scope) = LiveScopes(db)
      BY <1>d, ReadSoFar
    <3> QED BY <1>1, <1>d, <3>1, <3>2, ActorRows DEF ActorsSoFar, ActorsMirror
  <2>5. AppGrantsSoFar'
    <3>1. \A a \in Actor, p \in App : doc.appGrant[a][p] = NoGrantRow
      BY <2>1 DEF MirrorsSoFar, AppGrantsSoFar
    <3> QED BY <1>d, <2>1, <2>3, <2>4, <3>1 DEF AppGrantsSoFar
  <2>6. ActorGrantsSoFar'
    <3>1. \A g \in RoomGrant : GrantTarget[g] \in Actor => doc.roomGrant[g] = NoGrantRow
      BY <2>1 DEF MirrorsSoFar, ActorGrantsSoFar
    <3> QED BY <1>d, <2>3, <2>4, <3>1 DEF ActorGrantsSoFar
  <2> QED BY <1>f, <2>1, <2>3, <2>4, <2>5, <2>6
<1>2. ASSUME NEW a \in Actor, ExportAppGrants(a) PROVE MirrorsSoFar'
  <2>1. /\ step = "appGrants" /\ step' = "roomGrants" /\ a \in todo /\ here' = a
        /\ todo' = todo
    BY <1>2 DEF ExportAppGrants
  <2>2. doc' = [doc EXCEPT !.appGrant = doc'.appGrant]
    BY <1>2, AppGrantsQuery
  <2>3. /\ doc'.scope = doc.scope /\ doc'.app = doc.app /\ doc'.room = doc.room
        /\ doc'.actor = doc.actor /\ doc'.roomGrant = doc.roomGrant
    BY <2>2 DEF Document
  <2>4. ActorsSoFar' /\ a \in LiveActors(db)
    BY <1>d, <2>1, <2>3 DEF MirrorsSoFar, ActorsSoFar, ActorsMirror
  <2>5. AppGrantsSoFar'
    <3>1. Listed(doc.app) = LiveApps(db)
      BY <1>d, ReadSoFar
    <3> QED BY <1>2, <1>d, <2>1, <2>4, <3>1, AppGrantRows DEF MirrorsSoFar, AppGrantsSoFar
  <2>6. ActorGrantsSoFar'
    BY <1>d, <1>r, <2>1, <2>3 DEF MirrorsSoFar, ActorGrantsSoFar
  <2> QED BY <1>f, <2>1, <2>3, <2>4, <2>5, <2>6
<1>3. CASE ExportRoomGrants
  <2>1. /\ step = "roomGrants" /\ step' = "appGrants" /\ todo' = todo \ {here}
        /\ here' = here /\ here \in todo /\ todo \subseteq LiveActors(db)
    BY <1>3 DEF ExportRoomGrants, MirrorsSoFar, ActorsSoFar
  <2>2. doc' = [doc EXCEPT !.roomGrant = doc'.roomGrant]
    BY <1>3, RoomGrantsQuery
  <2>3. /\ doc'.scope = doc.scope /\ doc'.app = doc.app /\ doc'.room = doc.room
        /\ doc'.actor = doc.actor /\ doc'.appGrant = doc.appGrant
    BY <2>2 DEF Document
  <2>4. here \in Actor
    BY <2>1 DEF LiveActors, Listed, Database
  <2>5. ActorsSoFar' /\ AppGrantsSoFar'
    BY <1>d, <2>1, <2>3 DEF MirrorsSoFar, ActorsSoFar, ActorsMirror, AppGrantsSoFar
  <2>6. ActorGrantsSoFar'
    BY <1>3, <1>d, <1>r, <2>1, ActorGrantRows DEF MirrorsSoFar, ActorGrantsSoFar
  <2>7. \A g \in RoomGrant : GrantTarget[g] \in ActorType => doc'.roomGrant[g] = doc.roomGrant[g]
    BY <1>3, <2>4, ActorGrantRows, NullsAssumption
  <2> QED BY <1>f, <2>1, <2>3, <2>5, <2>6, <2>7
<1>4. CASE ExportKeys
  <2>1. /\ step = "appGrants" /\ step' = "written" /\ todo = {} /\ todo' = todo /\ here' = here
        /\ doc' = doc
    BY <1>4 DEF ExportKeys
  <2>2. ActorsSoFar' /\ AppGrantsSoFar' /\ ActorGrantsSoFar'
    BY <1>d, <1>r, <2>1 DEF MirrorsSoFar, ActorsSoFar, ActorsMirror, AppGrantsSoFar, ActorGrantsSoFar
  <2> QED BY <1>f, <2>1, <2>2
<1> QED BY <1>1, <1>2, <1>3, <1>4

LEMMA WrittenMirrors ==
  ASSUME LoopInv, MirrorsSoFar, step = "written"
  PROVE  /\ Mirrors(db, Imported(doc)) /\ db.project[Exported] = "live"
         /\ Imported(doc).project[Exported] = "live"
<1>1. /\ Imported(doc).scope = doc.scope /\ Imported(doc).app = doc.app
      /\ Imported(doc).room = doc.room /\ Imported(doc).actor = doc.actor
      /\ Imported(doc).appGrant = doc.appGrant /\ Imported(doc).roomGrant = doc.roomGrant
      /\ Imported(doc).project[Exported] = "live"
  BY ConfigAssumption DEF Imported
<1>2. /\ PastScopes /\ PastApps /\ PastActors /\ apps = {} /\ todo = {}
      /\ RoomsRead = LiveRooms(db) /\ db.project[Exported] = "live"
  BY DEF PastScopes, PastApps, PastActors, Reading, LoopInv, RoomsRead, MirrorsSoFar
<1> HIDE DEF Imported
<1>3. /\ ScopesMirror(db, Imported(doc)) /\ AppsMirror(db, Imported(doc))
      /\ RoomsMirror(db, Imported(doc)) /\ ActorsMirror(db, Imported(doc))
  BY <1>1, <1>2 DEF MirrorsSoFar, ScopesSoFar, AppsSoFar, ActorsSoFar, RoomsSoFar,
     ScopesMirror, AppsMirror, ActorsMirror, RoomsMirror
<1>4. AppGrantsMirror(db, Imported(doc))
  BY <1>1, <1>2 DEF MirrorsSoFar, AppGrantsSoFar, AppGrantsMirror
<1>5. TypeGrantsMirror(db, Imported(doc)) /\ ActorGrantsMirror(db, Imported(doc))
  BY <1>1, <1>2 DEF MirrorsSoFar, TypeGrantsSoFar, ActorGrantsSoFar, TypeGrantsMirror,
     ActorGrantsMirror
<1> QED BY <1>1, <1>2, <1>3, <1>4, <1>5 DEF Mirrors

LEMMA QuietKeepsCopy ==
  ASSUME CopyInv, UNCHANGED <<exportVars, copy>>, quiet' => quiet /\ db' = db
  PROVE  CopyInv'
<1> USE DEF exportVars, Reading
<1>1. CASE ~quiet'
  BY <1>1 DEF CopyInv, Faithful
<1>2. CASE quiet'
  <2>1. quiet /\ db' = db
    BY <1>2
  <2>2. PastScopes' = PastScopes /\ PastApps' = PastApps /\ PastActors' = PastActors
    BY DEF PastScopes, PastApps, PastActors
  <2>3. RoomsRead' = RoomsRead
    BY <2>1, <2>2 DEF RoomsRead
  <2>4. MirrorsSoFar => MirrorsSoFar'
    BY <2>1, <2>2, <2>3 DEF MirrorsSoFar, ScopesSoFar, AppsSoFar, ActorsSoFar, RoomsSoFar,
       AppGrantsSoFar, TypeGrantsSoFar, ActorGrantsSoFar, ScopesMirror, AppsMirror, ActorsMirror
  <2> QED BY <2>1, <2>4 DEF CopyInv, Faithful
<1> QED BY <1>1, <1>2

LEMMA CopyStep ==
  ASSUME ConfigTypeInv, LoopInv, LimitsInv, CopyInv, [ConfigNext]_configVars
  PROVE  CopyInv'
<1>1. CASE UNCHANGED configVars
  BY <1>1, QuietKeepsCopy DEF configVars, historyVars, vars
<1>2. CASE ConfigNext
  <2>1. RecordExport
    BY <1>2 DEF ConfigNext
  <2>2. CASE UNCHANGED <<exportVars, copy>>
    <3>1. Reading' = Reading
      BY <2>2 DEF Reading, exportVars
    <3>2. quiet' => quiet /\ db' = db
      BY <2>1, <3>1 DEF RecordExport
    <3> QED BY <2>2, <3>2, QuietKeepsCopy
  <2>3. CASE ExportStep
    <3>1. copy' = copy /\ step # "imported" /\ step' # "imported"
      BY <2>3 DEF ExportStep, ExportProject, ExportScopes, ExportApps, ExportRooms,
         ExportTypeGrants, ExportLobbies, ExportLobbyRooms, ExportActors,
         ExportAppGrants, ExportRoomGrants, ExportKeys, Query
    <3>2. copy'.outcome = "none"
      BY <3>1 DEF LimitsInv
    <3>3. ASSUME quiet' PROVE MirrorsSoFar'
      <4>1. Reading => quiet
        BY <2>1, <3>3 DEF RecordExport
      <4>2. Reading => MirrorsSoFar
        BY <4>1 DEF CopyInv
      <4>3. \/ ExportProject \/ ExportScopes \/ ExportApps
            \/ Reading
        BY <2>3 DEF ExportStep, ExportRooms, ExportTypeGrants, ExportLobbies,
           ExportLobbyRooms, ExportActors, ExportAppGrants, ExportRoomGrants, ExportKeys,
           Query, Reading
      <4> QED BY <2>3, <4>2, <4>3, FirstQueriesMirror, AppLoopMirrors, ActorLoopMirrors
              DEF ExportStep
    <3> QED BY <3>2, <3>3 DEF CopyInv, Faithful
  <2>4. CASE ImportExport
    <3>1. step = "written" /\ step' = "imported" /\ copy' = ImportResult(doc) /\ db' = db
      BY <2>4 DEF ImportExport, vars
    <3>2. Reading /\ ~Reading' /\ (quiet' => quiet)
      BY <2>1, <3>1 DEF RecordExport, Reading
    <3>3. copy'.outcome = "accepted" => copy'.tables = Imported(doc)
      BY <3>1 DEF ImportResult, NoCopy
    <3> QED BY <3>1, <3>2, <3>3, WrittenMirrors DEF CopyInv, Faithful
  <2>5. CASE ImportHandWritten
    <3>1. step = "idle" /\ step' = "imported"
      BY <2>5 DEF ImportHandWritten
    <3>2. ~quiet'
      BY <2>1, <3>1 DEF RecordExport, Reading, LimitsInv
    <3> QED BY <3>2 DEF CopyInv, Faithful
  <2> QED BY <1>2, <2>2, <2>3, <2>4, <2>5, EditType DEF ConfigNext, ConfigTypeInv
<1> QED BY <1>1, <1>2

\* With what the tables of a deployment may refer to.
CopyRefs == GrantsInTenant(db) /\ PatchesLive /\ RefsInv

LEMMA CopyRefsStart == ConfigInit => CopyRefs
BY InitialAssumption, InitRefs DEF ConfigInit, Init, WellFormed, CopyRefs, PatchesLive

LEMMA CopyRefsStep ==
  ASSUME ConfigTypeInv, CopyRefs, [ConfigNext]_configVars
  PROVE  CopyRefs'
<1>1. [Next]_vars
  BY EditType DEF ConfigNext, configVars, ConfigTypeInv, ExportStep, ExportProject,
     ExportScopes, ExportApps, ExportRooms, ExportTypeGrants, ExportLobbies,
     ExportLobbyRooms, ExportActors, ExportAppGrants, ExportRoomGrants, ExportKeys,
     Query, ImportExport, ImportHandWritten
<1>2. PatchesLive' /\ RefsInv'
  BY <1>1, NextRefs DEF CopyRefs, ConfigTypeInv
<1>3. GrantsInTenant(db')
  <2>1. CASE AdminStep \/ CommitStep
    BY <2>1, AdminKeepsGrants DEF CopyRefs, ConfigTypeInv, TypeOK
  <2>2. CASE ~(AdminStep \/ CommitStep)
    BY <1>1, <2>2, OthersLeaveTables DEF CopyRefs
  <2> QED BY <2>1, <2>2
<1> QED BY <1>2, <1>3 DEF CopyRefs, GrantsInTenant

CopySafe == ExportInv /\ LimitsInv /\ CopyInv /\ CopyRefs

LEMMA CopyStart == ConfigInit => CopySafe
<1> SUFFICES ASSUME ConfigInit PROVE CopySafe
  OBVIOUS
<1>1. ExportInv /\ CopyRefs
  BY ExportStart, CopyRefsStart
<1>2. LimitsInv /\ CopyInv
  BY DEF ConfigInit, LimitsInv, CopyInv, NoCopy, Reading, Faithful
<1> QED BY <1>1, <1>2 DEF CopySafe

LEMMA CopySteps == CopySafe /\ [ConfigNext]_configVars => CopySafe'
BY ExportSteps, LimitsStep, CopyStep, CopyRefsStep DEF CopySafe, ExportInv

-----------------------------------------------------------------------------
(* What an actor is told of, room by room.                                 *)

\* Does app p give the actor anything, and what?
Opens(d, a, t, p) ==
  /\ Serves(d.app[p])
  /\ \/ HoldsApp(d, a, p, t)
     \/ d.app[p].accessMode = "open" /\ AppProject[p] = ActorProject[a]
EntryFor(d, a, t, p) ==
  IF HoldsApp(d, a, p, t) THEN GrantedEntry(AppEntry(d, p), d.appGrant[a][p])
  ELSE AppEntry(d, p)

LEMMA AccessByApp ==
  ASSUME NEW d \in Database, NEW a \in Actor, NEW t
  PROVE  /\ \A e : e \in FullAccess(d, a, t)
                     <=> \E p \in App : Opens(d, a, t, p) /\ e = EntryFor(d, a, t, p)
         /\ \A p \in App : EntryFor(d, a, t, p).app = p
<1> DEFINE granted(p) == GrantedEntry(AppEntry(d, p), d.appGrant[a][p])
           explicit == ExplicitAccess(d, a, t)
<1>1. \A p \in App : AppEntry(d, p).app = p /\ granted(p).app = p
  BY EntryType, RowKinds
<1>2. \A e : e \in explicit <=> \E p \in App : /\ HoldsApp(d, a, p, t) /\ Serves(d.app[p])
                                                /\ e = granted(p)
  BY DEF ExplicitAccess
<1>3. \A p \in App : (\E h \in explicit : h.app = p) <=> HoldsApp(d, a, p, t) /\ Serves(d.app[p])
  BY <1>1, <1>2
<1>4. \A e : e \in OpenAccess(d, a, explicit)
               <=> \E p \in App : /\ AppProject[p] = ActorProject[a] /\ Serves(d.app[p])
                                  /\ d.app[p].accessMode = "open" /\ ~HoldsApp(d, a, p, t)
                                  /\ e = AppEntry(d, p)
  BY <1>3 DEF OpenAccess
<1>5. \A e : e \in FullAccess(d, a, t) <=> e \in explicit \/ e \in OpenAccess(d, a, explicit)
  BY DEF FullAccess
<1>6. \A p \in App : EntryFor(d, a, t, p) =
        IF HoldsApp(d, a, p, t) THEN granted(p) ELSE AppEntry(d, p)
  BY DEF EntryFor
<1> HIDE DEF explicit, granted
<1> QED BY <1>1, <1>2, <1>4, <1>5, <1>6 DEF Opens

\* What room r gives the actor by way of its app.
ToldOn(d, a, t, r, s, pick) == RoomTopics(d, a, t, EntryFor(d, a, t, RoomApp[r]), r, s, pick)

LEMMA SessionByRoom ==
  ASSUME NEW d \in Database, NEW a \in Actor, NEW t, NEW order
  PROVE  \A x : x \in SessionTopics(d, a, t, order)
           <=> /\ UsableActor(d.actor[a], t) /\ d.project[ActorProject[a]] = "live"
               /\ ScopeHonoured(d, a, d.actor[a].scope)
               /\ x.room \in Room /\ Serves(d.room[x.room]) /\ Opens(d, a, t, RoomApp[x.room])
               /\ x \in ToldOn(d, a, t, x.room, d.actor[a].scope,
                         SessionPick(d, a, order))
<1> DEFINE held == FullAccess(d, a, t)
           s == d.actor[a].scope
           pick == SessionPick(d, a, order)
           On(e, r) == RoomTopics(d, a, t, e, r, s, pick)
<1>1. /\ \A e : e \in held <=> \E p \in App : Opens(d, a, t, p) /\ e = EntryFor(d, a, t, p)
      /\ \A p \in App : EntryFor(d, a, t, p).app = p
      /\ \A r \in Room : RoomApp[r] \in App
  BY AccessByApp, KeysAssumption
<1>2. \A e, r : \A x \in On(e, r) : x.room = r
  BY RoomTopicsForm
<1>3. \A r : r \in RoomsOf(d, held) <=> /\ r \in Room /\ Serves(d.room[r])
                                        /\ Opens(d, a, t, RoomApp[r])
  BY <1>1 DEF RoomsOf
<1>4. \A x : x \in TopicsOf(d, a, t, held, RoomsOf(d, held), s, pick)
               <=> \E e \in held : \E r \in RoomsOf(d, held) : RoomApp[r] = e.app /\ x \in On(e, r)
  BY DEF TopicsOf
<1>5. \A x : x \in SessionTopics(d, a, t, order)
               <=> /\ UsableActor(d.actor[a], t) /\ d.project[ActorProject[a]] = "live"
                   /\ ScopeHonoured(d, a, s)
                   /\ x \in TopicsOf(d, a, t, held, RoomsOf(d, held), s, pick)
  BY DEF SessionTopics
<1>6. \A r : ToldOn(d, a, t, r, s, pick) = On(EntryFor(d, a, t, RoomApp[r]), r)
  BY DEF ToldOn
<1> HIDE DEF held, On, s
<1>7. \A x : (\E e \in held : \E r \in RoomsOf(d, held) : RoomApp[r] = e.app /\ x \in On(e, r))
               <=> /\ x.room \in Room /\ Serves(d.room[x.room]) /\ Opens(d, a, t, RoomApp[x.room])
                   /\ x \in On(EntryFor(d, a, t, RoomApp[x.room]), x.room)
  BY <1>1, <1>2, <1>3
<1> QED BY <1>4, <1>5, <1>6, <1>7 DEF s

-----------------------------------------------------------------------------
(* What a copy decides differently from its original.                      *)

LEMMA ActorsSame ==
  ASSUME NEW d \in Database, NEW c, Mirrors(d, c), NEW a \in Actor
  PROVE  /\ a \in LiveActors(d) =>
              /\ \A t : UsableActor(c.actor[a], t) <=> UsableActor(d.actor[a], t)
              /\ c.actor[a].scope = IF d.actor[a].scope \in LiveScopes(d)
                                    THEN d.actor[a].scope ELSE NoScope
         /\ a \notin LiveActors(d) => \A t : ~UsableActor(c.actor[a], t)
         /\ \A t : ActorProject[a] = Exported /\ UsableActor(d.actor[a], t) => a \in LiveActors(d)
<1>1. c.actor[a] = IF a \in LiveActors(d) THEN ActorWritten(d.actor[a], LiveScopes(d)) ELSE NullRow
  BY DEF Mirrors, ActorsMirror
<1>2. d.actor[a] \in ActorRow /\ DOMAIN d.actor = Actor
  BY DEF Database
<1> QED BY <1>1, <1>2, RowsWritten DEF NullRow, UsableActor, Serves, LiveActors, Listed

LEMMA ScopesSame ==
  ASSUME NEW d \in Database, NEW c, Mirrors(d, c), NEW a \in Actor,
         ActorProject[a] = Exported
  PROVE  /\ \A s \in LiveScopes(d) \cup {NoScope} :
              ScopeHonoured(c, a, s) <=> ScopeHonoured(d, a, s)
         /\ \A s \in Scope : ScopeHonoured(d, a, s) => s \in LiveScopes(d)
<1>1. \A s \in LiveScopes(d) : s \in Scope /\ c.scope[s] = d.scope[s] /\ ScopeProject[s] = Exported
  BY DEF Mirrors, ScopesMirror, LiveScopes, Listed, Database
<1>2. \A s \in Scope : ScopeHonoured(d, a, s) => s \in LiveScopes(d)
  BY NullsAssumption DEF ScopeHonoured, LiveScopes, Listed, Database
<1> QED BY <1>1, <1>2 DEF ScopeHonoured

LEMMA RoomsSame ==
  ASSUME NEW d \in Database, NEW c, Mirrors(d, c), NEW r \in Room
  PROVE  Serves(c.room[r]) <=> r \in LiveRooms(d) /\ Serves(d.room[r])
<1>1. c.room[r] = IF r \in LiveRooms(d) THEN d.room[r] ELSE NoRoomRow
  BY DEF Mirrors, RoomsMirror
<1> QED BY <1>1 DEF Serves, NoRoomRow

\* Of an app the copy keeps all that counts; no topics and an empty list of
\* topics come to the same.
LEMMA AppsSame ==
  ASSUME NEW d \in Database, NEW c, Mirrors(d, c), GrantsInTenant(d),
         NEW a \in LiveActors(d), NEW p \in App, NEW t
  PROVE  /\ Opens(c, a, t, p) <=> Opens(d, a, t, p)
         /\ Opens(d, a, t, p) =>
              /\ p \in LiveApps(d)
              /\ EntryFor(c, a, t, p).permission = EntryFor(d, a, t, p).permission
              /\ EntryFor(c, a, t, p).topics = Coalesce(EntryFor(d, a, t, p).topics, {})
              /\ EntryFor(c, a, t, p).appTopics = Coalesce(EntryFor(d, a, t, p).appTopics, {})
<1>a. a \in Actor /\ ActorProject[a] = Exported
  BY DEF LiveActors, Listed, Database
<1>1. c.app[p] = IF p \in LiveApps(d) THEN AppWritten(d.app[p]) ELSE NoAppRow
  BY DEF Mirrors, AppsMirror
<1>2. c.appGrant[a][p] = IF p \in LiveApps(d) \cap Listed(d.appGrant[a])
                         THEN d.appGrant[a][p] ELSE NoGrantRow
  BY <1>a DEF Mirrors, AppGrantsMirror
<1>3. d.app[p] \in AppRow /\ d.appGrant[a][p] \in GrantRow
  BY <1>a, RowKinds
<1>4. p \in LiveApps(d) <=> d.app[p].state = "live" /\ AppProject[p] = Exported
  BY DEF LiveApps, Listed, Database
<1>5. HoldsApp(d, a, p, t) => p \in Listed(d.appGrant[a]) /\ AppProject[p] = Exported
  BY <1>a DEF HoldsApp, Standing, GrantsInTenant, Listed, Database
<1>6. p \in LiveApps(d) => (HoldsApp(c, a, p, t) <=> HoldsApp(d, a, p, t))
  BY <1>2, <1>5 DEF HoldsApp, Standing, NoGrantRow
<1>7. p \in LiveApps(d) => /\ Serves(c.app[p]) <=> Serves(d.app[p])
                           /\ c.app[p].accessMode = d.app[p].accessMode
                           /\ c.app[p].topics = Coalesce(d.app[p].topics, {})
  BY <1>1, <1>3, RowsWritten DEF Serves
<1>8. p \notin LiveApps(d) => ~Serves(c.app[p])
  BY <1>1 DEF Serves, NoAppRow
<1>9. Opens(d, a, t, p) => p \in LiveApps(d)
  BY <1>a, <1>4, <1>5 DEF Opens, Serves
<1>10. Opens(c, a, t, p) <=> Opens(d, a, t, p)
  BY <1>6, <1>7, <1>8, <1>9 DEF Opens
<1>11. ASSUME p \in LiveApps(d)
       PROVE  /\ EntryFor(c, a, t, p).permission = EntryFor(d, a, t, p).permission
              /\ EntryFor(c, a, t, p).topics = Coalesce(EntryFor(d, a, t, p).topics, {})
              /\ EntryFor(c, a, t, p).appTopics = Coalesce(EntryFor(d, a, t, p).appTopics, {})
  <2>1. CASE HoldsApp(d, a, p, t)
    <3>1. c.appGrant[a][p] = d.appGrant[a][p] /\ HoldsApp(c, a, p, t)
      BY <1>2, <1>5, <1>6, <1>11, <2>1
    <3> QED BY <1>7, <1>11, <2>1, <3>1, NullsAssumption
            DEF EntryFor, GrantedEntry, AppEntry, Coalesce
  <2>2. CASE ~HoldsApp(d, a, p, t)
    BY <1>6, <1>7, <1>11, <2>2 DEF EntryFor, AppEntry
  <2> QED BY <2>1, <2>2
<1> QED BY <1>9, <1>10, <1>11

\* Of the grants on a room the copy keeps those that name a type or a live
\* actor of the project.
LEMMA GrantsSame ==
  ASSUME NEW d \in Database, NEW c \in Database, Mirrors(d, c), NEW r \in Room
  PROVE  /\ r \notin LiveRooms(d) => GrantsOn(c, r) = {}
         /\ r \in LiveRooms(d) => GrantsOn(c, r) =
              { g \in GrantsOn(d, r) : GrantTarget[g] \in ActorType \cup LiveActors(d) }
         /\ \A g \in GrantsOn(c, r) :
              /\ c.roomGrant[g].isActive = d.roomGrant[g].isActive
              /\ c.roomGrant[g].permission = d.roomGrant[g].permission
              /\ c.roomGrant[g].topics = d.roomGrant[g].topics
              /\ c.roomGrant[g].expiresAt =
                   IF GrantTarget[g] \in ActorType THEN Never ELSE d.roomGrant[g].expiresAt
<1>1. \A g \in RoomGrant : d.roomGrant[g] \in GrantRow /\ GrantTarget[g] \in Actor \cup ActorType
  BY RowKinds, KeysAssumption
<1>2. \A g \in RoomGrant : g \in Listed(d.roomGrant) <=> d.roomGrant[g].state = "live"
  BY DEF Listed, Database
<1>3. ASSUME NEW g \in RoomGrant, GrantTarget[g] \in ActorType
      PROVE  c.roomGrant[g] =
               IF d.roomGrant[g].state = "live" /\ GrantRoom[g] \in LiveRooms(d)
               THEN TypeGrantWritten(d.roomGrant[g]) ELSE NoGrantRow
  BY <1>2, <1>3 DEF Mirrors, TypeGrantsMirror
<1>4. ASSUME NEW g \in RoomGrant, GrantTarget[g] \notin ActorType
      PROVE  c.roomGrant[g] =
               IF /\ d.roomGrant[g].state = "live" /\ GrantRoom[g] \in LiveRooms(d)
                  /\ GrantTarget[g] \in LiveActors(d)
               THEN d.roomGrant[g] ELSE NoGrantRow
  BY <1>1, <1>2, <1>4 DEF Mirrors, ActorGrantsMirror
<1>5. NoGrantRow.state # "live"
  BY DEF NoGrantRow
<1>6. ASSUME NEW g \in RoomGrant
      PROVE  /\ c.roomGrant[g].state = "live"
                  <=> /\ d.roomGrant[g].state = "live" /\ GrantRoom[g] \in LiveRooms(d)
                      /\ GrantTarget[g] \in ActorType \cup LiveActors(d)
             /\ c.roomGrant[g].state = "live" =>
                  /\ c.roomGrant[g].isActive = d.roomGrant[g].isActive
                  /\ c.roomGrant[g].permission = d.roomGrant[g].permission
                  /\ c.roomGrant[g].topics = d.roomGrant[g].topics
                  /\ c.roomGrant[g].expiresAt =
                       IF GrantTarget[g] \in ActorType THEN Never ELSE d.roomGrant[g].expiresAt
  <2>1. CASE GrantTarget[g] \in ActorType
    BY <1>1, <1>3, <1>5, <2>1, RowsWritten
  <2>2. CASE GrantTarget[g] \notin ActorType
    BY <1>4, <1>5, <2>2
  <2> QED BY <2>1, <2>2
<1> QED BY <1>6 DEF GrantsOn

LEMMA DecidingSame ==
  ASSUME NEW d \in Database, NEW c \in Database, Mirrors(d, c),
         NEW a \in LiveActors(d), NEW r \in Room
  PROVE  /\ Deciding(c, a, r) = IF r \in LiveRooms(d) THEN Deciding(d, a, r) ELSE {}
         /\ Deciding(d, a, r) \subseteq GrantsOn(d, r)
         /\ \A g \in Deciding(d, a, r) : GrantTarget[g] \in {a, TypeOf[a]}
         /\ \A order : r \in LiveRooms(d) /\ Deciding(d, a, r) # {}
              => SessionPick(c, a, order)[r] = SessionPick(d, a, order)[r]
<1>1. a \in Actor /\ TypeOf[a] \in ActorType
  BY KeysAssumption DEF LiveActors, Listed, Database
<1>2. r \notin LiveRooms(d) => Deciding(c, a, r) = {}
  BY GrantsSame, DecidingKind
<1>3. ASSUME r \in LiveRooms(d)
      PROVE  /\ Deciding(c, a, r) = Deciding(d, a, r)
             /\ \A order : Deciding(d, a, r) # {}
                  => SessionPick(c, a, order)[r] = SessionPick(d, a, order)[r]
  <2>1. \A g : g \in GrantsOn(c, r) /\ GrantTarget[g] \in {a, TypeOf[a]}
                 <=> g \in GrantsOn(d, r) /\ GrantTarget[g] \in {a, TypeOf[a]}
    BY <1>1, <1>3, GrantsSame
  <2>2. \A g \in GrantsOn(c, r) : c.roomGrant[g].isActive = d.roomGrant[g].isActive
    BY GrantsSame
  <2>3. NamingActor(c, a, r) = NamingActor(d, a, r)
    BY <2>1, <2>2 DEF NamingActor, StandingOn
  <2>4. NamingType(c, a, r) = NamingType(d, a, r)
    BY <2>1, <2>2 DEF NamingType, StandingOn
  <2>5. Deciding(c, a, r) = Deciding(d, a, r)
    BY <2>3, <2>4 DEF Deciding
  <2>6. \A order : Deciding(d, a, r) # {}
          => SessionPick(c, a, order)[r] = SessionPick(d, a, order)[r]
    BY <2>3, <2>4, <2>5 DEF SessionPick, Decided
  <2> QED BY <2>5, <2>6
<1>4. Deciding(d, a, r) \subseteq GrantsOn(d, r)
      /\ \A g \in Deciding(d, a, r) : GrantTarget[g] \in {a, TypeOf[a]}
  BY DEF Deciding, NamingActor, NamingType, StandingOn
<1>5. Deciding(c, a, r) = IF r \in LiveRooms(d) THEN Deciding(d, a, r) ELSE {}
  BY <1>2, <1>3
<1>6. \A order : r \in LiveRooms(d) /\ Deciding(d, a, r) # {}
        => SessionPick(c, a, order)[r] = SessionPick(d, a, order)[r]
  BY <1>3
<1> QED BY <1>4, <1>5, <1>6

LEMMA AddressSame ==
  ASSUME NEW r, NEW list, NEW n, NEW s
  PROVE  Address(r, Coalesce(list, {}), n, s) = Address(r, list, n, s)
BY NullsAssumption DEF Address, Coalesce

\* Once an actor is let into a room, original and copy tell it the same there.
LEMMA ToldSame ==
  ASSUME NEW d \in Database, NEW c \in Database, Mirrors(d, c), GrantsInTenant(d),
         NEW a \in LiveActors(d), NEW r \in Room, NEW t, NEW s, NEW f, NEW h,
         Private(d, r) => f[r] = h[r], Opens(d, a, t, RoomApp[r]), Private(c, r) <=> Private(d, r),
         Private(d, r) => f[r] \in GrantsOn(c, r),
         Admitted(c, a, r, t, f), Admitted(d, a, r, t, h)
  PROVE  ToldOn(c, a, t, r, s, f) = ToldOn(d, a, t, r, s, h)
<1> DEFINE e == EntryFor(c, a, t, RoomApp[r])
           o == EntryFor(d, a, t, RoomApp[r])
           g == h[r]
<1>1. /\ e.permission = o.permission /\ e.topics = Coalesce(o.topics, {})
      /\ e.appTopics = Coalesce(o.appTopics, {})
  BY AppsSame, KeysAssumption
<1>2. /\ ToldOn(c, a, t, r, s, f) = RoomTopics(c, a, t, e, r, s, f)
      /\ ToldOn(d, a, t, r, s, h) = RoomTopics(d, a, t, o, r, s, h)
  BY DEF ToldOn
<1> HIDE DEF e, o
<1>3. CASE ~Private(d, r)
  BY <1>1, <1>2, <1>3, AddressSame DEF RoomTopics
<1>4. CASE Private(d, r)
  <2>0. f[r] = g
    BY <1>4
  <2>1. /\ c.roomGrant[g].permission = d.roomGrant[g].permission
        /\ c.roomGrant[g].topics = d.roomGrant[g].topics
    BY <1>4, <2>0, GrantsSame
  <2> DEFINE list == Coalesce(d.roomGrant[g].topics, o.appTopics)
             n == d.roomGrant[g].permission
  <2>2. /\ RoomTopics(c, a, t, e, r, s, f) = Address(r, Coalesce(d.roomGrant[g].topics, e.appTopics), n, s)
        /\ RoomTopics(d, a, t, o, r, s, h) = Address(r, list, n, s)
    BY <1>4, <2>0, <2>1 DEF RoomTopics
  <2>3. CASE d.roomGrant[g].topics = Inherit
    BY <1>1, <1>2, <2>2, <2>3, AddressSame DEF Coalesce
  <2>4. CASE d.roomGrant[g].topics # Inherit
    BY <1>2, <2>2, <2>4 DEF Coalesce
  <2> QED BY <2>3, <2>4
<1> QED BY <1>3, <1>4

LEMMA MirrorKeeps ==
  ASSUME NEW d \in Database, NEW c \in Database, Mirrors(d, c), GrantsInTenant(d),
         c.project[Exported] = "live", NEW a \in Actor, ActorProject[a] = Exported, NEW t
  PROVE  Held(d, a, t) \subseteq Held(c, a, t)
<1> SUFFICES ASSUME NEW order \in RowOrders, NEW x \in SessionTopics(d, a, t, order)
             PROVE  x \in SessionTopics(c, a, t, order)
  BY DEF Held
<1> DEFINE r == x.room
           s == d.actor[a].scope
           pick == SessionPick(d, a, order)
           same == SessionPick(c, a, order)
<1>1. /\ UsableActor(d.actor[a], t) /\ ScopeHonoured(d, a, s)
      /\ r \in Room /\ Serves(d.room[r]) /\ Opens(d, a, t, RoomApp[r])
      /\ x \in ToldOn(d, a, t, r, s, pick)
  BY SessionByRoom DEF pick
<1>2. a \in LiveActors(d) /\ UsableActor(c.actor[a], t)
  BY <1>1, ActorsSame
<1>3. c.actor[a].scope = s /\ ScopeHonoured(c, a, s)
  <2>1. s \in Scope \cup {NoScope}
    BY RowKinds DEF ActorRow
  <2> QED BY <1>1, <1>2, <2>1, ActorsSame, ScopesSame
<1>4. r \in LiveRooms(d) /\ Serves(c.room[r])
  <2>1. RoomApp[r] \in LiveApps(d)
    BY <1>1, <1>2, AppsSame, KeysAssumption
  <2>2. r \in LiveRooms(d)
    BY <1>1, <2>1 DEF Serves, LiveRooms, Listed, Database
  <2> QED BY <1>1, <2>2, RoomsSame
<1>5. Opens(c, a, t, RoomApp[r])
  BY <1>1, <1>2, AppsSame, KeysAssumption
<1>6. Deciding(d, a, r) # {} => pick[r] \in Deciding(d, a, r) /\ same[r] = pick[r]
  BY <1>1, <1>2, <1>4, DecidingSame, PicksLawful DEF Lawful
<1> HIDE DEF pick, same
<1>7. Admitted(d, a, r, t, pick)
  BY <1>1 DEF ToldOn, RoomTopics
<1>8. /\ Private(c, r) <=> Private(d, r)
      /\ Private(d, r) => same[r] = pick[r] /\ pick[r] \in GrantsOn(c, r)
      /\ Admitted(c, a, r, t, same)
  <2>1. CASE ~Private(d, r)
    BY <1>1, <1>4, <2>1, GrantsSame DEF Private, Admitted
  <2>2. CASE Private(d, r)
    <3>1. Deciding(d, a, r) # {} /\ ~Expired(d.roomGrant[pick[r]].expiresAt, t)
      BY <1>7, <2>2 DEF Admitted
    <3>2. Deciding(c, a, r) = Deciding(d, a, r) /\ pick[r] \in Deciding(d, a, r)
      BY <1>1, <1>2, <1>4, <1>6, <3>1, DecidingSame
    <3>3. pick[r] \in GrantsOn(c, r)
      BY <3>2, DecidingKind
    <3>4. ~Expired(c.roomGrant[pick[r]].expiresAt, t)
      BY <1>1, <3>1, <3>3, GrantsSame DEF Expired
    <3> QED BY <1>6, <2>2, <3>1, <3>2, <3>3, <3>4 DEF Private, Admitted
  <2> QED BY <2>1, <2>2
<1>9. x \in ToldOn(c, a, t, r, s, same)
  BY <1>1, <1>2, <1>7, <1>8, ToldSame
<1> QED BY <1>1, <1>2, <1>3, <1>4, <1>5, <1>9, SessionByRoom DEF same

\* The three cases in which a copy gives an actor more.
Widened(d, c, a, t, r) ==
  \/ d.actor[a].scope # NoScope /\ d.scope[d.actor[a].scope].state # "live"
  \/ \E g \in GrantsOn(d, r) :
       GrantTarget[g] = TypeOf[a] /\ Expired(d.roomGrant[g].expiresAt, t)
  \/ /\ ~Private(c, r) /\ Private(d, r)
     /\ \A g \in GrantsOn(d, r) :
          /\ GrantTarget[g] \in Actor
          /\ \/ d.actor[GrantTarget[g]].state = "deleted"
             \/ ActorProject[GrantTarget[g]] # Exported

LEMMA MirrorWidens ==
  ASSUME NEW d \in Database, NEW c \in Database, Mirrors(d, c), GrantsInTenant(d),
         GrantsNameActors(d), ScopesInTenant(d),
         d.project[Exported] = "live",
         NEW a \in Actor, NEW t, NEW x \in Held(c, a, t) \ Held(d, a, t)
  PROVE  Widened(d, c, a, t, x.room)
<1> SUFFICES ASSUME ~Widened(d, c, a, t, x.room) PROVE FALSE
  OBVIOUS
<1>1. PICK order \in RowOrders : x \in SessionTopics(c, a, t, order)
  BY DEF Held
<1> DEFINE r == x.room
           s == d.actor[a].scope
           pick == SessionPick(c, a, order)
           own == SessionPick(d, a, order)
<1>2. /\ UsableActor(c.actor[a], t) /\ c.project[ActorProject[a]] = "live"
      /\ ScopeHonoured(c, a, c.actor[a].scope)
      /\ r \in Room /\ Serves(c.room[r]) /\ Opens(c, a, t, RoomApp[r])
      /\ x \in ToldOn(c, a, t, r, c.actor[a].scope, pick)
  BY <1>1, SessionByRoom
<1>3. /\ a \in LiveActors(d) /\ UsableActor(d.actor[a], t)
      /\ ActorProject[a] = Exported
  BY <1>2, ActorsSame DEF LiveActors
<1>4. c.actor[a].scope = s /\ ScopeHonoured(d, a, s)
  <2>1. s \in Scope \cup {NoScope} /\ (s # NoScope => d.scope[s].state = "live")
    BY RowKinds DEF ActorRow, Widened
  <2>2. s # NoScope => s \in LiveScopes(d)
    BY <1>3, <2>1 DEF ScopesInTenant, LiveScopes, Listed, Database
  <2>3. c.actor[a].scope = s
    BY <1>3, <2>2, ActorsSame
  <2> QED BY <1>2, <1>3, <2>2, <2>3, ScopesSame
<1>5. r \in LiveRooms(d) /\ Serves(d.room[r]) /\ Opens(d, a, t, RoomApp[r])
  BY <1>2, <1>3, RoomsSame, AppsSame, KeysAssumption
<1>6. Deciding(d, a, r) # {} => pick[r] \in Deciding(d, a, r) /\ own[r] = pick[r]
  BY <1>1, <1>2, <1>3, <1>5, DecidingSame, PicksLawful DEF Lawful
<1> HIDE DEF pick, own
<1>7. Admitted(c, a, r, t, pick)
  BY <1>2 DEF ToldOn, RoomTopics
<1>8. /\ Private(c, r) <=> Private(d, r)
      /\ Private(d, r) => pick[r] \in GrantsOn(c, r) /\ own[r] = pick[r]
      /\ Admitted(d, a, r, t, own)
  <2>1. CASE ~Private(c, r)
    <3>1. \A g \in GrantsOn(d, r) : GrantTarget[g] \notin ActorType \cup LiveActors(d)
      BY <1>2, <1>5, <2>1, GrantsSame DEF Private
    <3>2. \A g \in GrantsOn(d, r) :
            /\ GrantTarget[g] \in Actor
            /\ d.actor[GrantTarget[g]].state = "deleted" \/ ActorProject[GrantTarget[g]] # Exported
      <4> SUFFICES ASSUME NEW g \in GrantsOn(d, r), ActorProject[GrantTarget[g]] = Exported
                   PROVE  /\ GrantTarget[g] \in Actor
                          /\ d.actor[GrantTarget[g]].state = "deleted"
        BY <3>1, KeysAssumption DEF GrantsOn
      <4>1. g \in RoomGrant /\ d.roomGrant[g].state = "live" /\ GrantTarget[g] \in Actor
        BY <3>1, KeysAssumption DEF GrantsOn
      <4>2. d.actor[GrantTarget[g]] \in ActorRow /\ d.actor[GrantTarget[g]].state # "absent"
        BY <4>1, RowKinds DEF GrantsNameActors
      <4>3. d.actor[GrantTarget[g]].state # "live"
        BY <3>1, <4>1 DEF LiveActors, Listed, Database
      <4> QED BY <4>1, <4>2, <4>3 DEF ActorRow, RowState
    <3>3. ~Private(d, r)
      BY <2>1, <3>2 DEF Widened
    <3>4. Deciding(d, a, r) = {}
      BY <1>2, <1>3, <3>3, DecidingSame DEF Private
    <3> QED BY <1>2, <2>1, <3>3, <3>4 DEF Admitted
  <2>2. CASE Private(c, r)
    <3>1. Deciding(c, a, r) # {} /\ ~Expired(c.roomGrant[pick[r]].expiresAt, t)
      BY <1>7, <2>2 DEF Admitted
    <3>2. Deciding(c, a, r) = Deciding(d, a, r) /\ pick[r] \in Deciding(d, a, r)
      BY <1>1, <1>2, <1>3, <1>5, <1>6, <3>1, DecidingSame
    <3>3. /\ pick[r] \in GrantsOn(c, r) /\ pick[r] \in GrantsOn(d, r) /\ own[r] = pick[r]
          /\ GrantTarget[pick[r]] \in {a, TypeOf[a]}
      BY <1>2, <1>3, <1>6, <3>2, DecidingSame, DecidingKind
    <3>4. ~Expired(d.roomGrant[pick[r]].expiresAt, t)
      <4>1. CASE GrantTarget[pick[r]] = TypeOf[a]
        BY <3>3, <4>1 DEF Widened
      <4>2. CASE GrantTarget[pick[r]] = a
        BY <1>2, <3>1, <3>3, <4>2, GrantsSame, NullsAssumption
      <4> QED BY <3>3, <4>1, <4>2
    <3> QED BY <2>2, <3>1, <3>2, <3>3, <3>4 DEF Private, Admitted
  <2> QED BY <2>1, <2>2
<1>9. x \in ToldOn(d, a, t, r, s, own)
  BY <1>2, <1>3, <1>4, <1>5, <1>7, <1>8, ToldSame
<1>10. x \in SessionTopics(d, a, t, order)
  BY <1>2, <1>3, <1>4, <1>5, <1>9, SessionByRoom DEF own
<1> QED BY <1>1, <1>10 DEF Held

LEMMA CopyMirrors ==
  ASSUME CopySafe, Faithful
  PROVE  /\ db \in Database /\ copy.tables \in Database
         /\ Mirrors(db, copy.tables) /\ db.project[Exported] = "live"
         /\ copy.tables.project[Exported] = "live"
         /\ GrantsInTenant(db) /\ GrantsNameActors(db) /\ ScopesInTenant(db)
BY DEF CopySafe, ExportInv, ConfigTypeInv, TypeOK, TablesOK, ExportTypeOK, CopyInv,
   CopyRefs, RefsInv

\* A copy made while nothing was written tells every actor of the project at
\* least what the original tells it, before and after the clock's next tick.
THEOREM AccessKept == ConfigSpec => []CopyKeepsAccess
<1>1. ASSUME CopySafe PROVE CopyKeepsAccess
  BY <1>1, CopyMirrors, MirrorKeeps DEF CopyKeepsAccess
<1> QED BY <1>1, CopyStart, CopySteps, PTL DEF ConfigSpec

\* And no more, but in the three cases: a scope of the actor that is deleted, a
\* type grant that has expired, and a private room all of whose grants named
\* actors that are deleted or of another project.
THEOREM WideningsKnown == ConfigSpec => []CopyWidensOnly
<1>1. ASSUME CopySafe, Faithful, NEW a \in Actor, NEW t,
             NEW x \in Held(copy.tables, a, t) \ Held(db, a, t)
      PROVE  Widened(db, copy.tables, a, t, x.room)
  BY <1>1, CopyMirrors, MirrorWidens
<1>2. CopySafe => CopyWidensOnly
  BY <1>1 DEF CopyWidensOnly, Widened
<1> QED BY <1>2, CopyStart, CopySteps, PTL DEF ConfigSpec
=============================================================================
