------------------------------- MODULE Lobbies -------------------------------
(***************************************************************************)
(* The lobbies of one app, next to its rooms: LobbyFacade creates, updates *)
(* and deletes lobbies as RoomFacade does rooms, puts rooms into lobbies   *)
(* under a cap, and keeps the membership rows of a room and of a lobby in  *)
(* caches of the process it runs in, which it drops after the transaction  *)
(* that changed them.  AuthzService reads the same tables, uncached, for   *)
(* the lobbies of a session.  Membership rows outlive both ends.           *)
(***************************************************************************)
EXTENDS Rooms

CONSTANTS
  Lobby,      \* ids of lobbies
  LobbySlot,  \* calls on lobbies in flight at once
  Instance,   \* processes of the program, each with its caches
  MaxLobbies, \* MAX_LOBBIES_PER_ROOM
  Homes,      \* where calls run: the processes of LobbySlot, for each choice
  Places      \* tables and budgets a run may start from

LobbyTable == INSTANCE SlugTables WITH Id <- Lobby, Slot <- LobbySlot

LobbyOp == {"create", "provision", "update", "delete", "add", "remove", "list", "session"}

Member == Lobby \X Id
\* What a cached list is filed under.
Key == ({"room"} \X Id) \cup ({"lobby"} \X Lobby)
KeysOf(m) == {<<"lobby", m[1]>>, <<"room", m[2]>>}

ASSUME LobbyAssumption ==
  /\ Lobby \subseteq Nat /\ IsFiniteSet(Lobby) /\ MaxLobbies \in Nat
  /\ IsFiniteSet(LobbySlot) /\ LobbySlot # {}
  /\ Homes \subseteq [LobbySlot -> Instance]
  /\ Places \subseteq [room: InitialRooms, budget: Budgets,
                       lobby: { t \in LobbyTable!Table : LobbyTable!Indexed(t) },
                       members: SUBSET Member, lobbyBudget: [LobbyOp -> Nat]]

\* The foreign key of lobby_room.
ASSUME LinkAssumption == \A p \in Places : \A m \in p.members : p.lobby[m[1]] # Blank

VARIABLES
  lobby,        \* the table of lobbies
  members,      \* rows of lobby_room
  cache,        \* each process's lists: {} or the one set of rows it holds
  asked,        \* the request of each call until it is answered
  at,           \* the query it sends next
  on,           \* the process it runs in
  rows,         \* membership rows its query returned
  shown,        \* lobbies a session was given
  lobbyBudget,  \* calls of each operation still to come (bound)
  added,        \* history: memberships that addRoomToLobby made
  raced,        \* history: lists a process holds, or reads, that a change
                \* went past
  standing,     \* history: lobbies visible to a session at every instant of
  seen          \* its call, and at some instant

callVars == <<asked, at, on, rows, shown, lobbyBudget>>
tableVars == <<lobby, members, added>>
lobbyVars == <<callVars, tableVars, cache, raced>>
allVars == <<vars, lobbyVars, standing, seen>>

LobbyRequest ==
  { u \in LobbyTable!Request : u.op # "ensure" }
    \cup [op: {"add", "remove"}, member: Member]
    \cup [op: {"list"}, key: Key] \cup [op: {"session"}, rooms: SUBSET Id]

LobbyStep == {"idle", "check", "insert", "lock", "locked", "validate", "save", "find",
              "erase", "drop", "query", "fill", "links", "lobbies"}

LobbyTypeOK ==
  /\ lobby \in LobbyTable!Table
  /\ members \in SUBSET Member /\ added \in SUBSET Member
  /\ cache \in [Instance -> [Key -> SUBSET (SUBSET Member)]]
  /\ asked \in [LobbySlot -> SUBSET LobbyRequest]
  /\ at \in [LobbySlot -> LobbyStep]
  /\ on \in [LobbySlot -> Instance]
  /\ rows \in [LobbySlot -> SUBSET Member]
  /\ lobbyBudget \in [LobbyOp -> Nat]
  /\ raced \in [Instance -> SUBSET Key]
  /\ shown \in [LobbySlot -> SUBSET Lobby]
  /\ standing \in [LobbySlot -> SUBSET Lobby] /\ seen \in [LobbySlot -> SUBSET Lobby]

LobbyInit ==
  /\ Init
  /\ \E p \in Places :
       /\ room = p.room /\ budget = p.budget
       /\ lobby = p.lobby /\ members = p.members /\ lobbyBudget = p.lobbyBudget
  /\ cache = [i \in Instance |-> [k \in Key |-> {}]]
  /\ asked = [q \in LobbySlot |-> {}]
  /\ at = [q \in LobbySlot |-> "idle"]
  /\ on \in Homes
  /\ rows = [q \in LobbySlot |-> {}]
  /\ added = {}
  /\ raced = [i \in Instance |-> {}]
  /\ shown = [q \in LobbySlot |-> {}]
  /\ standing = [q \in LobbySlot |-> {}] /\ seen = [q \in LobbySlot |-> {}]

-----------------------------------------------------------------------------
LobbyFirstStep(u) ==
  CASE u.op = "create" -> "check"
    [] u.op = "provision" -> "insert"
    [] u.op \in {"update", "delete"} -> "lock"
    [] u.op = "add" -> "validate"
    [] u.op = "remove" -> "find"
    [] u.op = "list" -> "query"
    [] u.op = "session" -> "links"

\* Callers name rows there are or were; a list that is cached is answered from
\* the cache, which changes nothing, and a session without rooms reads nothing.
Sensible(q, u) ==
  CASE u.op \in {"update", "delete"} -> lobby[u.id] # Blank
    [] u.op \in {"add", "remove"} -> lobby[u.member[1]] # Blank /\ room[u.member[2]] # Blank
    [] u.op = "list" -> cache[on[q]][u.key] = {}
    [] u.op = "session" -> u.rooms # {} /\ \A r \in u.rooms : room[r] # Blank
    [] OTHER -> TRUE

AskLobby(q) ==
  /\ asked[q] = {}
  /\ \E u \in LobbyRequest :
       /\ lobbyBudget[u.op] > 0 /\ Sensible(q, u)
       /\ lobbyBudget' = [lobbyBudget EXCEPT ![u.op] = @ - 1]
       /\ asked' = [asked EXCEPT ![q] = {u}]
       /\ at' = [at EXCEPT ![q] = LobbyFirstStep(u)]
  /\ shown' = [shown EXCEPT ![q] = {}]
  /\ UNCHANGED <<on, rows, tableVars, cache, raced>>

Onward(q, next) ==
  /\ at' = [at EXCEPT ![q] = next]
  /\ UNCHANGED <<asked, on, shown, lobbyBudget>>

Finish(q) ==
  /\ asked' = [asked EXCEPT ![q] = {}]
  /\ at' = [at EXCEPT ![q] = "idle"]
  /\ UNCHANGED <<on, lobbyBudget>>

Over(q) == Finish(q) /\ UNCHANGED shown

Looks == UNCHANGED <<rows, tableVars, cache, raced>>

-----------------------------------------------------------------------------
(* Lobby rows.                                                             *)

CheckLobbySlug(q, u) ==
  /\ at[q] = "check"
  /\ \/ LobbyTable!Named(lobby, u.slug) # {} /\ Over(q)
     \/ LobbyTable!Named(lobby, u.slug) = {} /\ Onward(q, "insert")
  /\ Looks

Filling(i, k) ==
  \E q \in LobbySlot : at[q] = "fill" /\ on[q] = i /\ \E u \in asked[q] : u.key = k

\* A change that process i will, or will not, drop the lists of keys for.
Pass(keys, drops) ==
  raced' = [i \in Instance |-> raced[i] \cup
              { k \in keys : Filling(i, k) \/ (i \notin drops /\ cache[i][k] # {}) }]

\* createLobby, or createStaticLobbiesFromConfig, which also puts rooms that
\* its caller created into the new lobbies: no cap, and no list is dropped.
InsertLobbies(q, u) ==
  /\ at[q] = "insert"
  /\ \/ /\ \E s \in LobbyTable!Wanted(u) : LobbyTable!Named(lobby, s) # {}
        /\ UNCHANGED <<lobby, members, raced>>
     \/ /\ \A s \in LobbyTable!Wanted(u) : LobbyTable!Named(lobby, s) = {}
        /\ \E f \in LobbyTable!Newcomers(lobby, LobbyTable!Wanted(u)) :
             /\ lobby' = LobbyTable!Inserted(lobby, f)
             /\ \E new \in IF u.op = "create" THEN {{}}
                           ELSE SUBSET ((DOMAIN f) \X { r \in Id : room[r] # Blank }) :
                  /\ members' = members \cup new
                  /\ Pass(UNION { KeysOf(m) : m \in new }, {})
  /\ Over(q)
  /\ UNCHANGED <<added, rows, cache>>

HoldersOf(l) ==
  { q \in LobbySlot : at[q] = "locked" /\ \E u \in asked[q] : u.id = l }

LockLobby(q, u) ==
  /\ at[q] = "lock"
  /\ \/ u.id \in LobbyTable!Live(lobby) /\ Onward(q, "locked")
     \/ u.id \notin LobbyTable!Live(lobby) /\ Over(q)
  /\ Looks

WritesLobby(u) == u.op = "delete" \/ (u.op = "update" /\ lobby[u.id].setting # u.setting)

PatchLobby(q, u) ==
  /\ at[q] = "locked" /\ u.op = "update"
  /\ WritesLobby(u) => HoldersOf(u.id) = {q}
  /\ lobby' = [lobby EXCEPT ![u.id].setting = u.setting]
  /\ Over(q)
  /\ UNCHANGED <<rows, members, added, cache, raced>>

\* Faulty variant: updates read the row without its lock, and a deletion waits
\* for nobody.
RemoveUnlockedLobby(q, u) ==
  /\ at[q] = "locked" /\ u.op = "delete"
  /\ lobby' = [lobby EXCEPT ![u.id].state = "deleted"]
  /\ Onward(q, "drop")
  /\ UNCHANGED <<rows, members, added, cache, raced>>

RemoveLobby(q, u) ==
  /\ at[q] = "locked" /\ u.op = "delete"
  /\ HoldersOf(u.id) = {q}
  /\ lobby' = [lobby EXCEPT ![u.id].state = "deleted"]
  /\ Onward(q, "drop")
  /\ UNCHANGED <<rows, members, added, cache, raced>>

BreakLobbyDeadlock(q, u) ==
  /\ at[q] = "locked" /\ WritesLobby(u)
  /\ \E p \in HoldersOf(u.id) \ {q} : \E w \in asked[p] : WritesLobby(w)
  /\ Over(q)
  /\ Looks

-----------------------------------------------------------------------------
(* Membership.                                                             *)

\* Faulty variant: the count is not looked at.
ValidateAddUncapped(q, u) ==
  LET valid == /\ u.member[1] \in LobbyTable!Live(lobby)
               /\ u.member[2] \in Live(room)
               /\ u.member \notin members
  IN /\ at[q] = "validate"
     /\ \/ valid /\ Onward(q, "save")
        \/ ~valid /\ Over(q)
     /\ Looks

\* One statement.  The count includes the rows of deleted lobbies.
ValidateAdd(q, u) ==
  LET valid == /\ u.member[1] \in LobbyTable!Live(lobby)
               /\ u.member[2] \in Live(room)
               /\ u.member \notin members
               /\ Cardinality({ m \in members : m[2] = u.member[2] }) < MaxLobbies
  IN /\ at[q] = "validate"
     /\ \/ valid /\ Onward(q, "save")
        \/ ~valid /\ Over(q)
     /\ Looks

\* save() of a row that another call inserted meanwhile changes nothing, or
\* fails on the primary key.
SaveMember(q, u) ==
  /\ at[q] = "save"
  /\ members' = members \cup {u.member}
  /\ \/ /\ added' = IF u.member \in members THEN added ELSE added \cup {u.member}
        /\ Onward(q, "drop")
     \/ u.member \in members /\ Over(q) /\ UNCHANGED added
  /\ Pass(IF u.member \in members THEN {} ELSE KeysOf(u.member), {on[q]})
  /\ UNCHANGED <<rows, lobby, cache>>

FindLobby(q, u) ==
  /\ at[q] = "find"
  /\ \/ u.member[1] \in LobbyTable!Live(lobby) /\ Onward(q, "erase")
     \/ u.member[1] \notin LobbyTable!Live(lobby) /\ Over(q)
  /\ Looks

EraseMember(q, u) ==
  /\ at[q] = "erase"
  /\ members' = members \ {u.member} /\ added' = added \ {u.member}
  /\ Onward(q, "drop")
  /\ Pass(IF u.member \in members THEN KeysOf(u.member) ELSE {}, {on[q]})
  /\ UNCHANGED <<rows, lobby, cache>>

\* deleteLobby drops the lobby's list and the lists of all rooms.
DroppedKeys(u) ==
  IF u.op = "delete" THEN {<<"lobby", u.id>>} \cup ({"room"} \X Id) ELSE KeysOf(u.member)

Drop(i, keys) ==
  /\ cache' = [cache EXCEPT ![i] = [k \in Key |-> IF k \in keys THEN {} ELSE @[k]]]
  /\ raced' = [raced EXCEPT ![i] = { k \in @ : k \notin keys \/ Filling(i, k) }]

\* Faulty variant: a membership change drops the room's list only.
DropRoomLists(q, u) ==
  /\ at[q] = "drop"
  /\ Drop(on[q], DroppedKeys(u) \cap ({"room"} \X Id))
  /\ Over(q)
  /\ UNCHANGED <<rows, tableVars>>

\* After the transaction has committed.
DropLists(q, u) ==
  /\ at[q] = "drop"
  /\ Drop(on[q], DroppedKeys(u))
  /\ Over(q)
  /\ UNCHANGED <<rows, tableVars>>

-----------------------------------------------------------------------------
(* Readers.                                                                *)

RowsOf(k) == { m \in members : k \in KeysOf(m) }

\* findLobbiesForRoom and listLobbyRoomsCached: the query, then the cache.
QueryList(q, u) ==
  /\ at[q] = "query"
  /\ rows' = [rows EXCEPT ![q] = RowsOf(u.key)]
  /\ Onward(q, "fill")
  /\ UNCHANGED <<tableVars, cache, raced>>

FillList(q, u) ==
  /\ at[q] = "fill"
  /\ cache' = [cache EXCEPT ![on[q]][u.key] = {rows[q]}]
  /\ rows' = [rows EXCEPT ![q] = {}]
  /\ Over(q)
  /\ UNCHANGED <<tableVars, raced>>

ExpireList(i, k) ==
  /\ cache[i][k] # {}
  /\ Drop(i, {k})
  /\ UNCHANGED <<callVars, tableVars>>

\* _attachLobbies: the links of the rooms, then the lobbies they lead to.
ReadLinks(q, u) ==
  LET links == { m \in members : m[2] \in u.rooms }
  IN /\ at[q] = "links"
     /\ rows' = [rows EXCEPT ![q] = links]
     /\ \/ links = {} /\ Over(q)
        \/ links # {} /\ Onward(q, "lobbies")
     /\ UNCHANGED <<tableVars, cache, raced>>

\* Faulty variant: whatever the links lead to is shown.
ReadDeletedLobbies(q, u) ==
  /\ at[q] = "lobbies"
  /\ shown' = [shown EXCEPT ![q] = { m[1] : m \in rows[q] }]
  /\ rows' = [rows EXCEPT ![q] = {}]
  /\ Finish(q)
  /\ UNCHANGED <<tableVars, cache, raced>>

ReadLobbies(q, u) ==
  /\ at[q] = "lobbies"
  /\ shown' = [shown EXCEPT ![q] =
                 { m[1] : m \in rows[q] } \cap LobbyTable!Live(lobby)]
  /\ rows' = [rows EXCEPT ![q] = {}]
  /\ Finish(q)
  /\ UNCHANGED <<tableVars, cache, raced>>

-----------------------------------------------------------------------------
ProceedLobby(q) ==
  \E u \in asked[q] :
    \/ CheckLobbySlug(q, u) \/ InsertLobbies(q, u)
    \/ LockLobby(q, u) \/ PatchLobby(q, u) \/ RemoveLobby(q, u) \/ BreakLobbyDeadlock(q, u)
    \/ ValidateAdd(q, u) \/ SaveMember(q, u) \/ FindLobby(q, u) \/ EraseMember(q, u)
    \/ DropLists(q, u) \/ QueryList(q, u) \/ FillList(q, u)
    \/ ReadLinks(q, u) \/ ReadLobbies(q, u)

\* Lobbies a session that reaches these rooms should show.
Visible(rooms) ==
  { l \in LobbyTable!Live(lobby) : \E r \in rooms : <<l, r>> \in members }

Sessions(q) == { u \in asked[q] : u.op = "session" }
InView(q) == UNION { Visible(u.rooms) : u \in Sessions(q) }

RecordView ==
  /\ standing' = [q \in LobbySlot |->
       IF asked'[q] = {} THEN standing[q]
       ELSE IF asked[q] = {} THEN InView(q)' ELSE standing[q] \cap InView(q)']
  /\ seen' = [q \in LobbySlot |->
       IF asked'[q] = {} THEN seen[q]
       ELSE IF asked[q] = {} THEN InView(q)' ELSE seen[q] \cup InView(q)']

LobbyNext ==
  /\ \/ Next /\ UNCHANGED lobbyVars
     \/ /\ \/ \E q \in LobbySlot : AskLobby(q) \/ ProceedLobby(q)
           \/ \E i \in Instance, k \in Key : ExpireList(i, k)
        /\ UNCHANGED vars
  /\ RecordView

LobbySpec == LobbyInit /\ [][LobbyNext]_allVars

-----------------------------------------------------------------------------
(* Properties.                                                             *)

\* A room is counted into lobbies in one statement and put into one by a later
\* one: addRoomToLobby may exceed the cap by the calls that counted before the
\* last insert, and by no more.
AddedWithinCap ==
  \A r \in Id : Cardinality({ m \in added : m[2] = r }) <=
                  MaxLobbies + Cardinality(LobbySlot) - 1

Dropping(i, k) ==
  \E q \in LobbySlot : at[q] = "drop" /\ on[q] = i /\ \E u \in asked[q] : k \in DroppedKeys(u)

\* A list a process holds is the table's, but for a change made by another
\* process or by provisioning, one that went past a reader between its query
\* and its store, or one that is about to drop the list.
ListsCurrent ==
  \A i \in Instance, k \in Key :
    cache[i][k] # {} /\ k \notin raced[i] /\ ~Dropping(i, k) => cache[i][k] = {RowsOf(k)}

\* A session lists every lobby that stood, with one of its rooms in it, as long
\* as its two reads took, and none that was not there at any instant of them.
SessionLobbies ==
  \A q \in LobbySlot :
    asked[q] = {} => standing[q] \subseteq shown[q] /\ shown[q] \subseteq seen[q]

\* A lobby that was deleted is never written again, so no deletion is undone or
\* changed after the fact: an update holds the row from the query that found it
\* live to its save, and a deletion waits for it.
DeletedLobbiesStay ==
  [][\A l \in Lobby : lobby[l].state = "deleted" => lobby'[l] = lobby[l]]_allVars
=============================================================================
