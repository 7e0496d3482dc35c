---------------------------- MODULE LobbiesProofs ----------------------------
(***************************************************************************)
(* What is proved of rooms holds next to lobbies, what addRoomToLobby may  *)
(* exceed the lobby cap by, which cached lists may be stale, which lobbies *)
(* a session is shown, and that none comes back from its deletion.         *)
(***************************************************************************)
EXTENDS Lobbies, RoomsProofs

LobbyStepsOf(op) ==
  CASE op = "create" -> {"check", "insert"}
    [] op = "provision" -> {"insert"}
    [] op = "update" -> {"lock", "locked"}
    [] op = "delete" -> {"lock", "locked", "drop"}
    [] op = "add" -> {"validate", "save", "drop"}
    [] op = "remove" -> {"find", "erase", "drop"}
    [] op = "list" -> {"query", "fill"}
    [] op = "session" -> {"links", "lobbies"}

\* A call waits for one request and is at one of its steps, and a lobby under
\* lock is there.
AskedInv(q) ==
  /\ asked[q] = {} => at[q] = "idle"
  /\ asked[q] = {} \/ \E u \in LobbyRequest : asked[q] = {u}
  /\ \A u \in asked[q] : /\ at[q] \in LobbyStepsOf(u.op)
                         /\ at[q] = "locked" => u.id \in LobbyTable!Live(lobby)

LobbyInv == LobbyTypeOK /\ \A q \in LobbySlot : AskedInv(q)

-----------------------------------------------------------------------------
(* The composition.                                                        *)

\* Steps of lobbies leave rooms alone.
LEMMA RoomSteps == LobbyInit /\ [][LobbyNext]_allVars => Spec
<1>1. LobbyInit => Init
  BY DEF LobbyInit
<1>2. [LobbyNext]_allVars => [Next]_vars
  BY DEF LobbyNext, allVars
<1> QED BY <1>1, <1>2, PTL DEF Spec

\* RoomFacade implements the registry whatever LobbyFacade does meanwhile.
THEOREM RegisteredAmongLobbies == LobbySpec => Registered
BY RoomSteps, RoomsRegistered DEF LobbySpec

\* ... and keeps as near to its cap.
THEOREM CapAmongLobbies == LobbySpec => []EnsuredWithinCap
BY RoomSteps, CapNearlyKept DEF LobbySpec

-----------------------------------------------------------------------------
(* Types.                                                                  *)

LEMMA LobbyRequestKinds ==
  ASSUME NEW u \in LobbyRequest
  PROVE  /\ u.op \in LobbyOp
         /\ u.op = "create" => u.slug \in Slug
         /\ u.op \in {"create", "provision"} => LobbyTable!Wanted(u) \subseteq Slug
         /\ u.op = "update" => u.id \in Lobby /\ u.setting \in Setting
         /\ u.op = "delete" => u.id \in Lobby
         /\ u.op \in {"add", "remove"} => u.member \in Member
         /\ u.op = "list" => u.key \in Key
BY TableAssumption
   DEF LobbyRequest, LobbyTable!Request, LobbyOp, LobbyTable!Wanted

\* Where a call stands says what it asks.
LEMMA AskedKinds ==
  ASSUME LobbyInv, NEW q \in LobbySlot, NEW u \in asked[q]
  PROVE  /\ u \in LobbyRequest /\ asked[q] = {u} /\ u.op \in LobbyOp
         /\ at[q] = "check" => u.op = "create"
         /\ at[q] = "insert" => u.op \in {"create", "provision"}
         /\ at[q] \in {"lock", "locked"} => u.op \in {"update", "delete"}
         /\ at[q] \in {"validate", "save"} => u.op = "add"
         /\ at[q] \in {"find", "erase"} => u.op = "remove"
         /\ at[q] = "drop" => u.op \in {"delete", "add", "remove"}
         /\ at[q] \in {"query", "fill"} => u.op = "list"
         /\ at[q] \in {"links", "lobbies"} => u.op = "session"
<1>1. u \in LobbyRequest /\ asked[q] = {u} /\ at[q] \in LobbyStepsOf(u.op)
  BY DEF LobbyInv, AskedInv
<1>2. u.op \in {"create", "provision", "update", "delete", "add", "remove", "list", "session"}
  BY <1>1, LobbyRequestKinds DEF LobbyOp
<1> QED BY <1>1, <1>2 DEF LobbyStepsOf, LobbyOp

\* Tables of lobbies stay tables.
LEMMA LobbiesInserted ==
  ASSUME NEW t \in LobbyTable!Table, NEW slugs \in SUBSET Slug,
         NEW f \in LobbyTable!Newcomers(t, slugs)
  PROVE  /\ LobbyTable!Inserted(t, f) \in LobbyTable!Table /\ DOMAIN f \subseteq Lobby
         /\ LobbyTable!Live(t) \subseteq LobbyTable!Live(LobbyTable!Inserted(t, f))
<1>1. PICK ids \in SUBSET LobbyTable!Unused(t) : f \in LobbyTable!Bijection(ids, slugs)
  BY DEF LobbyTable!Newcomers
<1>2. f \in [ids -> slugs] /\ ids \subseteq Lobby /\ DOMAIN f = ids
  BY <1>1 DEF LobbyTable!Bijection, LobbyTable!Injection, LobbyTable!Unused
<1>3. LobbyTable!Inserted(t, f) \in LobbyTable!Table
  BY <1>2, TableAssumption DEF LobbyTable!Inserted, LobbyTable!Table, LobbyTable!Row
<1>4. \A l \in Lobby \ ids : LobbyTable!Inserted(t, f)[l] = t[l]
  BY <1>2 DEF LobbyTable!Inserted
<1>5. \A l \in ids : l \notin LobbyTable!Live(t)
  BY DEF LobbyTable!Unused, LobbyTable!Live, LobbyTable!Blank
<1> QED BY <1>2, <1>3, <1>4, <1>5 DEF LobbyTable!Live

LEMMA LobbyEdited ==
  ASSUME NEW t \in LobbyTable!Table, NEW l \in LobbyTable!Live(t), NEW x \in Setting
  PROVE  /\ [t EXCEPT ![l].setting = x] \in LobbyTable!Table
         /\ LobbyTable!Live([t EXCEPT ![l].setting = x]) = LobbyTable!Live(t)
<1>1. /\ l \in Lobby /\ t \in [Lobby -> LobbyTable!Row]
      /\ t[l] \in [state: {"live", "deleted"}, slug: Slug, setting: Setting]
  BY DEF LobbyTable!Live, LobbyTable!Table, LobbyTable!Row, LobbyTable!Blank
<1>2. [t[l] EXCEPT !.setting = x] \in [state: {"live", "deleted"}, slug: Slug, setting: Setting]
  BY <1>1
<1> QED BY <1>1, <1>2 DEF LobbyTable!Table, LobbyTable!Row, LobbyTable!Live

LEMMA LobbyMarked ==
  ASSUME NEW t \in LobbyTable!Table, NEW l \in LobbyTable!Live(t)
  PROVE  /\ [t EXCEPT ![l].state = "deleted"] \in LobbyTable!Table
         /\ LobbyTable!Live([t EXCEPT ![l].state = "deleted"]) = LobbyTable!Live(t) \ {l}
<1>1. /\ l \in Lobby /\ t \in [Lobby -> LobbyTable!Row]
      /\ t[l] \in [state: {"live", "deleted"}, slug: Slug, setting: Setting]
  BY DEF LobbyTable!Live, LobbyTable!Table, LobbyTable!Row, LobbyTable!Blank
<1>2. [t[l] EXCEPT !.state = "deleted"] \in [state: {"live", "deleted"}, slug: Slug, setting: Setting]
  BY <1>1
<1> QED BY <1>1, <1>2 DEF LobbyTable!Table, LobbyTable!Row, LobbyTable!Live

\* The types of everything but the history of a session's view.
TypesBut ==
  /\ lobby \in LobbyTable!Table
  /\ members \in SUBSET Member /\ added \in SUBSET Member
  /\ cache \in [Instance -> [Key -> SUBSET (SUBSET Member)]]
  /\ asked \in [LobbySlot -> SUBSET LobbyRequest]
  /\ at \in [LobbySlot -> LobbyStep]
  /\ on \in [LobbySlot -> Instance]
  /\ rows \in [LobbySlot -> SUBSET Member]
  /\ lobbyBudget \in [LobbyOp -> Nat]
  /\ raced \in [Instance -> SUBSET Key]
  /\ shown \in [LobbySlot -> SUBSET Lobby]

Steady == TypesBut /\ \A q \in LobbySlot : AskedInv(q)

\* A call goes on, or ends; lobbies that others hold stay.
LEMMA OnwardSteady ==
  ASSUME LobbyInv, NEW q \in LobbySlot, NEW u \in asked[q], NEW next \in LobbyStepsOf(u.op),
         Onward(q, next), next = "locked" => u.id \in LobbyTable!Live(lobby'),
         \A p \in LobbySlot \ {q} : \A w \in asked[p] :
           at[p] = "locked" => w.id \in LobbyTable!Live(lobby')
  PROVE  /\ \A p \in LobbySlot : AskedInv(p)'
         /\ asked' = asked /\ on' = on /\ shown' = shown /\ lobbyBudget' = lobbyBudget
         /\ at' \in [LobbySlot -> LobbyStep]
<1>1. /\ asked' = asked /\ on' = on /\ shown' = shown /\ lobbyBudget' = lobbyBudget
      /\ at' = [at EXCEPT ![q] = next] /\ at \in [LobbySlot -> LobbyStep]
  BY DEF Onward, LobbyInv, LobbyTypeOK
<1>2. asked[q] = {u} /\ u.op \in LobbyOp /\ u \in LobbyRequest
  BY AskedKinds
<1>3. next \in LobbyStep
  BY <1>2 DEF LobbyStepsOf, LobbyStep, LobbyOp
<1>4. ASSUME NEW p \in LobbySlot PROVE AskedInv(p)'
  <2>1. CASE p = q
    <3>1. at'[q] = next
      BY <1>1
    <3> QED BY <1>1, <1>2, <2>1, <3>1 DEF AskedInv
  <2>2. CASE p # q
    <3>1. at'[p] = at[p]
      BY <1>1, <2>2
    <3> QED BY <1>1, <2>2, <3>1 DEF LobbyInv, AskedInv
  <2> QED BY <2>1, <2>2
<1> QED BY <1>1, <1>3, <1>4

LEMMA FinishSteady ==
  ASSUME LobbyInv, NEW q \in LobbySlot, Finish(q),
         \A p \in LobbySlot \ {q} : \A w \in asked[p] :
           at[p] = "locked" => w.id \in LobbyTable!Live(lobby')
  PROVE  /\ \A p \in LobbySlot : AskedInv(p)'
         /\ asked' \in [LobbySlot -> SUBSET LobbyRequest]
         /\ on' = on /\ lobbyBudget' = lobbyBudget
         /\ at' \in [LobbySlot -> LobbyStep]
<1>1. /\ on' = on /\ lobbyBudget' = lobbyBudget
      /\ asked' = [asked EXCEPT ![q] = {}] /\ at' = [at EXCEPT ![q] = "idle"]
      /\ at \in [LobbySlot -> LobbyStep] /\ asked \in [LobbySlot -> SUBSET LobbyRequest]
  BY DEF Finish, LobbyInv, LobbyTypeOK
<1>2. ASSUME NEW p \in LobbySlot PROVE AskedInv(p)'
  <2>1. CASE p = q
    BY <1>1, <2>1 DEF AskedInv
  <2>2. CASE p # q
    <3>1. at'[p] = at[p] /\ asked'[p] = asked[p]
      BY <1>1, <2>2
    <3> QED BY <2>2, <3>1 DEF LobbyInv, AskedInv
  <2> QED BY <2>1, <2>2
<1>3. "idle" \in LobbyStep
  BY DEF LobbyStep
<1> QED BY <1>1, <1>2, <1>3

\* The same where the table of lobbies does not change.
LEMMA LookSteady ==
  ASSUME LobbyInv, NEW q \in LobbySlot, NEW u \in asked[q], lobby' = lobby,
         \/ Finish(q)
         \/ \E next \in LobbyStepsOf(u.op) :
              Onward(q, next) /\ (next = "locked" => u.id \in LobbyTable!Live(lobby))
  PROVE  /\ \A p \in LobbySlot : AskedInv(p)'
         /\ asked' \in [LobbySlot -> SUBSET LobbyRequest]
         /\ on' \in [LobbySlot -> Instance] /\ lobbyBudget' \in [LobbyOp -> Nat]
         /\ at' \in [LobbySlot -> LobbyStep] /\ lobby' \in LobbyTable!Table
<1>1. \A p \in LobbySlot \ {q} : \A w \in asked[p] :
        at[p] = "locked" => w.id \in LobbyTable!Live(lobby')
  BY DEF LobbyInv, AskedInv
<1>2. /\ asked \in [LobbySlot -> SUBSET LobbyRequest] /\ on \in [LobbySlot -> Instance]
      /\ lobbyBudget \in [LobbyOp -> Nat] /\ lobby' \in LobbyTable!Table
  BY DEF LobbyInv, LobbyTypeOK
<1>3. CASE Finish(q)
  BY <1>1, <1>2, <1>3, FinishSteady
<1>4. CASE \E next \in LobbyStepsOf(u.op) :
             Onward(q, next) /\ (next = "locked" => u.id \in LobbyTable!Live(lobby))
  BY <1>1, <1>2, <1>4, OnwardSteady
<1> QED BY <1>3, <1>4

LEMMA DropTypes ==
  ASSUME LobbyTypeOK, NEW i \in Instance, NEW keys, Drop(i, keys)
  PROVE  /\ cache' \in [Instance -> [Key -> SUBSET (SUBSET Member)]]
         /\ raced' \in [Instance -> SUBSET Key]
BY DEF LobbyTypeOK, Drop

LEMMA PassTypes ==
  ASSUME LobbyTypeOK, NEW keys \in SUBSET Key, NEW drops, Pass(keys, drops)
  PROVE  raced' \in [Instance -> SUBSET Key]
BY DEF LobbyTypeOK, Pass

LEMMA MemberKeys == \A m \in Member : KeysOf(m) \subseteq Key
BY DEF Member, KeysOf, Key

\* One step of a call.
LEMMA LobbyCallSteady ==
  ASSUME LobbyInv, NEW q \in LobbySlot, NEW u \in asked[q],
         \/ CheckLobbySlug(q, u) \/ LockLobby(q, u) \/ BreakLobbyDeadlock(q, u)
         \/ ValidateAdd(q, u) \/ FindLobby(q, u)
  PROVE  Steady'
<1>1. u \in LobbyRequest /\ u.op \in LobbyOp
  BY AskedKinds
<1>2. lobby' = lobby /\ Looks
  BY DEF CheckLobbySlug, LockLobby, BreakLobbyDeadlock, ValidateAdd, FindLobby, Looks, tableVars
<1>3. /\ \/ Finish(q)
         \/ \E next \in LobbyStepsOf(u.op) :
              Onward(q, next) /\ (next = "locked" => u.id \in LobbyTable!Live(lobby))
      /\ UNCHANGED shown
  <2>1. CASE CheckLobbySlug(q, u)
    BY <2>1, AskedKinds DEF CheckLobbySlug, LobbyStepsOf, Over, Onward
  <2>2. CASE LockLobby(q, u)
    <3>1. "locked" \in LobbyStepsOf(u.op)
      BY <2>2, AskedKinds DEF LockLobby, LobbyStepsOf
    <3> QED BY <2>2, <3>1 DEF LockLobby, Over, Onward
  <2>3. CASE BreakLobbyDeadlock(q, u)
    BY <2>3 DEF BreakLobbyDeadlock, Over
  <2>4. CASE ValidateAdd(q, u)
    <3>1. "save" \in LobbyStepsOf(u.op)
      BY <2>4, AskedKinds DEF ValidateAdd, LobbyStepsOf
    <3>2. Onward(q, "save") \/ Over(q)
      BY <2>4 DEF ValidateAdd
    <3> QED BY <3>1, <3>2 DEF Over, Onward
  <2>5. CASE FindLobby(q, u)
    <3>1. "erase" \in LobbyStepsOf(u.op)
      BY <2>5, AskedKinds DEF FindLobby, LobbyStepsOf
    <3> QED BY <2>5, <3>1 DEF FindLobby, Over, Onward
  <2> QED BY <2>1, <2>2, <2>3, <2>4, <2>5
<1> QED BY <1>2, <1>3, LookSteady DEF Steady, TypesBut, Looks, tableVars, LobbyInv, LobbyTypeOK

LEMMA InsertSteady ==
  ASSUME LobbyInv, RoomTypeOK, NEW q \in LobbySlot, NEW u \in asked[q], InsertLobbies(q, u)
  PROVE  Steady'
<1>1. u \in LobbyRequest /\ LobbyTable!Wanted(u) \in SUBSET Slug
  BY AskedKinds, LobbyRequestKinds DEF InsertLobbies
<1>2. /\ Finish(q) /\ shown' = shown /\ added' = added /\ rows' = rows /\ cache' = cache
  BY DEF InsertLobbies, Over
<1>3. /\ lobby' \in LobbyTable!Table /\ members' \in SUBSET Member
      /\ raced' \in [Instance -> SUBSET Key]
      /\ LobbyTable!Live(lobby) \subseteq LobbyTable!Live(lobby')
  <2>1. CASE UNCHANGED <<lobby, members, raced>>
    BY <2>1 DEF LobbyInv, LobbyTypeOK
  <2>2. CASE \E f \in LobbyTable!Newcomers(lobby, LobbyTable!Wanted(u)) :
               /\ lobby' = LobbyTable!Inserted(lobby, f)
               /\ \E new \in IF u.op = "create" THEN {{}}
                             ELSE SUBSET ((DOMAIN f) \X { r \in Id : room[r] # Blank }) :
                    /\ members' = members \cup new
                    /\ Pass(UNION { KeysOf(m) : m \in new }, {})
    <3>1. PICK f \in LobbyTable!Newcomers(lobby, LobbyTable!Wanted(u)) :
               /\ lobby' = LobbyTable!Inserted(lobby, f)
               /\ \E new \in IF u.op = "create" THEN {{}}
                             ELSE SUBSET ((DOMAIN f) \X { r \in Id : room[r] # Blank }) :
                    /\ members' = members \cup new
                    /\ Pass(UNION { KeysOf(m) : m \in new }, {})
      BY <2>2
    <3>2. lobby \in LobbyTable!Table /\ members \in SUBSET Member
      BY DEF LobbyInv, LobbyTypeOK
    <3>3. /\ lobby' \in LobbyTable!Table /\ DOMAIN f \subseteq Lobby
          /\ LobbyTable!Live(lobby) \subseteq LobbyTable!Live(lobby')
      BY <1>1, <3>1, <3>2, LobbiesInserted
    <3>4. PICK new : /\ new \subseteq (DOMAIN f) \X { r \in Id : room[r] # Blank }
                     /\ members' = members \cup new
                     /\ Pass(UNION { KeysOf(m) : m \in new }, {})
      BY <3>1
    <3>5. new \subseteq Member
      BY <3>3, <3>4 DEF Member
    <3>6. UNION { KeysOf(m) : m \in new } \in SUBSET Key
      BY <3>5, MemberKeys
    <3> QED BY <3>2, <3>3, <3>4, <3>5, <3>6, PassTypes DEF LobbyInv
  <2> QED BY <2>1, <2>2 DEF InsertLobbies
<1>4. \A p \in LobbySlot \ {q} : \A w \in asked[p] :
        at[p] = "locked" => w.id \in LobbyTable!Live(lobby')
  BY <1>3 DEF LobbyInv, AskedInv
<1> QED BY <1>2, <1>3, <1>4, FinishSteady DEF Steady, TypesBut, LobbyInv, LobbyTypeOK

LEMMA WriteLobbySteady ==
  ASSUME LobbyInv, NEW q \in LobbySlot, NEW u \in asked[q],
         PatchLobby(q, u) \/ RemoveLobby(q, u)
  PROVE  Steady'
<1>1. /\ u \in LobbyRequest /\ u.id \in LobbyTable!Live(lobby) /\ lobby \in LobbyTable!Table
      /\ rows' = rows /\ members' = members /\ added' = added /\ cache' = cache /\ raced' = raced
  BY AskedKinds DEF PatchLobby, RemoveLobby, LobbyInv, AskedInv, LobbyTypeOK
<1>2. CASE PatchLobby(q, u)
  <2>1. u.setting \in Setting /\ lobby' = [lobby EXCEPT ![u.id].setting = u.setting]
    BY <1>1, <1>2, LobbyRequestKinds DEF PatchLobby
  <2>2. lobby' \in LobbyTable!Table /\ LobbyTable!Live(lobby') = LobbyTable!Live(lobby)
    BY <1>1, <2>1, LobbyEdited
  <2>3. \A p \in LobbySlot \ {q} : \A w \in asked[p] :
          at[p] = "locked" => w.id \in LobbyTable!Live(lobby')
    BY <2>2 DEF LobbyInv, AskedInv
  <2>4. Finish(q) /\ shown' = shown
    BY <1>2 DEF PatchLobby, Over
  <2> QED BY <1>1, <2>2, <2>3, <2>4, FinishSteady DEF Steady, TypesBut, LobbyInv, LobbyTypeOK
<1>3. CASE RemoveLobby(q, u)
  <2>1. /\ lobby' = [lobby EXCEPT ![u.id].state = "deleted"] /\ HoldersOf(u.id) = {q}
        /\ Onward(q, "drop") /\ u.op = "delete"
    BY <1>3 DEF RemoveLobby
  <2>2. /\ lobby' \in LobbyTable!Table
        /\ LobbyTable!Live(lobby') = LobbyTable!Live(lobby) \ {u.id}
    BY <1>1, <2>1, LobbyMarked
  <2>3. \A p \in LobbySlot \ {q} : \A w \in asked[p] :
          at[p] = "locked" => w.id \in LobbyTable!Live(lobby')
    BY <2>1, <2>2 DEF LobbyInv, AskedInv, HoldersOf
  <2>4. "drop" \in LobbyStepsOf(u.op)
    BY <2>1 DEF LobbyStepsOf
  <2> QED BY <1>1, <2>1, <2>2, <2>3, <2>4, OnwardSteady
          DEF Steady, TypesBut, LobbyInv, LobbyTypeOK
<1> QED BY <1>2, <1>3

LEMMA MemberSteady ==
  ASSUME LobbyInv, NEW q \in LobbySlot, NEW u \in asked[q],
         SaveMember(q, u) \/ EraseMember(q, u)
  PROVE  Steady'
<1>1. u \in LobbyRequest /\ u.op \in {"add", "remove"} /\ u.member \in Member
  BY AskedKinds, LobbyRequestKinds DEF SaveMember, EraseMember
<1>2. "drop" \in LobbyStepsOf(u.op)
  BY <1>1 DEF LobbyStepsOf
<1>3. /\ Finish(q) \/ Onward(q, "drop")
      /\ shown' = shown /\ lobby' = lobby /\ rows' = rows /\ cache' = cache
      /\ members' \in SUBSET Member /\ added' \in SUBSET Member
  BY <1>1 DEF SaveMember, EraseMember, Over, Onward, LobbyInv, LobbyTypeOK
<1>4. raced' \in [Instance -> SUBSET Key]
  <2>1. KeysOf(u.member) \in SUBSET Key
    BY <1>1, MemberKeys
  <2>2. PICK keys \in SUBSET Key : Pass(keys, {on[q]})
    BY <2>1 DEF SaveMember, EraseMember
  <2> QED BY <2>2, PassTypes DEF LobbyInv
<1> QED BY <1>2, <1>3, <1>4, LookSteady DEF Steady, TypesBut, LobbyInv, LobbyTypeOK

LEMMA ReaderSteady ==
  ASSUME LobbyInv, NEW q \in LobbySlot, NEW u \in asked[q],
         \/ DropLists(q, u) \/ QueryList(q, u) \/ FillList(q, u)
         \/ ReadLinks(q, u) \/ ReadLobbies(q, u)
  PROVE  Steady'
<1>1. lobby' = lobby /\ members' = members /\ added' = added
  BY DEF DropLists, QueryList, FillList, ReadLinks, ReadLobbies, tableVars
<1>2. \/ Finish(q)
      \/ \E next \in LobbyStepsOf(u.op) :
           Onward(q, next) /\ (next = "locked" => u.id \in LobbyTable!Live(lobby))
  <2>1. CASE QueryList(q, u)
    <3>1. "fill" \in LobbyStepsOf(u.op)
      BY <2>1, AskedKinds DEF QueryList, LobbyStepsOf
    <3> QED BY <2>1, <3>1 DEF QueryList
  <2>2. CASE ReadLinks(q, u)
    <3>1. "lobbies" \in LobbyStepsOf(u.op)
      BY <2>2, AskedKinds DEF ReadLinks, LobbyStepsOf
    <3>2. Onward(q, "lobbies") \/ Over(q)
      BY <2>2 DEF ReadLinks
    <3> QED BY <3>1, <3>2 DEF Over
  <2>3. CASE DropLists(q, u) \/ FillList(q, u) \/ ReadLobbies(q, u)
    BY <2>3 DEF DropLists, FillList, ReadLobbies, Over
  <2> QED BY <2>1, <2>2, <2>3
<1>3. /\ members \in SUBSET Member /\ added \in SUBSET Member
      /\ cache \in [Instance -> [Key -> SUBSET (SUBSET Member)]]
      /\ rows \in [LobbySlot -> SUBSET Member] /\ raced \in [Instance -> SUBSET Key]
      /\ shown \in [LobbySlot -> SUBSET Lobby] /\ on[q] \in Instance
      /\ rows[q] \in SUBSET Member
  BY DEF LobbyInv, LobbyTypeOK
<1>4. /\ cache' \in [Instance -> [Key -> SUBSET (SUBSET Member)]]
      /\ raced' \in [Instance -> SUBSET Key]
      /\ rows' \in [LobbySlot -> SUBSET Member] /\ shown' \in [LobbySlot -> SUBSET Lobby]
  <2>1. CASE DropLists(q, u)
    BY <1>3, <2>1, DropTypes DEF DropLists, Over, LobbyInv
  <2>2. CASE QueryList(q, u)
    BY <1>3, <2>2 DEF QueryList, Onward, RowsOf
  <2>3. CASE FillList(q, u)
    <3>1. u.key \in Key
      BY <2>3, AskedKinds, LobbyRequestKinds DEF FillList
    <3>2. cache' = [cache EXCEPT ![on[q]][u.key] = {rows[q]}]
      BY <2>3 DEF FillList
    <3>3. cache' \in [Instance -> [Key -> SUBSET (SUBSET Member)]]
      BY <1>3, <3>1, <3>2
    <3> QED BY <1>3, <2>3, <3>3 DEF FillList, Over
  <2>4. CASE ReadLinks(q, u)
    BY <1>3, <2>4 DEF ReadLinks, Onward, Over
  <2>5. CASE ReadLobbies(q, u)
    <3>1. LobbyTable!Live(lobby) \subseteq Lobby
      BY DEF LobbyTable!Live
    <3> QED BY <1>3, <2>5, <3>1 DEF ReadLobbies
  <2> QED BY <2>1, <2>2, <2>3, <2>4, <2>5
<1> QED BY <1>1, <1>2, <1>3, <1>4, LookSteady DEF Steady, TypesBut

LEMMA AskLobbySteady ==
  ASSUME LobbyInv, NEW q \in LobbySlot, AskLobby(q)
  PROVE  Steady'
<1>1. PICK u \in LobbyRequest :
        /\ lobbyBudget[u.op] > 0 /\ lobbyBudget' = [lobbyBudget EXCEPT ![u.op] = @ - 1]
        /\ asked' = [asked EXCEPT ![q] = {u}]
        /\ at' = [at EXCEPT ![q] = LobbyFirstStep(u)]
  BY DEF AskLobby
<1>2. u.op \in {"create", "provision", "update", "delete", "add", "remove", "list", "session"}
  BY LobbyRequestKinds DEF LobbyOp
<1>3. LobbyFirstStep(u) \in LobbyStepsOf(u.op) /\ LobbyFirstStep(u) # "locked"
  BY <1>2 DEF LobbyFirstStep, LobbyStepsOf
<1>4. LobbyFirstStep(u) \in LobbyStep
  BY <1>2 DEF LobbyFirstStep, LobbyStep
<1>5. lobbyBudget' \in [LobbyOp -> Nat]
  BY <1>1, <1>2 DEF LobbyInv, LobbyTypeOK, LobbyOp
<1>6. ASSUME NEW p \in LobbySlot PROVE AskedInv(p)'
  <2>0. lobby' = lobby
    BY DEF AskLobby, tableVars
  <2>1. CASE p = q
    <3>1. asked'[q] = {u} /\ at'[q] = LobbyFirstStep(u)
      BY <1>1 DEF LobbyInv, LobbyTypeOK
    <3> QED BY <1>3, <2>1, <3>1 DEF AskedInv
  <2>2. CASE p # q
    <3>1. asked'[p] = asked[p] /\ at'[p] = at[p]
      BY <1>1, <2>2 DEF LobbyInv, LobbyTypeOK
    <3> QED BY <2>0, <3>1 DEF LobbyInv, AskedInv
  <2> QED BY <2>1, <2>2
<1> QED BY <1>1, <1>4, <1>5, <1>6
        DEF AskLobby, tableVars, Steady, TypesBut, LobbyInv, LobbyTypeOK

LEMMA LobbyStepTypes ==
  RoomTypeOK /\ LobbyInv /\ [LobbyNext]_allVars => LobbyInv'
<1> SUFFICES ASSUME RoomTypeOK, LobbyInv, [LobbyNext]_allVars PROVE LobbyInv'
  OBVIOUS
<1>1. CASE UNCHANGED allVars
  BY <1>1 DEF allVars, lobbyVars, callVars, tableVars, LobbyInv, LobbyTypeOK, AskedInv
<1>2. CASE LobbyNext
  <2>1. Steady'
    <3>1. CASE UNCHANGED lobbyVars
      BY <3>1 DEF lobbyVars, callVars, tableVars, LobbyInv, LobbyTypeOK, AskedInv, Steady, TypesBut
    <3>2. ASSUME NEW q \in LobbySlot, AskLobby(q) PROVE Steady'
      BY <3>2, AskLobbySteady
    <3>3. ASSUME NEW q \in LobbySlot, ProceedLobby(q) PROVE Steady'
      BY <3>3, LobbyCallSteady, InsertSteady, WriteLobbySteady, MemberSteady, ReaderSteady
         DEF ProceedLobby
    <3>4. ASSUME NEW i \in Instance, NEW k \in Key, ExpireList(i, k) PROVE Steady'
      <4>1. Drop(i, {k}) /\ UNCHANGED <<callVars, tableVars>>
        BY <3>4 DEF ExpireList
      <4>2. /\ cache' \in [Instance -> [Key -> SUBSET (SUBSET Member)]]
            /\ raced' \in [Instance -> SUBSET Key]
        BY <4>1, DropTypes DEF LobbyInv
      <4> QED BY <4>1, <4>2
              DEF callVars, tableVars, LobbyInv, LobbyTypeOK, AskedInv, Steady, TypesBut
    <3> QED BY <1>2, <3>1, <3>2, <3>3, <3>4 DEF LobbyNext
  <2>2. /\ standing' \in [LobbySlot -> SUBSET Lobby] /\ seen' \in [LobbySlot -> SUBSET Lobby]
    <3>1. \A q \in LobbySlot : InView(q)' \subseteq Lobby
      BY DEF InView, Visible, LobbyTable!Live
    <3> QED BY <1>2, <3>1 DEF LobbyNext, RecordView, LobbyInv, LobbyTypeOK
  <2> QED BY <2>1, <2>2 DEF Steady, TypesBut, LobbyInv, LobbyTypeOK
<1> QED BY <1>1, <1>2

LEMMA LobbyInitTypes == LobbyInit => LobbyInv
<1> SUFFICES ASSUME LobbyInit PROVE LobbyInv
  OBVIOUS
<1>1. PICK p \in Places : lobby = p.lobby /\ members = p.members /\ lobbyBudget = p.lobbyBudget
  BY DEF LobbyInit
<1>2. lobby \in LobbyTable!Table /\ members \in SUBSET Member /\ lobbyBudget \in [LobbyOp -> Nat]
  BY <1>1, LobbyAssumption
<1>3. on \in [LobbySlot -> Instance]
  BY LobbyAssumption DEF LobbyInit
<1> QED BY <1>2, <1>3 DEF LobbyInit, LobbyInv, LobbyTypeOK, AskedInv, LobbyStep

\* Every variable of the lobbies keeps its type.
THEOREM LobbiesTypeCorrect == LobbySpec => []LobbyTypeOK
<1>1. LobbyInv => LobbyTypeOK
  BY DEF LobbyInv
<1>2. LobbySpec => []RoomTypeOK
  BY RoomSteps, RoomsTypeCorrect DEF LobbySpec
<1> QED BY <1>1, <1>2, LobbyInitTypes, LobbyStepTypes, PTL DEF LobbySpec

-----------------------------------------------------------------------------
(* The cap.                                                                *)

\* Memberships of a room that addRoomToLobby made, and calls that may yet make
\* one.
Joined(r) == { m \in added : m[2] = r }
Joining(r) == { q \in LobbySlot : at[q] = "save" /\ \E u \in asked[q] : u.member[2] = r }

\* As CapInv, room by room.
AddInv ==
  /\ added \subseteq members
  /\ \A r \in Id : Cardinality(Joined(r)) + Cardinality(Joining(r)) <=
                     MaxLobbies + Cardinality(LobbySlot) - 1

LEMMA FiniteMembers == IsFiniteSet(Member)
BY LobbyAssumption, TableAssumption, FS_Product DEF Member

LEMMA FiniteJoins ==
  ASSUME LobbyTypeOK, NEW r
  PROVE  /\ IsFiniteSet(Joined(r)) /\ Cardinality(Joined(r)) \in Nat
         /\ IsFiniteSet(Joining(r)) /\ Cardinality(Joining(r)) \in Nat
         /\ Cardinality(Joining(r)) <= Cardinality(LobbySlot)
         /\ Cardinality(LobbySlot) \in Nat /\ Cardinality(LobbySlot) > 0
<1>1. Joining(r) \subseteq LobbySlot /\ Joined(r) \subseteq Member
  BY DEF Joining, Joined, LobbyTypeOK
<1>2. Cardinality(LobbySlot) # 0
  BY LobbyAssumption, FS_EmptySet
<1> QED BY <1>1, <1>2, FiniteMembers, LobbyAssumption, FS_Subset, FS_CardinalityType

\* Steps that add nothing and count no room.
LEMMA FewerKeepsAdd ==
  ASSUME LobbyTypeOK, AddInv, added' \subseteq added, added' \subseteq members',
         \A r \in Id : Joining(r)' \subseteq Joining(r)
  PROVE  AddInv'
<1>1. ASSUME NEW r \in Id
      PROVE  Cardinality(Joined(r)') + Cardinality(Joining(r)') <=
               MaxLobbies + Cardinality(LobbySlot) - 1
  <2>1. Joined(r)' \subseteq Joined(r) /\ Joining(r)' \subseteq Joining(r)
    BY DEF Joined
  <2>2. Cardinality(Joined(r)') <= Cardinality(Joined(r)) /\ Cardinality(Joined(r)') \in Nat
    BY <2>1, FiniteJoins, FS_Subset, FS_CardinalityType
  <2>3. Cardinality(Joining(r)') <= Cardinality(Joining(r)) /\ Cardinality(Joining(r)') \in Nat
    BY <2>1, FiniteJoins, FS_Subset, FS_CardinalityType
  <2> QED BY <2>2, <2>3, FiniteJoins, LobbyAssumption DEF AddInv
<1> QED BY <1>1 DEF AddInv

\* A call that does not go on to its insert is not one of those to come.
LEMMA NotJoining ==
  ASSUME LobbyTypeOK, NEW q \in LobbySlot, NEW r,
         Finish(q) \/ \E next \in LobbyStep \ {"save"} : Onward(q, next)
  PROVE  Joining(r)' \subseteq Joining(r) \ {q}
BY DEF Finish, Onward, Joining, LobbyTypeOK

LEMMA ValidateKeepsAdd ==
  ASSUME LobbyInv, AddInv, NEW q \in LobbySlot, NEW u \in asked[q], ValidateAdd(q, u)
  PROVE  AddInv'
<1>1. added' = added /\ members' = members
  BY DEF ValidateAdd, Looks, tableVars
<1>2. CASE Finish(q)
  BY <1>1, <1>2, NotJoining, FewerKeepsAdd DEF LobbyInv, AddInv
<1>3. CASE Onward(q, "save") /\ Cardinality({ m \in members : m[2] = u.member[2] }) < MaxLobbies
  <2>1. asked[q] = {u} /\ u \in LobbyRequest /\ at' = [at EXCEPT ![q] = "save"] /\ asked' = asked
    BY <1>3, AskedKinds DEF Onward, LobbyInv, AskedInv
  <2>2. ASSUME NEW r \in Id, r # u.member[2] PROVE Joining(r)' \subseteq Joining(r)
    BY <2>1, <2>2 DEF Joining, LobbyInv, LobbyTypeOK
  <2>3. ASSUME NEW r \in Id, r = u.member[2]
        PROVE  Cardinality(Joined(r)) <= MaxLobbies - 1
    <3>1. Joined(r) \subseteq { m \in members : m[2] = r } /\ { m \in members : m[2] = r } \subseteq Member
      BY DEF Joined, AddInv, LobbyInv, LobbyTypeOK
    <3>2. IsFiniteSet({ m \in members : m[2] = r })
      BY <3>1, FiniteMembers, FS_Subset
    <3>3. /\ Cardinality(Joined(r)) <= Cardinality({ m \in members : m[2] = r })
          /\ Cardinality({ m \in members : m[2] = r }) \in Nat
      BY <3>1, <3>2, FS_Subset, FS_CardinalityType
    <3> QED BY <1>3, <2>3, <3>3, FiniteJoins, LobbyAssumption DEF LobbyInv
  <2>4. ASSUME NEW r \in Id
        PROVE  Cardinality(Joined(r)') + Cardinality(Joining(r)') <=
                 MaxLobbies + Cardinality(LobbySlot) - 1
    <3>1. Joined(r)' = Joined(r)
      BY <1>1 DEF Joined
    <3>2. Joining(r)' \subseteq LobbySlot
      BY DEF Joining
    <3>3. CASE r = u.member[2]
      <4>1. Cardinality(Joining(r)') <= Cardinality(LobbySlot) /\ Cardinality(Joining(r)') \in Nat
        BY <3>2, LobbyAssumption, FS_Subset, FS_CardinalityType
      <4> QED BY <2>3, <3>1, <3>3, <4>1, FiniteJoins, LobbyAssumption DEF LobbyInv
    <3>4. CASE r # u.member[2]
      <4>1. Cardinality(Joining(r)') <= Cardinality(Joining(r)) /\ Cardinality(Joining(r)') \in Nat
        BY <2>2, <3>4, FiniteJoins, FS_Subset, FS_CardinalityType DEF LobbyInv
      <4> QED BY <3>1, <4>1, FiniteJoins, LobbyAssumption DEF LobbyInv, AddInv
    <3> QED BY <3>3, <3>4
  <2> QED BY <1>1, <2>4 DEF AddInv
<1> QED BY <1>2, <1>3 DEF ValidateAdd, Over

LEMMA SaveKeepsAdd ==
  ASSUME LobbyInv, AddInv, NEW q \in LobbySlot, NEW u \in asked[q], SaveMember(q, u)
  PROVE  AddInv'
<1>1. at[q] = "save" /\ members' = members \cup {u.member}
  BY DEF SaveMember
<1>2. \A r : Joining(r)' \subseteq Joining(r) \ {q}
  BY NotJoining DEF SaveMember, Over, LobbyInv, LobbyStep
<1>3. CASE added' = added
  BY <1>1, <1>2, <1>3, FewerKeepsAdd DEF LobbyInv, AddInv
<1>4. CASE added' = added \cup {u.member}
  <2>1. ASSUME NEW r \in Id
        PROVE  Cardinality(Joined(r)') + Cardinality(Joining(r)') <=
                 MaxLobbies + Cardinality(LobbySlot) - 1
    <3>1. Cardinality(Joining(r)') <= Cardinality(Joining(r)) /\ Cardinality(Joining(r)') \in Nat
      BY <1>2, FiniteJoins, FS_Subset, FS_CardinalityType DEF LobbyInv
    <3>2. CASE r # u.member[2]
      <4>1. Joined(r)' = Joined(r)
        BY <1>4, <3>2 DEF Joined
      <4> QED BY <3>1, <4>1, FiniteJoins, LobbyAssumption DEF LobbyInv, AddInv
    <3>3. CASE r = u.member[2]
      <4>1. q \in Joining(r)
        BY <1>1, <3>3 DEF Joining
      <4>2. /\ IsFiniteSet(Joining(r) \ {q})
            /\ Cardinality(Joining(r) \ {q}) = Cardinality(Joining(r)) - 1
        BY <4>1, FiniteJoins, FS_RemoveElement DEF LobbyInv
      <4>3. Cardinality(Joining(r)') <= Cardinality(Joining(r)) - 1
        BY <1>2, <4>2, FS_Subset
      <4>4. Joined(r)' \subseteq Joined(r) \cup {u.member}
        BY <1>4 DEF Joined
      <4>5. /\ IsFiniteSet(Joined(r) \cup {u.member})
            /\ Cardinality(Joined(r) \cup {u.member}) =
                 IF u.member \in Joined(r) THEN Cardinality(Joined(r))
                                           ELSE Cardinality(Joined(r)) + 1
        BY FiniteJoins, FS_AddElement DEF LobbyInv
      <4>6. Cardinality(Joined(r)') <= Cardinality(Joined(r)) + 1 /\ Cardinality(Joined(r)') \in Nat
        <5>1. /\ IsFiniteSet(Joined(r)')
              /\ Cardinality(Joined(r)') <= Cardinality(Joined(r) \cup {u.member})
          BY <4>4, <4>5, FS_Subset
        <5>2. Cardinality(Joined(r)') \in Nat
          BY <5>1, FS_CardinalityType
        <5> QED BY <4>5, <5>1, <5>2, FiniteJoins DEF LobbyInv
      <4> QED BY <3>1, <4>3, <4>6, FiniteJoins, LobbyAssumption DEF LobbyInv, AddInv
    <3> QED BY <3>2, <3>3
  <2>2. added' \subseteq members'
    BY <1>1, <1>4 DEF AddInv
  <2> QED BY <2>1, <2>2 DEF AddInv
<1> QED BY <1>3, <1>4 DEF SaveMember

LEMMA AddStep ==
  RoomTypeOK /\ LobbyInv /\ AddInv /\ [LobbyNext]_allVars => AddInv'
<1> SUFFICES ASSUME LobbyInv, AddInv, [LobbyNext]_allVars PROVE AddInv'
  OBVIOUS
<1>0. LobbyTypeOK
  BY DEF LobbyInv
<1>1. ASSUME UNCHANGED <<added, members, at, asked>> PROVE AddInv'
  BY <1>1 DEF AddInv, Joined, Joining
<1>2. ASSUME NEW q \in LobbySlot, AskLobby(q) PROVE AddInv'
  <2>1. PICK u \in LobbyRequest : /\ asked' = [asked EXCEPT ![q] = {u}]
                                  /\ at' = [at EXCEPT ![q] = LobbyFirstStep(u)]
    BY <1>2 DEF AskLobby
  <2>2. LobbyFirstStep(u) # "save"
    BY LobbyRequestKinds DEF LobbyFirstStep, LobbyOp
  <2>3. added' = added /\ members' = members
    BY <1>2 DEF AskLobby, tableVars
  <2>4. \A r : Joining(r)' \subseteq Joining(r)
    BY <2>1, <2>2 DEF Joining, LobbyInv, LobbyTypeOK
  <2> QED BY <1>0, <2>3, <2>4, FewerKeepsAdd DEF AddInv
<1>3. ASSUME NEW q \in LobbySlot, NEW u \in asked[q],
             Finish(q) \/ \E next \in LobbyStep \ {"save"} : Onward(q, next),
             added' \subseteq added, added' \subseteq members'
      PROVE  AddInv'
  BY <1>0, <1>3, NotJoining, FewerKeepsAdd
<1>4. ASSUME NEW q \in LobbySlot, ProceedLobby(q) PROVE AddInv'
  <2>1. PICK u \in asked[q] :
          \/ CheckLobbySlug(q, u) \/ InsertLobbies(q, u)
          \/ LockLobby(q, u) \/ PatchLobby(q, u) \/ RemoveLobby(q, u) \/ BreakLobbyDeadlock(q, u)
          \/ ValidateAdd(q, u) \/ SaveMember(q, u) \/ FindLobby(q, u) \/ EraseMember(q, u)
          \/ DropLists(q, u) \/ QueryList(q, u) \/ FillList(q, u)
          \/ ReadLinks(q, u) \/ ReadLobbies(q, u)
    BY <1>4 DEF ProceedLobby
  <2>2. CASE ValidateAdd(q, u)
    BY <2>2, ValidateKeepsAdd
  <2>3. CASE SaveMember(q, u)
    BY <2>3, SaveKeepsAdd
  <2>4. CASE InsertLobbies(q, u)
    <3>1. Finish(q) /\ added' = added /\ members \subseteq members'
      BY <2>4 DEF InsertLobbies, Over
    <3> QED BY <1>3, <3>1 DEF AddInv
  <2>5. CASE EraseMember(q, u)
    <3>1. Onward(q, "drop") /\ added' = added \ {u.member} /\ members' = members \ {u.member}
      BY <2>5 DEF EraseMember
    <3> QED BY <1>3, <3>1 DEF AddInv, LobbyStep
  <2>6. CASE CheckLobbySlug(q, u) \/ LockLobby(q, u) \/ BreakLobbyDeadlock(q, u) \/ FindLobby(q, u)
    <3>1. added' = added /\ members' = members
      BY <2>6 DEF CheckLobbySlug, LockLobby, BreakLobbyDeadlock, FindLobby, Looks, tableVars
    <3>2. Finish(q) \/ \E next \in LobbyStep \ {"save"} : Onward(q, next)
      BY <2>6 DEF CheckLobbySlug, LockLobby, BreakLobbyDeadlock, FindLobby, Over, LobbyStep
    <3> QED BY <1>3, <3>1, <3>2 DEF AddInv
  <2>7. CASE PatchLobby(q, u) \/ RemoveLobby(q, u)
    <3>1. added' = added /\ members' = members
      BY <2>7 DEF PatchLobby, RemoveLobby
    <3>2. Finish(q) \/ \E next \in LobbyStep \ {"save"} : Onward(q, next)
      BY <2>7 DEF PatchLobby, RemoveLobby, Over, LobbyStep
    <3> QED BY <1>3, <3>1, <3>2 DEF AddInv
  <2>8. CASE \/ DropLists(q, u) \/ QueryList(q, u) \/ FillList(q, u)
             \/ ReadLinks(q, u) \/ ReadLobbies(q, u)
    <3>1. added' = added /\ members' = members
      BY <2>8 DEF DropLists, QueryList, FillList, ReadLinks, ReadLobbies, tableVars
    <3>2. Finish(q) \/ \E next \in LobbyStep \ {"save"} : Onward(q, next)
      BY <2>8 DEF DropLists, QueryList, FillList, ReadLinks, ReadLobbies, Over, LobbyStep
    <3> QED BY <1>3, <3>1, <3>2 DEF AddInv
  <2> QED BY <2>1, <2>2, <2>3, <2>4, <2>5, <2>6, <2>7, <2>8
<1>5. ASSUME NEW i \in Instance, NEW k \in Key, ExpireList(i, k) PROVE AddInv'
  BY <1>1, <1>5 DEF ExpireList, callVars, tableVars
<1> QED BY <1>1, <1>2, <1>4, <1>5
        DEF LobbyNext, allVars, lobbyVars, callVars, tableVars

LEMMA InitAdd == LobbyInit => AddInv
<1> SUFFICES ASSUME LobbyInit PROVE AddInv
  OBVIOUS
<1>1. added = {} /\ LobbyTypeOK
  BY LobbyInitTypes DEF LobbyInit, LobbyInv
<1>2. ASSUME NEW r \in Id PROVE Joined(r) = {} /\ Joining(r) = {}
  BY DEF LobbyInit, Joined, Joining
<1>3. Cardinality({}) = 0
  BY FS_EmptySet
<1>4. Cardinality(LobbySlot) \in Nat /\ Cardinality(LobbySlot) > 0
  BY <1>1, FiniteJoins
<1>5. ASSUME NEW r \in Id
      PROVE  Cardinality(Joined(r)) + Cardinality(Joining(r)) <=
               MaxLobbies + Cardinality(LobbySlot) - 1
  <2>1. Cardinality(Joined(r)) = 0 /\ Cardinality(Joining(r)) = 0
    BY <1>2, <1>3, <1>5
  <2> QED BY <1>4, <2>1, LobbyAssumption
<1> QED BY <1>1, <1>5 DEF AddInv

\* addRoomToLobby exceeds its cap by fewer lobbies than there are calls on
\* lobbies, whatever they are, however many rooms there are, and whatever
\* provisioning adds beside them.
THEOREM AddedNearlyCapped == LobbySpec => []AddedWithinCap
<1>1. LobbyInv /\ AddInv => AddedWithinCap
  <2> SUFFICES ASSUME LobbyInv, AddInv, NEW r \in Id
               PROVE  Cardinality({ m \in added : m[2] = r }) <=
                        MaxLobbies + Cardinality(LobbySlot) - 1
    BY DEF AddedWithinCap
  <2>1. Cardinality(Joined(r)) + Cardinality(Joining(r)) <=
          MaxLobbies + Cardinality(LobbySlot) - 1
    BY DEF AddInv
  <2>2. /\ Cardinality(Joined(r)) \in Nat /\ Cardinality(Joining(r)) \in Nat
        /\ Cardinality(LobbySlot) \in Nat
    BY FiniteJoins DEF LobbyInv
  <2>3. Cardinality(Joined(r)) <= MaxLobbies + Cardinality(LobbySlot) - 1
    BY <2>1, <2>2, LobbyAssumption
  <2> QED BY <2>3 DEF Joined
<1>2. LobbySpec => []RoomTypeOK
  BY RoomSteps, RoomsTypeCorrect DEF LobbySpec
<1> QED BY <1>1, <1>2, LobbyInitTypes, LobbyStepTypes, InitAdd, AddStep, PTL DEF LobbySpec

-----------------------------------------------------------------------------
(* Cached lists.  A list between its query and its store is the table's    *)
(* too, unless a change went past it, which raced remembers.               *)

Fetched(q) ==
  \A u \in asked[q] :
    at[q] = "fill" /\ u.key \notin raced[on[q]] => rows[q] = RowsOf(u.key)

ListInv == ListsCurrent /\ \A q \in LobbySlot : Fetched(q)

\* A call that steps disturbs what no other call drops or stores.
LEMMA OneSteps ==
  ASSUME LobbyInv, NEW q \in LobbySlot,
         Finish(q) \/ \E next \in LobbyStep : Onward(q, next)
  PROVE  /\ on' = on
         /\ \A p \in LobbySlot \ {q} : at'[p] = at[p] /\ asked'[p] = asked[p]
BY DEF Finish, Onward, LobbyInv, LobbyTypeOK

\* A change that Pass records, and that is about to drop the lists it does not.
LEMMA PassKeepsLists ==
  ASSUME LobbyInv, ListInv, NEW q \in LobbySlot, NEW keys, NEW drops,
         Pass(keys, drops), cache' = cache, rows' = rows,
         at[q] \notin {"drop", "fill"},
         Finish(q) \/ \E next \in LobbyStep \ {"fill"} : Onward(q, next),
         \A k \in Key \ keys : RowsOf(k)' = RowsOf(k),
         \A i \in drops, k \in keys : Dropping(i, k)'
  PROVE  ListInv'
<1>1. on' = on /\ \A p \in LobbySlot \ {q} : at'[p] = at[p] /\ asked'[p] = asked[p]
  BY OneSteps
<1>2. \A i \in Instance : raced'[i] = raced[i] \cup
        { k \in keys : Filling(i, k) \/ (i \notin drops /\ cache[i][k] # {}) }
  BY DEF Pass
<1>3. ASSUME NEW i \in Instance, NEW k \in Key, Dropping(i, k) PROVE Dropping(i, k)'
  BY <1>1, <1>3 DEF Dropping, DroppedKeys
<1>4. ASSUME NEW i \in Instance, NEW k \in Key,
             cache'[i][k] # {}, k \notin raced'[i], ~Dropping(i, k)'
      PROVE  cache'[i][k] = {RowsOf(k)'}
  <2>1. k \notin keys
    BY <1>2, <1>4
  <2>2. cache[i][k] = {RowsOf(k)}
    BY <1>2, <1>3, <1>4 DEF ListInv, ListsCurrent
  <2> QED BY <2>1, <2>2
<1>5. ASSUME NEW p \in LobbySlot PROVE Fetched(p)'
  <2>1. CASE p = q
    BY <2>1 DEF Fetched, Finish, Onward, LobbyInv, LobbyTypeOK
  <2>2. CASE p # q
    <3> SUFFICES ASSUME NEW u \in asked[p], at[p] = "fill", u.key \notin raced'[on[p]]
                 PROVE  rows[p] = RowsOf(u.key)'
      BY <1>1, <2>2 DEF Fetched
    <3>1. on[p] \in Instance /\ u.key \in Key
      BY AskedKinds, LobbyRequestKinds DEF LobbyInv, LobbyTypeOK
    <3>2. Filling(on[p], u.key)
      BY DEF Filling
    <3>3. u.key \notin keys /\ u.key \notin raced[on[p]]
      BY <1>2, <3>1, <3>2
    <3> QED BY <3>1, <3>3 DEF ListInv, Fetched
  <2> QED BY <2>1, <2>2
<1> QED BY <1>4, <1>5 DEF ListInv, ListsCurrent

\* Lists that are dropped, by a call that is done or at the end of their time.
LEMMA DropKeepsLists ==
  ASSUME LobbyInv, ListInv, NEW i \in Instance, NEW keys, Drop(i, keys),
         members' = members, rows' = rows, on' = on,
         \A p \in LobbySlot :
           \/ at'[p] = at[p] /\ asked'[p] = asked[p]
           \/ /\ asked'[p] = {} /\ on[p] = i /\ at[p] = "drop"
              /\ \A u \in asked[p] : DroppedKeys(u) \subseteq keys
  PROVE  ListInv'
<1> DEFINE kept(k) == k \notin keys \/ Filling(i, k)
<1>0. \A k : RowsOf(k)' = RowsOf(k)
  BY DEF RowsOf, KeysOf
<1>1. /\ \A j \in Instance \ {i} : cache'[j] = cache[j] /\ raced'[j] = raced[j]
      /\ \A k \in Key : cache'[i][k] = IF k \in keys THEN {} ELSE cache[i][k]
      /\ raced'[i] = { k \in raced[i] : kept(k) }
  BY DEF Drop, LobbyInv, LobbyTypeOK
<1>2. ASSUME NEW j \in Instance, NEW k \in Key, Dropping(j, k), j # i \/ k \notin keys
      PROVE  Dropping(j, k)'
  <2>1. PICK p \in LobbySlot : at[p] = "drop" /\ on[p] = j /\ \E u \in asked[p] : k \in DroppedKeys(u)
    BY <1>2 DEF Dropping
  <2>2. at'[p] = at[p] /\ asked'[p] = asked[p]
    BY <1>2, <2>1
  <2> QED BY <2>1, <2>2 DEF Dropping, DroppedKeys
<1>3. ASSUME NEW j \in Instance, NEW k \in Key,
             cache'[j][k] # {}, k \notin raced'[j], ~Dropping(j, k)'
      PROVE  cache'[j][k] = {RowsOf(k)'}
  <2>1. j # i \/ k \notin keys
    BY <1>1, <1>3
  <2>2. cache'[j][k] = cache[j][k] /\ k \notin raced[j]
    BY <1>1, <1>3, <2>1
  <2> QED BY <1>0, <1>2, <1>3, <2>1, <2>2 DEF ListInv, ListsCurrent
<1>4. ASSUME NEW p \in LobbySlot PROVE Fetched(p)'
  <2> SUFFICES ASSUME NEW u \in asked'[p], at'[p] = "fill", u.key \notin raced'[on[p]]
               PROVE  rows[p] = RowsOf(u.key)
    BY <1>0 DEF Fetched
  <2>1. at[p] = "fill" /\ u \in asked[p]
    OBVIOUS
  <2>2. Filling(on[p], u.key) /\ on[p] \in Instance
    BY <2>1 DEF Filling, LobbyInv, LobbyTypeOK
  <2>3. u.key \notin raced[on[p]]
    BY <1>1, <2>2
  <2> QED BY <2>1, <2>3 DEF ListInv, Fetched
<1> QED BY <1>3, <1>4 DEF ListInv, ListsCurrent

\* Steps that change no membership and no list.
LEMMA QuietKeepsLists ==
  ASSUME LobbyInv, ListInv, NEW q \in LobbySlot,
         members' = members, cache' = cache, raced' = raced, on' = on,
         at[q] \notin {"drop", "fill"}, at'[q] # "fill",
         \A p \in LobbySlot \ {q} : at'[p] = at[p] /\ asked'[p] = asked[p] /\ rows'[p] = rows[p]
  PROVE  ListInv'
<1>0. \A k : RowsOf(k)' = RowsOf(k)
  BY DEF RowsOf, KeysOf
<1>1. ASSUME NEW i \in Instance, NEW k \in Key, Dropping(i, k) PROVE Dropping(i, k)'
  BY <1>1 DEF Dropping, DroppedKeys
<1>2. ListsCurrent'
  BY <1>0, <1>1 DEF ListInv, ListsCurrent
<1>3. \A p \in LobbySlot : Fetched(p)'
  BY <1>0 DEF ListInv, Fetched
<1> QED BY <1>2, <1>3 DEF ListInv

LEMMA ChangeKeepsLists ==
  ASSUME LobbyInv, ListInv, NEW q \in LobbySlot, NEW u \in asked[q],
         InsertLobbies(q, u) \/ SaveMember(q, u) \/ EraseMember(q, u)
  PROVE  ListInv'
<1>1. CASE InsertLobbies(q, u)
  <2>1. Finish(q) /\ rows' = rows /\ cache' = cache /\ at[q] = "insert"
    BY <1>1 DEF InsertLobbies, Over
  <2>2. CASE members' = members /\ raced' = raced
    BY <2>1, <2>2, OneSteps, QuietKeepsLists DEF Finish, LobbyInv, LobbyTypeOK
  <2>3. CASE \E new : members' = members \cup new /\ Pass(UNION { KeysOf(m) : m \in new }, {})
    <3>1. PICK new : members' = members \cup new /\ Pass(UNION { KeysOf(m) : m \in new }, {})
      BY <2>3
    <3>2. \A k \in Key \ UNION { KeysOf(m) : m \in new } : RowsOf(k)' = RowsOf(k)
      BY <3>1 DEF RowsOf, KeysOf
    <3> QED BY <2>1, <3>1, <3>2, PassKeepsLists
  <2> QED BY <1>1, <2>2, <2>3 DEF InsertLobbies
<1>2. CASE SaveMember(q, u) \/ EraseMember(q, u)
  <2> DEFINE keys == IF members' = members THEN {} ELSE KeysOf(u.member)
  <2>1. /\ rows' = rows /\ cache' = cache /\ at[q] \in {"save", "erase"}
        /\ u.op \in {"add", "remove"} /\ asked[q] = {u}
        /\ members' \in {members \cup {u.member}, members \ {u.member}}
        /\ Finish(q) \/ Onward(q, "drop")
    BY <1>2, AskedKinds DEF SaveMember, EraseMember, Over
  <2>2. Pass(keys, {on[q]})
    <3>1. CASE u.member \in members
      BY <1>2, <3>1 DEF SaveMember, EraseMember
    <3>2. CASE u.member \notin members
      BY <1>2, <3>2 DEF SaveMember, EraseMember
    <3> QED BY <3>1, <3>2
  <2>3. \A k \in Key \ keys : RowsOf(k)' = RowsOf(k)
    BY <2>1 DEF RowsOf, KeysOf
  <2>4. ASSUME keys # {} PROVE \A i \in {on[q]}, k \in keys : Dropping(i, k)'
    <3>1. Onward(q, "drop")
      BY <1>2, <2>4 DEF SaveMember, EraseMember
    <3>2. at'[q] = "drop" /\ asked'[q] = {u} /\ on'[q] = on[q]
      BY <2>1, <3>1 DEF Onward, LobbyInv, LobbyTypeOK
    <3>3. DroppedKeys(u) = KeysOf(u.member)
      BY <2>1 DEF DroppedKeys
    <3> QED BY <2>4, <3>2, <3>3 DEF Dropping, DroppedKeys, KeysOf
  <2> QED BY <2>1, <2>2, <2>3, <2>4, PassKeepsLists DEF LobbyStep
<1> QED BY <1>1, <1>2

LEMMA ReaderKeepsLists ==
  ASSUME LobbyInv, ListInv, NEW q \in LobbySlot, NEW u \in asked[q],
         QueryList(q, u) \/ FillList(q, u) \/ DropLists(q, u)
  PROVE  ListInv'
<1>0. asked[q] = {u} /\ on[q] \in Instance /\ members' = members
  BY AskedKinds DEF QueryList, FillList, DropLists, tableVars, LobbyInv, LobbyTypeOK
<1>1. \A k : RowsOf(k)' = RowsOf(k)
  BY <1>0 DEF RowsOf, KeysOf
<1>2. on' = on /\ \A p \in LobbySlot \ {q} : at'[p] = at[p] /\ asked'[p] = asked[p]
  BY OneSteps DEF QueryList, FillList, DropLists, Over, LobbyStep
<1>3. CASE QueryList(q, u)
  <2>1. /\ cache' = cache /\ raced' = raced /\ rows' = [rows EXCEPT ![q] = RowsOf(u.key)]
        /\ at[q] = "query" /\ asked' = asked
    BY <1>3 DEF QueryList, Onward
  <2>2. ASSUME NEW i \in Instance, NEW k \in Key, Dropping(i, k) PROVE Dropping(i, k)'
    BY <1>2, <2>1, <2>2 DEF Dropping, DroppedKeys
  <2>3. ListsCurrent'
    BY <1>1, <2>1, <2>2 DEF ListInv, ListsCurrent
  <2>4. ASSUME NEW p \in LobbySlot PROVE Fetched(p)'
    BY <1>0, <1>1, <1>2, <2>1 DEF ListInv, Fetched, LobbyInv, LobbyTypeOK
  <2> QED BY <2>3, <2>4 DEF ListInv
<1>4. CASE FillList(q, u)
  <2>1. /\ raced' = raced /\ at[q] = "fill" /\ asked' = [asked EXCEPT ![q] = {}]
        /\ cache' = [cache EXCEPT ![on[q]][u.key] = {rows[q]}]
        /\ rows' = [rows EXCEPT ![q] = {}]
    BY <1>4 DEF FillList, Over, Finish
  <2>2. ASSUME NEW i \in Instance, NEW k \in Key, Dropping(i, k) PROVE Dropping(i, k)'
    BY <1>2, <2>1, <2>2 DEF Dropping, DroppedKeys
  <2>3. ASSUME NEW i \in Instance, NEW k \in Key,
               cache'[i][k] # {}, k \notin raced'[i], ~Dropping(i, k)'
        PROVE  cache'[i][k] = {RowsOf(k)'}
    <3>1. cache \in [Instance -> [Key -> SUBSET (SUBSET Member)]]
      BY DEF LobbyInv, LobbyTypeOK
    <3>2. CASE i = on[q] /\ k = u.key
      <4>1. rows[q] = RowsOf(k)
        BY <2>1, <2>3, <3>2 DEF ListInv, Fetched
      <4> QED BY <1>1, <2>1, <3>1, <3>2, <4>1
    <3>3. CASE ~(i = on[q] /\ k = u.key)
      <4>1. cache'[i][k] = cache[i][k]
        BY <2>1, <3>1, <3>3
      <4> QED BY <1>1, <2>1, <2>2, <2>3, <4>1 DEF ListInv, ListsCurrent
    <3> QED BY <3>2, <3>3
  <2>4. ASSUME NEW p \in LobbySlot PROVE Fetched(p)'
    BY <1>1, <1>2, <2>1 DEF ListInv, Fetched, LobbyInv, LobbyTypeOK
  <2> QED BY <2>3, <2>4 DEF ListInv, ListsCurrent
<1>5. CASE DropLists(q, u)
  <2>1. Drop(on[q], DroppedKeys(u)) /\ at[q] = "drop" /\ rows' = rows
    BY <1>5 DEF DropLists
  <2>2. asked'[q] = {}
    BY <1>5 DEF DropLists, Over, Finish, LobbyInv, LobbyTypeOK
  <2>3. \A p \in LobbySlot :
           \/ at'[p] = at[p] /\ asked'[p] = asked[p]
           \/ /\ asked'[p] = {} /\ on[p] = on[q] /\ at[p] = "drop"
              /\ \A w \in asked[p] : DroppedKeys(w) \subseteq DroppedKeys(u)
    BY <1>0, <1>2, <2>1, <2>2
  <2> QED BY <1>0, <1>2, <2>1, <2>3, DropKeepsLists
<1> QED BY <1>3, <1>4, <1>5

LEMMA OthersKeepLists ==
  ASSUME LobbyInv, ListInv, NEW q \in LobbySlot, NEW u \in asked[q],
         \/ CheckLobbySlug(q, u) \/ LockLobby(q, u) \/ PatchLobby(q, u)
         \/ RemoveLobby(q, u) \/ BreakLobbyDeadlock(q, u)
         \/ ValidateAdd(q, u) \/ FindLobby(q, u) \/ ReadLinks(q, u) \/ ReadLobbies(q, u)
  PROVE  ListInv'
<1>1. /\ members' = members /\ cache' = cache /\ raced' = raced
      /\ at[q] \notin {"drop", "fill"}
      /\ \A p \in LobbySlot \ {q} : rows'[p] = rows[p]
  BY DEF CheckLobbySlug, LockLobby, PatchLobby, RemoveLobby, BreakLobbyDeadlock,
     ValidateAdd, FindLobby, ReadLinks, ReadLobbies, Looks, tableVars, LobbyInv, LobbyTypeOK
<1>2. Finish(q) \/ \E next \in {"insert", "locked", "drop", "save", "erase", "lobbies"} : Onward(q, next)
  BY DEF CheckLobbySlug, LockLobby, PatchLobby, RemoveLobby, BreakLobbyDeadlock,
     ValidateAdd, FindLobby, ReadLinks, ReadLobbies, Over
<1>3. on' = on /\ \A p \in LobbySlot \ {q} : at'[p] = at[p] /\ asked'[p] = asked[p]
  BY <1>2, OneSteps DEF LobbyStep
<1>4. at'[q] # "fill"
  BY <1>2 DEF Finish, Onward, LobbyInv, LobbyTypeOK
<1> QED BY <1>1, <1>3, <1>4, QuietKeepsLists

LEMMA ListStep ==
  LobbyInv /\ ListInv /\ [LobbyNext]_allVars => ListInv'
<1> SUFFICES ASSUME LobbyInv, ListInv, [LobbyNext]_allVars PROVE ListInv'
  OBVIOUS
<1>1. CASE UNCHANGED lobbyVars
  BY <1>1 DEF lobbyVars, callVars, tableVars, ListInv, ListsCurrent, Fetched, Dropping,
     DroppedKeys, RowsOf, KeysOf
<1>2. ASSUME NEW q \in LobbySlot, AskLobby(q) PROVE ListInv'
  <2>1. PICK u \in LobbyRequest : /\ asked' = [asked EXCEPT ![q] = {u}]
                                  /\ at' = [at EXCEPT ![q] = LobbyFirstStep(u)]
    BY <1>2 DEF AskLobby
  <2>2. LobbyFirstStep(u) # "fill"
    BY LobbyRequestKinds DEF LobbyFirstStep, LobbyOp
  <2>3. at[q] = "idle"
    BY <1>2 DEF AskLobby, LobbyInv, AskedInv
  <2>4. /\ at'[q] # "fill"
        /\ \A p \in LobbySlot \ {q} : at'[p] = at[p] /\ asked'[p] = asked[p]
    BY <2>1, <2>2 DEF LobbyInv, LobbyTypeOK
  <2> QED BY <1>2, <2>3, <2>4, QuietKeepsLists DEF AskLobby, tableVars
<1>3. ASSUME NEW q \in LobbySlot, ProceedLobby(q) PROVE ListInv'
  BY <1>3, ChangeKeepsLists, ReaderKeepsLists, OthersKeepLists DEF ProceedLobby
<1>4. ASSUME NEW i \in Instance, NEW k \in Key, ExpireList(i, k) PROVE ListInv'
  BY <1>4, DropKeepsLists DEF ExpireList, callVars, tableVars
<1> QED BY <1>1, <1>2, <1>3, <1>4 DEF LobbyNext, allVars

\* A list a process holds is the table's, but for the changes named, for any
\* number of processes, calls and lists.
THEOREM ListsKeptCurrent == LobbySpec => []ListsCurrent
<1>1. LobbyInit => ListInv
  BY DEF LobbyInit, ListInv, ListsCurrent, Fetched
<1>2. ListInv => ListsCurrent
  BY DEF ListInv
<1>3. LobbySpec => []RoomTypeOK
  BY RoomSteps, RoomsTypeCorrect DEF LobbySpec
<1> QED BY <1>1, <1>2, <1>3, LobbyInitTypes, LobbyStepTypes, ListStep, PTL DEF LobbySpec

-----------------------------------------------------------------------------
(* What a session is shown.                                                *)

\* A lobby that was there is there, live only if it was live before; one that
\* was deleted is as it was.  Ids are not reused.
Ages ==
  \A l \in Lobby : lobby[l] # Blank =>
    /\ lobby'[l] # Blank /\ (lobby'[l].state = "live" => lobby[l].state = "live")
    /\ lobby[l].state = "deleted" => lobby'[l] = lobby[l]

\* A membership is of a lobby there is or was, and so is one to be added.
LinksReal ==
  /\ \A m \in members : lobby[m[1]] # Blank
  /\ \A q \in LobbySlot : \A u \in asked[q] : u.op = "add" => lobby[u.member[1]] # Blank

\* A call that runs shows nothing yet; a session that has read its links has
\* read those of every lobby in view throughout, and of none, among the lobbies
\* that are live now, that was never in view.
Viewing(q) ==
  /\ shown[q] = {}
  /\ standing[q] \subseteq InView(q) /\ InView(q) \subseteq seen[q]
  /\ at[q] = "lobbies" => \A m \in rows[q] :
       lobby[m[1]] # Blank /\ (lobby[m[1]].state = "live" => m[1] \in seen[q])
  /\ at[q] = "lobbies" => standing[q] \subseteq { m[1] : m \in rows[q] }

Viewed(q) == standing[q] \subseteq shown[q] /\ shown[q] \subseteq seen[q]

ViewInv ==
  LinksReal /\ \A q \in LobbySlot : (asked[q] = {} => Viewed(q)) /\ (asked[q] # {} => Viewing(q))

LEMMA InsertAges ==
  ASSUME LobbyInv, RoomTypeOK, LinksReal, NEW q \in LobbySlot, NEW u \in asked[q],
         InsertLobbies(q, u)
  PROVE  Ages /\ \A m \in members' : lobby'[m[1]] # Blank
<1>1. lobby \in LobbyTable!Table /\ members \in SUBSET Member
  BY DEF LobbyInv, LobbyTypeOK
<1>2. CASE UNCHANGED <<lobby, members>>
  BY <1>2 DEF Ages, LinksReal
<1>3. ASSUME NEW f \in LobbyTable!Newcomers(lobby, LobbyTable!Wanted(u)),
             lobby' = LobbyTable!Inserted(lobby, f),
             NEW new \in SUBSET ((DOMAIN f) \X { r \in Id : room[r] # Blank }),
             members' = members \cup new
      PROVE  Ages /\ \A m \in members' : lobby'[m[1]] # Blank
  <2>1. PICK ids \in SUBSET LobbyTable!Unused(lobby) :
               f \in LobbyTable!Bijection(ids, LobbyTable!Wanted(u))
    BY <1>3 DEF LobbyTable!Newcomers
  <2>2. ids \subseteq Lobby /\ DOMAIN f = ids
    BY <2>1 DEF LobbyTable!Bijection, LobbyTable!Injection, LobbyTable!Unused
  <2>3. /\ \A l \in Lobby \ ids : lobby'[l] = lobby[l]
        /\ \A l \in ids : lobby[l] = Blank /\ lobby'[l] # Blank
    BY <1>3, <2>1, <2>2 DEF LobbyTable!Inserted, LobbyTable!Unused, LobbyTable!Blank, Blank
  <2>4. \A m \in new : m[1] \in ids
    BY <1>3, <2>2
  <2>5. \A m \in members : m[1] \in Lobby /\ lobby[m[1]] # Blank
    BY <1>1 DEF LinksReal, Member
  <2> QED BY <1>3, <2>2, <2>3, <2>4, <2>5 DEF Ages
<1> QED BY <1>2, <1>3 DEF InsertLobbies

LEMMA WriteAges ==
  ASSUME LobbyInv, LinksReal, NEW q \in LobbySlot, NEW u \in asked[q],
         \/ PatchLobby(q, u) \/ RemoveLobby(q, u)
         \/ SaveMember(q, u) \/ EraseMember(q, u)
         \/ lobby' = lobby /\ members' = members
  PROVE  Ages /\ \A m \in members' : lobby'[m[1]] # Blank
<1>1. /\ lobby \in [Lobby -> LobbyTable!Row] /\ members \in SUBSET Member
      /\ at[q] = "locked" => u.id \in Lobby /\ lobby[u.id].state = "live"
      /\ at[q] = "save" => u.op = "add"
  BY AskedKinds DEF LobbyInv, LobbyTypeOK, LobbyTable!Table, AskedInv, LobbyTable!Live
<1>2. \A m \in members : m[1] \in Lobby /\ lobby[m[1]] # Blank
  BY <1>1 DEF LinksReal, Member
<1>3. \A l \in Lobby : lobby[l].state \in {"live", "deleted"} =>
        \A x : [lobby[l] EXCEPT !.setting = x] # Blank /\ [lobby[l] EXCEPT !.setting = x].state = lobby[l].state
  BY <1>1 DEF LobbyTable!Row, LobbyTable!Blank, Blank
<1>4. CASE PatchLobby(q, u)
  <2>1. lobby' = [lobby EXCEPT ![u.id] = [lobby[u.id] EXCEPT !.setting = u.setting]]
        /\ members' = members /\ at[q] = "locked"
    BY <1>4 DEF PatchLobby
  <2> QED BY <1>1, <1>2, <1>3, <2>1 DEF Ages
<1>5. CASE RemoveLobby(q, u)
  <2>1. lobby' = [lobby EXCEPT ![u.id] = [lobby[u.id] EXCEPT !.state = "deleted"]]
        /\ members' = members /\ at[q] = "locked"
    BY <1>5 DEF RemoveLobby
  <2>2. [lobby[u.id] EXCEPT !.state = "deleted"].state = "deleted"
    BY <1>1, <2>1 DEF LobbyTable!Row, LobbyTable!Blank
  <2> QED BY <1>1, <1>2, <2>1, <2>2 DEF Ages, Blank
<1>6. CASE SaveMember(q, u)
  <2>1. lobby' = lobby /\ members' = members \cup {u.member} /\ lobby[u.member[1]] # Blank
    BY <1>1, <1>6 DEF SaveMember, LinksReal
  <2> QED BY <1>2, <2>1 DEF Ages
<1>7. CASE EraseMember(q, u)
  BY <1>2, <1>7 DEF EraseMember, Ages
<1>8. CASE lobby' = lobby /\ members' = members
  BY <1>2, <1>8 DEF Ages
<1> QED BY <1>4, <1>5, <1>6, <1>7, <1>8

\* No step of a call brings a deleted lobby back or changes it.
LEMMA HandlerAges ==
  ASSUME LobbyInv, RoomTypeOK, LinksReal, NEW q \in LobbySlot, NEW u \in asked[q],
         \/ CheckLobbySlug(q, u) \/ InsertLobbies(q, u)
         \/ LockLobby(q, u) \/ PatchLobby(q, u) \/ RemoveLobby(q, u) \/ BreakLobbyDeadlock(q, u)
         \/ ValidateAdd(q, u) \/ SaveMember(q, u) \/ FindLobby(q, u) \/ EraseMember(q, u)
         \/ DropLists(q, u) \/ QueryList(q, u) \/ FillList(q, u)
         \/ ReadLinks(q, u) \/ ReadLobbies(q, u)
  PROVE  Ages /\ \A m \in members' : lobby'[m[1]] # Blank
<1>1. CASE InsertLobbies(q, u)
  BY <1>1, InsertAges
<1>2. CASE PatchLobby(q, u) \/ RemoveLobby(q, u) \/ SaveMember(q, u) \/ EraseMember(q, u)
  <2>1. CASE PatchLobby(q, u)
    BY <2>1, WriteAges
  <2>2. CASE RemoveLobby(q, u)
    BY <2>2, WriteAges
  <2>3. CASE SaveMember(q, u)
    BY <2>3, WriteAges
  <2>4. CASE EraseMember(q, u)
    BY <2>4, WriteAges
  <2> QED BY <1>2, <2>1, <2>2, <2>3, <2>4
<1>3. CASE \/ CheckLobbySlug(q, u) \/ LockLobby(q, u) \/ BreakLobbyDeadlock(q, u)
           \/ ValidateAdd(q, u) \/ FindLobby(q, u)
  <2>1. lobby' = lobby /\ members' = members
    BY <1>3 DEF CheckLobbySlug, LockLobby, BreakLobbyDeadlock, ValidateAdd, FindLobby,
       Looks, tableVars
  <2> QED BY <2>1, WriteAges
<1>4. CASE \/ DropLists(q, u) \/ QueryList(q, u) \/ FillList(q, u)
           \/ ReadLinks(q, u) \/ ReadLobbies(q, u)
  <2>1. lobby' = lobby /\ members' = members
    BY <1>4 DEF DropLists, QueryList, FillList, ReadLinks, ReadLobbies, tableVars
  <2> QED BY <2>1, WriteAges
<1> QED BY <1>1, <1>2, <1>3, <1>4

LEMMA ViewOf ==
  ASSUME NEW q \in LobbySlot, NEW u, asked[q] = {u}
  PROVE  InView(q) = IF u.op = "session" THEN Visible(u.rooms) ELSE {}
<1>1. Sessions(q) = IF u.op = "session" THEN {u} ELSE {}
  BY DEF Sessions
<1> QED BY <1>1 DEF InView

\* What others do to the view of a call that waits, or is about to begin.
LEMMA WaitingViews ==
  ASSUME LobbyInv, ViewInv, RecordView, Ages, NEW p \in LobbySlot,
         asked'[p] = asked[p], rows'[p] = rows[p], shown'[p] = shown[p],
         at'[p] = at[p] \/ at'[p] # "lobbies"
  PROVE  (asked'[p] = {} => Viewed(p)') /\ (asked'[p] # {} => Viewing(p)')
<1>1. CASE asked[p] = {}
  BY <1>1 DEF RecordView, Viewed, ViewInv
<1>2. CASE asked[p] # {}
  <2>1. /\ standing'[p] = standing[p] \cap InView(p)'
        /\ seen'[p] = seen[p] \cup InView(p)'
    BY <1>2 DEF RecordView
  <2>2. Viewing(p) /\ rows[p] \subseteq Member
    BY <1>2 DEF ViewInv, LobbyInv, LobbyTypeOK
  <2>3. ASSUME at'[p] = "lobbies", NEW m \in rows[p]
        PROVE  lobby'[m[1]] # Blank /\ (lobby'[m[1]].state = "live" => m[1] \in seen'[p])
    BY <2>1, <2>2, <2>3 DEF Viewing, Ages, Member
  <2>4. at'[p] = "lobbies" => standing'[p] \subseteq { m[1] : m \in rows[p] }
    BY <2>1, <2>2 DEF Viewing
  <2> QED BY <1>2, <2>1, <2>2, <2>3, <2>4 DEF Viewing
<1> QED BY <1>1, <1>2

\* A call other than a session's is in no view.
LEMMA EndingViews ==
  ASSUME LobbyInv, ViewInv, RecordView, NEW q \in LobbySlot, NEW u \in asked[q],
         asked'[q] = {}, shown' = shown, InView(q) = {}
  PROVE  Viewed(q)'
<1>1. standing[q] = {} /\ shown[q] = {}
  BY DEF ViewInv, Viewing
<1> QED BY <1>1 DEF RecordView, Viewed

LEMMA LinksViews ==
  ASSUME LobbyInv, ViewInv, RecordView, Ages, NEW q \in LobbySlot, NEW u \in asked[q],
         ReadLinks(q, u)
  PROVE  (asked'[q] = {} => Viewed(q)') /\ (asked'[q] # {} => Viewing(q)')
<1> DEFINE links == { m \in members : m[2] \in u.rooms }
<1>1. /\ asked[q] = {u} /\ u.op = "session" /\ shown[q] = {}
      /\ lobby' = lobby /\ members' = members /\ shown' = shown
      /\ members \in SUBSET Member
  BY AskedKinds DEF ReadLinks, ViewInv, Viewing, tableVars, Over, Onward, LobbyInv, LobbyTypeOK
<1>2. InView(q) = Visible(u.rooms)
  BY <1>1, ViewOf
<1>3. /\ Visible(u.rooms) \subseteq { m[1] : m \in links }
      /\ \A m \in links : lobby[m[1]] # Blank
                          /\ (lobby[m[1]].state = "live" => m[1] \in Visible(u.rooms))
  <2>1. \A m \in members : m = <<m[1], m[2]>> /\ m[1] \in Lobby
    BY <1>1 DEF Member
  <2>2. \A m \in members : lobby[m[1]] # Blank
    BY DEF ViewInv, LinksReal
  <2>3. ASSUME NEW m \in links, lobby[m[1]].state = "live" PROVE m[1] \in Visible(u.rooms)
    BY <2>1, <2>3 DEF Visible, LobbyTable!Live
  <2>4. ASSUME NEW l \in Visible(u.rooms) PROVE l \in { m[1] : m \in links }
    <3>1. PICK r \in u.rooms : <<l, r>> \in members
      BY <2>4 DEF Visible
    <3>2. <<l, r>> \in links /\ <<l, r>>[1] = l
      BY <3>1
    <3> QED BY <3>2
  <2> QED BY <2>2, <2>3, <2>4
<1>4. CASE links = {} /\ Over(q)
  <2>1. asked'[q] = {} /\ InView(q) = {}
    BY <1>2, <1>3, <1>4 DEF Over, Finish, LobbyInv, LobbyTypeOK
  <2> QED BY <1>1, <2>1, EndingViews
<1>5. CASE Onward(q, "lobbies")
  <2>1. asked' = asked /\ at'[q] = "lobbies" /\ rows'[q] = links
    BY <1>5 DEF Onward, ReadLinks, LobbyInv, LobbyTypeOK
  <2>2. InView(q)' = InView(q)
    BY <1>1, <2>1 DEF InView, Sessions, Visible
  <2>3. /\ standing'[q] = standing[q] \cap InView(q)
        /\ seen'[q] = seen[q] \cup InView(q)
    BY <1>1, <2>1, <2>2 DEF RecordView
  <2> HIDE DEF links
  <2>4. \A m \in rows'[q] : lobby'[m[1]] # Blank
                            /\ (lobby'[m[1]].state = "live" => m[1] \in seen'[q])
    BY <1>1, <1>2, <1>3, <2>1, <2>3
  <2>5. standing'[q] \subseteq { m[1] : m \in rows'[q] }
    BY <1>2, <1>3, <2>1, <2>3
  <2> QED BY <1>1, <2>1, <2>2, <2>3, <2>4, <2>5 DEF Viewing
<1> QED BY <1>4, <1>5 DEF ReadLinks

LEMMA LobbiesViews ==
  ASSUME LobbyInv, ViewInv, RecordView, NEW q \in LobbySlot, NEW u \in asked[q],
         ReadLobbies(q, u)
  PROVE  asked'[q] = {} /\ Viewed(q)'
<1>1. /\ asked[q] = {u} /\ u.op = "session" /\ asked'[q] = {}
      /\ shown'[q] = { m[1] : m \in rows[q] } \cap LobbyTable!Live(lobby)
  BY AskedKinds DEF ReadLobbies, Finish, LobbyInv, LobbyTypeOK
<1>2. Viewing(q) /\ at[q] = "lobbies"
  BY <1>1 DEF ViewInv, ReadLobbies
<1>3. standing'[q] = standing[q] /\ seen'[q] = seen[q]
  BY <1>1 DEF RecordView
<1>4. standing[q] \subseteq LobbyTable!Live(lobby)
  BY <1>1, <1>2, ViewOf DEF Viewing, Visible
<1>5. standing[q] \subseteq shown'[q]
  BY <1>1, <1>2, <1>4 DEF Viewing
<1>6. shown'[q] \subseteq seen[q]
  <2> SUFFICES ASSUME NEW m \in rows[q], m[1] \in LobbyTable!Live(lobby) PROVE m[1] \in seen[q]
    BY <1>1
  <2> QED BY <1>2 DEF Viewing, LobbyTable!Live
<1> QED BY <1>1, <1>3, <1>5, <1>6 DEF Viewed

\* Steps of the other calls' handlers.
LEMMA HandlerViews ==
  ASSUME LobbyInv, ViewInv, RecordView, Ages, NEW q \in LobbySlot, NEW u \in asked[q],
         \/ CheckLobbySlug(q, u) \/ InsertLobbies(q, u)
         \/ LockLobby(q, u) \/ PatchLobby(q, u) \/ RemoveLobby(q, u) \/ BreakLobbyDeadlock(q, u)
         \/ ValidateAdd(q, u) \/ SaveMember(q, u) \/ FindLobby(q, u) \/ EraseMember(q, u)
         \/ DropLists(q, u) \/ QueryList(q, u) \/ FillList(q, u)
  PROVE  (asked'[q] = {} => Viewed(q)') /\ (asked'[q] # {} => Viewing(q)')
<1>1. /\ at[q] \notin {"links", "lobbies"}
      /\ Over(q) \/ \E next \in LobbyStep \ {"lobbies"} : Onward(q, next)
  BY DEF CheckLobbySlug, InsertLobbies, LockLobby, PatchLobby, RemoveLobby,
     BreakLobbyDeadlock, ValidateAdd, SaveMember, FindLobby, EraseMember, DropLists,
     QueryList, FillList, LobbyStep
<1>2. asked[q] = {u} /\ u.op # "session"
  <2>1. asked[q] = {u} /\ at[q] \in LobbyStepsOf(u.op)
    BY AskedKinds DEF LobbyInv, AskedInv
  <2> QED BY <1>1, <2>1 DEF LobbyStepsOf
<1>3. InView(q) = {}
  BY <1>2, ViewOf
<1>4. CASE Over(q)
  <2>1. asked'[q] = {} /\ shown' = shown
    BY <1>4 DEF Over, Finish, LobbyInv, LobbyTypeOK
  <2> QED BY <1>3, <2>1, EndingViews
<1>5. ASSUME NEW next \in LobbyStep \ {"lobbies"}, Onward(q, next)
      PROVE  asked'[q] # {} /\ Viewing(q)'
  <2>1. asked' = asked /\ at'[q] # "lobbies" /\ shown' = shown
    BY <1>5 DEF Onward, LobbyInv, LobbyTypeOK
  <2>2. InView(q)' = {}
    BY <1>2, <2>1 DEF InView, Sessions
  <2>3. standing'[q] = {}
    BY <1>2, <2>1, <2>2 DEF RecordView
  <2>4. shown[q] = {}
    BY <1>2 DEF ViewInv, Viewing
  <2> QED BY <1>2, <2>1, <2>2, <2>3, <2>4 DEF Viewing
<1> QED BY <1>1, <1>4, <1>5

LEMMA HandlerLeavesOthers ==
  ASSUME LobbyInv, NEW q \in LobbySlot, NEW u \in asked[q], ProceedLobby(q)
  PROVE  /\ \A p \in LobbySlot \ {q} : /\ asked'[p] = asked[p] /\ at'[p] = at[p]
                                       /\ rows'[p] = rows[p] /\ shown'[p] = shown[p]
         /\ asked'[q] \subseteq asked[q]
<1>1. PICK w \in asked[q] :
        \/ CheckLobbySlug(q, w) \/ InsertLobbies(q, w)
        \/ LockLobby(q, w) \/ PatchLobby(q, w) \/ RemoveLobby(q, w) \/ BreakLobbyDeadlock(q, w)
        \/ ValidateAdd(q, w) \/ SaveMember(q, w) \/ FindLobby(q, w) \/ EraseMember(q, w)
        \/ DropLists(q, w) \/ QueryList(q, w) \/ FillList(q, w)
        \/ ReadLinks(q, w) \/ ReadLobbies(q, w)
  BY DEF ProceedLobby
<1>2. Finish(q) \/ \E next \in LobbyStep : Onward(q, next)
  BY <1>1 DEF CheckLobbySlug, InsertLobbies, LockLobby, PatchLobby, RemoveLobby,
     BreakLobbyDeadlock, ValidateAdd, SaveMember, FindLobby, EraseMember, DropLists,
     QueryList, FillList, ReadLinks, ReadLobbies, Over, LobbyStep
<1>3. \A p \in LobbySlot \ {q} : asked'[p] = asked[p] /\ at'[p] = at[p]
  BY <1>2, OneSteps
<1>4. asked'[q] \subseteq asked[q]
  BY <1>2 DEF Finish, Onward, LobbyInv, LobbyTypeOK
<1>5. \A p \in LobbySlot \ {q} : rows'[p] = rows[p]
  BY <1>1 DEF CheckLobbySlug, InsertLobbies, LockLobby, PatchLobby, RemoveLobby,
     BreakLobbyDeadlock, ValidateAdd, SaveMember, FindLobby, EraseMember, DropLists,
     QueryList, FillList, ReadLinks, ReadLobbies, Looks, LobbyInv, LobbyTypeOK
<1>6. \A p \in LobbySlot \ {q} : shown'[p] = shown[p]
  BY <1>1 DEF CheckLobbySlug, InsertLobbies, LockLobby, PatchLobby, RemoveLobby,
     BreakLobbyDeadlock, ValidateAdd, SaveMember, FindLobby, EraseMember, DropLists,
     QueryList, FillList, ReadLinks, ReadLobbies, Over, Onward, LobbyInv, LobbyTypeOK
<1> QED BY <1>3, <1>4, <1>5, <1>6

LEMMA ViewStep ==
  LobbyInv /\ RoomTypeOK /\ ViewInv /\ [LobbyNext]_allVars => ViewInv'
<1> SUFFICES ASSUME LobbyInv, RoomTypeOK, ViewInv, [LobbyNext]_allVars PROVE ViewInv'
  OBVIOUS
<1>a. LinksReal /\ lobby \in LobbyTable!Table /\ members \in SUBSET Member
  BY DEF ViewInv, LobbyInv, LobbyTypeOK
<1>b. ASSUME lobby' = lobby PROVE Ages
  BY <1>b DEF Ages
<1>1. CASE UNCHANGED lobbyVars
  <2>1. LinksReal' /\ UNCHANGED <<asked, at, rows, shown, lobby, members>>
    BY <1>1, <1>a DEF lobbyVars, callVars, tableVars, LinksReal
  <2>2. CASE RecordView
    BY <1>b, <2>1, <2>2, WaitingViews DEF ViewInv
  <2>3. CASE UNCHANGED allVars
    BY <2>1, <2>3 DEF allVars, ViewInv, Viewed, Viewing, InView, Sessions, Visible
  <2> QED BY <2>2, <2>3 DEF LobbyNext
<1>2. ASSUME NEW q \in LobbySlot, AskLobby(q), RecordView PROVE ViewInv'
  <2>1. PICK u \in LobbyRequest : /\ Sensible(q, u)
                                  /\ asked' = [asked EXCEPT ![q] = {u}]
                                  /\ at' = [at EXCEPT ![q] = LobbyFirstStep(u)]
    BY <1>2 DEF AskLobby
  <2>2. /\ UNCHANGED <<rows, lobby, members>> /\ asked[q] = {}
        /\ shown' = [shown EXCEPT ![q] = {}]
    BY <1>2 DEF AskLobby, tableVars
  <2>3. LobbyFirstStep(u) # "lobbies"
    BY LobbyRequestKinds DEF LobbyFirstStep, LobbyOp
  <2>4. /\ asked'[q] = {u} /\ at'[q] # "lobbies" /\ shown'[q] = {}
        /\ \A p \in LobbySlot \ {q} : /\ asked'[p] = asked[p] /\ at'[p] = at[p]
                                      /\ rows'[p] = rows[p] /\ shown'[p] = shown[p]
    BY <2>1, <2>2, <2>3 DEF LobbyInv, LobbyTypeOK
  <2>5. u.op = "add" => lobby[u.member[1]] # Blank
    BY <2>1 DEF Sensible
  <2>6. LinksReal'
    BY <1>a, <2>2, <2>4, <2>5 DEF LinksReal
  <2>7. standing'[q] = InView(q)' /\ seen'[q] = InView(q)'
    BY <1>2, <2>2, <2>4 DEF RecordView
  <2>8. Viewing(q)'
    <3>1. standing'[q] \subseteq InView(q)' /\ InView(q)' \subseteq seen'[q]
      BY <2>7
    <3> QED BY <2>4, <3>1 DEF Viewing
  <2>9. \A p \in LobbySlot \ {q} : (asked'[p] = {} => Viewed(p)') /\ (asked'[p] # {} => Viewing(p)')
    BY <1>2, <1>b, <2>2, <2>4, WaitingViews
  <2> QED BY <2>4, <2>6, <2>8, <2>9 DEF ViewInv
<1>3. ASSUME NEW q \in LobbySlot, ProceedLobby(q), RecordView PROVE ViewInv'
  <2>1. PICK u \in asked[q] :
          \/ CheckLobbySlug(q, u) \/ InsertLobbies(q, u)
          \/ LockLobby(q, u) \/ PatchLobby(q, u) \/ RemoveLobby(q, u) \/ BreakLobbyDeadlock(q, u)
          \/ ValidateAdd(q, u) \/ SaveMember(q, u) \/ FindLobby(q, u) \/ EraseMember(q, u)
          \/ DropLists(q, u) \/ QueryList(q, u) \/ FillList(q, u)
          \/ ReadLinks(q, u) \/ ReadLobbies(q, u)
    BY <1>3 DEF ProceedLobby
  <2>2. Ages /\ \A m \in members' : lobby'[m[1]] # Blank
    BY <1>a, <2>1, HandlerAges
  <2>3. /\ \A p \in LobbySlot \ {q} : /\ asked'[p] = asked[p] /\ at'[p] = at[p]
                                      /\ rows'[p] = rows[p] /\ shown'[p] = shown[p]
        /\ asked'[q] \subseteq asked[q]
    BY <1>3, <2>1, HandlerLeavesOthers
  <2>4. LinksReal'
    <3>1. ASSUME NEW p \in LobbySlot, NEW w \in asked'[p], w.op = "add"
          PROVE  lobby'[w.member[1]] # Blank
      <4>1. w \in asked[p]
        BY <2>3
      <4>2. w.member[1] \in Lobby /\ lobby[w.member[1]] # Blank
        BY <1>a, <3>1, <4>1, AskedKinds, LobbyRequestKinds DEF LinksReal, Member
      <4> QED BY <2>2, <4>2 DEF Ages
    <3> QED BY <2>2, <3>1 DEF LinksReal
  <2>5. (asked'[q] = {} => Viewed(q)') /\ (asked'[q] # {} => Viewing(q)')
    BY <1>3, <2>1, <2>2, HandlerViews, LinksViews, LobbiesViews
  <2>6. \A p \in LobbySlot \ {q} : (asked'[p] = {} => Viewed(p)') /\ (asked'[p] # {} => Viewing(p)')
    BY <1>3, <2>2, <2>3, WaitingViews
  <2> QED BY <2>4, <2>5, <2>6 DEF ViewInv
<1>4. ASSUME NEW i \in Instance, NEW k \in Key, ExpireList(i, k), RecordView PROVE ViewInv'
  <2>1. UNCHANGED <<asked, at, rows, shown, lobby, members>>
    BY <1>4 DEF ExpireList, callVars, tableVars
  <2>2. LinksReal'
    BY <1>a, <2>1 DEF LinksReal
  <2> QED BY <1>4, <1>b, <2>1, <2>2, WaitingViews DEF ViewInv
<1> QED BY <1>1, <1>2, <1>3, <1>4 DEF LobbyNext, allVars

\* A session is shown every lobby it could see throughout its two reads and
\* none it never could, whatever is inserted, deleted, added and removed
\* between them.
THEOREM SessionsShowLobbies == LobbySpec => []SessionLobbies
<1>1. LobbyInit => ViewInv
  BY LinkAssumption DEF LobbyInit, ViewInv, LinksReal, Viewed
<1>2. ViewInv => SessionLobbies
  BY DEF ViewInv, Viewed, SessionLobbies
<1>3. LobbySpec => []RoomTypeOK
  BY RoomSteps, RoomsTypeCorrect DEF LobbySpec
<1> QED BY <1>1, <1>2, <1>3, LobbyInitTypes, LobbyStepTypes, ViewStep, PTL DEF LobbySpec

\* No lobby comes back from its deletion or is written after it, for any number
\* of updates and deletions that hold its row at once: what is under lock is
\* live, and a deletion goes ahead only when nobody else holds the row.
THEOREM DeletionsFinal == LobbySpec => DeletedLobbiesStay
<1>1. LobbyInv /\ RoomTypeOK /\ ViewInv /\ [LobbyNext]_allVars =>
        [\A l \in Lobby : lobby[l].state = "deleted" => lobby'[l] = lobby[l]]_allVars
  <2> SUFFICES ASSUME LobbyInv, RoomTypeOK, ViewInv, LobbyNext,
                      NEW l \in Lobby, lobby[l].state = "deleted"
               PROVE  lobby'[l] = lobby[l]
    OBVIOUS
  <2>1. lobby[l] # Blank
    BY DEF Blank
  <2>2. CASE UNCHANGED lobbyVars
    BY <2>2 DEF lobbyVars, tableVars
  <2>3. ASSUME NEW q \in LobbySlot, AskLobby(q) PROVE lobby' = lobby
    BY <2>3 DEF AskLobby, tableVars
  <2>4. ASSUME NEW q \in LobbySlot, ProceedLobby(q) PROVE Ages
    BY <2>4, HandlerAges DEF ProceedLobby, ViewInv
  <2>5. ASSUME NEW i \in Instance, NEW k \in Key, ExpireList(i, k) PROVE lobby' = lobby
    BY <2>5 DEF ExpireList, tableVars
  <2> QED BY <2>1, <2>2, <2>3, <2>4, <2>5 DEF LobbyNext, Ages
<1>2. LobbyInit => ViewInv
  BY LinkAssumption DEF LobbyInit, ViewInv, LinksReal, Viewed
<1>3. LobbySpec => []RoomTypeOK
  BY RoomSteps, RoomsTypeCorrect DEF LobbySpec
<1> QED BY <1>1, <1>2, <1>3, LobbyInitTypes, LobbyStepTypes, ViewStep, PTL
        DEF LobbySpec, DeletedLobbiesStay
=============================================================================
