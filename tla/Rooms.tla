-------------------------------- MODULE Rooms --------------------------------
(***************************************************************************)
(* The room rows of one app under RoomFacade.  Calls overlap: each action  *)
(* is one query, and an insert is the instant its transaction commits.     *)
(* ensureRoom looks, counts, creates and looks again in queries of their   *)
(* own; only the partial unique index holds two creators apart.  An update *)
(* or a deletion first takes the row FOR SHARE, which two may hold, and    *)
(* then waits for the other to let go: PostgreSQL ends one of them.        *)
(***************************************************************************)
EXTENDS SlugTables

CONSTANTS
  Cap,         \* maxRooms
  InitialRooms, \* tables a run may start from
  Budgets      \* calls of each operation that a run makes, for each choice

Op == {"ensure", "create", "provision", "update", "delete"}

ASSUME RoomAssumption ==
  /\ Cap \in Nat
  /\ InitialRooms \subseteq { t \in Table : Indexed(t) }
  /\ Budgets \subseteq [Op -> Nat]

VARIABLES
  room,     \* the table
  waiting,  \* the request of each call until it takes effect
  step,     \* the query it sends next
  answer,   \* what it was answered
  budget,   \* calls of each operation still to come (bound)
  ensured,  \* history: rooms that ensureRoom created
  freed     \* history: was the slug a call ensures freed since it was made?

vars == <<room, waiting, step, answer, budget, ensured, freed>>

Step == {"idle", "find", "count", "check", "insert", "refind", "lock", "locked"}
Outcome == {"nothing", "rows", "conflict", "refused", "notFound", "aborted"}
NoAnswer == [told |-> "nothing", ids |-> {}]

RoomTypeOK ==
  /\ room \in Table
  /\ waiting \in [Slot -> SUBSET Request]
  /\ step \in [Slot -> Step]
  /\ answer \in [Slot -> [told: Outcome, ids: SUBSET Id]]
  /\ budget \in [Op -> Nat]
  /\ ensured \in SUBSET Id
  /\ freed \in [Slot -> BOOLEAN]

Init ==
  /\ room \in InitialRooms
  /\ waiting = [q \in Slot |-> {}]
  /\ step = [q \in Slot |-> "idle"]
  /\ answer = [q \in Slot |-> NoAnswer]
  /\ budget \in Budgets
  /\ ensured = {}
  /\ freed = [q \in Slot |-> FALSE]

FirstStep(u) ==
  CASE u.op = "ensure" -> "find"
    [] u.op = "create" -> "check"
    [] u.op = "provision" -> "insert"
    [] u.op \in {"update", "delete"} -> "lock"

Ask(q) ==
  /\ waiting[q] = {}
  /\ \E u \in Request :
       /\ budget[u.op] > 0
       /\ budget' = [budget EXCEPT ![u.op] = @ - 1]
       /\ waiting' = [waiting EXCEPT ![q] = {u}]
       /\ step' = [step EXCEPT ![q] = FirstStep(u)]
  /\ answer' = [answer EXCEPT ![q] = NoAnswer]
  /\ UNCHANGED <<room, ensured, freed>>

Go(q, next) ==
  /\ step' = [step EXCEPT ![q] = next]
  /\ UNCHANGED <<waiting, answer, freed>>

Tell(q, told, ids) ==
  /\ waiting' = [waiting EXCEPT ![q] = {}]
  /\ step' = [step EXCEPT ![q] = "idle"]
  /\ answer' = [answer EXCEPT ![q] = [told |-> told, ids |-> ids]]

Done(q, told, ids) ==
  /\ Tell(q, told, ids)
  /\ freed' = [freed EXCEPT ![q] = FALSE]

Reads == UNCHANGED <<room, budget, ensured>>

-----------------------------------------------------------------------------
(* ensureRoom.                                                             *)

FindRoom(q, u) ==
  /\ step[q] = "find"
  /\ \/ \E r \in Named(room, u.slug) : Done(q, "rows", {r})
     \/ Named(room, u.slug) = {} /\ Go(q, "count")
  /\ Reads

\* Faulty variant: the rooms are not counted.
CountNothing(q) ==
  /\ step[q] = "count"
  /\ Go(q, "check")
  /\ Reads

CountRooms(q) ==
  /\ step[q] = "count"
  /\ \/ Cardinality(Live(room)) >= Cap /\ Done(q, "refused", {})
     \/ Cardinality(Live(room)) < Cap /\ Go(q, "check")
  /\ Reads

\* Whatever createRoom threw, the room may be there by now; if not, the error
\* goes on to the caller.
FindRacedRoom(q, u) ==
  /\ step[q] = "refind"
  /\ \/ \E r \in Named(room, u.slug) : Done(q, "rows", {r})
     \/ Named(room, u.slug) = {} /\ Done(q, "conflict", {})
  /\ Reads

-----------------------------------------------------------------------------
(* createRoom, on its own or under ensureRoom, and static provisioning.    *)

Conflict(q, u) ==
  \/ u.op = "ensure" /\ Go(q, "refind")
  \/ u.op # "ensure" /\ Done(q, "conflict", {})

CheckSlug(q, u) ==
  /\ step[q] = "check"
  /\ \/ Named(room, u.slug) # {} /\ Conflict(q, u)
     \/ Named(room, u.slug) = {} /\ Go(q, "insert")
  /\ Reads

\* Faulty variant: the slug check is trusted, without the unique index.
InsertChecked(q, u) ==
  /\ step[q] = "insert"
  /\ \E f \in Newcomers(room, Wanted(u)) :
       /\ room' = Inserted(room, f)
       /\ ensured' = IF u.op = "ensure" THEN ensured \cup DOMAIN f ELSE ensured
       /\ Done(q, "rows", DOMAIN f)
  /\ UNCHANGED budget

InsertRooms(q, u) ==
  /\ step[q] = "insert"
  /\ \/ /\ \E s \in Wanted(u) : Named(room, s) # {}
        /\ Conflict(q, u)
        /\ UNCHANGED <<room, ensured>>
     \/ /\ \A s \in Wanted(u) : Named(room, s) = {}
        /\ \E f \in Newcomers(room, Wanted(u)) :
             /\ room' = Inserted(room, f)
             /\ ensured' = IF u.op = "ensure" THEN ensured \cup DOMAIN f ELSE ensured
             /\ Done(q, "rows", DOMAIN f)
  /\ UNCHANGED budget

-----------------------------------------------------------------------------
(* updateRoom and deleteRoom.                                              *)

Holders(r) == { q \in Slot : step[q] = "locked" /\ \E u \in waiting[q] : u.id = r }

LockRoom(q, u) ==
  /\ step[q] = "lock"
  /\ \/ u.id \in Live(room) /\ Go(q, "locked")
     \/ u.id \notin Live(room) /\ Done(q, "notFound", {})
  /\ Reads

\* save() writes nothing, and waits for nobody, if no column differs.
Writes(u) == u.op = "delete" \/ (u.op = "update" /\ room[u.id].setting # u.setting)

PatchRoom(q, u) ==
  /\ step[q] = "locked" /\ u.op = "update"
  /\ Writes(u) => Holders(u.id) = {q}
  /\ room' = [room EXCEPT ![u.id].setting = u.setting]
  /\ Done(q, "rows", {u.id})
  /\ UNCHANGED <<budget, ensured>>

Ensures(q, s) == \E u \in waiting[q] : u.op = "ensure" /\ u.slug = s

RemoveRoom(q, u) ==
  /\ step[q] = "locked" /\ u.op = "delete"
  /\ Holders(u.id) = {q}
  /\ room' = [room EXCEPT ![u.id].state = "deleted"]
  /\ Tell(q, "rows", {u.id})
  /\ freed' = [p \in Slot |-> p # q /\ (freed[p] \/ Ensures(p, room[u.id].slug))]
  /\ UNCHANGED <<budget, ensured>>

\* Two holders that both wait to write: PostgreSQL aborts either.
BreakDeadlock(q, u) ==
  /\ step[q] = "locked" /\ Writes(u)
  /\ \E p \in Holders(u.id) \ {q} : \E w \in waiting[p] : Writes(w)
  /\ Done(q, "aborted", {})
  /\ Reads

-----------------------------------------------------------------------------
Proceed(q) ==
  \E u \in waiting[q] :
    \/ FindRoom(q, u) \/ CountRooms(q) \/ FindRacedRoom(q, u)
    \/ CheckSlug(q, u) \/ InsertRooms(q, u)
    \/ LockRoom(q, u) \/ PatchRoom(q, u) \/ RemoveRoom(q, u) \/ BreakDeadlock(q, u)

Next == \E q \in Slot : Ask(q) \/ Proceed(q)

Spec == Init /\ [][Next]_vars

-----------------------------------------------------------------------------
(* Properties.                                                             *)

Atomic == INSTANCE Registry

\* Whatever overlaps, every call is answered as if it ran alone at one instant:
\* a slug never names two rooms, ensureRoom returns the room of its slug or
\* makes it, and fails otherwise only at the cap or if the slug was freed
\* meanwhile; an update or a deletion is never lost on a room another deletes.
Registered == Atomic!Spec

\* ensureRoom counts in one query and creates in a later transaction: it may
\* exceed the cap by the calls that counted before the last one created, and
\* by no more, whatever else creates and deletes rooms.
EnsuredWithinCap ==
  Cardinality(Live(room) \cap ensured) <= Cap + Cardinality(Slot) - 1
=============================================================================
