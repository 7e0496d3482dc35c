------------------------------- MODULE Registry -------------------------------
(***************************************************************************)
(* What the rooms of an app promise to callers that overlap: each call     *)
(* takes effect, or is refused, at one instant between the moment it is    *)
(* made and the moment it is answered; a slug names one room; and to       *)
(* ensure a room is to get the one there is, or to make it.                *)
(***************************************************************************)
EXTENDS SlugTables

CONSTANT Cap  \* rooms an app may have before ensureRoom refuses

VARIABLES
  room,
  waiting,  \* the request of each call until it takes effect
  answer,   \* and what it was answered
  freed     \* was the slug that a call ensures given up since the call was made?

vars == <<room, waiting, answer, freed>>

NoAnswer == [told |-> "nothing", ids |-> {}]

Init ==
  /\ room \in Table /\ Indexed(room)
  /\ waiting = [q \in Slot |-> {}]
  /\ answer = [q \in Slot |-> NoAnswer]
  /\ freed = [q \in Slot |-> FALSE]

Ask(q) ==
  /\ waiting[q] = {}
  /\ \E u \in Request : waiting' = [waiting EXCEPT ![q] = {u}]
  /\ answer' = [answer EXCEPT ![q] = NoAnswer]
  /\ UNCHANGED <<room, freed>>

Tell(q, told, ids) ==
  /\ waiting' = [waiting EXCEPT ![q] = {}]
  /\ answer' = [answer EXCEPT ![q] = [told |-> told, ids |-> ids]]

Forget(q) == freed' = [freed EXCEPT ![q] = FALSE]

Insert(q, u) ==
  /\ \A s \in Wanted(u) : Named(room, s) = {}
  /\ \E f \in Newcomers(room, Wanted(u)) :
       /\ room' = Inserted(room, f)
       /\ Tell(q, "rows", DOMAIN f)
  /\ Forget(q)

Ensure(q, u) ==
  /\ u.op = "ensure"
  /\ \/ Insert(q, u)
     \/ /\ \/ \E r \in Named(room, u.slug) : Tell(q, "rows", {r})
           \/ Cardinality(Live(room)) >= Cap /\ Tell(q, "refused", {})
           \/ Named(room, u.slug) = {} /\ freed[q] /\ Tell(q, "conflict", {})
        /\ Forget(q)
        /\ UNCHANGED room

Create(q, u) ==
  /\ u.op \in {"create", "provision"}
  /\ \/ Insert(q, u)
     \/ /\ \E s \in Wanted(u) : Named(room, s) # {}
        /\ Tell(q, "conflict", {})
        /\ Forget(q)
        /\ UNCHANGED room

Update(q, u) ==
  /\ u.op = "update" /\ u.id \in Live(room)
  /\ room' = [room EXCEPT ![u.id].setting = u.setting]
  /\ Tell(q, "rows", {u.id})
  /\ Forget(q)

Ensures(q, s) == \E u \in waiting[q] : u.op = "ensure" /\ u.slug = s

Delete(q, u) ==
  /\ u.op = "delete" /\ u.id \in Live(room)
  /\ room' = [room EXCEPT ![u.id].state = "deleted"]
  /\ Tell(q, "rows", {u.id})
  /\ freed' = [p \in Slot |-> p # q /\ (freed[p] \/ Ensures(p, room[u.id].slug))]

\* An update or a deletion finds nothing, or gives way to another on its row.
Decline(q, u) ==
  /\ u.op \in {"update", "delete"}
  /\ \/ u.id \notin Live(room) /\ Tell(q, "notFound", {})
     \/ /\ \E p \in Slot \ {q} : \E w \in waiting[p] :
             w.op \in {"update", "delete"} /\ w.id = u.id
        /\ Tell(q, "aborted", {})
  /\ Forget(q)
  /\ UNCHANGED room

Next ==
  \E q \in Slot :
    \/ Ask(q)
    \/ \E u \in waiting[q] : \/ Ensure(q, u) \/ Create(q, u) \/ Update(q, u)
                             \/ Delete(q, u) \/ Decline(q, u)

Spec == Init /\ [][Next]_vars
=============================================================================
