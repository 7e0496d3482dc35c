----------------------------- MODULE RoomsProofs -----------------------------
(***************************************************************************)
(* RoomFacade implements the registry of module Registry, and what it may  *)
(* exceed the room cap by.                                                 *)
(***************************************************************************)
EXTENDS Rooms, FiniteSetTheorems, TLAPS

StepsOf(op) ==
  CASE op = "ensure" -> {"find", "count", "check", "insert", "refind"}
    [] op = "create" -> {"check", "insert"}
    [] op = "provision" -> {"insert"}
    [] op \in {"update", "delete"} -> {"lock", "locked"}

\* A call waits for one request and is at one of its steps; a room under lock
\* is there; and a call that lost a race finds the room, or it was freed.
CallInv(q) ==
  /\ waiting[q] = {} => step[q] = "idle" /\ freed[q] = FALSE
  /\ waiting[q] = {} \/ \E u \in Request : waiting[q] = {u}
  /\ \A u \in waiting[q] :
       /\ step[q] \in StepsOf(u.op)
       /\ step[q] = "locked" => u.id \in Live(room)
       /\ step[q] = "refind" => Named(room, u.slug) # {} \/ freed[q]

RoomInv == RoomTypeOK /\ Indexed(room) /\ \A q \in Slot : CallInv(q)

-----------------------------------------------------------------------------
(* Tables and requests.                                                    *)

\* Kinds of requests.
LEMMA RequestKinds ==
  ASSUME NEW u \in Request
  PROVE  /\ u.op \in Op
         /\ u.op \in {"ensure", "create"} => u.slug \in Slug /\ Wanted(u) = {u.slug}
         /\ u.op = "provision" => Wanted(u) \subseteq Slug
         /\ u.op = "update" => u.id \in Id /\ u.setting \in Setting
         /\ u.op = "delete" => u.id \in Id
BY TableAssumption DEF Request, Op, Wanted

\* New rows: they take ids and slugs that no live row has.
LEMMA InsertedTable ==
  ASSUME NEW t \in Table, NEW slugs \in SUBSET Slug, NEW f \in Newcomers(t, slugs)
  PROVE  /\ DOMAIN f \subseteq Unused(t) /\ f \in [DOMAIN f -> slugs]
         /\ \A p, r \in DOMAIN f : f[p] = f[r] => p = r
         /\ Inserted(t, f) \in Table
         /\ Live(Inserted(t, f)) = Live(t) \cup DOMAIN f
         /\ Live(t) \cap DOMAIN f = {}
         /\ \A r \in Id \ DOMAIN f : Inserted(t, f)[r] = t[r]
         /\ \A r \in DOMAIN f : Inserted(t, f)[r].slug = f[r]
<1>1. PICK ids \in SUBSET Unused(t) : f \in Bijection(ids, slugs)
  BY DEF Newcomers
<1>2. f \in [ids -> slugs] /\ DOMAIN f = ids /\ \A p, r \in ids : f[p] = f[r] => p = r
  BY <1>1 DEF Bijection, Injection, IsInjective
<1>3. ids \subseteq Id /\ \A r \in ids : t[r] = Blank
  BY <1>1 DEF Unused
<1>4. Inserted(t, f) \in Table
  BY <1>2, <1>3, TableAssumption DEF Inserted, Table, Row
<1>5. \A r \in Id \ ids : Inserted(t, f)[r] = t[r]
  BY <1>2 DEF Inserted
<1>6. \A r \in ids : Inserted(t, f)[r].state = "live" /\ Inserted(t, f)[r].slug = f[r]
  BY <1>2, <1>3 DEF Inserted
<1>7. Live(t) \cap ids = {}
  BY <1>3 DEF Live, Blank
<1>8. Live(Inserted(t, f)) = Live(t) \cup ids
  BY <1>3, <1>5, <1>6 DEF Live
<1>9. ids \subseteq Unused(t)
  OBVIOUS
<1> QED BY <1>2, <1>4, <1>5, <1>6, <1>7, <1>8, <1>9

LEMMA InsertedIndexed ==
  ASSUME NEW t \in Table, Indexed(t), NEW slugs \in SUBSET Slug,
         \A s \in slugs : Named(t, s) = {}, NEW f \in Newcomers(t, slugs)
  PROVE  Indexed(Inserted(t, f))
<1> DEFINE new == Inserted(t, f)
<1> SUFFICES ASSUME NEW p \in Live(new), NEW r \in Live(new), new[p].slug = new[r].slug
             PROVE  p = r
  BY DEF Indexed
<1>1. /\ f \in [DOMAIN f -> slugs] /\ Live(new) = Live(t) \cup DOMAIN f
      /\ \A x, y \in DOMAIN f : f[x] = f[y] => x = y
      /\ \A x \in Live(t) : x \notin DOMAIN f /\ x \in Id /\ new[x] = t[x]
      /\ \A x \in DOMAIN f : new[x].slug = f[x]
  BY InsertedTable DEF Live
<1>2. \A x \in Live(t) : t[x].slug \notin slugs
  BY DEF Named
<1> QED BY <1>1, <1>2 DEF Indexed

\* Writing the columns of a live row, or marking it.
LEMMA EditedTable ==
  ASSUME NEW t \in Table, NEW r \in Live(t), NEW x \in Setting
  PROVE  /\ [t EXCEPT ![r].setting = x] \in Table
         /\ Live([t EXCEPT ![r].setting = x]) = Live(t)
         /\ \A y \in Id : [t EXCEPT ![r].setting = x][y].slug = t[y].slug
<1>1. r \in Id /\ t \in [Id -> Row] /\ t[r] \in [state: {"live", "deleted"}, slug: Slug, setting: Setting]
  BY DEF Live, Table, Row, Blank
<1>2. [t[r] EXCEPT !.setting = x] \in [state: {"live", "deleted"}, slug: Slug, setting: Setting]
  BY <1>1
<1> QED BY <1>1, <1>2 DEF Live, Table, Row

LEMMA MarkedTable ==
  ASSUME NEW t \in Table, NEW r \in Live(t)
  PROVE  /\ [t EXCEPT ![r].state = "deleted"] \in Table
         /\ Live([t EXCEPT ![r].state = "deleted"]) = Live(t) \ {r}
         /\ \A y \in Id : [t EXCEPT ![r].state = "deleted"][y].slug = t[y].slug
<1>1. r \in Id /\ t \in [Id -> Row] /\ t[r] \in [state: {"live", "deleted"}, slug: Slug, setting: Setting]
  BY DEF Live, Table, Row, Blank
<1>2. [t[r] EXCEPT !.state = "deleted"] \in [state: {"live", "deleted"}, slug: Slug, setting: Setting]
  BY <1>1
<1> QED BY <1>1, <1>2 DEF Live, Table, Row

\* The registry reads tables and requests alike.
LEMMA SameTables ==
  /\ Atomic!Table = Table /\ Atomic!Request = Request
  /\ Atomic!NoAnswer = NoAnswer
  /\ \A t : Atomic!Live(t) = Live(t) /\ (Atomic!Indexed(t) <=> Indexed(t))
  /\ \A t, s : Atomic!Named(t, s) = Named(t, s)
  /\ \A t, s : Atomic!Newcomers(t, s) = Newcomers(t, s)
  /\ \A t, f : Atomic!Inserted(t, f) = Inserted(t, f)
  /\ \A u : Atomic!Wanted(u) = Wanted(u)
<1>1. Atomic!Blank = Blank /\ Atomic!NoAnswer = NoAnswer
  BY DEF Atomic!Blank, Blank, Atomic!NoAnswer, NoAnswer
<1>2. Atomic!Table = Table
  BY <1>1 DEF Atomic!Table, Table, Atomic!Row, Row
<1>3. Atomic!Request = Request
  BY DEF Atomic!Request, Request
<1>4. \A t : Atomic!Live(t) = Live(t)
  BY DEF Atomic!Live, Live
<1>5. \A t : Atomic!Indexed(t) <=> Indexed(t)
  BY <1>4 DEF Atomic!Indexed, Indexed
<1>6. \A t, s : Atomic!Named(t, s) = Named(t, s)
  BY <1>4 DEF Atomic!Named, Named
<1>7. \A t : Atomic!Unused(t) = Unused(t)
  BY <1>1 DEF Atomic!Unused, Unused
<1>8. \A t, s : Atomic!Newcomers(t, s) = Newcomers(t, s)
  BY <1>7 DEF Atomic!Newcomers, Newcomers, Atomic!Bijection, Bijection, Atomic!Injection,
              Injection, Atomic!Surjection, Surjection, Atomic!IsInjective, IsInjective
<1>9. \A t, f : Atomic!Inserted(t, f) = Inserted(t, f)
  BY DEF Atomic!Inserted, Inserted
<1>10. \A u : Atomic!Wanted(u) = Wanted(u)
  BY DEF Atomic!Wanted, Wanted
<1> QED BY <1>1, <1>2, <1>3, <1>4, <1>5, <1>6, <1>8, <1>9, <1>10

-----------------------------------------------------------------------------
(* Steps.                                                                  *)

\* A call is answered; what the others rely on still holds.
LEMMA TellKeepsInv ==
  ASSUME RoomInv, NEW q \in Slot, NEW told \in Outcome, NEW ids \in SUBSET Id,
         Tell(q, told, ids), room' \in Table, Indexed(room'),
         budget' \in [Op -> Nat], ensured' \in SUBSET Id, freed' \in [Slot -> BOOLEAN],
         freed'[q] = FALSE,
         \A p \in Slot \ {q} :
           /\ waiting[p] = {} => freed'[p] = FALSE
           /\ \A w \in waiting[p] :
                /\ step[p] = "locked" => w.id \in Live(room')
                /\ step[p] = "refind" => Named(room', w.slug) # {} \/ freed'[p]
  PROVE  RoomInv'
<1>1. RoomTypeOK'
  BY DEF RoomInv, RoomTypeOK, Tell, Step
<1>2. ASSUME NEW p \in Slot PROVE CallInv(p)'
  <2>1. CASE p = q
    BY <2>1 DEF RoomInv, RoomTypeOK, Tell, CallInv
  <2>2. CASE p # q
    <3>1. waiting'[p] = waiting[p] /\ step'[p] = step[p]
      BY <2>2 DEF RoomInv, RoomTypeOK, Tell
    <3> QED BY <2>2, <3>1 DEF RoomInv, CallInv, Live, Named
  <2> QED BY <2>1, <2>2
<1> QED BY <1>1, <1>2 DEF RoomInv, Indexed, Live

LEMMA DoneKeepsInv ==
  ASSUME RoomInv, NEW q \in Slot, NEW told \in Outcome, NEW ids \in SUBSET Id,
         Done(q, told, ids), Reads
  PROVE  RoomInv' /\ Atomic!Tell(q, told, ids) /\ Atomic!Forget(q) /\ UNCHANGED room
<1>1. freed' = [freed EXCEPT ![q] = FALSE] /\ Tell(q, told, ids) /\ room' = room
      /\ budget' = budget /\ ensured' = ensured
  BY DEF Done, Reads
<1>2. freed' \in [Slot -> BOOLEAN] /\ freed'[q] = FALSE /\ \A p \in Slot \ {q} : freed'[p] = freed[p]
  BY <1>1 DEF RoomInv, RoomTypeOK
<1>3. RoomInv'
  <2>1. /\ room' \in Table /\ Indexed(room') /\ budget' \in [Op -> Nat] /\ ensured' \in SUBSET Id
    BY <1>1 DEF RoomInv, RoomTypeOK
  <2>2. ASSUME NEW p \in Slot \ {q}
        PROVE  /\ waiting[p] = {} => freed'[p] = FALSE
               /\ \A w \in waiting[p] :
                    /\ step[p] = "locked" => w.id \in Live(room')
                    /\ step[p] = "refind" => Named(room', w.slug) # {} \/ freed'[p]
    BY <1>1, <1>2 DEF RoomInv, CallInv
  <2> QED BY <1>1, <1>2, <2>1, <2>2, TellKeepsInv
<1> QED BY <1>1, <1>3 DEF Atomic!Tell, Tell, Atomic!Forget

LEMMA GoKeepsInv ==
  ASSUME RoomInv, NEW q \in Slot, NEW u \in waiting[q], NEW next \in StepsOf(u.op),
         Go(q, next), Reads,
         next = "locked" => u.id \in Live(room),
         next = "refind" => Named(room, u.slug) # {} \/ freed[q]
  PROVE  RoomInv' /\ UNCHANGED Atomic!vars
<1>1. /\ waiting' = waiting /\ answer' = answer /\ freed' = freed /\ room' = room
      /\ budget' = budget /\ ensured' = ensured /\ step' = [step EXCEPT ![q] = next]
  BY DEF Go, Reads
<1>2. u \in Request /\ waiting[q] = {u}
  BY DEF RoomInv, CallInv
<1>3. next \in Step
  BY <1>2, RequestKinds DEF StepsOf, Step, Op
<1>4. RoomTypeOK'
  BY <1>1, <1>3 DEF RoomInv, RoomTypeOK
<1>5. ASSUME NEW p \in Slot PROVE CallInv(p)'
  <2>1. CASE p = q
    <3>1. step'[q] = next
      BY <1>1 DEF RoomInv, RoomTypeOK
    <3> QED BY <1>1, <1>2, <2>1, <3>1 DEF CallInv
  <2>2. CASE p # q
    <3>1. step'[p] = step[p]
      BY <1>1, <2>2 DEF RoomInv, RoomTypeOK
    <3> QED BY <1>1, <3>1 DEF RoomInv, CallInv
  <2> QED BY <2>1, <2>2
<1> QED BY <1>1, <1>4, <1>5 DEF RoomInv, Atomic!vars

\* What a call asks and where it stands.
LEMMA CallKinds ==
  ASSUME RoomInv, NEW q \in Slot, NEW u \in waiting[q]
  PROVE  /\ u \in Request /\ u.op \in Op /\ step[q] \in StepsOf(u.op)
         /\ step[q] \in {"find", "count", "refind"} => u.op = "ensure"
         /\ step[q] = "check" => u.op \in {"ensure", "create"}
         /\ step[q] = "insert" => u.op \in {"ensure", "create", "provision"}
         /\ step[q] \in {"lock", "locked"} => u.op \in {"update", "delete"}
<1>1. u \in Request /\ step[q] \in StepsOf(u.op)
  BY DEF RoomInv, CallInv
<1>2. u.op \in {"ensure", "create", "provision", "update", "delete"}
  BY <1>1, RequestKinds DEF Op
<1> QED BY <1>1, <1>2, RequestKinds DEF StepsOf

LEMMA AskStep ==
  ASSUME RoomInv, NEW q \in Slot, Ask(q)
  PROVE  RoomInv' /\ Atomic!Ask(q)
<1>1. PICK u \in Request :
        /\ budget[u.op] > 0 /\ budget' = [budget EXCEPT ![u.op] = @ - 1]
        /\ waiting' = [waiting EXCEPT ![q] = {u}]
        /\ step' = [step EXCEPT ![q] = FirstStep(u)]
  BY DEF Ask
<1>2. /\ waiting[q] = {} /\ answer' = [answer EXCEPT ![q] = NoAnswer]
      /\ room' = room /\ ensured' = ensured /\ freed' = freed
  BY DEF Ask
<1>3. u.op \in {"ensure", "create", "provision", "update", "delete"}
  BY RequestKinds DEF Op
<1>4. FirstStep(u) \in StepsOf(u.op) \cap Step /\ FirstStep(u) \notin {"locked", "refind"}
  BY <1>3 DEF FirstStep, StepsOf, Step
<1>5. RoomTypeOK'
  <2>1. budget' \in [Op -> Nat]
    BY <1>1, <1>3 DEF RoomInv, RoomTypeOK, Op
  <2>2. NoAnswer \in [told: Outcome, ids: SUBSET Id]
    BY DEF NoAnswer, Outcome
  <2> QED BY <1>1, <1>2, <1>4, <2>1, <2>2 DEF RoomInv, RoomTypeOK
<1>6. ASSUME NEW p \in Slot PROVE CallInv(p)'
  <2>1. CASE p = q
    <3>1. waiting'[q] = {u} /\ step'[q] = FirstStep(u)
      BY <1>1 DEF RoomInv, RoomTypeOK
    <3> QED BY <1>4, <2>1, <3>1 DEF CallInv
  <2>2. CASE p # q
    <3>1. waiting'[p] = waiting[p] /\ step'[p] = step[p]
      BY <1>1, <2>2 DEF RoomInv, RoomTypeOK
    <3> QED BY <1>2, <3>1 DEF RoomInv, CallInv
  <2> QED BY <2>1, <2>2
<1>7. Atomic!Ask(q)
  BY <1>1, <1>2, SameTables DEF Atomic!Ask
<1> QED BY <1>2, <1>5, <1>6, <1>7 DEF RoomInv

\* The queries of ensureRoom.
LEMMA EnsureSteps ==
  ASSUME RoomInv, NEW q \in Slot, NEW u \in waiting[q],
         FindRoom(q, u) \/ CountRooms(q) \/ FindRacedRoom(q, u)
  PROVE  RoomInv' /\ (Atomic!Ensure(q, u) \/ UNCHANGED Atomic!vars)
<1>1. u.op = "ensure" /\ Reads
  BY CallKinds DEF FindRoom, CountRooms, FindRacedRoom
<1>2. {"count", "check"} \subseteq StepsOf(u.op)
  BY <1>1 DEF StepsOf
<1>3. CASE \E r \in Named(room, u.slug) : Done(q, "rows", {r})
  <2>1. PICK r \in Named(room, u.slug) : Done(q, "rows", {r})
    BY <1>3
  <2>2. {r} \in SUBSET Id /\ "rows" \in Outcome
    BY DEF Named, Live, Outcome
  <2>3. RoomInv' /\ Atomic!Tell(q, "rows", {r}) /\ Atomic!Forget(q) /\ room' = room
    BY <1>1, <2>1, <2>2, DoneKeepsInv
  <2> QED BY <1>1, <2>3, SameTables DEF Atomic!Ensure
<1>4. CASE Go(q, "count") \/ Go(q, "check")
  BY <1>1, <1>2, <1>4, GoKeepsInv
<1>5. CASE Cardinality(Live(room)) >= Cap /\ Done(q, "refused", {})
  <2>1. RoomInv' /\ Atomic!Tell(q, "refused", {}) /\ Atomic!Forget(q) /\ room' = room
    BY <1>1, <1>5, DoneKeepsInv DEF Outcome
  <2>2. Atomic!Cardinality(Atomic!Live(room)) >= Cap
    <3>1. Atomic!Live(room) = Live(room)
      BY SameTables
    <3> QED BY <1>5, <3>1 DEF Atomic!Cardinality, Cardinality
  <2> QED BY <1>1, <2>1, <2>2 DEF Atomic!Ensure
<1>6. CASE step[q] = "refind" /\ Named(room, u.slug) = {} /\ Done(q, "conflict", {})
  <2>1. RoomInv' /\ Atomic!Tell(q, "conflict", {}) /\ Atomic!Forget(q) /\ room' = room
    BY <1>1, <1>6, DoneKeepsInv DEF Outcome
  <2>2. freed[q]
    BY <1>6 DEF RoomInv, CallInv
  <2> QED BY <1>1, <1>6, <2>1, <2>2, SameTables DEF Atomic!Ensure
<1> QED BY <1>3, <1>4, <1>5, <1>6 DEF FindRoom, CountRooms, FindRacedRoom

\* A slug that is taken.
LEMMA ConflictStep ==
  ASSUME RoomInv, NEW q \in Slot, NEW u \in waiting[q], step[q] \in {"check", "insert"},
         \E s \in Wanted(u) : Named(room, s) # {}, Conflict(q, u), Reads
  PROVE  RoomInv' /\ (Atomic!Create(q, u) \/ UNCHANGED Atomic!vars)
<1>1. u \in Request /\ u.op \in {"ensure", "create", "provision"}
  BY CallKinds
<1>2. CASE u.op = "ensure"
  <2>1. Go(q, "refind") /\ "refind" \in StepsOf(u.op)
    BY <1>2 DEF Conflict, StepsOf
  <2>2. Named(room, u.slug) # {}
    BY <1>1, <1>2, RequestKinds
  <2> QED BY <2>1, <2>2, GoKeepsInv
<1>3. CASE u.op # "ensure"
  <2>1. RoomInv' /\ Atomic!Tell(q, "conflict", {}) /\ Atomic!Forget(q) /\ room' = room
    BY <1>3, DoneKeepsInv DEF Conflict, Outcome
  <2> QED BY <1>1, <1>3, <2>1, SameTables DEF Atomic!Create
<1> QED BY <1>2, <1>3

LEMMA CheckSlugStep ==
  ASSUME RoomInv, NEW q \in Slot, NEW u \in waiting[q], CheckSlug(q, u)
  PROVE  RoomInv' /\ (Atomic!Create(q, u) \/ UNCHANGED Atomic!vars)
<1>1. step[q] = "check" /\ Reads /\ u \in Request /\ u.op \in {"ensure", "create"}
  BY CallKinds DEF CheckSlug
<1>2. CASE Named(room, u.slug) # {} /\ Conflict(q, u)
  BY <1>1, <1>2, RequestKinds, ConflictStep
<1>3. CASE Go(q, "insert")
  <2>1. "insert" \in StepsOf(u.op)
    BY <1>1 DEF StepsOf
  <2> QED BY <1>1, <1>3, <2>1, GoKeepsInv
<1> QED BY <1>2, <1>3 DEF CheckSlug

LEMMA InsertStep ==
  ASSUME RoomInv, NEW q \in Slot, NEW u \in waiting[q], InsertRooms(q, u)
  PROVE  RoomInv' /\ (\/ Atomic!Create(q, u) \/ Atomic!Ensure(q, u) \/ UNCHANGED Atomic!vars)
<1>1. /\ step[q] = "insert" /\ budget' = budget
      /\ u \in Request /\ u.op \in {"ensure", "create", "provision"}
  BY CallKinds DEF InsertRooms
<1>2. CASE /\ \E s \in Wanted(u) : Named(room, s) # {}
           /\ Conflict(q, u) /\ UNCHANGED <<room, ensured>>
  BY <1>1, <1>2, ConflictStep DEF Reads
<1>3. CASE /\ \A s \in Wanted(u) : Named(room, s) = {}
           /\ \E f \in Newcomers(room, Wanted(u)) :
                /\ room' = Inserted(room, f)
                /\ ensured' = IF u.op = "ensure" THEN ensured \cup DOMAIN f ELSE ensured
                /\ Done(q, "rows", DOMAIN f)
  <2>1. PICK f \in Newcomers(room, Wanted(u)) :
          /\ room' = Inserted(room, f)
          /\ ensured' = IF u.op = "ensure" THEN ensured \cup DOMAIN f ELSE ensured
          /\ Done(q, "rows", DOMAIN f)
    BY <1>3
  <2>2. Wanted(u) \in SUBSET Slug /\ room \in Table /\ Indexed(room) /\ ensured \in SUBSET Id
    BY <1>1, RequestKinds DEF RoomInv, RoomTypeOK
  <2>3. /\ DOMAIN f \in SUBSET Id /\ room' \in Table /\ Live(room) \subseteq Live(room')
        /\ \A r \in Live(room) : room'[r] = room[r]
    BY <2>1, <2>2, InsertedTable DEF Unused, Live
  <2>4. Indexed(room')
    BY <1>3, <2>1, <2>2, InsertedIndexed
  <2>5. /\ Tell(q, "rows", DOMAIN f) /\ freed' = [freed EXCEPT ![q] = FALSE]
        /\ freed' \in [Slot -> BOOLEAN] /\ freed'[q] = FALSE
        /\ \A p \in Slot \ {q} : freed'[p] = freed[p]
    BY <2>1 DEF Done, RoomInv, RoomTypeOK
  <2>6. RoomInv'
    <3>1. ensured' \in SUBSET Id /\ budget' \in [Op -> Nat] /\ "rows" \in Outcome
      BY <1>1, <2>1, <2>2, <2>3 DEF RoomInv, RoomTypeOK, Outcome
    <3>2. ASSUME NEW p \in Slot \ {q}
          PROVE  /\ waiting[p] = {} => freed'[p] = FALSE
                 /\ \A w \in waiting[p] :
                      /\ step[p] = "locked" => w.id \in Live(room')
                      /\ step[p] = "refind" => Named(room', w.slug) # {} \/ freed'[p]
      BY <2>3, <2>5 DEF RoomInv, CallInv, Named
    <3> QED BY <2>3, <2>4, <2>5, <3>1, <3>2, TellKeepsInv
  <2>7. Atomic!Insert(q, u)
    BY <1>3, <2>1, <2>5, SameTables DEF Atomic!Insert, Tell, Atomic!Tell, Atomic!Forget
  <2> QED BY <1>1, <2>6, <2>7 DEF Atomic!Create, Atomic!Ensure
<1> QED BY <1>2, <1>3 DEF InsertRooms

LEMMA LockStep ==
  ASSUME RoomInv, NEW q \in Slot, NEW u \in waiting[q],
         LockRoom(q, u) \/ BreakDeadlock(q, u)
  PROVE  RoomInv' /\ (Atomic!Decline(q, u) \/ UNCHANGED Atomic!vars)
<1>1. u \in Request /\ u.op \in {"update", "delete"} /\ Reads
  BY CallKinds DEF LockRoom, BreakDeadlock
<1>2. CASE u.id \in Live(room) /\ Go(q, "locked")
  <2>1. "locked" \in StepsOf(u.op)
    BY <1>1 DEF StepsOf
  <2> QED BY <1>1, <1>2, <2>1, GoKeepsInv
<1>3. CASE u.id \notin Live(room) /\ Done(q, "notFound", {})
  <2>1. RoomInv' /\ Atomic!Tell(q, "notFound", {}) /\ Atomic!Forget(q) /\ room' = room
    BY <1>1, <1>3, DoneKeepsInv DEF Outcome
  <2> QED BY <1>1, <1>3, <2>1, SameTables DEF Atomic!Decline
<1>4. CASE BreakDeadlock(q, u)
  <2>1. RoomInv' /\ Atomic!Tell(q, "aborted", {}) /\ Atomic!Forget(q) /\ room' = room
    BY <1>1, <1>4, DoneKeepsInv DEF BreakDeadlock, Outcome
  <2>2. PICK p \in Slot \ {q} : step[p] = "locked" /\ \E w \in waiting[p] : w.id = u.id
    BY <1>4 DEF BreakDeadlock, Holders
  <2>3. PICK w \in waiting[p] : w.id = u.id
    BY <2>2
  <2>4. w.op \in {"update", "delete"}
    BY <2>2, CallKinds
  <2> QED BY <1>1, <2>1, <2>3, <2>4 DEF Atomic!Decline
<1> QED BY <1>2, <1>3, <1>4 DEF LockRoom

LEMMA PatchStep ==
  ASSUME RoomInv, NEW q \in Slot, NEW u \in waiting[q], PatchRoom(q, u)
  PROVE  RoomInv' /\ Atomic!Update(q, u)
<1>1. /\ step[q] = "locked" /\ u.op = "update"
      /\ room' = [room EXCEPT ![u.id].setting = u.setting]
      /\ Done(q, "rows", {u.id}) /\ budget' = budget /\ ensured' = ensured
  BY DEF PatchRoom
<1>2. u.id \in Live(room) /\ u.id \in Id /\ u.setting \in Setting
  BY <1>1, CallKinds, RequestKinds DEF RoomInv, CallInv
<1>3. /\ room' \in Table /\ Live(room') = Live(room)
      /\ \A y \in Id : room'[y].slug = room[y].slug
  <2>1. room \in Table
    BY DEF RoomInv, RoomTypeOK
  <2>2. /\ [room EXCEPT ![u.id].setting = u.setting] \in Table
        /\ Live([room EXCEPT ![u.id].setting = u.setting]) = Live(room)
        /\ \A y \in Id : [room EXCEPT ![u.id].setting = u.setting][y].slug = room[y].slug
    BY <1>2, <2>1, EditedTable
  <2> QED BY <1>1, <2>2
<1>4. /\ Tell(q, "rows", {u.id}) /\ freed' = [freed EXCEPT ![q] = FALSE]
      /\ freed' \in [Slot -> BOOLEAN] /\ freed'[q] = FALSE
      /\ \A p \in Slot \ {q} : freed'[p] = freed[p]
  BY <1>1 DEF Done, RoomInv, RoomTypeOK
<1>5. RoomInv'
  <2>1. Indexed(room') /\ ensured' \in SUBSET Id /\ budget' \in [Op -> Nat] /\ "rows" \in Outcome
    BY <1>1, <1>3 DEF RoomInv, RoomTypeOK, Indexed, Live, Outcome
  <2>2. \A s : Named(room', s) = Named(room, s)
    BY <1>3 DEF Named, Live
  <2>3. ASSUME NEW p \in Slot \ {q}
        PROVE  /\ waiting[p] = {} => freed'[p] = FALSE
               /\ \A w \in waiting[p] :
                    /\ step[p] = "locked" => w.id \in Live(room')
                    /\ step[p] = "refind" => Named(room', w.slug) # {} \/ freed'[p]
    BY <1>3, <1>4, <2>2 DEF RoomInv, CallInv
  <2>4. room' \in Table /\ {u.id} \in SUBSET Id
    BY <1>2, <1>3
  <2>5. Tell(q, "rows", {u.id}) /\ freed' \in [Slot -> BOOLEAN] /\ freed'[q] = FALSE
    BY <1>4
  <2> QED BY <2>1, <2>3, <2>4, <2>5, TellKeepsInv
<1> QED BY <1>1, <1>2, <1>4, <1>5, SameTables
        DEF Atomic!Update, Tell, Atomic!Tell, Atomic!Forget

LEMMA RemoveStep ==
  ASSUME RoomInv, NEW q \in Slot, NEW u \in waiting[q], RemoveRoom(q, u)
  PROVE  RoomInv' /\ Atomic!Delete(q, u)
<1>1. /\ step[q] = "locked" /\ u.op = "delete" /\ Holders(u.id) = {q}
      /\ room' = [room EXCEPT ![u.id].state = "deleted"]
      /\ Tell(q, "rows", {u.id}) /\ budget' = budget /\ ensured' = ensured
      /\ freed' = [p \in Slot |-> p # q /\ (freed[p] \/ Ensures(p, room[u.id].slug))]
  BY DEF RemoveRoom
<1>2. u.id \in Live(room) /\ u.id \in Id
  BY <1>1, CallKinds, RequestKinds DEF RoomInv, CallInv
<1>3. /\ room' \in Table /\ Live(room') = Live(room) \ {u.id}
      /\ \A y \in Id : room'[y].slug = room[y].slug
  <2>1. room \in Table
    BY DEF RoomInv, RoomTypeOK
  <2>2. /\ [room EXCEPT ![u.id].state = "deleted"] \in Table
        /\ Live([room EXCEPT ![u.id].state = "deleted"]) = Live(room) \ {u.id}
        /\ \A y \in Id : [room EXCEPT ![u.id].state = "deleted"][y].slug = room[y].slug
    BY <1>2, <2>1, MarkedTable
  <2> QED BY <1>1, <2>2
<1>4. RoomInv'
  <2>1. Indexed(room') /\ ensured' \in SUBSET Id /\ budget' \in [Op -> Nat] /\ "rows" \in Outcome
    BY <1>1, <1>3 DEF RoomInv, RoomTypeOK, Indexed, Live, Outcome
  <2>2. freed' \in [Slot -> BOOLEAN] /\ freed'[q] = FALSE
    BY <1>1 DEF RoomInv, RoomTypeOK, Ensures
  <2>3. ASSUME NEW p \in Slot \ {q}
        PROVE  /\ waiting[p] = {} => freed'[p] = FALSE
               /\ \A w \in waiting[p] :
                    /\ step[p] = "locked" => w.id \in Live(room')
                    /\ step[p] = "refind" => Named(room', w.slug) # {} \/ freed'[p]
    <3>1. freed'[p] = (freed[p] \/ Ensures(p, room[u.id].slug))
      BY <1>1
    <3>2. waiting[p] = {} => freed'[p] = FALSE
      BY <3>1 DEF RoomInv, CallInv, Ensures
    <3>3. ASSUME NEW w \in waiting[p], step[p] = "locked" PROVE w.id \in Live(room')
      <4>1. w.id \in Live(room)
        BY <3>3 DEF RoomInv, CallInv
      <4>2. w.id # u.id
        BY <1>1, <3>3 DEF Holders
      <4> QED BY <1>3, <4>1, <4>2
    <3>4. ASSUME NEW w \in waiting[p], step[p] = "refind"
          PROVE  Named(room', w.slug) # {} \/ freed'[p]
      <4>1. w.op = "ensure" /\ (Named(room, w.slug) # {} \/ freed[p])
        BY <3>4, CallKinds DEF RoomInv, CallInv
      <4>2. CASE room[u.id].slug = w.slug
        BY <3>1, <4>1, <4>2 DEF Ensures
      <4>3. CASE room[u.id].slug # w.slug
        BY <1>3, <3>1, <4>1, <4>3 DEF Named, Live
      <4> QED BY <4>2, <4>3
    <3> QED BY <3>2, <3>3, <3>4
  <2> QED BY <1>1, <1>2, <1>3, <2>1, <2>2, <2>3, TellKeepsInv
<1>5. Atomic!Delete(q, u)
  <2>1. \A p, s : Atomic!Ensures(p, s) <=> Ensures(p, s)
    BY DEF Atomic!Ensures, Ensures
  <2>2. freed' = [p \in Slot |-> p # q /\ (freed[p] \/ Atomic!Ensures(p, room[u.id].slug))]
    BY <1>1 DEF Atomic!Ensures, Ensures
  <2> QED BY <1>1, <1>2, <2>2, SameTables DEF Atomic!Delete, Tell, Atomic!Tell
<1> QED BY <1>4, <1>5

LEMMA StepImplements ==
  RoomInv /\ [Next]_vars => RoomInv' /\ [Atomic!Next]_(Atomic!vars)
<1> SUFFICES ASSUME RoomInv, [Next]_vars PROVE RoomInv' /\ [Atomic!Next]_(Atomic!vars)
  OBVIOUS
<1>1. ASSUME NEW q \in Slot, Ask(q) PROVE RoomInv' /\ Atomic!Next
  BY <1>1, AskStep DEF Atomic!Next
<1>2. ASSUME NEW q \in Slot, Proceed(q) PROVE RoomInv' /\ [Atomic!Next]_(Atomic!vars)
  <2>1. PICK u \in waiting[q] :
          \/ FindRoom(q, u) \/ CountRooms(q) \/ FindRacedRoom(q, u)
          \/ CheckSlug(q, u) \/ InsertRooms(q, u)
          \/ LockRoom(q, u) \/ PatchRoom(q, u) \/ RemoveRoom(q, u) \/ BreakDeadlock(q, u)
    BY <1>2 DEF Proceed
  <2>2. RoomInv' /\ (\/ Atomic!Ensure(q, u) \/ Atomic!Create(q, u) \/ Atomic!Update(q, u)
                     \/ Atomic!Delete(q, u) \/ Atomic!Decline(q, u)
                     \/ UNCHANGED Atomic!vars)
    BY <2>1, EnsureSteps, CheckSlugStep, InsertStep, LockStep, PatchStep, RemoveStep
  <2> QED BY <2>2 DEF Atomic!Next
<1>3. CASE UNCHANGED vars
  BY <1>3 DEF vars, RoomInv, RoomTypeOK, Indexed, Live, CallInv, Named, Atomic!vars
<1> QED BY <1>1, <1>2, <1>3 DEF Next

LEMMA InitInv == Init => RoomInv /\ Atomic!Init
<1> SUFFICES ASSUME Init PROVE RoomInv /\ Atomic!Init
  OBVIOUS
<1>1. room \in Table /\ Indexed(room) /\ budget \in [Op -> Nat]
  BY RoomAssumption DEF Init
<1>2. RoomTypeOK
  BY <1>1 DEF Init, RoomTypeOK, NoAnswer, Outcome, Step
<1>3. \A q \in Slot : CallInv(q)
  BY DEF Init, CallInv
<1>4. Atomic!Init
  BY <1>1, SameTables DEF Init, Atomic!Init
<1> QED BY <1>1, <1>2, <1>3, <1>4 DEF RoomInv

\* Every variable keeps its type, for any numbers of calls, rooms and slugs.
THEOREM RoomsTypeCorrect == Spec => []RoomTypeOK
<1>1. RoomInv => RoomTypeOK
  BY DEF RoomInv
<1> QED BY <1>1, InitInv, StepImplements, PTL DEF Spec

\* RoomFacade implements the registry: whatever number of calls overlap, each is
\* answered as if it ran alone at one instant.
THEOREM RoomsRegistered == Spec => Registered
BY InitInv, StepImplements, PTL DEF Spec, Registered, Atomic!Spec

-----------------------------------------------------------------------------
(* The cap.                                                                *)

\* Rooms that ensureRoom made, and calls that may yet make one.
Made == Live(room) \cap ensured
Counted == { q \in Slot : step[q] \in {"check", "insert"} /\ \E u \in waiting[q] : u.op = "ensure" }

\* A room is made by a call that has counted, and a call that counts finds the
\* cap not reached: so a call still to come makes up for each room past it.
CapInv ==
  /\ ensured \cap Unused(room) = {}
  /\ Cardinality(Made) + Cardinality(Counted) <= Cap + Cardinality(Slot) - 1

LEMMA FiniteCounts ==
  /\ IsFiniteSet(Made) /\ Cardinality(Made) \in Nat
  /\ IsFiniteSet(Counted) /\ Cardinality(Counted) \in Nat
  /\ Cardinality(Counted) <= Cardinality(Slot)
  /\ Cardinality(Slot) \in Nat /\ Cardinality(Slot) > 0
  /\ IsFiniteSet(Live(room)) /\ Cardinality(Live(room)) \in Nat
  /\ Cardinality(Made) <= Cardinality(Live(room))
<1>1. Counted \subseteq Slot /\ Made \subseteq Live(room) /\ Live(room) \subseteq Id
  BY DEF Counted, Made, Live
<1>2. Cardinality(Slot) # 0
  BY TableAssumption, FS_EmptySet
<1> QED BY <1>1, <1>2, TableAssumption, FS_Subset, FS_CardinalityType

\* Steps that make no room and count none.
LEMMA FewerKeepsCap ==
  ASSUME CapInv, Made' \subseteq Made, Counted' \subseteq Counted,
         ensured' = ensured, Unused(room)' \subseteq Unused(room)
  PROVE  CapInv'
<1>1. Cardinality(Made') <= Cardinality(Made) /\ Cardinality(Made') \in Nat
  BY FiniteCounts, FS_Subset, FS_CardinalityType
<1>2. Cardinality(Counted') <= Cardinality(Counted) /\ Cardinality(Counted') \in Nat
  BY FiniteCounts, FS_Subset, FS_CardinalityType
<1> QED BY <1>1, <1>2, FiniteCounts, RoomAssumption DEF CapInv

LEMMA CapStep ==
  RoomInv /\ CapInv /\ [Next]_vars => CapInv'
<1> SUFFICES ASSUME RoomInv, CapInv, [Next]_vars PROVE CapInv'
  OBVIOUS
<1>1. ASSUME NEW q \in Slot, Ask(q) PROVE CapInv'
  <2>1. PICK u \in Request :
          waiting' = [waiting EXCEPT ![q] = {u}] /\ step' = [step EXCEPT ![q] = FirstStep(u)]
    BY <1>1 DEF Ask
  <2>2. waiting[q] = {} /\ room' = room /\ ensured' = ensured
    BY <1>1 DEF Ask
  <2>3. FirstStep(u) \in {"check", "insert"} => u.op # "ensure"
    BY RequestKinds DEF FirstStep, Op
  <2>4. Counted' \subseteq Counted
    BY <2>1, <2>2, <2>3 DEF Counted, RoomInv, RoomTypeOK
  <2> QED BY <2>2, <2>4, FewerKeepsCap DEF Made, Live, Unused
<1>2. ASSUME NEW q \in Slot, NEW told, NEW ids, Tell(q, told, ids)
      PROVE  Counted' \subseteq Counted \ {q}
  BY <1>2 DEF Tell, Counted, RoomInv, RoomTypeOK
<1>3. ASSUME NEW q \in Slot, NEW told, NEW ids, Done(q, told, ids), Reads PROVE CapInv'
  <2>1. Counted' \subseteq Counted
    BY <1>2, <1>3 DEF Done
  <2> QED BY <1>3, <2>1, FewerKeepsCap DEF Reads, Made, Live, Unused
<1>4. ASSUME NEW q \in Slot, NEW next, Go(q, next), room' = room, ensured' = ensured,
             next \notin {"check", "insert"} \/ q \in Counted \/ \A u \in waiting[q] : u.op # "ensure"
      PROVE  CapInv'
  <2>1. Counted' \subseteq Counted
    BY <1>4 DEF Go, Counted, RoomInv, RoomTypeOK
  <2> QED BY <1>4, <2>1, FewerKeepsCap DEF Made, Live, Unused
<1>5. ASSUME NEW q \in Slot, NEW u \in waiting[q], CountRooms(q) PROVE CapInv'
  <2>1. CASE Cardinality(Live(room)) < Cap /\ Go(q, "check")
    <3>1. room' = room /\ ensured' = ensured
      BY <1>5 DEF CountRooms, Reads
    <3>2. Made' = Made /\ Unused(room)' = Unused(room) /\ Counted' \subseteq Slot
      BY <3>1 DEF Made, Live, Unused, Counted
    <3>3. Cardinality(Counted') <= Cardinality(Slot) /\ Cardinality(Counted') \in Nat
      BY <3>2, TableAssumption, FS_Subset, FS_CardinalityType
    <3>4. Cardinality(Made) <= Cap - 1
      BY <2>1, FiniteCounts, RoomAssumption
    <3> QED BY <3>1, <3>2, <3>3, <3>4, FiniteCounts, RoomAssumption DEF CapInv
  <2>2. CASE Done(q, "refused", {})
    BY <1>3, <1>5, <2>2 DEF CountRooms
  <2> QED BY <1>5, <2>1, <2>2 DEF CountRooms
<1>6. ASSUME NEW q \in Slot, NEW u \in waiting[q], InsertRooms(q, u) PROVE CapInv'
  <2>1. u \in Request /\ u.op \in {"ensure", "create", "provision"} /\ step[q] = "insert"
    BY <1>6, CallKinds DEF InsertRooms
  <2>2. CASE Conflict(q, u) /\ UNCHANGED <<room, ensured>>
    <3>1. CASE Go(q, "refind")
      BY <1>4, <2>2, <3>1
    <3>2. CASE Done(q, "conflict", {})
      <4>1. Counted' \subseteq Counted
        BY <1>2, <3>2 DEF Done
      <4> QED BY <2>2, <4>1, FewerKeepsCap DEF Made, Live, Unused
    <3> QED BY <2>2, <3>1, <3>2 DEF Conflict
  <2>3. ASSUME NEW f \in Newcomers(room, Wanted(u)), room' = Inserted(room, f),
               ensured' = IF u.op = "ensure" THEN ensured \cup DOMAIN f ELSE ensured,
               Done(q, "rows", DOMAIN f)
        PROVE  CapInv'
    <3>1. Counted' \subseteq Counted \ {q}
      BY <1>2, <2>3 DEF Done
    <3>2. room \in Table /\ Wanted(u) \in SUBSET Slug /\ ensured \in SUBSET Id
      BY <2>1, RequestKinds DEF RoomInv, RoomTypeOK
    <3>3. /\ DOMAIN f \subseteq Unused(room) /\ f \in [DOMAIN f -> Wanted(u)]
          /\ \A p, r \in DOMAIN f : f[p] = f[r] => p = r
          /\ Live(room') = Live(room) \cup DOMAIN f
          /\ \A r \in Id \ DOMAIN f : room'[r] = room[r]
      BY <2>3, <3>2, InsertedTable
    <3>4. Unused(room') \subseteq Unused(room) \ DOMAIN f
      <4>1. \A r \in DOMAIN f : r \in Live(room')
        BY <3>3
      <4>2. \A r \in DOMAIN f : r \notin Unused(room')
        BY <4>1 DEF Live, Unused, Blank
      <4> QED BY <3>3, <4>2 DEF Unused
    <3>5. ensured' \cap Unused(room') = {}
      BY <2>3, <3>4 DEF CapInv
    <3>6. CASE u.op # "ensure"
      <4>1. Made' = Made
        BY <2>3, <3>3, <3>6 DEF Made, CapInv
      <4>2. Counted' \subseteq Counted /\ ensured' = ensured /\ Unused(room)' \subseteq Unused(room)
        BY <2>3, <3>1, <3>4, <3>6
      <4> QED BY <4>1, <4>2, FewerKeepsCap
    <3>7. CASE u.op = "ensure"
      <4>1. Wanted(u) = {u.slug}
        BY <2>1, <3>7, RequestKinds
      <4>2. \A p, r \in DOMAIN f : p = r
        BY <3>3, <4>1
      <4>3. PICK r : DOMAIN f \subseteq {r}
        BY <4>2
      <4>4. Made' \subseteq Made \cup {r}
        BY <2>3, <3>3, <4>3 DEF Made, CapInv
      <4>5. /\ IsFiniteSet(Made \cup {r}) /\ Cardinality(Made \cup {r}) <= Cardinality(Made) + 1
            /\ Cardinality(Made \cup {r}) \in Nat
        <5>1. /\ IsFiniteSet(Made \cup {r})
              /\ Cardinality(Made \cup {r}) = IF r \in Made THEN Cardinality(Made)
                                               ELSE Cardinality(Made) + 1
          BY FiniteCounts, FS_AddElement
        <5> QED BY <5>1, FiniteCounts
      <4>6. Cardinality(Made') <= Cardinality(Made) + 1 /\ Cardinality(Made') \in Nat
        BY <4>4, <4>5, FiniteCounts, FS_Subset, FS_CardinalityType
      <4>7. q \in Counted
        BY <2>1, <3>7 DEF Counted
      <4>8. /\ IsFiniteSet(Counted \ {q}) /\ Cardinality(Counted \ {q}) = Cardinality(Counted) - 1
        BY <4>7, FiniteCounts, FS_RemoveElement
      <4>9. Cardinality(Counted') <= Cardinality(Counted) - 1 /\ Cardinality(Counted') \in Nat
        BY <3>1, <4>8, FS_Subset, FS_CardinalityType
      <4> QED BY <3>5, <4>6, <4>9, FiniteCounts, RoomAssumption DEF CapInv
    <3> QED BY <3>6, <3>7
  <2> QED BY <1>6, <2>2, <2>3 DEF InsertRooms
<1>7. ASSUME NEW q \in Slot, NEW u \in waiting[q], CheckSlug(q, u) PROVE CapInv'
  <2>1. step[q] = "check" /\ room' = room /\ ensured' = ensured /\ Reads
    BY <1>7 DEF CheckSlug, Reads
  <2>2. q \in Counted \/ \A w \in waiting[q] : w.op # "ensure"
    BY <2>1 DEF Counted
  <2> QED BY <1>3, <1>4, <1>7, <2>1, <2>2 DEF CheckSlug, Conflict
<1>8. ASSUME NEW q \in Slot, NEW u \in waiting[q], PatchRoom(q, u) \/ RemoveRoom(q, u)
      PROVE  CapInv'
  <2>1. u.id \in Live(room)
    BY <1>8, CallKinds DEF PatchRoom, RemoveRoom, RoomInv, CallInv
  <2>2. room \in Table /\ ensured' = ensured
    BY <1>8 DEF RoomInv, RoomTypeOK, PatchRoom, RemoveRoom
  <2>3. Counted' \subseteq Counted
    BY <1>2, <1>8 DEF PatchRoom, RemoveRoom, Done
  <2>4. Live(room') \subseteq Live(room) /\ \A r \in Id \ {u.id} : room'[r] = room[r]
    <3>1. CASE PatchRoom(q, u)
      <4>1. u.setting \in Setting /\ room' = [room EXCEPT ![u.id].setting = u.setting]
        BY <3>1, CallKinds, RequestKinds DEF PatchRoom
      <4> QED BY <2>1, <2>2, <4>1, EditedTable DEF Table
    <3>2. CASE RemoveRoom(q, u)
      <4>1. room' = [room EXCEPT ![u.id].state = "deleted"]
        BY <3>2 DEF RemoveRoom
      <4>2. Live(room') = Live(room) \ {u.id}
        BY <2>1, <2>2, <4>1, MarkedTable
      <4> QED BY <2>2, <4>1, <4>2 DEF Table
    <3> QED BY <1>8, <3>1, <3>2
  <2>5. room'[u.id] # Blank
    <3>1. u.id \in Id /\ room \in [Id -> Row] /\ room[u.id].state = "live"
      BY <2>1, <2>2 DEF Live, Table
    <3>2. room[u.id] \in [state: {"live", "deleted"}, slug: Slug, setting: Setting]
      BY <3>1 DEF Row, Blank
    <3> QED BY <1>8, <3>1, <3>2 DEF PatchRoom, RemoveRoom, Blank
  <2>6. Unused(room') \subseteq Unused(room) /\ Made' \subseteq Made
    BY <2>2, <2>4, <2>5 DEF Unused, Made
  <2> QED BY <2>2, <2>3, <2>6, FewerKeepsCap
<1>9. ASSUME NEW q \in Slot, Proceed(q) PROVE CapInv'
  <2>1. PICK u \in waiting[q] :
          \/ FindRoom(q, u) \/ CountRooms(q) \/ FindRacedRoom(q, u)
          \/ CheckSlug(q, u) \/ InsertRooms(q, u)
          \/ LockRoom(q, u) \/ PatchRoom(q, u) \/ RemoveRoom(q, u) \/ BreakDeadlock(q, u)
    BY <1>9 DEF Proceed
  <2>2. CASE FindRoom(q, u) \/ FindRacedRoom(q, u) \/ LockRoom(q, u) \/ BreakDeadlock(q, u)
    <3>1. Reads /\ ((\E told, ids : Done(q, told, ids)) \/ Go(q, "count") \/ Go(q, "locked"))
      BY <2>2 DEF FindRoom, FindRacedRoom, LockRoom, BreakDeadlock
    <3> QED BY <1>3, <1>4, <3>1 DEF Reads
  <2> QED BY <1>5, <1>6, <1>7, <1>8, <2>1, <2>2
<1>10. CASE UNCHANGED vars
  BY <1>10, FewerKeepsCap DEF vars, Made, Counted, Live, Unused
<1> QED BY <1>1, <1>9, <1>10 DEF Next

LEMMA InitCap == Init => CapInv
<1> SUFFICES ASSUME Init PROVE CapInv
  OBVIOUS
<1>1. Made = {} /\ Counted = {} /\ ensured = {}
  BY DEF Init, Made, Counted
<1>2. Cardinality({}) = 0
  BY FS_EmptySet
<1> QED BY <1>1, <1>2, FiniteCounts, RoomAssumption DEF CapInv

\* ensureRoom exceeds its cap by fewer rooms than there are calls, whatever
\* number of calls overlap and whatever else creates and deletes rooms.
THEOREM CapNearlyKept == Spec => []EnsuredWithinCap
<1>1. CapInv => EnsuredWithinCap
  <2> SUFFICES ASSUME CapInv PROVE EnsuredWithinCap
    OBVIOUS
  <2> QED BY FiniteCounts, RoomAssumption DEF CapInv, EnsuredWithinCap, Made
<1> QED BY <1>1, InitInv, InitCap, StepImplements, CapStep, PTL DEF Spec
=============================================================================
