---------------------- MODULE SubscriptionStateProofs -----------------------
(***************************************************************************)
(* Whatever rows there are, every row and every answer is a list.  Where   *)
(* the actor's row exists and is not deleted, overlapping calls on it      *)
(* implement the atomic list of module Subscriptions; and so they do from  *)
(* an empty table on, through deletions, where callers keep apart while    *)
(* there is no row to lock.                                                *)
(***************************************************************************)
EXTENDS SubscriptionState, TLAPS

\* A call waits for one request; it remembers the one row there is, from its
\* query until it takes effect; and an update that remembers it holds its lock
\* and has read what it still contains.
OneRowInv(t) ==
  /\ TypeOK
  /\ live = {t}
  /\ \A q \in Slot :
       /\ waiting[q] = {} \/ \E u \in Request : waiting[q] = {u}
       /\ waiting[q] = {} => found[q] = {}
       /\ found[q] \in {{}, {t}}
       /\ Calls(q, "update") /\ found[q] # {} => lock[t] = q /\ read[q] = topics[t]

\* Kinds of requests, and what they leave.
LEMMA RequestKinds ==
  ASSUME NEW u \in Request
  PROVE  /\ u.op \in Ops
         /\ u.op \in {"update", "upsert", "clear", "drop", "restore"}
         /\ \A list \in Topics : Apply(u, list) \in Topics
         /\ u.op \in {"upsert", "clear"} =>
              \A x, y \in Topics : Apply(u, x) = Apply(u, y)
         /\ u.op = "restore" => \A list \in Topics : Apply(u, list) = list
<1>1. /\ u.op \in Ops
      /\ u \in [op: {"update"}, name: Name, option: Option \cup {Off}]
               \cup [op: {"upsert"}, topics: Topics]
               \cup [op: {"clear", "drop", "restore"}]
  BY DEF Request
<1>2. CASE u \in [op: {"update"}, name: Name, option: Option \cup {Off}]
  BY <1>1, <1>2 DEF Apply, Topics
<1>3. CASE u \in [op: {"upsert"}, topics: Topics]
  BY <1>1, <1>3 DEF Apply
<1>4. CASE u \in [op: {"clear", "drop", "restore"}]
  BY <1>1, <1>4 DEF Apply, Topics, Nothing
<1> QED BY <1>1, <1>2, <1>3, <1>4

LEMMA NothingType == Nothing \in Topics
BY DEF Nothing, Topics

\* The atomic list is asked the same requests and applies them alike.
LEMMA SameRequests ==
  /\ Atomic!Nothing = Nothing
  /\ Atomic!Topics = Topics
  /\ Atomic!Request = Request
  /\ \A u, list : Atomic!Apply(u, list) = Apply(u, list)
<1>1. Atomic!Nothing = Nothing /\ Atomic!Topics = Topics
  BY DEF Atomic!Nothing, Nothing, Atomic!Topics, Topics
<1>2. Atomic!Request = Request
  BY <1>1 DEF Atomic!Request, Request
<1>3. \A u, list : Atomic!Apply(u, list) = Apply(u, list)
  BY <1>1 DEF Atomic!Apply, Apply
<1> QED BY <1>1, <1>2, <1>3

\* The end of a call, on the atomic list.
LEMMA DoneTakes ==
  ASSUME NEW t \in RowId, OneRowInv(t), NEW q \in Slot, NEW u \in waiting[q],
         live' = live, topics' \in [RowId -> Topics],
         topics'[t] = Apply(u, topics[t]),
         Done(q, IF u.op = "restore" THEN topics[t] ELSE Nothing),
         \A p \in Slot \ {q} : topics'[t] = topics[t] \/ lock[t] # p
  PROVE  OneRowInv(t)' /\ Atomic!Take(q)
<1>1. live = {t} /\ Recorded = topics[t] /\ Recorded' = topics'[t]
  BY DEF OneRowInv, Recorded
<1>2. Atomic!Take(q)
  <2>1. /\ waiting' = [waiting EXCEPT ![q] = {}]
        /\ answer' = [answer EXCEPT ![q] =
                        IF u.op = "restore" THEN topics[t] ELSE Nothing]
    BY DEF Done
  <2> QED BY <1>1, <2>1, SameRequests DEF Atomic!Take
<1>3. TypeOK'
  BY RowAssumption, NothingType DEF OneRowInv, TypeOK, Done
<1>4. ASSUME NEW p \in Slot
      PROVE  /\ waiting'[p] = {} \/ \E v \in Request : waiting'[p] = {v}
             /\ waiting'[p] = {} => found'[p] = {}
             /\ found'[p] \in {{}, {t}}
             /\ Calls(p, "update")' /\ found'[p] # {}
                  => lock'[t] = p /\ read'[p] = topics'[t]
  <2>1. CASE p = q
    BY <2>1 DEF OneRowInv, TypeOK, Done
  <2>2. CASE p # q
    BY <2>2 DEF OneRowInv, TypeOK, Done, Calls
  <2> QED BY <2>1, <2>2
<1> QED BY <1>1, <1>2, <1>3, <1>4 DEF OneRowInv

\* A query sets what a call remembers and nothing a promise is about.
LEMMA FoundStutters ==
  ASSUME NEW t \in RowId, OneRowInv(t), NEW q \in Slot, Found(q, t),
         waiting[q] # {}, lock' \in [RowId -> Slot \cup {Unlocked}],
         \/ ~Calls(q, "update") /\ lock' = lock
         \/ lock[t] = Unlocked /\ lock'[t] = q
  PROVE  OneRowInv(t)' /\ UNCHANGED Atomic!vars
<1>1. UNCHANGED Atomic!vars
  BY DEF Found, Atomic!vars, Recorded
<1>2. TypeOK'
  <2>1. t # NoRow /\ topics[t] \in Topics
    BY RowAssumption DEF OneRowInv, TypeOK
  <2>2. found' \in [Slot -> SUBSET (RowId \cup {NoRow})] /\ read' \in [Slot -> Topics]
    BY <2>1 DEF Found, OneRowInv, TypeOK
  <2> QED BY <2>2 DEF OneRowInv, TypeOK, Found
<1>3. ASSUME NEW p \in Slot
      PROVE  /\ waiting'[p] = {} \/ \E v \in Request : waiting'[p] = {v}
             /\ waiting'[p] = {} => found'[p] = {}
             /\ found'[p] \in {{}, {t}}
             /\ Calls(p, "update")' /\ found'[p] # {}
                  => lock'[t] = p /\ read'[p] = topics'[t]
  <2>0. t # NoRow
    BY RowAssumption
  <2>1. CASE p = q
    BY <2>0, <2>1 DEF OneRowInv, TypeOK, Found, Calls
  <2>2. CASE p # q
    BY <2>2, RowAssumption DEF OneRowInv, TypeOK, Found, Calls
  <2> QED BY <2>1, <2>2
<1> QED BY <1>2, <1>1, <1>3 DEF OneRowInv, Found

\* Every step on the row but its deletion.
LEMMA RowStepImplements ==
  ASSUME NEW t \in RowId, OneRowInv(t), [Next]_vars, ~ \E q \in Slot : DeleteRows(q)
  PROVE  OneRowInv(t)' /\ [Atomic!Next]_(Atomic!vars)
<1>a. live = {t} /\ t # NoRow /\ Returned = {t} /\ topics[t] \in Topics
  BY RowAssumption DEF OneRowInv, TypeOK, Returned
<1>b. ASSUME NEW q \in Slot, NEW u \in waiting[q] PROVE u \in Request /\ waiting[q] = {u}
  BY <1>b DEF OneRowInv
<1>1. ASSUME NEW q \in Slot, Ask(q) PROVE OneRowInv(t)' /\ Atomic!Ask(q)
  <2>1. PICK u \in Request : waiting' = [waiting EXCEPT ![q] = {u}]
    BY <1>1 DEF Ask
  <2>2. Atomic!Ask(q)
    <3>1. UNCHANGED Recorded
      BY <1>1 DEF Ask, Recorded
    <3> QED BY <1>1, <2>1, <3>1, SameRequests DEF Ask, Atomic!Ask
  <2>3. TypeOK'
    BY <1>1, <2>1, NothingType DEF OneRowInv, TypeOK, Ask
  <2>4. ASSUME NEW p \in Slot
        PROVE  /\ waiting'[p] = {} \/ \E v \in Request : waiting'[p] = {v}
               /\ waiting'[p] = {} => found'[p] = {}
               /\ found'[p] \in {{}, {t}}
               /\ Calls(p, "update")' /\ found'[p] # {}
                    => lock'[t] = p /\ read'[p] = topics'[t]
    BY <1>1, <2>1 DEF OneRowInv, TypeOK, Ask, Calls
  <2> QED BY <1>1, <2>2, <2>3, <2>4 DEF OneRowInv, Ask
<1>2. ASSUME NEW q \in Slot, SelectForUpdate(q)
      PROVE  OneRowInv(t)' /\ UNCHANGED Atomic!vars
  <2>1. Found(q, t) /\ waiting[q] # {}
    BY <1>2, <1>a DEF SelectForUpdate, Calls
  <2>2. /\ lock[t] = Unlocked /\ lock'[t] = q
        /\ lock' \in [RowId -> Slot \cup {Unlocked}]
    BY <1>2, <1>a DEF SelectForUpdate, OneRowInv, TypeOK
  <2> QED BY <2>1, <2>2, FoundStutters
<1>3. ASSUME NEW q \in Slot, Find(q) PROVE OneRowInv(t)' /\ UNCHANGED Atomic!vars
  <2>1. Found(q, t) /\ waiting[q] # {} /\ lock' = lock
    BY <1>3, <1>a DEF Find, Calls
  <2>2. ~Calls(q, "update")
    BY <1>3, <1>b DEF Find, Calls
  <2>3. lock' \in [RowId -> Slot \cup {Unlocked}]
    BY <2>1 DEF OneRowInv, TypeOK
  <2> QED BY <2>1, <2>2, <2>3, FoundStutters
<1>4. ASSUME NEW q \in Slot, SaveUpdate(q) PROVE OneRowInv(t)' /\ Atomic!Take(q)
  <2>1. PICK u \in waiting[q] :
          /\ u.op = "update"
          /\ topics' = [topics EXCEPT ![t] = Apply(u, read[q])]
          /\ live' = live /\ Done(q, Nothing) /\ found[q] # {}
    BY <1>4, <1>a DEF SaveUpdate, OneRowInv
  <2>2. lock[t] = q /\ read[q] = topics[t]
    BY <2>1 DEF OneRowInv, Calls
  <2>3. Apply(u, topics[t]) \in Topics
    BY <1>a, <1>b, RequestKinds
  <2>4. topics' \in [RowId -> Topics] /\ topics'[t] = Apply(u, topics[t])
    BY <2>1, <2>2, <2>3 DEF OneRowInv, TypeOK
  <2> QED BY <2>1, <2>2, <2>4, DoneTakes
<1>5. ASSUME NEW q \in Slot, SaveFound(q) PROVE OneRowInv(t)' /\ Atomic!Take(q)
  <2>1. PICK u \in waiting[q] :
          /\ u.op \in {"clear", "upsert"}
          /\ \/ topics[t] = Apply(u, read[q]) /\ topics' = topics
             \/ /\ lock[t] = Unlocked
                /\ topics' = [topics EXCEPT ![t] = Apply(u, read[q])]
          /\ live' = live /\ Done(q, Nothing)
    BY <1>5, <1>a DEF SaveFound, OneRowInv
  <2>2. /\ Apply(u, read[q]) = Apply(u, topics[t])
        /\ Apply(u, topics[t]) \in Topics
    BY <1>a, <1>b, <2>1, RequestKinds DEF OneRowInv, TypeOK
  <2>3. topics' \in [RowId -> Topics] /\ topics'[t] = Apply(u, topics[t])
    BY <2>1, <2>2 DEF OneRowInv, TypeOK
  <2>4. topics'[t] = topics[t] \/ \A p \in Slot : lock[t] # p
    BY <2>1, RowAssumption
  <2> QED BY <2>1, <2>3, <2>4, DoneTakes
<1>6. ASSUME NEW q \in Slot, ReadBack(q) PROVE OneRowInv(t)' /\ Atomic!Take(q)
  <2>1. PICK u \in waiting[q] : u.op = "restore"
    BY <1>6 DEF ReadBack, Calls
  <2>2. live' = live /\ topics' = topics /\ Done(q, topics[t])
    BY <1>6, <1>a DEF ReadBack
  <2>3. Apply(u, topics[t]) = topics[t]
    BY <1>a, <1>b, <2>1, RequestKinds
  <2>4. topics' \in [RowId -> Topics]
    BY <2>2 DEF OneRowInv, TypeOK
  <2> QED BY <2>1, <2>2, <2>3, <2>4, DoneTakes
<1>7. ASSUME NEW q \in Slot, ClearNothing(q) \/ UpsertNew(q) PROVE FALSE
  BY <1>7, <1>a DEF ClearNothing, UpsertNew, OneRowInv
<1>8. CASE UNCHANGED vars
  BY <1>8 DEF vars, OneRowInv, TypeOK, Calls, Atomic!vars, Recorded
<1> QED
  BY <1>1, <1>2, <1>3, <1>4, <1>5, <1>6, <1>7, <1>8 DEF Next, Atomic!Next

LEMMA StepImplements ==
  ASSUME NEW t \in RowId, "drop" \notin Ops, OneRowInv(t), [Next]_vars
  PROVE  OneRowInv(t)' /\ [Atomic!Next]_(Atomic!vars)
<1>1. ASSUME NEW q \in Slot, DeleteRows(q) PROVE FALSE
  BY <1>1, RequestKinds DEF DeleteRows, Calls, OneRowInv
<1> QED BY <1>1, RowStepImplements

\* No update is lost, applied twice or read back half done, for any number of
\* calls in flight: AuthzService's lock makes the calls on an existing row
\* atomic.  (On a missing row it does not: see OneRowPerActor.)
THEOREM LockedRowIsAtomic ==
  ASSUME NEW t \in RowId, InitialRows = {t}, "drop" \notin Ops
  PROVE  Spec => TakesEffectOnce
<1>1. Init => OneRowInv(t) /\ Atomic!Init
  <2> SUFFICES ASSUME Init PROVE OneRowInv(t) /\ Atomic!Init
    OBVIOUS
  <2>1. TypeOK
    BY NothingType, RowAssumption DEF Init, TypeOK
  <2>2. OneRowInv(t)
    BY <2>1 DEF Init, OneRowInv, Calls
  <2>3. Recorded = Nothing
    BY DEF Init, Recorded
  <2>4. Atomic!Init
    BY <2>3, NothingType, SameRequests DEF Init, Atomic!Init
  <2> QED BY <2>2, <2>4
<1>2. OneRowInv(t) /\ [Next]_vars => OneRowInv(t)' /\ [Atomic!Next]_(Atomic!vars)
  BY StepImplements
<1> QED BY <1>1, <1>2, PTL DEF Spec, TakesEffectOnce, Atomic!Spec
-----------------------------------------------------------------------------
(* Type correctness, with any number of rows, first writes and drops.      *)

Typed == TypeOK /\ \A q \in Slot : waiting[q] \subseteq Request

\* The end of a call that answers a list.
LEMMA DoneTyped ==
  ASSUME Typed, NEW q \in Slot, NEW told \in Topics, Done(q, told),
         live' \subseteq RowId, topics' \in [RowId -> Topics]
  PROVE  Typed'
BY NothingType DEF Typed, TypeOK, Done

LEMMA FoundTyped ==
  ASSUME Typed, NEW q \in Slot, NEW r \in Returned, Found(q, r),
         lock' \in [RowId -> Slot \cup {Unlocked}]
  PROVE  Typed'
<1>1. r \in RowId \cup {NoRow} /\ (r # NoRow => topics[r] \in Topics)
  BY DEF Typed, TypeOK, Returned
<1>2. found' \in [Slot -> SUBSET (RowId \cup {NoRow})] /\ read' \in [Slot -> Topics]
  BY <1>1, NothingType DEF Found, Typed, TypeOK
<1> QED BY <1>2 DEF Found, Typed, TypeOK

LEMMA InsertTyped ==
  ASSUME Typed, NEW list \in Topics, Insert(list)
  PROVE  live' \subseteq RowId /\ topics' \in [RowId -> Topics]
BY DEF Insert, Typed, TypeOK

LEMMA NextTyped == Typed /\ [Next]_vars => Typed'
<1> SUFFICES ASSUME Typed, [Next]_vars PROVE Typed'
  OBVIOUS
<1>0. /\ live \subseteq RowId /\ topics \in [RowId -> Topics]
      /\ lock \in [RowId -> Slot \cup {Unlocked}]
      /\ \A q \in Slot : read[q] \in Topics /\ waiting[q] \subseteq Request
  BY DEF Typed, TypeOK
<1>a. \A q \in Slot, u \in Request, list \in Topics :
        u \in waiting[q] => Apply(u, list) \in Topics
  BY RequestKinds
<1>1. ASSUME NEW q \in Slot, Ask(q) PROVE Typed'
  <2>1. PICK u \in Request : waiting' = [waiting EXCEPT ![q] = {u}]
    BY <1>1 DEF Ask
  <2> QED BY <1>1, <2>1, NothingType DEF Ask, Typed, TypeOK
<1>2. ASSUME NEW q \in Slot, SelectForUpdate(q) \/ Find(q) PROVE Typed'
  <2>1. lock' \in [RowId -> Slot \cup {Unlocked}]
    BY <1>0, <1>2 DEF SelectForUpdate, Find
  <2>2. \E r \in Returned : Found(q, r)
    BY <1>2 DEF SelectForUpdate, Find
  <2> QED BY <2>1, <2>2, FoundTyped
<1>3. ASSUME NEW q \in Slot, SaveUpdate(q) \/ SaveFound(q) PROVE Typed'
  <2>1. PICK u \in waiting[q], r \in found[q], list \in {read[q], Nothing} :
          /\ Done(q, Nothing)
          /\ \/ UNCHANGED <<live, topics>>
             \/ live' = live /\ topics' = [topics EXCEPT ![r] = Apply(u, list)]
             \/ Insert(Apply(u, list))
    BY <1>3 DEF SaveUpdate, SaveFound
  <2>2. Apply(u, list) \in Topics
    BY <1>0, <1>a, NothingType
  <2>3. live' \subseteq RowId /\ topics' \in [RowId -> Topics]
    BY <1>0, <2>1, <2>2, InsertTyped
  <2> QED BY <2>1, <2>3, DoneTyped, NothingType
<1>4. ASSUME NEW q \in Slot, ClearNothing(q) PROVE Typed'
  BY <1>0, <1>4, DoneTyped, NothingType DEF ClearNothing
<1>5. ASSUME NEW q \in Slot, UpsertNew(q) PROVE Typed'
  <2>1. PICK u \in waiting[q] : u.op = "upsert" /\ Insert(u.topics) /\ Done(q, Nothing)
    BY <1>5 DEF UpsertNew
  <2>2. u.topics \in Topics
    BY <1>0, <2>1 DEF Request
  <2>3. live' \subseteq RowId /\ topics' \in [RowId -> Topics]
    BY <2>1, <2>2, InsertTyped
  <2> QED BY <2>1, <2>3, DoneTyped, NothingType
<1>6. ASSUME NEW q \in Slot, DeleteRows(q) PROVE Typed'
  <2>1. live' \subseteq RowId /\ topics' \in [RowId -> Topics]
    BY <1>6, NothingType DEF DeleteRows
  <2> QED BY <1>6, <2>1, DoneTyped, NothingType DEF DeleteRows
<1>7. ASSUME NEW q \in Slot, ReadBack(q) PROVE Typed'
  <2>1. PICK r \in Returned : Done(q, IF r = NoRow THEN Nothing ELSE topics[r])
    BY <1>7 DEF ReadBack
  <2>2. (IF r = NoRow THEN Nothing ELSE topics[r]) \in Topics
    BY <1>0, NothingType DEF Returned
  <2> QED BY <1>0, <1>7, <2>1, <2>2, DoneTyped DEF ReadBack
<1>8. CASE UNCHANGED vars
  BY <1>8 DEF vars, Typed, TypeOK
<1> QED BY <1>1, <1>2, <1>3, <1>4, <1>5, <1>6, <1>7, <1>8 DEF Next

\* Every recorded list, every list a call remembers and every answer is a list
\* of subscriptions, first writes and deletions included.
THEOREM SubscriptionsTypeCorrect == Spec => []TypeOK
<1>1. Init => Typed
  BY NothingType, RowAssumption DEF Init, Typed, TypeOK
<1>2. Typed => TypeOK
  BY DEF Typed
<1> QED BY <1>1, <1>2, NextTyped, PTL DEF Spec
-----------------------------------------------------------------------------
(* From an empty table on, with drops, where callers keep apart.           *)

\* While there is no row, a call that has looked has found none.
NoRowInv ==
  /\ TypeOK
  /\ live = {}
  /\ \A q \in Slot :
       /\ waiting[q] = {} \/ \E u \in Request : waiting[q] = {u}
       /\ waiting[q] = {} => found[q] = {}
       /\ found[q] \in {{}, {NoRow}}

\* A call that may make the row, or drops it, is alone.
Alone ==
  \A p, q \in Slot :
    waiting[p] # {} /\ waiting[q] # {} /\ (live = {} \/ Calls(p, "drop")) => p = q

ApartInv == Alone /\ (NoRowInv \/ \E t \in RowId : OneRowInv(t))

LEMMA StaysAlone ==
  ASSUME Apart, ApartInv, [Next]_vars
  PROVE  Alone'
<1>0. /\ waiting \in [Slot -> SUBSET Request]
      /\ \A q \in Slot : waiting[q] = {} \/ \E u \in Request : waiting[q] = {u}
      /\ Alone
  BY DEF ApartInv, NoRowInv, OneRowInv, TypeOK
<1>1. ASSUME NEW q \in Slot, Ask(q) PROVE Alone'
  <2>1. PICK u \in Request : /\ waiting' = [waiting EXCEPT ![q] = {u}]
                             /\ KeepsApart(q, u)
    BY <1>1 DEF Ask
  <2>2. CASE \A p \in Slot \ {q} : waiting[p] = {}
    BY <1>0, <2>1, <2>2 DEF Alone
  <2>3. CASE live # {} /\ u.op # "drop" /\ \A p \in Slot : ~Calls(p, "drop")
    <3>1. live' = live
      BY <1>1 DEF Ask
    <3>2. \A p \in Slot : ~Calls(p, "drop")'
      BY <1>0, <2>1, <2>3 DEF Calls
    <3> QED BY <2>3, <3>1, <3>2 DEF Alone
  <2> QED BY <2>1, <2>2, <2>3 DEF KeepsApart
<1>2. ASSUME NEW q \in Slot, DeleteRows(q) PROVE Alone'
  <2>1. \A p \in Slot : waiting'[p] = {}
    BY <1>0, <1>2 DEF DeleteRows, Done, Alone, Calls
  <2> QED BY <2>1 DEF Alone
<1>3. ASSUME NEW q \in Slot,
             \/ SelectForUpdate(q) \/ SaveUpdate(q) \/ Find(q) \/ ClearNothing(q)
             \/ SaveFound(q) \/ UpsertNew(q) \/ ReadBack(q)
      PROVE  Alone'
  <2>1. \A p \in Slot : waiting'[p] = waiting[p] \/ waiting'[p] = {}
    BY <1>0, <1>3 DEF SelectForUpdate, SaveUpdate, Find, ClearNothing, SaveFound,
       UpsertNew, ReadBack, Found, Done
  <2>2. live' = {} => live = {}
    BY <1>3 DEF SelectForUpdate, SaveUpdate, Find, ClearNothing, SaveFound,
       UpsertNew, ReadBack, Found, Insert
  <2> QED BY <1>0, <2>1, <2>2 DEF Alone, Calls
<1>4. CASE UNCHANGED vars
  BY <1>0, <1>4 DEF vars, Alone, Calls
<1> QED BY <1>1, <1>2, <1>3, <1>4 DEF Next

\* The rows go: there was at most one, and nobody else calls.
LEMMA DeletionImplements ==
  ASSUME ApartInv, NEW q \in Slot, DeleteRows(q)
  PROVE  NoRowInv' /\ Atomic!Take(q)
<1>0. /\ TypeOK
      /\ \A p \in Slot : waiting[p] = {} => found[p] = {}
      /\ \A p \in Slot : waiting[p] = {} \/ \E u \in Request : waiting[p] = {u}
  BY DEF ApartInv, NoRowInv, OneRowInv
<1>1. PICK u \in waiting[q] : u.op = "drop"
  BY DEF DeleteRows, Calls
<1>2. \A p \in Slot \ {q} : waiting[p] = {} /\ found[p] = {}
  BY <1>0, <1>1 DEF ApartInv, Alone, Calls
<1>3. \A p \in Slot : waiting'[p] = {} /\ found'[p] = {}
  BY <1>0, <1>2 DEF DeleteRows, Done, TypeOK
<1>4. TypeOK'
  BY <1>0, NothingType DEF DeleteRows, Done, TypeOK
<1>5. NoRowInv'
  BY <1>3, <1>4 DEF NoRowInv, DeleteRows
<1>6. Recorded' = Nothing /\ Apply(u, Recorded) = Nothing
  BY <1>1 DEF DeleteRows, Recorded, Apply
<1>7. Atomic!Take(q)
  BY <1>1, <1>6, SameRequests DEF Atomic!Take, DeleteRows, Done
<1> QED BY <1>5, <1>7

\* The end of a call that leaves the table empty.
LEMMA DoneOnNothing ==
  ASSUME NoRowInv, NEW q \in Slot, NEW u \in waiting[q], Apply(u, Nothing) = Nothing,
         Done(q, Nothing), UNCHANGED <<live, topics>>
  PROVE  NoRowInv' /\ Atomic!Take(q)
<1>1. Recorded = Nothing /\ Recorded' = Nothing
  BY DEF NoRowInv, Recorded
<1>2. Atomic!Take(q)
  BY <1>1, SameRequests DEF Atomic!Take, Done
<1>3. TypeOK'
  BY NothingType, RowAssumption DEF NoRowInv, TypeOK, Done
<1>4. ASSUME NEW p \in Slot
      PROVE  /\ waiting'[p] = {} \/ \E v \in Request : waiting'[p] = {v}
             /\ waiting'[p] = {} => found'[p] = {}
             /\ found'[p] \in {{}, {NoRow}}
  BY DEF NoRowInv, TypeOK, Done
<1> QED BY <1>2, <1>3, <1>4 DEF NoRowInv

\* The first write makes the row, and nobody else calls.
LEMMA FirstWrite ==
  ASSUME NoRowInv, Alone, NEW q \in Slot, NEW u \in waiting[q], u.op # "restore",
         Insert(Apply(u, Nothing)), Done(q, Nothing)
  PROVE  /\ \E t \in RowId : OneRowInv(t)'
         /\ Atomic!Take(q)
<1>1. PICK t \in RowId : /\ live' = {t}
                         /\ topics' = [topics EXCEPT ![t] = Apply(u, Nothing)]
  BY DEF Insert, NoRowInv
<1>2. u \in Request /\ Apply(u, Nothing) \in Topics
  BY RequestKinds, NothingType DEF NoRowInv
<1>3. TypeOK' /\ topics'[t] = Apply(u, Nothing)
  BY <1>1, <1>2, NothingType, RowAssumption DEF NoRowInv, TypeOK, Done
<1>4. \A p \in Slot : waiting'[p] = {} /\ found'[p] = {}
  BY DEF NoRowInv, TypeOK, Done, Alone
<1>5. OneRowInv(t)'
  BY <1>1, <1>3, <1>4 DEF OneRowInv
<1>6. Recorded = Nothing /\ Recorded' = Apply(u, Nothing)
  BY <1>1, <1>3 DEF NoRowInv, Recorded
<1>7. Atomic!Take(q)
  BY <1>6, SameRequests DEF Atomic!Take, Done
<1> QED BY <1>5, <1>7

\* A step on the empty table.
LEMMA EmptyStepImplements ==
  ASSUME NoRowInv, Alone, [Next]_vars, ~ \E q \in Slot : DeleteRows(q)
  PROVE  /\ NoRowInv' \/ \E t \in RowId : OneRowInv(t)'
         /\ [Atomic!Next]_(Atomic!vars)
<1>a. live = {} /\ Returned = {NoRow}
  BY DEF NoRowInv, Returned
<1>b. ASSUME NEW q \in Slot, NEW u \in waiting[q] PROVE u \in Request /\ waiting[q] = {u}
  BY <1>b DEF NoRowInv
<1>1. ASSUME NEW q \in Slot, Ask(q) PROVE NoRowInv' /\ Atomic!Ask(q)
  <2>1. PICK u \in Request : waiting' = [waiting EXCEPT ![q] = {u}]
    BY <1>1 DEF Ask
  <2>2. Atomic!Ask(q)
    <3>1. UNCHANGED Recorded
      BY <1>1 DEF Ask, Recorded
    <3> QED BY <1>1, <2>1, <3>1, SameRequests DEF Ask, Atomic!Ask
  <2>3. TypeOK'
    BY <1>1, <2>1, NothingType DEF NoRowInv, TypeOK, Ask
  <2>4. ASSUME NEW p \in Slot
        PROVE  /\ waiting'[p] = {} \/ \E v \in Request : waiting'[p] = {v}
               /\ waiting'[p] = {} => found'[p] = {}
               /\ found'[p] \in {{}, {NoRow}}
    BY <1>1, <2>1 DEF NoRowInv, TypeOK, Ask
  <2> QED BY <1>1, <2>2, <2>3, <2>4 DEF NoRowInv, Ask
<1>2. ASSUME NEW q \in Slot, SelectForUpdate(q) \/ Find(q)
      PROVE  NoRowInv' /\ UNCHANGED Atomic!vars
  <2>1. Found(q, NoRow) /\ waiting[q] # {}
    BY <1>2, <1>a DEF SelectForUpdate, Find, Calls
  <2>2. lock' \in [RowId -> Slot \cup {Unlocked}]
    BY <1>2 DEF SelectForUpdate, Find, NoRowInv, TypeOK
  <2>3. UNCHANGED Atomic!vars
    BY <2>1 DEF Found, Atomic!vars, Recorded
  <2>4. TypeOK'
    BY <2>1, <2>2, NothingType DEF NoRowInv, TypeOK, Found
  <2>5. ASSUME NEW p \in Slot
        PROVE  /\ waiting'[p] = {} \/ \E v \in Request : waiting'[p] = {v}
               /\ waiting'[p] = {} => found'[p] = {}
               /\ found'[p] \in {{}, {NoRow}}
    BY <2>1 DEF NoRowInv, TypeOK, Found
  <2> QED BY <2>1, <2>3, <2>4, <2>5 DEF NoRowInv, Found
<1>3. ASSUME NEW q \in Slot, SaveUpdate(q) \/ UpsertNew(q)
      PROVE  (\E t \in RowId : OneRowInv(t)') /\ Atomic!Take(q)
  <2>1. PICK u \in waiting[q] : /\ u.op \in {"update", "upsert"}
                                /\ Insert(Apply(u, Nothing)) /\ Done(q, Nothing)
    BY <1>3 DEF SaveUpdate, UpsertNew, NoRowInv, Apply
  <2> QED BY <2>1, FirstWrite
<1>4. ASSUME NEW q \in Slot, ClearNothing(q) \/ ReadBack(q)
      PROVE  NoRowInv' /\ Atomic!Take(q)
  <2>1. PICK u \in waiting[q] : u.op \in {"clear", "restore"}
    BY <1>4 DEF ClearNothing, ReadBack, Calls
  <2>2. Apply(u, Nothing) = Nothing
    BY <2>1 DEF Apply
  <2>3. Done(q, Nothing) /\ UNCHANGED <<live, topics>>
    BY <1>4, <1>a DEF ClearNothing, ReadBack
  <2> QED BY <2>2, <2>3, DoneOnNothing
<1>5. ASSUME NEW q \in Slot, SaveFound(q) PROVE FALSE
  BY <1>5 DEF SaveFound, NoRowInv
<1>6. CASE UNCHANGED vars
  BY <1>6 DEF vars, NoRowInv, TypeOK, Atomic!vars, Recorded
<1> QED BY <1>1, <1>2, <1>3, <1>4, <1>5, <1>6 DEF Next, Atomic!Next

LEMMA ApartStepImplements ==
  Apart /\ ApartInv /\ [Next]_vars => ApartInv' /\ [Atomic!Next]_(Atomic!vars)
<1> SUFFICES ASSUME Apart, ApartInv, [Next]_vars
             PROVE  ApartInv' /\ [Atomic!Next]_(Atomic!vars)
  OBVIOUS
<1>1. Alone'
  BY StaysAlone
<1>2. CASE \E q \in Slot : DeleteRows(q)
  BY <1>1, <1>2, DeletionImplements DEF ApartInv, Atomic!Next
<1>3. CASE ~ \E q \in Slot : DeleteRows(q)
  BY <1>1, <1>3, EmptyStepImplements, RowStepImplements DEF ApartInv
<1> QED BY <1>2, <1>3

\* The promise from an empty table on, through first writes, drops and any
\* number of overlapping calls in between: what the callers must do for it is
\* to keep apart while the actor has no row, and while it loses one.
THEOREM CallersApartAreAtomic ==
  ASSUME Apart, \A r, s \in InitialRows : r = s
  PROVE  Spec => TakesEffectOnce
<1>1. Init => ApartInv /\ Atomic!Init
  <2> SUFFICES ASSUME Init PROVE ApartInv /\ Atomic!Init
    OBVIOUS
  <2>1. TypeOK /\ Alone
    BY NothingType, RowAssumption DEF Init, TypeOK, Alone
  <2>2. live = {} => ApartInv
    BY <2>1 DEF Init, ApartInv, NoRowInv
  <2>3. ASSUME live # {} PROVE ApartInv
    <3>1. PICK t \in RowId : live = {t}
      BY <2>3, RowAssumption DEF Init
    <3>2. OneRowInv(t)
      BY <2>1, <3>1 DEF Init, OneRowInv, Calls
    <3> QED BY <2>1, <3>2 DEF ApartInv
  <2>4. Recorded = Nothing
    <3>1. live # {} => (CHOOSE r \in live : TRUE) \in RowId
      BY <2>1 DEF TypeOK
    <3> QED BY <3>1 DEF Init, Recorded
  <2> QED BY <2>2, <2>3, <2>4, NothingType, SameRequests DEF Init, Atomic!Init
<1>2. ApartInv /\ [Next]_vars => ApartInv' /\ [Atomic!Next]_(Atomic!vars)
  BY ApartStepImplements
<1> QED BY <1>1, <1>2, PTL DEF Spec, TakesEffectOnce, Atomic!Spec
=============================================================================
