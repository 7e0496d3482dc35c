-------------------------- MODULE SubscriptionState --------------------------
(***************************************************************************)
(* The actor_token_state rows of one actor.  AuthzService records and      *)
(* clears subscriptions there and hands them back on a reconnect;          *)
(* ActorTokenFacade replaces and drops them.                               *)
(*                                                                         *)
(* Only updateSubscription locks, and FOR UPDATE locks the rows there are: *)
(* on an empty result it holds nothing back.  No index makes the actor's   *)
(* row unique.  save() reads the row again and writes the columns that     *)
(* differ, or inserts a row under a new id when it finds none.             *)
(***************************************************************************)
EXTENDS SubscriptionRequests

CONSTANTS
  RowId,       \* ids of rows; the bound of the rows live at once
  NoRow,       \* "the query returned nothing"
  Unlocked,    \* "no transaction holds the row"
  InitialRows, \* the rows there are at the start
  Apart        \* do callers keep first writes and drops to themselves?

ASSUME RowAssumption ==
  /\ InitialRows \subseteq RowId
  /\ NoRow \notin RowId
  /\ Unlocked \notin Slot
  /\ Apart \in BOOLEAN

VARIABLES
  live,     \* ids of the rows in the table
  topics,   \* connection_state.topics of each row
  lock,     \* the transaction that holds each row FOR UPDATE
  waiting,  \* the request of each call until it takes effect
  found,    \* the row the query of a call returned: {} before, {NoRow} for none
  read,     \* the list it read there
  answer    \* the list each restore was answered with

vars == <<live, topics, lock, waiting, found, read, answer>>

TypeOK ==
  /\ live \subseteq RowId
  /\ topics \in [RowId -> Topics]
  /\ lock \in [RowId -> Slot \cup {Unlocked}]
  /\ waiting \in [Slot -> SUBSET Request]
  /\ found \in [Slot -> SUBSET (RowId \cup {NoRow})]
  /\ read \in [Slot -> Topics]
  /\ answer \in [Slot -> Topics]

Init ==
  /\ live = InitialRows
  /\ topics = [r \in RowId |-> Nothing]
  /\ lock = [r \in RowId |-> Unlocked]
  /\ waiting = [q \in Slot |-> {}]
  /\ found = [q \in Slot |-> {}]
  /\ read = [q \in Slot |-> Nothing]
  /\ answer = [q \in Slot |-> Nothing]

-----------------------------------------------------------------------------
Calls(q, op) == \E r \in waiting[q] : r.op = op

\* Callers that keep apart: nobody else calls while the actor has no row yet,
\* nor while its rows are dropped.
KeepsApart(q, r) ==
  \/ \A p \in Slot \ {q} : waiting[p] = {}
  \/ /\ live # {} /\ r.op # "drop"
     /\ \A p \in Slot : ~Calls(p, "drop")

Ask(q) ==
  /\ waiting[q] = {}
  /\ \E r \in Request :
       /\ Apart => KeepsApart(q, r)
       /\ waiting' = [waiting EXCEPT ![q] = {r}]
  /\ answer' = [answer EXCEPT ![q] = Nothing]
  /\ UNCHANGED <<live, topics, lock, found, read>>

\* The call has taken effect; what it held is released.
Done(q, told) ==
  /\ waiting' = [waiting EXCEPT ![q] = {}]
  /\ found' = [found EXCEPT ![q] = {}]
  /\ read' = [read EXCEPT ![q] = Nothing]
  /\ answer' = [answer EXCEPT ![q] = told]
  /\ lock' = [r \in RowId |-> IF lock[r] = q THEN Unlocked ELSE lock[r]]

\* The query of a call returns some row of the actor, or none.
Found(q, r) ==
  /\ found' = [found EXCEPT ![q] = {r}]
  /\ read' = [read EXCEPT ![q] = IF r = NoRow THEN Nothing ELSE topics[r]]
  /\ UNCHANGED <<live, topics, waiting, answer>>

Returned == IF live = {} THEN {NoRow} ELSE live

\* An id no row has and no call still remembers.
Insert(list) ==
  \E r \in RowId :
    /\ r \notin live /\ \A q \in Slot : r \notin found[q]
    /\ live' = live \cup {r}
    /\ topics' = [topics EXCEPT ![r] = list]

-----------------------------------------------------------------------------
(* updateSubscription: SELECT ... FOR UPDATE, then save, in a transaction. *)

\* Faulty variant: the rows are read without a lock.
SelectWithoutLock(q) ==
  /\ Calls(q, "update") /\ found[q] = {}
  /\ \E r \in Returned : Found(q, r)
  /\ UNCHANGED lock

SelectForUpdate(q) ==
  /\ Calls(q, "update") /\ found[q] = {}
  /\ \A r \in live : lock[r] = Unlocked
  /\ lock' = [r \in RowId |-> IF r \in live THEN q ELSE lock[r]]
  /\ \E r \in Returned : Found(q, r)

\* Faulty variant: every update writes a row of its own.
SaveUpdateAsNew(q) ==
  \E u \in waiting[q], r \in found[q] :
    /\ u.op = "update"
    /\ Insert(Apply(u, read[q]))
    /\ Done(q, Nothing)

SaveUpdate(q) ==
  \E u \in waiting[q], r \in found[q] :
    /\ u.op = "update"
    /\ \/ /\ r # NoRow
          /\ topics' = [topics EXCEPT ![r] = Apply(u, read[q])]
          /\ UNCHANGED live
       \/ /\ r = NoRow
          /\ Insert(Apply(u, Nothing))
    /\ Done(q, Nothing)

-----------------------------------------------------------------------------
(* clearSubscriptions and upsertState: find, then save, with no lock.      *)

Find(q) ==
  /\ Calls(q, "clear") \/ Calls(q, "upsert")
  /\ found[q] = {}
  /\ \E r \in Returned : Found(q, r)
  /\ UNCHANGED lock

\* clearSubscriptions has nothing to do without a row.
ClearNothing(q) ==
  /\ Calls(q, "clear") /\ found[q] = {NoRow}
  /\ Done(q, Nothing)
  /\ UNCHANGED <<live, topics>>

\* save() of the row that was found: equal columns are not written, so a
\* writer that holds the row is not waited for; a row that has gone is
\* inserted again.
SaveFound(q) ==
  \E u \in waiting[q], r \in found[q] :
    /\ u.op \in {"clear", "upsert"} /\ r # NoRow
    /\ \/ /\ r \in live /\ topics[r] = Apply(u, read[q])
          /\ UNCHANGED <<live, topics>>
       \/ /\ r \in live /\ lock[r] = Unlocked
          /\ topics' = [topics EXCEPT ![r] = Apply(u, read[q])]
          /\ UNCHANGED live
       \/ /\ r \notin live
          /\ Insert(Apply(u, read[q]))
    /\ Done(q, Nothing)

UpsertNew(q) ==
  \E u \in waiting[q] :
    /\ u.op = "upsert" /\ found[q] = {NoRow}
    /\ Insert(u.topics)
    /\ Done(q, Nothing)

-----------------------------------------------------------------------------
\* DELETE of every row of the actor, which waits for a locked one: clearState,
\* and deleteActor before it marks the actor row.
DeleteRows(q) ==
  /\ Calls(q, "drop")
  /\ \A r \in live : lock[r] = Unlocked
  /\ live' = {}
  /\ topics' = [r \in RowId |-> Nothing]
  /\ Done(q, Nothing)

\* _getActiveSubscriptionsGroupedByApp reads some row, without a lock.  Which of
\* its entries the connect hands back, those still granted, is not modelled.
ReadBack(q) ==
  /\ Calls(q, "restore")
  /\ \E r \in Returned : Done(q, IF r = NoRow THEN Nothing ELSE topics[r])
  /\ UNCHANGED <<live, topics>>

Next ==
  \E q \in Slot :
    \/ Ask(q)
    \/ SelectForUpdate(q) \/ SaveUpdate(q)
    \/ Find(q) \/ ClearNothing(q) \/ SaveFound(q) \/ UpsertNew(q)
    \/ DeleteRows(q) \/ ReadBack(q)

Spec == Init /\ [][Next]_vars

-----------------------------------------------------------------------------
(* Properties.                                                             *)

\* The list, while the actor has at most one row.
Recorded == IF live = {} THEN Nothing ELSE topics[CHOOSE r \in live : TRUE]

Atomic == INSTANCE Subscriptions WITH recorded <- Recorded

\* Subscribes, unsubscribes, clears, replacements and restores that overlap
\* each take effect at one instant on one list: no lost update, none applied
\* twice, no restore of a list that never was.  This is so from an empty table
\* on, if callers keep apart while there is no row to lock.
TakesEffectOnce == Atomic!Spec

\* actorTokenState.repository.ts: one row per actor, created on first write.
OneRowPerActor == \A r, s \in live : r = s
=============================================================================
