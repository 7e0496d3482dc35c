---------------------------- MODULE AuthzProofs -----------------------------
(***************************************************************************)
(* Theorems about Authz for every value of its constants: its state is     *)
(* well typed, and no connection ever caches another project's topics.     *)
(***************************************************************************)
EXTENDS Authz, FiniteSetTheorems, TLAPS

-----------------------------------------------------------------------------
(* The database.                                                           *)

\* A database that differs from d in one row keeps d's explicit app grants:
\* no endpoint writes them.
Successor(d, e) == e \in Database /\ e.appGrant = d.appGrant

\* Replacing one row of one table by a row of its kind gives a database.
LEMMA DatabaseUpdate ==
  ASSUME NEW d \in Database
  PROVE  /\ \A a \in Actor, r \in ActorRow : Successor(d, [d EXCEPT !.actor[a] = r])
         /\ \A s \in Scope, r \in ScopeRow : Successor(d, [d EXCEPT !.scope[s] = r])
         /\ \A p \in App, r \in AppRow : Successor(d, [d EXCEPT !.app[p] = r])
         /\ \A m \in Room, r \in RoomRow : Successor(d, [d EXCEPT !.room[m] = r])
         /\ \A g \in RoomGrant, r \in GrantRow :
              Successor(d, [d EXCEPT !.roomGrant[g] = r])
         /\ \A j \in Project, v \in {"live", "deleted", "gone"} :
              Successor(d, [d EXCEPT !.project[j] = v])
BY DEF Database, Successor

\* The kinds of the rows of a database.
LEMMA RowKinds ==
  ASSUME NEW d \in Database
  PROVE  /\ \A a \in Actor : d.actor[a] \in ActorRow
         /\ \A s \in Scope : d.scope[s] \in ScopeRow
         /\ \A p \in App : d.app[p] \in AppRow
         /\ \A a \in Actor, p \in App : d.appGrant[a][p] \in GrantRow
         /\ \A m \in Room : d.room[m] \in RoomRow
         /\ \A g \in RoomGrant : d.roomGrant[g] \in GrantRow
BY DEF Database

\* Deletion keeps a row's kind.
LEMMA RowDeleted ==
  /\ \A r \in ActorRow : Deleted(r) \in ActorRow /\ Gone(r) \in ActorRow
  /\ \A r \in ScopeRow : Deleted(r) \in ScopeRow /\ Gone(r) \in ScopeRow
  /\ \A r \in AppRow : Deleted(r) \in AppRow /\ Gone(r) \in AppRow
  /\ \A r \in RoomRow : Deleted(r) \in RoomRow /\ Gone(r) \in RoomRow
  /\ \A r \in GrantRow : Deleted(r) \in GrantRow /\ Gone(r) \in GrantRow
<1> USE DEF Deleted, Gone, RowState
<1>1. \A r \in ActorRow : Deleted(r) \in ActorRow /\ Gone(r) \in ActorRow
  BY DEF ActorRow
<1>2. \A r \in ScopeRow : Deleted(r) \in ScopeRow /\ Gone(r) \in ScopeRow
  BY DEF ScopeRow
<1>3. \A r \in AppRow : Deleted(r) \in AppRow /\ Gone(r) \in AppRow
  BY DEF AppRow
<1>4. \A r \in RoomRow : Deleted(r) \in RoomRow /\ Gone(r) \in RoomRow
  BY DEF RoomRow
<1>5. \A r \in GrantRow : Deleted(r) \in GrantRow /\ Gone(r) \in GrantRow
  BY DEF GrantRow
<1> QED BY <1>1, <1>2, <1>3, <1>4, <1>5

\* Every administrative step but the erasure of a project replaces at most one
\* row.
LEMMA AdminSuccessor ==
  ASSUME TablesOK, AdminStep \/ CommitStep,
         ~ \E j \in Project : EraseProject(j)
  PROVE  Successor(db, db')
<1> USE InputAssumption, RowKinds, RowDeleted, DatabaseUpdate DEF Write, TablesOK
<1>s. Successor(db, db)
  BY DEF Successor
<1>1. ASSUME NEW a \in Actor, CreateActor(a) PROVE Successor(db, db')
  <2>1. \E r \in ActorRow : db' = [db EXCEPT !.actor[a] = r]
    BY <1>1 DEF CreateActor, ActorRow, RowState, Expiry
  <2> QED BY <2>1
<1>2. ASSUME NEW a \in Actor, UpdateActor(a) PROVE Successor(db, db')
  <2>1. \E r \in ActorRow : db' = [db EXCEPT !.actor[a] = r]
    BY <1>2 DEF UpdateActor, ActorRow, RowState, Expiry
  <2> QED BY <2>1
<1>3. ASSUME NEW a \in Actor, DeleteActor(a) PROVE Successor(db, db')
  BY <1>3 DEF DeleteActor
<1>4. ASSUME NEW a \in Actor, NEW s \in Scope, AssertScope(a, s)
      PROVE  Successor(db, db')
  BY <1>4, <1>s DEF AssertScope
<1>5. ASSUME NEW s \in Scope, CreateScope(s) PROVE Successor(db, db')
  <2>1. \E r \in ScopeRow : db' = [db EXCEPT !.scope[s] = r]
    BY <1>5 DEF CreateScope, ScopeRow, RowState
  <2> QED BY <2>1
<1>6. ASSUME NEW s \in Scope, UpdateScope(s) PROVE Successor(db, db')
  <2>1. PICK on \in BOOLEAN :
               db' = [db EXCEPT !.scope[s] = [db.scope[s] EXCEPT !.isActive = on]]
    BY <1>6 DEF UpdateScope
  <2>2. db.scope[s] \in ScopeRow
    OBVIOUS
  <2>3. [db.scope[s] EXCEPT !.isActive = on] \in ScopeRow
    BY <2>2 DEF ScopeRow
  <2> QED BY <2>1, <2>3
<1>7. ASSUME NEW s \in Scope, CountActors(s) PROVE Successor(db, db')
  BY <1>7, <1>s DEF CountActors
<1>8. ASSUME NEW p \in App, CreateApp(p) PROVE Successor(db, db')
  <2>1. \E r \in AppRow : db' = [db EXCEPT !.app[p] = r]
    BY <1>8 DEF CreateApp, AppRow, RowState
  <2> QED BY <2>1
<1>9. ASSUME NEW p \in App, UpdateApp(p) PROVE Successor(db, db')
  <2>1. \E r \in AppRow : db' = [db EXCEPT !.app[p] = r]
    BY <1>9 DEF UpdateApp, AppRow, RowState
  <2> QED BY <2>1
<1>10. ASSUME NEW p \in App, DeleteApp(p) PROVE Successor(db, db')
  BY <1>10 DEF DeleteApp
<1>11. ASSUME NEW r \in Room, CreateRoom(r) PROVE Successor(db, db')
  <2>1. \E m \in RoomRow : db' = [db EXCEPT !.room[r] = m]
    BY <1>11 DEF CreateRoom, RoomRow, RowState
  <2> QED BY <2>1
<1>12. ASSUME NEW r \in Room, UpdateRoom(r) PROVE Successor(db, db')
  <2>1. PICK st \in {"active", "disabled"} :
               db' = [db EXCEPT !.room[r] = [db.room[r] EXCEPT !.status = st]]
    BY <1>12 DEF UpdateRoom
  <2>2. db.room[r] \in RoomRow
    OBVIOUS
  <2>3. [db.room[r] EXCEPT !.status = st] \in RoomRow
    BY <2>2 DEF RoomRow
  <2> QED BY <2>1, <2>3
<1>13. ASSUME NEW r \in Room, DeleteRoom(r) PROVE Successor(db, db')
  BY <1>13 DEF DeleteRoom
<1>14. ASSUME NEW g \in RoomGrant, CreateGrant(g) PROVE Successor(db, db')
  <2>1. \E r \in GrantRow : db' = [db EXCEPT !.roomGrant[g] = r]
    BY <1>14 DEF CreateGrant, GrantRow, RowState
  <2> QED BY <2>1
<1>15. ASSUME NEW g \in RoomGrant, PatchGrant(g) PROVE Successor(db, db')
  BY <1>15, <1>s DEF PatchGrant
<1>16. ASSUME NEW g \in RoomGrant, DeleteGrant(g) PROVE Successor(db, db')
  BY <1>16 DEF DeleteGrant
<1>17. ASSUME NEW j \in Project, DeleteProject(j) PROVE Successor(db, db')
  BY <1>17 DEF DeleteProject
<1>18. ASSUME NEW a \in Actor, NEW s \in Scope, WriteScope(a, s)
       PROVE  Successor(db, db')
  <2>1. \E r \in ActorRow : db' = [db EXCEPT !.actor[a] = r]
    BY <1>18 DEF WriteScope, ActorRow, RowState, Expiry
  <2> QED BY <2>1
<1>19. ASSUME NEW s \in Scope, RemoveScope(s) PROVE Successor(db, db')
  BY <1>19 DEF RemoveScope
<1>20. ASSUME NEW x \in patching, SaveGrant(x) PROVE Successor(db, db')
  BY <1>20, <1>s DEF SaveGrant
<1> QED
  BY <1>1, <1>2, <1>3, <1>4, <1>5, <1>6, <1>7, <1>8, <1>9, <1>10, <1>11,
     <1>12, <1>13, <1>14, <1>15, <1>16, <1>17, <1>18, <1>19, <1>20
  DEF AdminStep, CommitStep

\* The tables stay well typed under administration.
LEMMA AdminKeepsTables ==
  ASSUME TablesOK, AdminStep \/ CommitStep
  PROVE  TablesOK'
<1>1. db' \in Database
  <2>1. ASSUME NEW j \in Project, EraseProject(j) PROVE db' \in Database
    BY <2>1, RowKinds, RowDeleted DEF TablesOK, EraseProject, Database
  <2> QED BY <2>1, AdminSuccessor DEF Successor
<1>2. now' \in 0..MaxTime /\ writes' \in 0..MaxWrites
  <2>1. CASE AdminStep
    <3>1. \E e \in {"actor", "scope", "app", "room", "grant", "project"} : Write(e)
      BY <2>1 DEF AdminStep, CreateActor,
         UpdateActor, DeleteActor, AssertScope, CreateScope, UpdateScope,
         CountActors, CreateApp, UpdateApp, DeleteApp, CreateRoom, UpdateRoom,
         DeleteRoom, CreateGrant, PatchGrant, DeleteGrant, DeleteProject,
         EraseProject
    <3> QED BY <3>1, InputAssumption DEF TablesOK, Write
  <2>2. CASE CommitStep
    BY <2>2 DEF TablesOK, CommitStep, WriteScope, RemoveScope, SaveGrant
  <2> QED BY <2>1, <2>2
<1>3. /\ assigning' \subseteq Actor \X Scope
      /\ dropping' \subseteq Scope
      /\ patching' \subseteq [grant: RoomGrant, as: GrantRow]
  <2> DEFINE Typed == /\ assigning' \subseteq Actor \X Scope
                      /\ dropping' \subseteq Scope
                      /\ patching' \subseteq [grant: RoomGrant, as: GrantRow]
  <2>1. ASSUME NEW a \in Actor, NEW s \in Scope, AssertScope(a, s) \/ WriteScope(a, s)
        PROVE  Typed
    BY <2>1 DEF TablesOK, AssertScope, WriteScope
  <2>2. ASSUME NEW s \in Scope, CountActors(s) \/ RemoveScope(s) PROVE Typed
    BY <2>2 DEF TablesOK, CountActors, RemoveScope
  <2>3. ASSUME NEW g \in RoomGrant, PatchGrant(g) PROVE Typed
    <3>1. PICK r \in GrantRow :
                 patching' = patching \cup {[grant |-> g, as |-> r]}
      BY <2>3, RowKinds, InputAssumption DEF PatchGrant, TablesOK, GrantRow, RowState
    <3> QED BY <2>3, <3>1 DEF TablesOK, PatchGrant
  <2>4. ASSUME NEW x \in patching, SaveGrant(x) PROVE Typed
    BY <2>4 DEF TablesOK, SaveGrant
  <2>5. CASE UNCHANGED adminVars
    BY <2>5 DEF TablesOK, adminVars
  <2> QED
    BY <2>1, <2>2, <2>3, <2>4, <2>5
    DEF AdminStep, CommitStep, CreateActor,
     UpdateActor, DeleteActor, AssertScope, CreateScope, UpdateScope,
     CountActors, CreateApp, UpdateApp, DeleteApp, CreateRoom, UpdateRoom,
     DeleteRoom, CreateGrant, PatchGrant, DeleteGrant, DeleteProject,
     EraseProject
<1> QED BY <1>1, <1>2, <1>3 DEF TablesOK

\* Administration writes none of the requests' state, nor the broker's.
LEMMA AdminLeavesRequests ==
  ASSUME AdminStep \/ CommitStep
  PROVE  UNCHANGED <<now, authCache, session, reqVars>>
BY DEF AdminStep, CommitStep, Write, CreateActor, UpdateActor, DeleteActor,
   AssertScope, CreateScope, UpdateScope, CountActors, CreateApp, UpdateApp,
   DeleteApp, CreateRoom, UpdateRoom, DeleteRoom, CreateGrant, PatchGrant,
   DeleteGrant, DeleteProject, EraseProject, WriteScope, RemoveScope,
   SaveGrant

-----------------------------------------------------------------------------
(* The rules.                                                              *)

\* An access entry of an app of the database, with or without a grant.
LEMMA EntryType ==
  ASSUME NEW d \in Database
  PROVE  /\ \A p \in App : AppEntry(d, p) \in Access /\ AppEntry(d, p).app = p
         /\ \A x \in Access, g \in GrantRow :
              GrantedEntry(x, g) \in Access /\ GrantedEntry(x, g).app = x.app
<1>1. \A p \in App : AppEntry(d, p) \in Access /\ AppEntry(d, p).app = p
  BY RowKinds DEF AppEntry, Access, AppRow, Permission
<1>2. ASSUME NEW x \in Access, NEW g \in GrantRow
      PROVE  GrantedEntry(x, g) \in Access /\ GrantedEntry(x, g).app = x.app
  <2>1. Coalesce(g.topics, x.appTopics) \in TopicList
    BY DEF Coalesce, GrantRow, Access
  <2> QED BY <2>1 DEF GrantedEntry, Access, GrantRow
<1> QED BY <1>1, <1>2

\* What an actor holds is typed, and lies in its project when explicit grants
\* never cross projects.
LEMMA AccessType ==
  ASSUME NEW d \in Database, NEW a \in Actor, NEW t \in Nat,
         NEW held \in SUBSET Access
  PROVE  /\ ExplicitAccess(d, a, t) \in SUBSET Access
         /\ OpenAccess(d, a, held) \in SUBSET Access
         /\ \A x \in OpenAccess(d, a, held) : AppProject[x.app] = ActorProject[a]
         /\ GrantsInTenant(d) =>
              \A x \in ExplicitAccess(d, a, t) : AppProject[x.app] = ActorProject[a]
<1>1. ASSUME NEW x \in ExplicitAccess(d, a, t)
      PROVE  /\ x \in Access
             /\ GrantsInTenant(d) => AppProject[x.app] = ActorProject[a]
  <2>1. PICK p \in App : /\ HoldsApp(d, a, p, t)
                         /\ x = GrantedEntry(AppEntry(d, p), d.appGrant[a][p])
    BY <1>1 DEF ExplicitAccess
  <2>2. x \in Access /\ x.app = p
    BY <2>1, EntryType, RowKinds
  <2>3. d.appGrant[a][p].state # "absent"
    BY <2>1 DEF HoldsApp, Standing
  <2> QED BY <2>2, <2>3 DEF GrantsInTenant
<1>2. ASSUME NEW x \in OpenAccess(d, a, held)
      PROVE  x \in Access /\ AppProject[x.app] = ActorProject[a]
  BY <1>2, EntryType DEF OpenAccess
<1> QED BY <1>1, <1>2

\* An address is on the room and in the scope it was built for.
LEMMA AddressForm ==
  ASSUME NEW r, NEW list, NEW n, NEW s, NEW x \in Address(r, list, n, s)
  PROVE  x.room = r /\ x.scope = s
BY DEF Address

LEMMA AddressType ==
  ASSUME NEW r \in Room, NEW list \in TopicList, NEW n \in Permission,
         NEW s \in Scope \cup {NoScope}
  PROVE  Address(r, list, n, s) \in SUBSET AllowedTopic
BY DEF Address, AllowedTopic, TopicList

LEMMA RoomTopicsForm ==
  ASSUME NEW d, NEW a, NEW t, NEW e, NEW r, NEW s, NEW pick,
         NEW x \in RoomTopics(d, a, t, e, r, s, pick)
  PROVE  x.room = r /\ x.scope = s
BY AddressForm DEF RoomTopics

\* Topics are only ever built on rooms that were read, below apps that were
\* held, in the scope that was resolved.
LEMMA TopicsForm ==
  ASSUME NEW d, NEW a, NEW t, NEW held, NEW read, NEW s, NEW pick,
         NEW x \in TopicsOf(d, a, t, held, read, s, pick)
  PROVE  /\ x.scope = s /\ x.room \in read
         /\ \E e \in held : RoomApp[x.room] = e.app
BY RoomTopicsForm DEF TopicsOf

\* In every order some row of a set comes first and some row last: with the
\* rows before it, a row would bring in a smaller set of rows.
LEMMA OrderEnds ==
  ASSUME NEW order \in RowOrders, NEW grants \in SUBSET RoomGrant, grants # {}
  PROVE  /\ \E g \in grants : \A h \in grants : order[g] <= order[h]
         /\ \E g \in grants : \A h \in grants : order[h] <= order[g]
<1> DEFINE Before(g) == { h \in RoomGrant : order[h] < order[g] }
           After(g) == { h \in RoomGrant : order[g] < order[h] }
           befores == { Before(g) : g \in grants }
           afters == { After(g) : g \in grants }
           R == StrictSubsetOrdering(RoomGrant)
<1>1. order \in [RoomGrant -> Int]
  BY DEF RowOrders
<1>2. IsWellFoundedOn(R, SUBSET RoomGrant)
  BY KeysAssumption, FS_FiniteSubsetsOfFinite, FS_StrictSubsetOrderingWellFounded
<1>3. befores \subseteq SUBSET RoomGrant /\ befores # {}
  OBVIOUS
<1>4. afters \subseteq SUBSET RoomGrant /\ afters # {}
  OBVIOUS
<1>5. PICK b \in befores : \A c \in befores : ~(<<c, b>> \in R)
  <2> HIDE DEF befores, R
  <2> QED BY <1>2, <1>3, WFMin
<1>6. PICK l \in afters : \A c \in afters : ~(<<c, l>> \in R)
  <2> HIDE DEF afters, R
  <2> QED BY <1>2, <1>4, WFMin
<1>7. PICK g \in grants : b = Before(g)
  OBVIOUS
<1>8. PICK k \in grants : l = After(k)
  OBVIOUS
<1>9. ASSUME NEW h \in grants, order[h] < order[g] PROVE FALSE
  <2>1. Before(h) \subseteq Before(g) /\ h \in Before(g) /\ h \notin Before(h)
    BY <1>1, <1>9
  <2>2. <<Before(h), Before(g)>> \in R
    BY <2>1 DEF StrictSubsetOrdering
  <2> QED BY <1>5, <1>7, <2>2
<1>10. ASSUME NEW h \in grants, order[k] < order[h] PROVE FALSE
  <2>1. After(h) \subseteq After(k) /\ h \in After(k) /\ h \notin After(h)
    BY <1>1, <1>10
  <2>2. <<After(h), After(k)>> \in R
    BY <2>1 DEF StrictSubsetOrdering
  <2> QED BY <1>6, <1>8, <2>2
<1> QED BY <1>1, <1>9, <1>10

LEMMA EndsOf ==
  ASSUME NEW order \in RowOrders, NEW grants \in SUBSET RoomGrant, grants # {}
  PROVE  First(grants, order) \in grants /\ Last(grants, order) \in grants
BY OrderEnds DEF First, Last

\* The rows can come back in some order.
LEMMA SomeOrder == RowOrders # {}
<1> DEFINE n == Cardinality(RoomGrant)
<1>1. n \in Nat /\ ExistsBijection(1..n, RoomGrant)
  BY KeysAssumption, FS_CardinalityType
<1>2. PICK f \in [1..n -> RoomGrant] : \A g \in RoomGrant : \E i \in 1..n : f[i] = g
  BY <1>1 DEF ExistsBijection, Bijection, Surjection, Injection
<1> DEFINE order == [g \in RoomGrant |-> CHOOSE i \in 1..n : f[i] = g]
<1>3. \A g \in RoomGrant : order[g] \in 1..n /\ f[order[g]] = g
  BY <1>2
<1>4. order \in [RoomGrant -> 1..n]
  BY <1>3
<1> HIDE DEF order
<1>5. order \in RowOrders
  BY <1>3, <1>4 DEF RowOrders
<1> QED BY <1>5

\* A choice of a deciding grant on every room that has one.
Lawful(d, a, pick) == \A r \in Room : Deciding(d, a, r) # {} => pick[r] \in Deciding(d, a, r)

LEMMA DecidingKind ==
  ASSUME NEW d, NEW a, NEW r
  PROVE  /\ NamingActor(d, a, r) \in SUBSET RoomGrant
         /\ NamingType(d, a, r) \in SUBSET RoomGrant
         /\ Deciding(d, a, r) \in SUBSET RoomGrant
         /\ Deciding(d, a, r) \subseteq GrantsOn(d, r)
BY DEF Deciding, NamingActor, NamingType, StandingOn, GrantsOn

\* Whatever the order, both handlers are decided by deciding grants.
LEMMA PicksLawful ==
  ASSUME NEW d, NEW a, NEW order \in RowOrders
  PROVE  Lawful(d, a, SessionPick(d, a, order)) /\ Lawful(d, a, CheckPick(d, a, order))
<1> SUFFICES ASSUME NEW r \in Room, Deciding(d, a, r) # {}
             PROVE  /\ SessionPick(d, a, order)[r] \in Deciding(d, a, r)
                    /\ CheckPick(d, a, order)[r] \in Deciding(d, a, r)
  BY DEF Lawful
<1>1. /\ SessionPick(d, a, order)[r] = IF NamingActor(d, a, r) # {}
                                       THEN Last(NamingActor(d, a, r), order)
                                       ELSE First(NamingType(d, a, r), order)
      /\ CheckPick(d, a, order)[r] = First(Deciding(d, a, r), order)
  BY DEF SessionPick, CheckPick, Decided
<1>2. First(Deciding(d, a, r), order) \in Deciding(d, a, r)
  BY DecidingKind, EndsOf
<1>3. CASE NamingActor(d, a, r) # {}
  BY <1>1, <1>2, <1>3, DecidingKind, EndsOf DEF Deciding
<1>4. CASE NamingActor(d, a, r) = {}
  BY <1>1, <1>2, <1>4, DecidingKind, EndsOf DEF Deciding
<1> QED BY <1>3, <1>4

LEMMA TopicsType ==
  ASSUME NEW d \in Database, NEW a \in Actor, NEW t,
         NEW held \in SUBSET Access, NEW read \in SUBSET Room,
         NEW s \in Scope \cup {NoScope}, NEW pick, Lawful(d, a, pick)
  PROVE  TopicsOf(d, a, t, held, read, s, pick) \in SUBSET AllowedTopic
<1>1. ASSUME NEW e \in Access, NEW r \in Room
      PROVE  RoomTopics(d, a, t, e, r, s, pick) \in SUBSET AllowedTopic
  <2>1. e.topics \in TopicList /\ e.appTopics \in TopicList /\ e.permission \in Permission
    BY DEF Access
  <2>2. CASE Private(d, r) /\ Admitted(d, a, r, t, pick)
    <3>1. pick[r] \in RoomGrant
      BY <2>2, DecidingKind DEF Admitted, Lawful
    <3>2. d.roomGrant[pick[r]] \in GrantRow
      BY <3>1, RowKinds
    <3>3. /\ d.roomGrant[pick[r]].permission \in Permission
          /\ Coalesce(d.roomGrant[pick[r]].topics, e.appTopics) \in TopicList
      BY <2>1, <3>2 DEF GrantRow, Coalesce
    <3> QED BY <2>2, <3>3, AddressType DEF RoomTopics
  <2>3. CASE ~(Private(d, r) /\ Admitted(d, a, r, t, pick))
    BY <2>1, <2>3, AddressType DEF RoomTopics
  <2> QED BY <2>2, <2>3
<1> QED BY <1>1 DEF TopicsOf

-----------------------------------------------------------------------------
(* Types of the requests and of the history.                               *)

\* NullRow and whatever a request reads in its actor's row are rows.
LEMMA ActorRowOf ==
  ASSUME TablesOK, NEW q \in Slot
  PROVE  NullRow \in ActorRow /\ db.actor[ActorOf[q]] \in ActorRow
BY SlotAssumption, RowKinds
   DEF TablesOK, NullRow, ActorRow, RowState, Expiry

\* The end of a request empties its slot.
LEMMA FinishType ==
  ASSUME TablesOK, RequestsOK, NEW q \in Slot, Finish(q),
         session' \in [Actor -> [connected: BOOLEAN, topics: SUBSET AllowedTopic]]
  PROVE  RequestsOK'
BY ActorRowOf DEF RequestsOK, Finish, GoTo, Steps

LEMMA DenyType ==
  ASSUME RequestsOK, NEW q \in Slot, Deny(q), UNCHANGED <<authCache, session>>
  PROVE  RequestsOK'
BY DEF RequestsOK, Deny, GoTo, Steps

\* Each step of a request keeps its variables, the authentication cache and
\* the broker's sessions well typed.
LEMMA RequestKeepsType ==
  ASSUME TablesOK, RequestsOK, NEW q \in Slot, Start(q) \/ Continue(q)
  PROVE  RequestsOK'
<1> USE DEF RequestsOK, At, GoTo, Steps
<1>a. ActorOf[q] \in Actor /\ now \in Nat
  BY SlotAssumption, InputAssumption DEF TablesOK
<1>1. ASSUME ConnectCached(q) PROVE RequestsOK'
  BY <1>1, <1>a DEF ConnectCached
<1>2. ASSUME ConnectMiss(q) PROVE RequestsOK'
  BY <1>2, <1>a, ActorRowOf DEF ConnectMiss, NoEntry
<1>3. ASSUME ReadToken(q) PROVE RequestsOK'
  BY <1>3, ActorRowOf DEF ReadToken
<1>4. ASSUME VerifyToken(q) PROVE RequestsOK'
  <2>1. Entry(row[q], now, AuthTtl) \in [value: ActorRow, expiresAt: Int]
    BY <1>a, InputAssumption DEF Entry
  <2> QED BY <1>4, <2>1, DenyType DEF VerifyToken
<1>5. ASSUME StartRevalidate(q) \/ StartCheck(q) PROVE RequestsOK'
  BY <1>5 DEF StartRevalidate, StartCheck
<1>6. ASSUME ReadActor(q) PROVE RequestsOK'
  BY <1>6, ActorRowOf, DenyType DEF ReadActor
<1>7. ASSUME ReadProject(q) PROVE RequestsOK'
  BY <1>7, DenyType DEF ReadProject
<1>8. ASSUME ReadScope(q) PROVE RequestsOK'
  <2>1. row[q].scope \in Scope \cup {NoScope}
    BY DEF ActorRow
  <2> QED BY <1>8, <2>1, DenyType DEF ReadScope
<1>9. ASSUME ReadAppGrants(q) PROVE RequestsOK'
  <2>1. ExplicitAccess(db, ActorOf[q], now) \in SUBSET Access
    BY <1>a, AccessType DEF TablesOK
  <2> QED BY <1>9, <2>1 DEF ReadAppGrants
<1>10. ASSUME ReadOpenApps(q) PROVE RequestsOK'
  <2>1. access[q] \cup OpenAccess(db, ActorOf[q], access[q]) \in SUBSET Access
    BY <1>a, AccessType DEF TablesOK
  <2> QED BY <1>10, <2>1 DEF ReadOpenApps
<1>11. ASSUME ReadRooms(q) PROVE RequestsOK'
  BY <1>11 DEF ReadRooms, RoomsOf
<1>12. \A pick : Lawful(db, ActorOf[q], pick) =>
         TopicsOf(db, ActorOf[q], now, access[q], rooms[q], resolved[q], pick)
           \in SUBSET AllowedTopic
  BY <1>a, TopicsType DEF TablesOK
<1>13. ASSUME ReadRoomGrants(q) PROVE RequestsOK'
  BY <1>13, <1>12, PicksLawful DEF ReadRoomGrants
<1>14. ASSUME CheckApp(q) PROVE RequestsOK'
  <2>1. {AppEntry(db, RoomApp[AskRoom[q]])} \in SUBSET Access
    BY SlotAssumption, KeysAssumption, EntryType DEF TablesOK
  <2> QED BY <1>14, <2>1, DenyType DEF CheckApp
<1>15. ASSUME CheckAppGrant(q) PROVE RequestsOK'
  <2>1. \A x \in access[q] :
          GrantedEntry(x, db.appGrant[ActorOf[q]][RoomApp[AskRoom[q]]]) \in Access
    BY SlotAssumption, KeysAssumption, EntryType, RowKinds DEF TablesOK
  <2> QED BY <1>15, <2>1, DenyType DEF CheckAppGrant
<1>16. ASSUME CheckRoom(q) PROVE RequestsOK'
  <2>1. CASE Deny(q)
    BY <1>16, <2>1, DenyType DEF CheckRoom
  <2>2. CASE ~Deny(q)
    <3>1. {AskRoom[q]} \in SUBSET Room
      BY SlotAssumption
    <3>2. /\ rooms' = [rooms EXCEPT ![q] = {AskRoom[q]}]
          /\ pc' = [pc EXCEPT ![q] = "checkGrants"]
          /\ UNCHANGED <<authCache, session, row, resolved, access, allowed>>
      BY <1>16, <2>2 DEF CheckRoom
    <3> QED BY <3>1, <3>2
  <2> QED BY <2>1, <2>2
<1>17. ASSUME CheckRoomGrants(q) PROVE RequestsOK'
  <2>1. CASE Deny(q)
    BY <1>17, <2>1, DenyType DEF CheckRoomGrants
  <2>2. CASE ~Deny(q)
    <3>1. PICK set \in SUBSET AllowedTopic :
                 /\ allowed' = [allowed EXCEPT ![q] = set]
                 /\ pc' = [pc EXCEPT ![q] = "answer"]
                 /\ UNCHANGED <<authCache, session, row, resolved, access, rooms>>
      BY <1>17, <2>2, <1>12, PicksLawful DEF CheckRoomGrants
    <3> QED BY <3>1
  <2> QED BY <2>1, <2>2
<1>18. ASSUME AnswerConnect(q) \/ AnswerRevalidate(q) \/ AnswerCheck(q)
       PROVE  RequestsOK'
  <2>1. session' \in [Actor -> [connected: BOOLEAN, topics: SUBSET AllowedTopic]]
    <3>1. \A set \in SUBSET AllowedTopic :
            Keep(q, set) => session' \in [Actor -> [connected: BOOLEAN,
                                                    topics: SUBSET AllowedTopic]]
      BY <1>a DEF Keep
    <3>2. session[ActorOf[q]].topics \cup allowed[q] \in SUBSET AllowedTopic
      BY <1>a
    <3> QED
      BY <1>18, <3>1, <3>2 DEF AnswerConnect, AnswerRevalidate, AnswerCheck
  <2> QED BY <1>18, <2>1, FinishType DEF AnswerConnect, AnswerRevalidate, AnswerCheck
<1>19. ASSUME AnswerDenied(q) PROVE RequestsOK'
  <2>1. session' \in [Actor -> [connected: BOOLEAN, topics: SUBSET AllowedTopic]]
    BY <1>19, <1>a DEF AnswerDenied, NoSession
  <2> QED BY <1>19, <2>1, FinishType DEF AnswerDenied
<1> QED
  BY <1>1, <1>2, <1>3, <1>4, <1>5, <1>6, <1>7, <1>8, <1>9, <1>10, <1>11,
     <1>13, <1>14, <1>15, <1>16, <1>17, <1>18, <1>19
  DEF Start, Continue

\* A request changes neither the clock nor the tables.
LEMMA RequestLeavesTables ==
  ASSUME NEW q \in Slot, Start(q) \/ Continue(q)
  PROVE  UNCHANGED tables
BY DEF Start, Continue, ConnectCached, ConnectMiss, ReadToken, VerifyToken,
   StartRevalidate, StartCheck, ReadActor, ReadProject, ReadScope,
   ReadAppGrants, ReadOpenApps, ReadRooms, ReadRoomGrants, CheckApp,
   CheckAppGrant, CheckRoom, CheckRoomGrants, AnswerConnect, AnswerRevalidate,
   AnswerCheck, AnswerDenied, Finish

\* What history records is typed.
LEMMA HistoryType ==
  ASSUME HistoryOK, TablesOK', RecordSeen
  PROVE  HistoryOK'
<1> DEFINE Past == [apps: SUBSET App, rooms: SUBSET Room,
                    doors: SUBSET Room, scopes: SUBSET Scope]
<1>1. Nothing \in Past
  BY DEF Nothing
<1>2. ASSUME NEW q \in Slot
      PROVE  Observed(seen[q], db', ActorOf[q], now') \in Past
  <2>1. db' \in Database /\ now' \in Nat /\ ActorOf[q] \in Actor
    BY SlotAssumption, InputAssumption DEF TablesOK
  <2>2. FullAccess(db', ActorOf[q], now') \in SUBSET Access
    BY <2>1, AccessType DEF FullAccess
  <2>3. { x.app : x \in FullAccess(db', ActorOf[q], now') } \in SUBSET App
    BY <2>2 DEF Access
  <2>4. seen[q] \in Past
    BY DEF HistoryOK
  <2> QED BY <2>3, <2>4 DEF Observed
<1> QED BY <1>1, <1>2 DEF RecordSeen, HistoryOK

-----------------------------------------------------------------------------
(* Type correctness.                                                       *)

LEMMA InitType == Init => TypeOK
<1> SUFFICES ASSUME Init PROVE TypeOK
  OBVIOUS
<1>1. TablesOK
  BY InitialAssumption, InputAssumption DEF Init, TablesOK
<1>2. NullRow \in ActorRow
  BY DEF NullRow, ActorRow, RowState, Expiry
<1>3. RequestsOK
  BY <1>2 DEF Init, RequestsOK, NoEntry, NoSession, Steps
<1>4. HistoryOK
  BY DEF Init, HistoryOK, Nothing
<1> QED BY <1>1, <1>3, <1>4 DEF TypeOK

LEMMA NextType == TypeOK /\ [Next]_vars => TypeOK'
<1> SUFFICES ASSUME TypeOK, [Next]_vars PROVE TypeOK'
  OBVIOUS
<1> USE DEF TypeOK
<1>1. CASE Next
  <2>1. TablesOK' /\ RequestsOK'
    <3>1. CASE AdminStep \/ CommitStep
      <4>1. RequestsOK'
        BY <3>1, AdminLeavesRequests DEF RequestsOK, reqVars
      <4> QED BY <3>1, <4>1, AdminKeepsTables
    <3>2. ASSUME NEW q \in Slot, Start(q) \/ Continue(q)
          PROVE  TablesOK' /\ RequestsOK'
      <4>1. TablesOK'
        BY <3>2, RequestLeavesTables DEF TablesOK, tables, adminVars
      <4> QED BY <3>2, <4>1, RequestKeepsType
    <3>3. ASSUME NEW a \in Actor, Disconnect(a) PROVE TablesOK' /\ RequestsOK'
      BY <3>3 DEF Disconnect, TablesOK, RequestsOK, tables, adminVars, reqVars, NoSession
    <3>4. CASE Tick
      <4>1. now' \in 0..MaxTime
        BY <3>4, InputAssumption DEF Tick, TablesOK
      <4> QED BY <3>4, <4>1 DEF Tick, TablesOK, RequestsOK, adminVars, reqVars
    <3> QED BY <1>1, <3>1, <3>2, <3>3, <3>4 DEF Next
  <2>2. RecordSeen
    BY <1>1 DEF Next
  <2> QED BY <2>1, <2>2, HistoryType
<1>2. CASE UNCHANGED vars
  BY <1>2 DEF vars, TablesOK, RequestsOK, HistoryOK
<1> QED BY <1>1, <1>2

\* Type correctness: every row, cache entry, answer and session keeps its
\* shape, whatever administrators write between two queries of a request.
THEOREM TypeCorrect == Spec => []TypeOK
<1>1. Init => TypeOK
  BY InitType
<1>2. TypeOK /\ [Next]_vars => TypeOK'
  BY NextType
<1> QED BY <1>1, <1>2, PTL DEF Spec

-----------------------------------------------------------------------------
(* Tenant isolation.  The property speaks of what the broker caches; it is *)
(* inductive only with what every request in flight has collected so far,  *)
(* and with explicit app grants that never cross projects.                 *)

AccessInTenant ==
  \A q \in Slot : \A x \in access[q] : AppProject[x.app] = ActorProject[ActorOf[q]]

ScopeInTenant ==
  \A q \in Slot :
    resolved[q] # NoScope => ScopeProject[resolved[q]] = ActorProject[ActorOf[q]]

AllowedInTenant ==
  \A q \in Slot : \A x \in allowed[q] : SameTenant(ActorOf[q], x)

TenantInv ==
  /\ GrantsInTenant(db)
  /\ AccessInTenant
  /\ ScopeInTenant
  /\ AllowedInTenant
  /\ TenantIsolation

\* No administrative step makes an explicit app grant cross projects.
LEMMA AdminKeepsGrants ==
  ASSUME TablesOK, GrantsInTenant(db), AdminStep \/ CommitStep
  PROVE  GrantsInTenant(db')
<1>1. ASSUME NEW j \in Project, EraseProject(j) PROVE GrantsInTenant(db')
  <2> SUFFICES ASSUME NEW a \in Actor, NEW p \in App,
                      db'.appGrant[a][p].state # "absent"
               PROVE  db.appGrant[a][p].state # "absent"
    BY DEF GrantsInTenant
  <2>1. db.appGrant[a][p] \in GrantRow
    BY RowKinds DEF TablesOK
  <2> QED BY <1>1, <2>1 DEF EraseProject, Gone, GrantRow
<1> QED BY <1>1, AdminSuccessor DEF Successor, GrantsInTenant

\* Topics built from what a request collected are of its actor's tenant.
LEMMA TopicsInTenant ==
  ASSUME RequestsOK, AccessInTenant, ScopeInTenant, NEW q \in Slot, NEW pick,
         NEW x \in TopicsOf(db, ActorOf[q], now, access[q], rooms[q], resolved[q], pick)
  PROVE  SameTenant(ActorOf[q], x)
<1>1. PICK e \in access[q] : RoomApp[x.room] = e.app
  BY TopicsForm
<1>2. x.scope = resolved[q]
  BY TopicsForm
<1> QED BY <1>1, <1>2 DEF SameTenant, AccessInTenant, ScopeInTenant

LEMMA FinishTenant ==
  ASSUME RequestsOK, AccessInTenant, ScopeInTenant, AllowedInTenant,
         NEW q \in Slot, Finish(q)
  PROVE  AccessInTenant' /\ ScopeInTenant' /\ AllowedInTenant'
BY DEF RequestsOK, AccessInTenant, ScopeInTenant, AllowedInTenant, Finish

\* Steps that collect nothing that tenancy depends on.
LEMMA OtherStepTenant ==
  ASSUME TenantInv, UNCHANGED <<db, access, resolved, allowed, session>>
  PROVE  TenantInv'
BY DEF TenantInv, AccessInTenant, ScopeInTenant, AllowedInTenant,
       TenantIsolation, GrantsInTenant

LEMMA RequestKeepsTenant ==
  ASSUME TypeOK, TenantInv, NEW q \in Slot, Start(q) \/ Continue(q)
  PROVE  TenantInv'
<1> USE DEF TypeOK
<1>a. ActorOf[q] \in Actor /\ now \in Nat /\ db \in Database
  BY SlotAssumption, InputAssumption DEF TablesOK
<1>b. GrantsInTenant(db) /\ GrantsInTenant(db')
  BY RequestLeavesTables DEF TenantInv, tables
<1>d. Deny(q) /\ UNCHANGED <<db, session>> => TenantInv'
  BY OtherStepTenant DEF Deny
<1>1. ASSUME \/ ConnectCached(q) \/ ConnectMiss(q) \/ ReadToken(q)
             \/ VerifyToken(q) \/ StartRevalidate(q) \/ StartCheck(q)
             \/ ReadActor(q) \/ ReadProject(q) \/ ReadRooms(q) \/ CheckRoom(q)
      PROVE  TenantInv'
  BY <1>1, <1>d, OtherStepTenant
  DEF ConnectCached, ConnectMiss, ReadToken, VerifyToken, StartRevalidate,
      StartCheck, ReadActor, ReadProject, ReadRooms, CheckRoom, tables
<1>2. ASSUME ReadScope(q) PROVE TenantInv'
  <2>1. CASE Deny(q)
    BY <1>2, <2>1, <1>d DEF ReadScope, tables
  <2>2. CASE ~Deny(q)
    <3>1. /\ resolved' = [resolved EXCEPT ![q] = row[q].scope]
          /\ ScopeHonoured(db, ActorOf[q], row[q].scope)
          /\ UNCHANGED <<db, session, access, allowed>>
      BY <1>2, <2>2 DEF ReadScope, tables
    <3>2. ScopeInTenant'
      BY <3>1 DEF TenantInv, ScopeInTenant, RequestsOK, ScopeHonoured
    <3> QED
      BY <1>b, <3>1, <3>2 DEF TenantInv, AccessInTenant, AllowedInTenant, TenantIsolation
  <2> QED BY <2>1, <2>2
<1>3. ASSUME NEW held \in SUBSET Access,
             \A x \in held : AppProject[x.app] = ActorProject[ActorOf[q]],
             access' = [access EXCEPT ![q] = held],
             UNCHANGED <<db, resolved, allowed, session>>
      PROVE  TenantInv'
  <2>1. AccessInTenant'
    BY <1>3 DEF TenantInv, AccessInTenant, RequestsOK
  <2> QED
    BY <1>b, <1>3, <2>1 DEF TenantInv, ScopeInTenant, AllowedInTenant, TenantIsolation
<1>4. ASSUME ReadAppGrants(q) PROVE TenantInv'
  <2> DEFINE held == ExplicitAccess(db, ActorOf[q], now)
  <2>1. /\ held \in SUBSET Access
        /\ \A x \in held : AppProject[x.app] = ActorProject[ActorOf[q]]
    BY <1>a, <1>b, AccessType
  <2>2. /\ access' = [access EXCEPT ![q] = held]
        /\ UNCHANGED <<db, resolved, allowed, session>>
    BY <1>4 DEF ReadAppGrants, tables
  <2> QED BY <1>3, <2>1, <2>2
<1>5. ASSUME ReadOpenApps(q) PROVE TenantInv'
  <2> DEFINE held == access[q] \cup OpenAccess(db, ActorOf[q], access[q])
  <2>1. /\ held \in SUBSET Access
        /\ \A x \in held : AppProject[x.app] = ActorProject[ActorOf[q]]
    <3>1. access[q] \in SUBSET Access
      BY DEF RequestsOK
    <3>2. \A x \in access[q] : AppProject[x.app] = ActorProject[ActorOf[q]]
      BY DEF TenantInv, AccessInTenant
    <3> QED BY <1>a, <3>1, <3>2, AccessType
  <2>2. /\ access' = [access EXCEPT ![q] = held]
        /\ UNCHANGED <<db, resolved, allowed, session>>
    BY <1>5 DEF ReadOpenApps, tables
  <2> QED BY <1>3, <2>1, <2>2
<1>6. ASSUME CheckApp(q) PROVE TenantInv'
  <2>1. CASE Deny(q)
    BY <1>6, <2>1, <1>d DEF CheckApp, tables
  <2>2. CASE ~Deny(q)
    <3> DEFINE held == {AppEntry(db, RoomApp[AskRoom[q]])}
    <3>1. /\ access' = [access EXCEPT ![q] = held]
          /\ AppProject[RoomApp[AskRoom[q]]] = ActorProject[ActorOf[q]]
          /\ UNCHANGED <<db, resolved, allowed, session>>
      BY <1>6, <2>2 DEF CheckApp, tables
    <3>2. /\ held \in SUBSET Access
          /\ \A x \in held : x.app = RoomApp[AskRoom[q]]
      BY <1>a, SlotAssumption, KeysAssumption, EntryType
    <3> QED BY <1>3, <3>1, <3>2
  <2> QED BY <2>1, <2>2
<1>7. ASSUME CheckAppGrant(q) PROVE TenantInv'
  <2>1. CASE Deny(q)
    BY <1>7, <2>1, <1>d DEF CheckAppGrant, tables
  <2>2. CASE ~Deny(q)
    <3> DEFINE grant == db.appGrant[ActorOf[q]][RoomApp[AskRoom[q]]]
               held == { GrantedEntry(x, grant) : x \in access[q] }
    <3>1. /\ access' = [access EXCEPT ![q] = held]
          /\ UNCHANGED <<db, resolved, allowed, session>>
      BY <1>7, <2>2 DEF CheckAppGrant, RequestsOK, tables
    <3>2. \A x \in access[q] : GrantedEntry(x, grant) \in Access
                               /\ GrantedEntry(x, grant).app = x.app
      BY <1>a, SlotAssumption, KeysAssumption, EntryType, RowKinds DEF RequestsOK
    <3>3. \A x \in held : AppProject[x.app] = ActorProject[ActorOf[q]]
      BY <3>2 DEF TenantInv, AccessInTenant
    <3> QED BY <1>3, <3>1, <3>2, <3>3
  <2> QED BY <2>1, <2>2
<1>8. ASSUME ReadRoomGrants(q) \/ CheckRoomGrants(q) PROVE TenantInv'
  <2>1. CASE Deny(q) /\ UNCHANGED <<db, session>>
    BY <2>1, <1>d
  <2>2. CASE ~(Deny(q) /\ UNCHANGED <<db, session>>)
    <3>1. PICK pick :
            /\ allowed' = [allowed EXCEPT ![q] =
                 TopicsOf(db, ActorOf[q], now, access[q], rooms[q], resolved[q], pick)]
            /\ UNCHANGED <<db, access, resolved, session>>
      BY <1>8, <2>2 DEF ReadRoomGrants, CheckRoomGrants, tables
    <3>2. AllowedInTenant'
      BY <3>1, TopicsInTenant DEF TenantInv, AllowedInTenant, RequestsOK, SameTenant
    <3> QED
      BY <1>b, <3>1, <3>2 DEF TenantInv, AccessInTenant, ScopeInTenant, TenantIsolation
  <2> QED BY <2>1, <2>2
<1>9. ASSUME AnswerConnect(q) \/ AnswerRevalidate(q) \/ AnswerCheck(q) \/ AnswerDenied(q)
      PROVE  TenantInv'
  <2>1. AccessInTenant' /\ ScopeInTenant' /\ AllowedInTenant'
    BY <1>9, FinishTenant
    DEF TenantInv, AnswerConnect, AnswerRevalidate, AnswerCheck, AnswerDenied
  <2>2. /\ \A x \in allowed[q] : SameTenant(ActorOf[q], x)
        /\ \A x \in session[ActorOf[q]].topics : SameTenant(ActorOf[q], x)
    BY <1>a DEF TenantInv, AllowedInTenant, TenantIsolation
  <2>3. \/ \E set : /\ session' = [session EXCEPT ![ActorOf[q]] =
                                     [connected |-> TRUE, topics |-> set]]
                    /\ set \in {allowed[q], session[ActorOf[q]].topics \cup allowed[q]}
        \/ session' = [session EXCEPT ![ActorOf[q]] = NoSession]
        \/ session' = session
    BY <1>9 DEF AnswerConnect, AnswerRevalidate, AnswerCheck, AnswerDenied, Keep
  <2>4. TenantIsolation'
    <3>1. ASSUME NEW set, \A x \in set : SameTenant(ActorOf[q], x),
                 NEW on, session' = [session EXCEPT ![ActorOf[q]] =
                                       [connected |-> on, topics |-> set]]
          PROVE  TenantIsolation'
      BY <3>1 DEF TenantInv, TenantIsolation, RequestsOK, SameTenant
    <3>2. session' = session => TenantIsolation'
      BY DEF TenantInv, TenantIsolation, SameTenant
    <3>3. \A x \in session[ActorOf[q]].topics \cup allowed[q] :
            SameTenant(ActorOf[q], x)
      BY <2>2
    <3> QED BY <2>2, <2>3, <3>1, <3>2, <3>3 DEF NoSession
  <2> QED BY <1>b, <2>1, <2>4 DEF TenantInv
<1> QED
  BY <1>1, <1>2, <1>4, <1>5, <1>6, <1>7, <1>8, <1>9 DEF Start, Continue

LEMMA InitTenant == Init => TenantInv
BY InitialAssumption
DEF Init, TenantInv, AccessInTenant, ScopeInTenant, AllowedInTenant,
    TenantIsolation, WellFormed, NoSession

LEMMA NextTenant == TypeOK /\ TenantInv /\ [Next]_vars => TenantInv'
<1> SUFFICES ASSUME TypeOK, TenantInv, [Next]_vars PROVE TenantInv'
  OBVIOUS
<1>1. CASE AdminStep \/ CommitStep
  <2>1. UNCHANGED <<access, resolved, allowed, session>>
    BY <1>1, AdminLeavesRequests DEF reqVars
  <2>2. GrantsInTenant(db')
    BY <1>1, AdminKeepsGrants DEF TypeOK, TenantInv
  <2> QED
    BY <2>1, <2>2 DEF TenantInv, AccessInTenant, ScopeInTenant, AllowedInTenant,
       TenantIsolation
<1>2. ASSUME NEW q \in Slot, Start(q) \/ Continue(q) PROVE TenantInv'
  BY <1>2, RequestKeepsTenant
<1>3. ASSUME NEW a \in Actor, Disconnect(a) PROVE TenantInv'
  <2>1. /\ session' = [session EXCEPT ![a] = NoSession]
        /\ UNCHANGED <<db, access, resolved, allowed>>
    BY <1>3 DEF Disconnect, tables, reqVars
  <2>2. TenantIsolation'
    BY <2>1 DEF TypeOK, RequestsOK, TenantInv, TenantIsolation, NoSession
  <2> QED
    BY <2>1, <2>2 DEF TenantInv, AccessInTenant, ScopeInTenant, AllowedInTenant
<1>4. CASE Tick \/ UNCHANGED vars
  BY <1>4, OtherStepTenant DEF Tick, vars, reqVars
<1> QED BY <1>1, <1>2, <1>3, <1>4 DEF Next

\* Tenant isolation, for any number of actors, projects, apps, rooms, grants
\* and requests in flight.
THEOREM TenantsAreIsolated == Spec => []TenantIsolation
<1>1. Init => TypeOK /\ TenantInv
  BY InitType, InitTenant
<1>2. TypeOK /\ TenantInv /\ [Next]_vars => (TypeOK /\ TenantInv)'
  BY NextType, NextTenant
<1>3. TenantInv => TenantIsolation
  BY DEF TenantInv
<1> QED BY <1>1, <1>2, <1>3, PTL DEF Spec

-----------------------------------------------------------------------------
(* The targeted check against the full resolution.                         *)

\* The entry a check works from is the entry the full resolution has for that
\* app.  It takes tenancy: the check compares the app's project with the
\* actor's, the full resolution trusts explicit grants.
LEMMA EntryAgrees ==
  ASSUME NEW d \in Database, NEW a \in Actor, NEW t \in Nat, NEW p \in App,
         GrantsInTenant(d), d.app[p].accessMode = "open" => ~HoldsApp(d, a, p, t)
  PROVE  \A e : e \in CheckAccess(d, a, t, p)
                  <=> e \in FullAccess(d, a, t) /\ e.app = p
<1> DEFINE granted == GrantedEntry(AppEntry(d, p), d.appGrant[a][p])
           explicit == ExplicitAccess(d, a, t)
<1>1. \A x \in App : /\ AppEntry(d, x).app = x
                     /\ GrantedEntry(AppEntry(d, x), d.appGrant[a][x]).app = x
  BY EntryType, RowKinds
<1>2. \A e : e \in explicit /\ e.app = p
               <=> e = granted /\ HoldsApp(d, a, p, t) /\ Serves(d.app[p])
  BY <1>1 DEF ExplicitAccess
<1>3. \A e : e \in OpenAccess(d, a, explicit) /\ e.app = p
               <=> /\ e = AppEntry(d, p) /\ AppProject[p] = ActorProject[a]
                   /\ Serves(d.app[p]) /\ d.app[p].accessMode = "open"
                   /\ \A h \in explicit : h.app # p
  BY <1>1 DEF OpenAccess
<1>4. HoldsApp(d, a, p, t) => AppProject[p] = ActorProject[a]
  BY DEF HoldsApp, Standing, GrantsInTenant
<1>5. \A e : e \in FullAccess(d, a, t)
               <=> e \in explicit \/ e \in OpenAccess(d, a, explicit)
  BY DEF FullAccess
<1>6. (\E h \in explicit : h.app = p) <=> HoldsApp(d, a, p, t) /\ Serves(d.app[p])
  BY <1>1, <1>2
<1>7. d.app[p].accessMode \in {"open", "restricted"}
  BY RowKinds DEF AppRow
<1> HIDE DEF granted, explicit
<1>8. \A e : e \in CheckAccess(d, a, t, p)
               <=> /\ AppProject[p] = ActorProject[a] /\ Serves(d.app[p])
                   /\ \/ d.app[p].accessMode = "open" /\ e = AppEntry(d, p)
                      \/ /\ d.app[p].accessMode # "open" /\ HoldsApp(d, a, p, t)
                         /\ e = granted
  BY DEF CheckAccess, granted
<1> QED BY <1>2, <1>3, <1>4, <1>5, <1>6, <1>7, <1>8

\* The topics of a check and of the full resolution, once the actor and its
\* scope s are found usable.
Checked(d, a, t, r, s, pick) ==
  TopicsOf(d, a, t, CheckAccess(d, a, t, RoomApp[r]),
           IF Serves(d.room[r]) THEN {r} ELSE {}, s, pick)

Full(d, a, t, s, pick) ==
  TopicsOf(d, a, t, FullAccess(d, a, t), RoomsOf(d, FullAccess(d, a, t)), s, pick)

\* They agree on each room of that app.
LEMMA TopicsAgree ==
  ASSUME NEW d \in Database, NEW a \in Actor, NEW t \in Nat, NEW r \in Room,
         NEW s, NEW pick, GrantsInTenant(d),
         d.app[RoomApp[r]].accessMode = "open" => ~HoldsApp(d, a, RoomApp[r], t)
  PROVE  Checked(d, a, t, r, s, pick) = { x \in Full(d, a, t, s, pick) : x.room = r }
<1> DEFINE held == FullAccess(d, a, t)
           checked == CheckAccess(d, a, t, RoomApp[r])
           room == IF Serves(d.room[r]) THEN {r} ELSE {}
           On(e, y) == RoomTopics(d, a, t, e, y, s, pick)
<1>1. \A e : e \in checked <=> e \in held /\ e.app = RoomApp[r]
  BY EntryAgrees, KeysAssumption
<1>2. \A e, y : \A x \in On(e, y) : x.room = y
  BY RoomTopicsForm
<1>3. \A x : x \in TopicsOf(d, a, t, checked, room, s, pick)
               <=> \E e \in checked : Serves(d.room[r]) /\ x \in On(e, r)
  BY <1>1 DEF TopicsOf
<1>4. \A x : x \in TopicsOf(d, a, t, held, RoomsOf(d, held), s, pick)
               <=> \E e \in held : \E y \in RoomsOf(d, held) :
                     RoomApp[y] = e.app /\ x \in On(e, y)
  BY DEF TopicsOf
<1>5. \A e \in held : e.app = RoomApp[r] =>
        (r \in RoomsOf(d, held) <=> Serves(d.room[r]))
  BY DEF RoomsOf
<1> HIDE DEF held, checked, room, On
<1>6. \A x : x \in TopicsOf(d, a, t, checked, room, s, pick)
               <=> x \in { z \in TopicsOf(d, a, t, held, RoomsOf(d, held), s, pick) :
                             z.room = r }
  BY <1>1, <1>2, <1>3, <1>4, <1>5
<1> QED BY <1>6 DEF Checked, Full, held, checked, room

\* Only the pick on room r counts for the topics of a check of r.
LEMMA CheckedByPick ==
  ASSUME NEW d, NEW a, NEW t, NEW r, NEW s, NEW one, NEW other,
         Deciding(d, a, r) # {} => one[r] = other[r]
  PROVE  Checked(d, a, t, r, s, one) = Checked(d, a, t, r, s, other)
<1> DEFINE held == CheckAccess(d, a, t, RoomApp[r])
           room == IF Serves(d.room[r]) THEN {r} ELSE {}
           On(e, y, pick) == RoomTopics(d, a, t, e, y, s, pick)
<1>1. \A e : On(e, r, one) = On(e, r, other)
  <2>1. CASE Deciding(d, a, r) = {}
    BY <2>1 DEF RoomTopics, Admitted
  <2>2. CASE one[r] = other[r]
    BY <2>2 DEF RoomTopics, Admitted
  <2> QED BY <2>1, <2>2
<1>2. \A pick : \A x : x \in TopicsOf(d, a, t, held, room, s, pick)
        <=> \E e \in held : Serves(d.room[r]) /\ RoomApp[r] = e.app /\ x \in On(e, r, pick)
  BY DEF TopicsOf
<1> HIDE DEF held, room, On
<1>3. \A x : x \in TopicsOf(d, a, t, held, room, s, one)
               <=> x \in TopicsOf(d, a, t, held, room, s, other)
  BY <1>1, <1>2
<1> QED BY <1>3 DEF Checked, TopicsOf, held, room

\* Where at most one grant names the actor, the last row that names it is also
\* the first; among grants for its type both handlers take the first.
LEMMA PicksAgree ==
  ASSUME NEW d, NEW a, NEW r \in Room, NEW order \in RowOrders,
         \A g, h \in NamingActor(d, a, r) : g = h, Deciding(d, a, r) # {}
  PROVE  SessionPick(d, a, order)[r] = CheckPick(d, a, order)[r]
<1>1. /\ SessionPick(d, a, order)[r] = IF NamingActor(d, a, r) # {}
                                       THEN Last(NamingActor(d, a, r), order)
                                       ELSE First(NamingType(d, a, r), order)
      /\ CheckPick(d, a, order)[r] = First(Deciding(d, a, r), order)
  BY DEF SessionPick, CheckPick, Decided
<1>2. CASE NamingActor(d, a, r) # {}
  <2>1. /\ Last(NamingActor(d, a, r), order) \in NamingActor(d, a, r)
        /\ First(NamingActor(d, a, r), order) \in NamingActor(d, a, r)
    BY <1>2, DecidingKind, EndsOf
  <2>2. Last(NamingActor(d, a, r), order) = First(NamingActor(d, a, r), order)
    BY <2>1
  <2> QED BY <1>1, <1>2, <2>2 DEF Deciding
<1>3. CASE NamingActor(d, a, r) = {}
  BY <1>1, <1>3 DEF Deciding
<1> QED BY <1>2, <1>3

\* checkRoomAccess and validate give every actor the same topics on every room,
\* in every reachable database and whatever order the grant rows come back in,
\* though one takes the last row that names the actor and the other the first.
\* What it takes: a live project, at most one standing grant on the room that
\* names the actor, and no explicit grant on an open app.  Without any one of
\* the three CheckMatchesValidate fails (run AuthzCheckMatches).
THEOREM ChecksAgree == Spec => []CheckAgrees
<1>1. ASSUME TypeOK, GrantsInTenant(db) PROVE CheckAgrees
  <2>1. db \in Database /\ now \in Nat
    BY <1>1, InputAssumption DEF TypeOK, TablesOK
  <2> SUFFICES ASSUME NEW a \in Actor, NEW r \in Room, NEW order \in RowOrders,
                      Comparable(db, a, r, now)
               PROVE  CheckTopics(db, a, now, r, order)
                        = { x \in SessionTopics(db, a, now, order) : x.room = r }
    BY DEF CheckAgrees, AnswerAlike
  <2>2. /\ db.project[ActorProject[a]] = "live"
        /\ db.app[RoomApp[r]].accessMode = "open" => ~HoldsApp(db, a, RoomApp[r], now)
        /\ \A g, h \in NamingActor(db, a, r) : g = h
    BY DEF Comparable
  <2> DEFINE sees == /\ UsableActor(db.actor[a], now)
                     /\ ScopeHonoured(db, a, db.actor[a].scope)
             scope == db.actor[a].scope
             ours == SessionPick(db, a, order)
             theirs == CheckPick(db, a, order)
  <2>3. Checked(db, a, now, r, scope, theirs) = Checked(db, a, now, r, scope, ours)
    BY <2>2, PicksAgree, CheckedByPick
  <2>4. Checked(db, a, now, r, scope, ours)
          = { x \in Full(db, a, now, scope, ours) : x.room = r }
    BY <1>1, <2>1, <2>2, TopicsAgree
  <2>5. CheckTopics(db, a, now, r, order)
          = IF sees THEN Checked(db, a, now, r, scope, theirs) ELSE {}
    BY DEF CheckTopics, Checked
  <2>6. SessionTopics(db, a, now, order)
          = IF sees THEN Full(db, a, now, scope, ours) ELSE {}
    BY <2>2 DEF SessionTopics, Full
  <2> HIDE DEF sees, scope, ours, theirs
  <2> QED BY <2>3, <2>4, <2>5, <2>6
<1>2. Init => TypeOK /\ TenantInv
  BY InitType, InitTenant
<1>3. TypeOK /\ TenantInv /\ [Next]_vars => (TypeOK /\ TenantInv)'
  BY NextType, NextTenant
<1>4. TypeOK /\ TenantInv => CheckAgrees
  BY <1>1 DEF TenantInv
<1> QED BY <1>2, <1>3, <1>4, PTL DEF Spec
=============================================================================
