-------------------------- MODULE AuthzAdminProofs ---------------------------
(***************************************************************************)
(* Theorems about what administrators take away, for every value of the    *)
(* constants: a revoked grant stays revoked, an erased project leaves its  *)
(* actors nothing, disabling grants opens no private room; about what time *)
(* takes away; and about the references of the tables, which every write   *)
(* keeps as the initial tables have them.                                  *)
(***************************************************************************)
EXTENDS AuthzProofs

\* Every step that is not administrative leaves the tables and what is about
\* to be written to them.
LEMMA OthersLeaveTables ==
  ASSUME [Next]_vars, ~(AdminStep \/ CommitStep)
  PROVE  UNCHANGED <<db, assigning, dropping, patching>>
<1>1. ASSUME NEW q \in Slot, Start(q) \/ Continue(q) PROVE UNCHANGED <<db, adminVars>>
  BY <1>1, RequestLeavesTables DEF tables
<1>2. ASSUME NEW a \in Actor, Disconnect(a) PROVE UNCHANGED <<db, adminVars>>
  BY <1>2 DEF Disconnect, tables
<1> QED BY <1>1, <1>2 DEF Next, Tick, vars, adminVars

-----------------------------------------------------------------------------
(* Revocation.                                                             *)

\* Only the room grant endpoints and the erasure of a project touch the room
\* grants and the patches in flight.
LEMMA OthersLeaveGrants ==
  ASSUME TablesOK, AdminStep \/ CommitStep,
         \A g \in RoomGrant : ~CreateGrant(g) /\ ~PatchGrant(g) /\ ~DeleteGrant(g),
         \A x \in patching : ~SaveGrant(x),
         \A j \in Project : ~EraseProject(j)
  PROVE  patching' = patching /\ db'.roomGrant = db.roomGrant
<1>1. CASE AdminStep
  BY <1>1 DEF AdminStep, TablesOK, Database, adminVars, CreateActor, UpdateActor,
     DeleteActor, AssertScope, CreateScope, UpdateScope, CountActors, CreateApp,
     UpdateApp, DeleteApp, CreateRoom, UpdateRoom, DeleteRoom, DeleteProject
<1>2. CASE CommitStep
  BY <1>2 DEF CommitStep, TablesOK, Database, WriteScope, RemoveScope
<1> QED BY <1>1, <1>2

\* A revoked grant that no patch in flight has read stays revoked.
LEMMA RevokedStep ==
  ASSUME TypeOK, [Next]_vars, NEW g \in RoomGrant, RevokedForGood(g)
  PROVE  RevokedForGood(g)'
<1> USE DEF RevokedForGood, TypeOK, TablesOK
<1>a. /\ db \in Database /\ db.roomGrant \in [RoomGrant -> GrantRow]
      /\ db.roomGrant[g].state = "deleted"
  BY DEF Database
<1>1. ASSUME NEW h \in RoomGrant, CreateGrant(h) PROVE RevokedForGood(g)'
  <2>1. h # g /\ patching' = patching
    BY <1>1 DEF CreateGrant, adminVars
  <2>2. db'.roomGrant[g] = db.roomGrant[g]
    BY <1>1, <1>a, <2>1 DEF CreateGrant, Database
  <2> QED BY <2>1, <2>2
<1>2. ASSUME NEW h \in RoomGrant, PatchGrant(h) PROVE RevokedForGood(g)'
  <2>1. h # g /\ db' = db
    BY <1>2 DEF PatchGrant
  <2>2. \E r : patching' = patching \cup {[grant |-> h, as |-> r]}
    BY <1>2 DEF PatchGrant
  <2> QED BY <2>1, <2>2
<1>3. ASSUME NEW h \in RoomGrant, DeleteGrant(h) PROVE RevokedForGood(g)'
  <2>1. h # g /\ patching' = patching
    BY <1>3 DEF DeleteGrant, adminVars
  <2>2. db'.roomGrant[g] = db.roomGrant[g]
    BY <1>3, <1>a, <2>1 DEF DeleteGrant, Database
  <2> QED BY <2>1, <2>2
<1>4. ASSUME NEW x \in patching, SaveGrant(x) PROVE RevokedForGood(g)'
  <2>1. x.grant # g /\ patching' = patching \ {x}
    BY <1>4 DEF SaveGrant
  <2>2. db'.roomGrant[g] = db.roomGrant[g]
    BY <1>4, <1>a, <2>1 DEF SaveGrant, Database
  <2> QED BY <2>1, <2>2
<1>5. ASSUME NEW j \in Project, EraseProject(j) PROVE RevokedForGood(g)'
  <2>1. patching' = patching
    BY <1>5 DEF EraseProject, adminVars
  <2>2. db'.roomGrant[g] \in {db.roomGrant[g], Gone(db.roomGrant[g])}
    BY <1>5 DEF EraseProject
  <2>3. Gone(db.roomGrant[g]).state = "deleted"
    BY <1>a DEF Gone, GrantRow
  <2> QED BY <1>a, <2>1, <2>2, <2>3
<1>6. CASE ~(AdminStep \/ CommitStep)
  BY <1>6, OthersLeaveTables
<1> QED BY <1>1, <1>2, <1>3, <1>4, <1>5, <1>6, OthersLeaveGrants

\* A revoked room grant never stands again, whatever administrators do and in
\* whichever order, once no patch that had read it is in flight.
THEOREM RevocationsAreFinal == Spec => RevocationIsFinal
<1>1. Init => TypeOK
  BY InitType
<1>2. TypeOK /\ [Next]_vars => TypeOK'
  BY NextType
<1>3. TypeOK /\ [Next]_vars
        => [\A g \in RoomGrant : RevokedForGood(g) => RevokedForGood(g)']_vars
  BY RevokedStep
<1> QED BY <1>1, <1>2, <1>3, PTL DEF Spec, RevocationIsFinal

-----------------------------------------------------------------------------
(* Erasure.  That an erased project has no live actor is inductive only    *)
(* with the fact that none of its actors is about to be written.           *)

ErasedInv ==
  \A a \in Actor : db.project[ActorProject[a]] = "gone" =>
    db.actor[a].state # "live" /\ ActorFree(a)

LEMMA InitErased == Init => ErasedInv
BY InitialAssumption DEF Init, ErasedInv, ActorFree, WellFormed, NoOrphans

\* Only the endpoints of actors and projects touch what ErasedInv speaks of.
LEMMA OthersLeaveActors ==
  ASSUME TablesOK, AdminStep \/ CommitStep,
         \A a \in Actor : /\ ~CreateActor(a) /\ ~UpdateActor(a) /\ ~DeleteActor(a)
                          /\ \A s \in Scope : ~AssertScope(a, s) /\ ~WriteScope(a, s),
         \A j \in Project : ~DeleteProject(j) /\ ~EraseProject(j)
  PROVE  assigning' = assigning /\ db'.actor = db.actor /\ db'.project = db.project
<1>1. CASE AdminStep
  BY <1>1 DEF AdminStep, TablesOK, Database, adminVars, CreateScope, UpdateScope,
     CountActors, CreateApp, UpdateApp, DeleteApp, CreateRoom, UpdateRoom,
     DeleteRoom, CreateGrant, PatchGrant, DeleteGrant
<1>2. CASE CommitStep
  BY <1>2 DEF CommitStep, TablesOK, Database, RemoveScope, SaveGrant
<1> QED BY <1>1, <1>2

LEMMA NextErased == TypeOK /\ ErasedInv /\ [Next]_vars => ErasedInv'
<1> SUFFICES ASSUME TypeOK, ErasedInv, [Next]_vars PROVE ErasedInv'
  OBVIOUS
<1> USE DEF TypeOK, TablesOK
<1>a. /\ db \in Database /\ ActorProject \in [Actor -> Project]
      /\ db.actor \in [Actor -> ActorRow]
      /\ db.project \in [Project -> {"live", "deleted", "gone"}]
  BY KeysAssumption DEF Database
<1>1. ASSUME NEW b \in Actor, CreateActor(b) \/ UpdateActor(b) \/ DeleteActor(b)
      PROVE  ErasedInv'
  <2>1. /\ db.project[ActorProject[b]] # "gone"
        /\ assigning' = assigning
        /\ \E r : db' = [db EXCEPT !.actor[b] = r]
    BY <1>1 DEF ErasedInv, CreateActor, UpdateActor, DeleteActor, adminVars
  <2>2. PICK r : db' = [db EXCEPT !.actor[b] = r]
    BY <2>1
  <2>3. /\ db'.project = db.project
        /\ \A a \in Actor \ {b} : db'.actor[a] = db.actor[a]
    BY <1>a, <2>2 DEF Database
  <2> QED BY <2>1, <2>3 DEF ErasedInv, ActorFree
<1>2. ASSUME NEW b \in Actor, NEW s \in Scope, AssertScope(b, s) PROVE ErasedInv'
  <2>1. /\ db.project[ActorProject[b]] # "gone"
        /\ db' = db /\ assigning' = assigning \cup {<<b, s>>}
    BY <1>2 DEF AssertScope
  <2> QED BY <2>1 DEF ErasedInv, ActorFree
<1>3. ASSUME NEW b \in Actor, NEW s \in Scope, WriteScope(b, s) PROVE ErasedInv'
  <2>1. /\ <<b, s>> \in assigning /\ assigning' = assigning \ {<<b, s>>}
        /\ \E r : db' = [db EXCEPT !.actor[b] = r]
    BY <1>3 DEF WriteScope
  <2>2. db.project[ActorProject[b]] # "gone"
    BY <2>1 DEF ErasedInv, ActorFree
  <2>3. PICK r : db' = [db EXCEPT !.actor[b] = r]
    BY <2>1
  <2>4. /\ db'.project = db.project
        /\ \A a \in Actor \ {b} : db'.actor[a] = db.actor[a]
    BY <1>a, <2>3 DEF Database
  <2> QED BY <2>1, <2>2, <2>4 DEF ErasedInv, ActorFree
<1>4. ASSUME NEW j \in Project, DeleteProject(j) PROVE ErasedInv'
  <2>1. assigning' = assigning /\ db'.actor = db.actor
    BY <1>4, <1>a DEF DeleteProject, adminVars, Database
  <2>2. \A k \in Project : db'.project[k] = "gone" => db.project[k] = "gone"
    BY <1>4, <1>a DEF DeleteProject, Database
  <2> QED BY <1>a, <2>1, <2>2 DEF ErasedInv, ActorFree
<1>5. ASSUME NEW j \in Project, EraseProject(j) PROVE ErasedInv'
  <2>1. /\ assigning' = assigning
        /\ \A a \in Actor : ActorProject[a] = j => ActorFree(a)
    BY <1>5 DEF EraseProject, adminVars
  <2>2. /\ db'.project = [db.project EXCEPT ![j] = "gone"]
        /\ \A a \in Actor : db'.actor[a] = IF ActorProject[a] = j
                                           THEN Gone(db.actor[a]) ELSE db.actor[a]
    BY <1>5 DEF EraseProject
  <2>3. \A a \in Actor : Gone(db.actor[a]).state # "live"
    BY <1>a DEF Gone, ActorRow
  <2> QED BY <1>a, <2>1, <2>2, <2>3 DEF ErasedInv, ActorFree
<1>6. CASE ~(AdminStep \/ CommitStep)
  BY <1>6, OthersLeaveTables DEF ErasedInv, ActorFree
<1> QED
  BY <1>1, <1>2, <1>3, <1>4, <1>5, <1>6, OthersLeaveActors DEF ErasedInv, ActorFree

\* Once a project is erased neither resolution gives its actors anything, in
\* any database that administration of any number of tenants can reach.
THEOREM ErasureEndsAccess == Spec => []ErasedGivesNothing
<1>1. ASSUME ErasedInv PROVE ErasedGivesNothing
  <2> SUFFICES ASSUME NEW a \in Actor, db.project[ActorProject[a]] = "gone"
               PROVE  Entitled(a) = {}
    BY DEF ErasedGivesNothing
  <2>1. ~UsableActor(db.actor[a], now)
    BY <1>1 DEF ErasedInv, UsableActor, Serves
  <2>2. /\ \A order : SessionTopics(db, a, now, order) = {}
        /\ \A r, order : CheckTopics(db, a, now, r, order) = {}
    BY <2>1 DEF SessionTopics, CheckTopics
  <2> QED BY <2>2 DEF Entitled, Held
<1>2. Init => TypeOK /\ ErasedInv
  BY InitType, InitErased
<1>3. TypeOK /\ ErasedInv /\ [Next]_vars => (TypeOK /\ ErasedInv)'
  BY NextType, NextErased
<1> QED BY <1>1, <1>2, <1>3, PTL DEF Spec

-----------------------------------------------------------------------------
(* Private rooms.  A room loses its last grant row to a deletion only: a   *)
(* row that is written is written live, by patches in flight too.          *)

PatchesLive == \A x \in patching : x.as.state = "live"

LEMMA GrantsEndDeleted ==
  ASSUME TypeOK, PatchesLive, [Next]_vars
  PROVE  /\ PatchesLive'
         /\ \A g \in RoomGrant : db.roomGrant[g].state = "live"
                                   => db'.roomGrant[g].state \in {"live", "deleted"}
<1> USE DEF PatchesLive, TypeOK, TablesOK
<1> DEFINE Ends == \A g \in RoomGrant : db.roomGrant[g].state = "live"
                      => db'.roomGrant[g].state \in {"live", "deleted"}
<1>a. /\ db \in Database /\ db.roomGrant \in [RoomGrant -> GrantRow]
      /\ \A r \in GrantRow : Deleted(r).state = "deleted" /\ Gone(r).state \in {r.state, "deleted"}
  BY DEF Database, Deleted, Gone, GrantRow
<1>1. ASSUME NEW h \in RoomGrant, CreateGrant(h) PROVE PatchesLive' /\ Ends
  <2>1. \E r : r.state = "live" /\ db' = [db EXCEPT !.roomGrant[h] = r]
    BY <1>1 DEF CreateGrant
  <2> QED BY <1>1, <1>a, <2>1 DEF CreateGrant, adminVars, Database
<1>2. ASSUME NEW h \in RoomGrant, PatchGrant(h) PROVE PatchesLive' /\ Ends
  <2>1. \E r : r.state = "live" /\ patching' = patching \cup {[grant |-> h, as |-> r]}
    BY <1>2 DEF PatchGrant
  <2> QED BY <1>2, <2>1 DEF PatchGrant
<1>3. ASSUME NEW h \in RoomGrant, DeleteGrant(h) PROVE PatchesLive' /\ Ends
  BY <1>3, <1>a DEF DeleteGrant, adminVars, Database
<1>4. ASSUME NEW x \in patching, SaveGrant(x) PROVE PatchesLive' /\ Ends
  <2>1. x.as.state = "live" /\ (db' = db \/ db' = [db EXCEPT !.roomGrant[x.grant] = x.as])
    BY <1>4 DEF SaveGrant
  <2> QED BY <1>4, <1>a, <2>1 DEF SaveGrant, Database
<1>5. ASSUME NEW j \in Project, EraseProject(j) PROVE PatchesLive' /\ Ends
  <2>1. \A g \in RoomGrant : db'.roomGrant[g] \in {db.roomGrant[g], Gone(db.roomGrant[g])}
    BY <1>5 DEF EraseProject
  <2>2. patching' = patching
    BY <1>5 DEF EraseProject, adminVars
  <2> QED BY <1>a, <2>1, <2>2
<1>6. CASE ~(AdminStep \/ CommitStep)
  BY <1>6, OthersLeaveTables
<1> QED BY <1>1, <1>2, <1>3, <1>4, <1>5, <1>6, OthersLeaveGrants

\* Disabling grants never opens a private room, for any number of grants,
\* actors and patches in flight: one that opens has lost a row to a deletion.
THEOREM DeletionAloneReopens == Spec => OnlyDeletionReopens
<1>1. Init => TypeOK /\ PatchesLive
  BY InitType DEF Init, PatchesLive
<1>2. TypeOK /\ PatchesLive /\ [Next]_vars => (TypeOK /\ PatchesLive)'
  BY NextType, GrantsEndDeleted
<1>3. TypeOK /\ PatchesLive /\ [Next]_vars =>
        [\A a \in Actor, r \in Room :
           /\ ~CanEnter(db, a, r, now) /\ CanEnter(db', a, r, now')
           /\ Deciding(db', a, r) = {}
           => \E g \in RoomGrant : /\ GrantRoom[g] = r
                                   /\ db.roomGrant[g].state = "live"
                                   /\ db'.roomGrant[g].state = "deleted"]_vars
  <2> SUFFICES ASSUME TypeOK, PatchesLive, [Next]_vars, NEW a \in Actor, NEW r \in Room,
                      ~CanEnter(db, a, r, now), CanEnter(db', a, r, now'),
                      Deciding(db', a, r) = {}
               PROVE  \E g \in RoomGrant : /\ GrantRoom[g] = r
                                           /\ db.roomGrant[g].state = "live"
                                           /\ db'.roomGrant[g].state = "deleted"
    OBVIOUS
  <2>1. PICK g \in RoomGrant : GrantRoom[g] = r /\ db.roomGrant[g].state = "live"
    BY DEF CanEnter, Private, GrantsOn
  <2>2. GrantsOn(db', r) = {}
    BY DEF CanEnter, Private
  <2>3. db'.roomGrant[g].state # "live"
    BY <2>1, <2>2 DEF GrantsOn
  <2> QED BY <2>1, <2>3, GrantsEndDeleted
<1> QED BY <1>1, <1>2, <1>3, PTL DEF Spec, OnlyDeletionReopens

-----------------------------------------------------------------------------
(* Time.                                                                   *)

\* Only the clock moves the clock.
LEMMA ClockStep ==
  ASSUME TypeOK, [Next]_vars, now' # now
  PROVE  db' = db /\ now \in Int /\ now' = now + 1
<1>1. ASSUME NEW q \in Slot, Start(q) \/ Continue(q) PROVE now' = now
  BY <1>1, RequestLeavesTables DEF tables
<1>2. ASSUME AdminStep PROVE now' = now
  <2>1. \E e \in {"actor", "scope", "app", "room", "grant", "project"} : Write(e)
    BY <1>2 DEF AdminStep, CreateActor, UpdateActor, DeleteActor, AssertScope,
       CreateScope, UpdateScope, CountActors, CreateApp, UpdateApp, DeleteApp,
       CreateRoom, UpdateRoom, DeleteRoom, CreateGrant, PatchGrant, DeleteGrant,
       DeleteProject, EraseProject
  <2> QED BY <2>1 DEF Write
<1>3. ASSUME CommitStep PROVE now' = now
  BY <1>3 DEF CommitStep, WriteScope, RemoveScope, SaveGrant
<1>4. ASSUME NEW a \in Actor, Disconnect(a) PROVE now' = now
  BY <1>4 DEF Disconnect, tables
<1>5. Tick
  BY <1>1, <1>2, <1>3, <1>4 DEF Next, vars
<1> QED BY <1>5, InputAssumption DEF Tick, TypeOK, TablesOK

\* What has not expired later has not expired now.
LEMMA ExpiryKept ==
  ASSUME NEW e \in Expiry, NEW t \in Int, ~Expired(e, t + 1)
  PROVE  ~Expired(e, t)
BY DEF Expired, Expiry

\* A topic of a restricted app that an actor may be told later, it may be told
\* now.
LEMMA HeldEarlier ==
  ASSUME NEW d \in Database, NEW a \in Actor, NEW t \in Int,
         NEW x \in Held(d, a, t + 1), d.app[RoomApp[x.room]].accessMode = "restricted"
  PROVE  x \in Held(d, a, t)
<1> DEFINE s == d.actor[a].scope
           later == FullAccess(d, a, t + 1)
           sooner == FullAccess(d, a, t)
<1>1. PICK order \in RowOrders : x \in SessionTopics(d, a, t + 1, order)
  BY DEF Held
<1> DEFINE pick == SessionPick(d, a, order)
<1>2. /\ UsableActor(d.actor[a], t + 1) /\ d.project[ActorProject[a]] = "live"
      /\ ScopeHonoured(d, a, s)
      /\ x \in TopicsOf(d, a, t + 1, later, RoomsOf(d, later), s, pick)
  BY <1>1 DEF SessionTopics
<1>3. UsableActor(d.actor[a], t)
  <2>1. d.actor[a].expiresAt \in Expiry
    BY RowKinds DEF ActorRow
  <2> QED BY <1>2, <2>1, ExpiryKept DEF UsableActor
<1>4. PICK e \in later, r \in RoomsOf(d, later) :
        RoomApp[r] = e.app /\ x \in RoomTopics(d, a, t + 1, e, r, s, pick)
  BY <1>2 DEF TopicsOf
<1>5. x.room = r /\ r \in Room /\ Serves(d.room[r])
  BY <1>4, RoomTopicsForm DEF RoomsOf
<1>6. e \in sooner
  <2>1. e \notin OpenAccess(d, a, ExplicitAccess(d, a, t + 1))
    BY <1>4, <1>5, EntryType DEF OpenAccess
  <2>2. PICK p \in App : /\ HoldsApp(d, a, p, t + 1) /\ Serves(d.app[p])
                         /\ e = GrantedEntry(AppEntry(d, p), d.appGrant[a][p])
    BY <1>4, <2>1 DEF FullAccess, ExplicitAccess
  <2>3. d.appGrant[a][p].expiresAt \in Expiry
    BY RowKinds DEF GrantRow
  <2>4. HoldsApp(d, a, p, t)
    BY <2>2, <2>3, ExpiryKept DEF HoldsApp
  <2> QED BY <2>2, <2>4 DEF FullAccess, ExplicitAccess
<1>7. x \in RoomTopics(d, a, t, e, r, s, pick)
  <2>1. CASE ~Private(d, r)
    BY <1>4, <2>1 DEF RoomTopics, Admitted
  <2>2. CASE Private(d, r)
    <3>1. Deciding(d, a, r) # {} /\ ~Expired(d.roomGrant[pick[r]].expiresAt, t + 1)
      BY <1>4, <2>2 DEF RoomTopics, Admitted
    <3>2. pick[r] \in RoomGrant
      BY <1>5, <3>1, PicksLawful, DecidingKind DEF Lawful
    <3>3. d.roomGrant[pick[r]].expiresAt \in Expiry
      BY <3>2, RowKinds DEF GrantRow
    <3>4. ~Expired(d.roomGrant[pick[r]].expiresAt, t)
      BY <3>1, <3>3, ExpiryKept
    <3> QED BY <1>4, <2>2, <3>1, <3>4 DEF RoomTopics, Admitted
  <2> QED BY <2>1, <2>2
<1>8. r \in RoomsOf(d, sooner)
  BY <1>4, <1>5, <1>6 DEF RoomsOf
<1>9. x \in TopicsOf(d, a, t, sooner, RoomsOf(d, sooner), s, pick)
  BY <1>4, <1>6, <1>7, <1>8 DEF TopicsOf
<1>10. x \in SessionTopics(d, a, t, order)
  BY <1>2, <1>3, <1>9 DEF SessionTopics
<1> QED BY <1>10 DEF Held

\* Below restricted apps the passing of time adds no topic, for any expiries
\* at any level and however the grants of actor, app and room overlap.
THEOREM TimeTakesAway == Spec => TimeNeverWidens
<1>1. Init => TypeOK
  BY InitType
<1>2. TypeOK /\ [Next]_vars => TypeOK'
  BY NextType
<1>3. TypeOK /\ [Next]_vars =>
        [now' # now =>
           \A a \in Actor : \A x \in Held(db', a, now') :
             db.app[RoomApp[x.room]].accessMode = "restricted"
               => x \in Held(db, a, now)]_vars
  <2> SUFFICES ASSUME TypeOK, [Next]_vars, now' # now, NEW a \in Actor,
                      NEW x \in Held(db', a, now'),
                      db.app[RoomApp[x.room]].accessMode = "restricted"
               PROVE  x \in Held(db, a, now)
    OBVIOUS
  <2>1. db' = db /\ now \in Int /\ now' = now + 1 /\ db \in Database
    BY ClockStep DEF TypeOK, TablesOK
  <2> QED BY <2>1, HeldEarlier
<1> QED BY <1>1, <1>2, <1>3, PTL DEF Spec, TimeNeverWidens

-----------------------------------------------------------------------------
(* References.  A grant names an actor that exists or existed, and an actor *)
(* a scope of its own project; both are inductive only with what is about   *)
(* to be written.                                                           *)

PatchesKnown == \A x \in patching : db.roomGrant[x.grant].state # "absent"
AssignedInTenant == \A x \in assigning : ScopeProject[x[2]] = ActorProject[x[1]]
RefsInv == /\ GrantsNameActors(db) /\ PatchesKnown
           /\ ScopesInTenant(db) /\ AssignedInTenant

ActorsRemain ==
  \A a \in Actor : db.actor[a].state # "absent" => db'.actor[a].state # "absent"

LEMMA ActorRefs ==
  ASSUME TypeOK, ScopesInTenant(db), AssignedInTenant, [Next]_vars
  PROVE  ScopesInTenant(db') /\ AssignedInTenant' /\ ActorsRemain
<1> DEFINE Goal == ScopesInTenant(db') /\ AssignedInTenant' /\ ActorsRemain
<1> USE DEF ScopesInTenant, AssignedInTenant, ActorsRemain, TypeOK, TablesOK
<1>a. db \in Database /\ db.actor \in [Actor -> ActorRow]
  BY DEF Database
<1>b. \A r \in ActorRow : /\ Gone(r).scope = r.scope /\ Deleted(r).scope = r.scope
                          /\ Gone(r).state \in {r.state, "deleted"}
                          /\ Deleted(r).state = "deleted"
  BY DEF Gone, Deleted, ActorRow
<1>c. ASSUME NEW b \in Actor, NEW r, db' = [db EXCEPT !.actor[b] = r], r.state # "absent",
             r.scope # NoScope => ScopeProject[r.scope] = ActorProject[b],
             assigning' \subseteq assigning
      PROVE  Goal
  <2>1. db'.actor = [db.actor EXCEPT ![b] = r]
    BY <1>a, <1>c DEF Database
  <2>2. \A a \in Actor : db'.actor[a] = IF a = b THEN r ELSE db.actor[a]
    BY <1>a, <2>1
  <2> QED BY <1>c, <2>2
<1>1. ASSUME NEW b \in Actor, CreateActor(b) \/ UpdateActor(b) \/ DeleteActor(b)
      PROVE  Goal
  <2>1. assigning' = assigning
    BY <1>1 DEF CreateActor, UpdateActor, DeleteActor, adminVars
  <2>2. CASE CreateActor(b)
    <3>1. PICK e : db' = [db EXCEPT !.actor[b] = [state |-> "live", status |-> "active",
                                                  expiresAt |-> e, scope |-> NoScope]]
      BY <2>2 DEF CreateActor
    <3> DEFINE r == [state |-> "live", status |-> "active", expiresAt |-> e, scope |-> NoScope]
    <3>2. r.state = "live" /\ r.scope = NoScope /\ db' = [db EXCEPT !.actor[b] = r]
      BY <3>1
    <3> HIDE DEF r
    <3> QED BY <1>c, <2>1, <3>2
  <2>3. CASE UpdateActor(b)
    <3>1. PICK st \in {"active", "disabled"}, e \in Expiries \cup {db.actor[b].expiresAt},
               s \in {NoScope, db.actor[b].scope} :
            db' = [db EXCEPT !.actor[b] = [state |-> "live", status |-> st,
                                           expiresAt |-> e, scope |-> s]]
      BY <2>3 DEF UpdateActor
    <3> DEFINE r == [state |-> "live", status |-> st, expiresAt |-> e, scope |-> s]
    <3>2. r.state = "live" /\ r.scope = s /\ db' = [db EXCEPT !.actor[b] = r]
      BY <3>1
    <3> HIDE DEF r
    <3> QED BY <1>c, <2>1, <3>2
  <2>4. CASE DeleteActor(b)
    <3>1. db' = [db EXCEPT !.actor[b] = Deleted(db.actor[b])]
      BY <2>4, <1>a DEF DeleteActor, Database
    <3> QED BY <1>a, <1>b, <1>c, <2>1, <3>1
  <2> QED BY <1>1, <2>2, <2>3, <2>4
<1>2. ASSUME NEW b \in Actor, NEW s \in Scope, AssertScope(b, s) PROVE Goal
  BY <1>2 DEF AssertScope
<1>3. ASSUME NEW b \in Actor, NEW s \in Scope, WriteScope(b, s) PROVE Goal
  <2>1. /\ <<b, s>> \in assigning /\ assigning' \subseteq assigning
        /\ db' = [db EXCEPT !.actor[b] =
                    IF db.actor[b].state = "live" THEN [db.actor[b] EXCEPT !.scope = s]
                    ELSE [state |-> "live", status |-> "active",
                          expiresAt |-> Never, scope |-> s]]
    BY <1>3, <1>a DEF WriteScope, Database
  <2>2. PICK r : /\ db' = [db EXCEPT !.actor[b] = r] /\ r.state = "live" /\ r.scope = s
    <3> DEFINE r == IF db.actor[b].state = "live" THEN [db.actor[b] EXCEPT !.scope = s]
                    ELSE [state |-> "live", status |-> "active",
                          expiresAt |-> Never, scope |-> s]
    <3>1. db.actor[b] \in ActorRow
      BY <1>a
    <3>2. r.state = "live" /\ r.scope = s
      BY <3>1 DEF ActorRow
    <3> HIDE DEF r
    <3>3. db' = [db EXCEPT !.actor[b] = r]
      BY <2>1 DEF r
    <3> QED BY <3>2, <3>3
  <2>3. ScopeProject[s] = ActorProject[b]
    BY <2>1
  <2> QED BY <1>c, <2>1, <2>2, <2>3
<1>4. ASSUME NEW j \in Project, EraseProject(j) PROVE Goal
  <2>1. /\ assigning' = assigning
        /\ \A a \in Actor : db'.actor[a] \in {db.actor[a], Gone(db.actor[a])}
    BY <1>4 DEF EraseProject, adminVars
  <2> QED BY <1>a, <1>b, <2>1
<1>5. ASSUME NEW j \in Project, DeleteProject(j) PROVE Goal
  <2>1. assigning' = assigning /\ db'.actor = db.actor
    BY <1>5, <1>a DEF DeleteProject, adminVars, Database
  <2> QED BY <2>1
<1>6. CASE ~(AdminStep \/ CommitStep)
  BY <1>6, OthersLeaveTables
<1> QED BY <1>1, <1>2, <1>3, <1>4, <1>5, <1>6, OthersLeaveActors

LEMMA GrantRefs ==
  ASSUME TypeOK, PatchesLive, GrantsNameActors(db), PatchesKnown, ActorsRemain, [Next]_vars
  PROVE  GrantsNameActors(db') /\ PatchesKnown'
<1> DEFINE Goal == GrantsNameActors(db') /\ PatchesKnown'
<1> USE DEF GrantsNameActors, PatchesKnown, ActorsRemain, TypeOK, TablesOK
<1>a. db \in Database /\ db.roomGrant \in [RoomGrant -> GrantRow]
  BY DEF Database
<1>b. \A r \in GrantRow : /\ Gone(r).state = "absent" <=> r.state = "absent"
                          /\ Deleted(r).state = "deleted"
  BY DEF Gone, Deleted, GrantRow, RowState
<1>c. \A x \in patching : x.grant \in RoomGrant
  OBVIOUS
<1>d. ASSUME NEW h \in RoomGrant, NEW r, db' = [db EXCEPT !.roomGrant[h] = r],
             r.state # "absent", patching' \subseteq patching,
             GrantTarget[h] \in Actor => db.actor[GrantTarget[h]].state # "absent"
      PROVE  Goal
  <2>1. /\ db'.roomGrant = [db.roomGrant EXCEPT ![h] = r] /\ db'.actor = db.actor
    BY <1>a, <1>d DEF Database
  <2>2. \A g \in RoomGrant : db'.roomGrant[g] = IF g = h THEN r ELSE db.roomGrant[g]
    BY <1>a, <2>1
  <2> QED BY <1>c, <1>d, <2>1, <2>2
<1>1. ASSUME NEW h \in RoomGrant, CreateGrant(h) PROVE Goal
  <2>1. PICK r : r.state = "live" /\ db' = [db EXCEPT !.roomGrant[h] = r]
    BY <1>1 DEF CreateGrant
  <2>2. /\ patching' = patching
        /\ GrantTarget[h] \in Actor => db.actor[GrantTarget[h]].state # "absent"
    BY <1>1 DEF CreateGrant, adminVars
  <2> QED BY <1>d, <2>1, <2>2
<1>2. ASSUME NEW h \in RoomGrant, PatchGrant(h) PROVE Goal
  <2>1. db' = db /\ db.roomGrant[h].state = "live"
    BY <1>2 DEF PatchGrant
  <2>2. \E r : patching' = patching \cup {[grant |-> h, as |-> r]}
    BY <1>2 DEF PatchGrant
  <2> QED BY <2>1, <2>2
<1>3. ASSUME NEW h \in RoomGrant, DeleteGrant(h) PROVE Goal
  <2>1. /\ db' = [db EXCEPT !.roomGrant[h] = Deleted(db.roomGrant[h])]
        /\ db.roomGrant[h].state = "live" /\ patching' = patching
    BY <1>3, <1>a DEF DeleteGrant, adminVars, Database
  <2>2. Deleted(db.roomGrant[h]).state # "absent"
    BY <1>a, <1>b
  <2> QED BY <1>d, <2>1, <2>2
<1>4. ASSUME NEW x \in patching, SaveGrant(x), x.as.state = "live" PROVE Goal
  <2>1. /\ patching' \subseteq patching /\ x.grant \in RoomGrant
        /\ db' = db \/ db' = [db EXCEPT !.roomGrant[x.grant] = x.as]
    BY <1>4 DEF SaveGrant
  <2>2. CASE db' = db
    BY <2>1, <2>2
  <2>3. CASE db' = [db EXCEPT !.roomGrant[x.grant] = x.as]
    BY <1>4, <1>d, <2>1, <2>3
  <2> QED BY <2>1, <2>2, <2>3
<1>5. ASSUME NEW j \in Project, EraseProject(j) PROVE Goal
  <2>1. /\ patching' = patching
        /\ \A g \in RoomGrant : db'.roomGrant[g] \in {db.roomGrant[g], Gone(db.roomGrant[g])}
    BY <1>5 DEF EraseProject, adminVars
  <2>2. \A g \in RoomGrant : db'.roomGrant[g].state = "absent" <=> db.roomGrant[g].state = "absent"
    BY <1>a, <1>b, <2>1
  <2> QED BY <1>c, <2>1, <2>2
<1>6. CASE ~(AdminStep \/ CommitStep)
  BY <1>6, OthersLeaveTables
<1>7. ASSUME patching' = patching, db'.roomGrant = db.roomGrant PROVE Goal
  BY <1>7
<1> QED BY <1>1, <1>2, <1>3, <1>4, <1>5, <1>6, <1>7, OthersLeaveGrants DEF PatchesLive

LEMMA InitRefs == Init => RefsInv
BY InitialAssumption DEF Init, RefsInv, WellFormed, PatchesKnown, AssignedInTenant

LEMMA NextRefs ==
  TypeOK /\ PatchesLive /\ RefsInv /\ [Next]_vars => PatchesLive' /\ RefsInv'
BY GrantsEndDeleted, ActorRefs, GrantRefs DEF RefsInv

\* What is assumed of the tables at the start holds of them for good: no grant
\* and no scope crosses projects, no grant names an actor that never was, and
\* an erased project has no live actor.  A scope that was asserted and a grant
\* that was patched in memory are written later, whatever came in between.
THEOREM ReferencesKept == Spec => []WellFormed(db)
<1> DEFINE Inv == TypeOK /\ TenantInv /\ ErasedInv /\ PatchesLive /\ RefsInv
<1>1. Init => Inv
  BY InitType, InitTenant, InitErased, InitRefs DEF Init, PatchesLive
<1>2. Inv /\ [Next]_vars => Inv'
  BY NextType, NextTenant, NextErased, NextRefs
<1>3. Inv => WellFormed(db)
  BY DEF TenantInv, ErasedInv, RefsInv, WellFormed, NoOrphans
<1> QED BY <1>1, <1>2, <1>3, PTL DEF Spec
=============================================================================
