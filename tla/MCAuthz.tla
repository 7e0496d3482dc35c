------------------------------ MODULE MCAuthz -------------------------------
(***************************************************************************)
(* A small world for Authz.  Every cfg of this module takes a part of it:  *)
(*                                                                         *)
(*   project j1: actor a1 (a device), scopes s1 and s2,                    *)
(*               app p1 with rooms r1 and r2, app p2 with room r3          *)
(*   project j2: actor c1, scope z1, app q1 with room x1                   *)
(*                                                                         *)
(* Grants g1 and g3 name a1 on r1 and r2, g4 names it on r1 a second time, *)
(* g2 names its type and g5 the other project's actor on r1.               *)
(***************************************************************************)
EXTENDS Authz

MCActorProject == [a \in Actor |-> IF a = "c1" THEN "j2" ELSE "j1"]
MCTypeOf == [a \in Actor |-> "device"]
MCScopeProject == [s \in Scope |-> IF s = "z1" THEN "j2" ELSE "j1"]
MCAppProject == [p \in App |-> IF p = "q1" THEN "j2" ELSE "j1"]
MCRoomApp == [r \in Room |-> CASE r = "x1" -> "q1" [] r = "r3" -> "p2" [] OTHER -> "p1"]
MCGrantRoom == [g \in RoomGrant |-> IF g = "g3" THEN "r2" ELSE "r1"]
MCGrantTarget == [g \in RoomGrant |-> CASE g = "g2" -> "device" [] g = "g5" -> "c1" [] OTHER -> "a1"]

\* A slot is named after the kind of request it carries.
MCKindOf == [q \in Slot |-> q]
MCActorOf == [q \in Slot |-> "a1"]
MCAskRoom == [q \in Slot |-> "r1"]
MCAskUnscoped == [q \in Slot |-> NoScope]
MCAskScoped == [q \in Slot |-> "s1"]

MCInherit == {Inherit}
MCTopicLists == {Inherit, {"n1"}}
MCExpiries == {0, Never}
MCNever == {Never}

-----------------------------------------------------------------------------
NoGrant == [state |-> "absent", isActive |-> FALSE, expiresAt |-> Never,
            permission |-> "pubSub", topics |-> Inherit]
Grant(e, n, list) == [state |-> "live", isActive |-> TRUE, expiresAt |-> e,
                      permission |-> n, topics |-> list]

\* Every app, room and scope in place, a1 unscoped; the app grants are `held`
\* and the room grants `granted`.
World(mode, held, granted) ==
  [project |-> [j \in Project |-> "live"],
   actor |-> [a \in Actor |-> [state |-> "live", status |-> "active",
                               expiresAt |-> Never, scope |-> NoScope]],
   scope |-> [s \in Scope |-> [state |-> "live", isActive |-> TRUE]],
   app |-> [p \in App |-> [state |-> "live", status |-> "active",
                           accessMode |-> mode, topics |-> Topic]],
   appGrant |-> [a \in Actor |-> [p \in App |->
                   IF AppProject[p] = ActorProject[a] THEN held ELSE NoGrant]],
   room |-> [r \in Room |-> [state |-> "live", status |-> "active"]],
   roomGrant |-> granted]

NoRoomGrants == [g \in RoomGrant |-> NoGrant]
One(g, grant) == [x \in RoomGrant |-> IF x = g THEN grant ELSE NoGrant]

\* r1 public or private to one grantee; p1 open, or held with a narrower grant
\* that may expire.
MCGrantTables ==
  { World(m.mode, m.held, granted) :
      m \in { [mode |-> "open", held |-> NoGrant],
              [mode |-> "restricted", held |-> Grant(0, "publish", {"n1"})],
              [mode |-> "restricted", held |-> Grant(Never, "publish", Inherit)] },
      granted \in { NoRoomGrants,
                    One("g1", Grant(0, "subscribe", {"n1"})),
                    One("g2", Grant(Never, "pubSub", Inherit)) } }

\* The actor in s1.
InScope(world) ==
  [world EXCEPT !.actor = [a \in Actor |->
     [@[a] EXCEPT !.scope = IF ActorProject[a] = "j1" THEN "s1" ELSE NoScope]]]

\* The same as MCGrantTables, or nothing provisioned yet but the project.
MCProvisionTables == MCGrantTables \cup
  { [World("open", NoGrant, NoRoomGrants) EXCEPT
       !.actor = [a \in Actor |-> NullRow],
       !.scope = [s \in Scope |-> [state |-> "absent", isActive |-> FALSE]],
       !.app = [p \in App |-> [state |-> "absent", status |-> "active",
                               accessMode |-> "open", topics |-> Inherit]],
       !.room = [r \in Room |-> [state |-> "absent", status |-> "active"]]] }

\* Open apps, the actor unscoped or in s1.
MCScopeTables ==
  { World("open", NoGrant, NoRoomGrants),
    InScope(World("open", NoGrant, NoRoomGrants)) }

\* A restricted app that the actor holds, one of its rooms private to it: check
\* and validate agree here, and one write parts them.
MCAgreeingTables ==
  { World("restricted", Grant(Never, "subscribe", {"n1"}),
          One("g1", Grant(Never, "pubSub", Inherit))) }
=============================================================================
