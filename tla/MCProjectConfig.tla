-------------------------- MODULE MCProjectConfig ---------------------------
(***************************************************************************)
(* Project j1 of MCAuthz with a lobby b1 in app p1, a second actor of the  *)
(* same type, and actor c1 of project j2.  Room r4 does not exist yet; its  *)
(* slug will be outside the pattern of the document.                        *)
(***************************************************************************)
EXTENDS ProjectConfig, MCAuthz

MCLobbyApp == [l \in Lobby |-> "p1"]
MCLimits == { [connections |-> c, expiry |-> Unlimited] : c \in {-1, 0, 5, Unlimited} }
MCUnsynced == {Unsynced}

\* Below a restricted app that a2 holds, in scope s1, room r1 is private to
\* a1; or below an open app it is private, for a time, to their type; or
\* everything is open to actors that an overlap left bound to a deleted scope;
\* or only an actor of the other project, which has no use for it, may enter.
PrivateWorld ==
  [InScope(World("restricted", Grant(Never, "publish", Inherit),
                 One("g1", Grant(Never, "pubSub", Inherit))))
     EXCEPT !.appGrant["a1"]["p1"] = NoGrant]
MCConfigTables ==
  { [world EXCEPT !.room["r4"].state = "absent"] : world \in {
    PrivateWorld,
    World("open", NoGrant, One("g2", Grant(0, "pubSub", Inherit))),
    World("open", NoGrant, One("g5", Grant(Never, "pubSub", Inherit))),
    [InScope(World("open", NoGrant, NoRoomGrants)) EXCEPT !.scope["s1"].state = "deleted"] } }

\* A document that imports, and four an import refuses.
Written == [EmptyDoc EXCEPT !.app["p1"] = [@ EXCEPT !.state = "live", !.topics = {"n1"}],
                            !.room["r1"].state = "live",
                            !.lobby = {"b1"}, !.members = {<<"b1", "r1">>}]
MCHandWritten ==
  { Written,
    [Written EXCEPT !.usable = FALSE],
    [Written EXCEPT !.room["r1"].state = "absent"],
    [Written EXCEPT !.room["r4"].state = "live"],
    [Written EXCEPT !.actor["a1"] = [@ EXCEPT !.state = "live", !.scope = "s1"]] }
=============================================================================
