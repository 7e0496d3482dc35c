-------------------------- MODULE MCAuthzRequests --------------------------
(***************************************************************************)
(* Requests, with the history AuthzOneRead keeps of them, in the world of  *)
(* MCAuthz: an unscoped actor of an open app, and an actor in scope s1     *)
(* below a private room, both of its grants expiring.                      *)
(***************************************************************************)
EXTENDS MCAuthz, AuthzOneRead

MCRequestTables ==
  { World("open", NoGrant, NoRoomGrants),
    InScope(World("restricted", Grant(0, "publish", Inherit),
                  One("g2", Grant(0, "pubSub", Topic)))) }

MCAllTopics == {Topic}
=============================================================================
