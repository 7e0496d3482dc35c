---------------------------- MODULE AuthzOneRead ----------------------------
(***************************************************************************)
(* What the handlers of Authz promise when nothing comes in between: the   *)
(* rules of AuthzRules, applied to the tables as they stand.               *)
(*                                                                         *)
(* AuthzRules states each resolution as one expression over the database;  *)
(* a handler reads one table per query and returns early in a dozen        *)
(* places.  A history variable remembers whether tables and clock have     *)
(* stood still since a request began.  Other requests may run meanwhile.   *)
(***************************************************************************)
EXTENDS Authz

VARIABLE still    \* [Slot -> BOOLEAN]

RecordStill ==
  still' = [q \in Slot |-> pc'[q] = "idle" \/ (still[q] /\ UNCHANGED <<db, now>>)]

OneReadSpec ==
  /\ Init /\ still = [q \in Slot |-> TRUE]
  /\ [][Next /\ RecordStill]_<<vars, still>>

-----------------------------------------------------------------------------
\* Nothing was written and no time passed since the request began, and a
\* connect did not take an older row from the cache.
Undisturbed(q) ==
  still[q] /\ (KindOf[q] = "connect" => row[q] = db.actor[ActorOf[q]])

\* Do actor, project and scope let the request through?  A check reads no
\* project; its pattern may name a scope.
Admissible(q) ==
  LET actor == db.actor[ActorOf[q]]
  IN /\ UsableActor(actor, now)
     /\ ScopeHonoured(db, ActorOf[q], actor.scope)
     /\ IF KindOf[q] = "check" THEN SegmentFits(q, actor.scope)
        ELSE db.project[ActorProject[ActorOf[q]]] = "live"

\* What the rules answer it.
Told(q, order) ==
  IF KindOf[q] = "check" THEN CheckTopics(db, ActorOf[q], now, AskRoom[q], order)
  ELSE SessionTopics(db, ActorOf[q], now, order)

\* validateActor, revalidateActor and checkRoomAccess compute the rules: an
\* undisturbed request answers what they give for the tables and some one order
\* of the grant rows, neither more nor less, and is refused only where they
\* refuse it.  Only a check is refused because the answer is empty.
AnswersAsOneRead ==
  \A q \in Slot : Undisturbed(q) =>
    /\ pc[q] = "answer" =>
         /\ Admissible(q)
         /\ \E order \in RowOrders : allowed[q] = Told(q, order)
    /\ pc[q] = "denied" /\ Admissible(q) =>
         /\ KindOf[q] = "check"
         /\ \E order \in RowOrders : Told(q, order) = {}
=============================================================================
