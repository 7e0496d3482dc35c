---------------------------- MODULE Subscriptions ----------------------------
(***************************************************************************)
(* What recording an actor's subscriptions promises, whatever runs at the  *)
(* same time: a call takes effect once, in one instant between the moment  *)
(* it is made and the moment it is answered, on the one list there is.     *)
(***************************************************************************)
EXTENDS SubscriptionRequests

VARIABLES
  recorded,  \* the list
  waiting,   \* the request of each call until it takes effect
  answer     \* the list each restore was answered with

vars == <<recorded, waiting, answer>>

Init ==
  /\ recorded \in Topics
  /\ waiting = [q \in Slot |-> {}]
  /\ answer = [q \in Slot |-> Nothing]

Ask(q) ==
  /\ waiting[q] = {}
  /\ \E r \in Request : waiting' = [waiting EXCEPT ![q] = {r}]
  /\ answer' = [answer EXCEPT ![q] = Nothing]
  /\ UNCHANGED recorded

Take(q) ==
  \E r \in waiting[q] :
    /\ recorded' = Apply(r, recorded)
    /\ waiting' = [waiting EXCEPT ![q] = {}]
    /\ answer' = [answer EXCEPT ![q] =
                    IF r.op = "restore" THEN recorded ELSE Nothing]

Next == \E q \in Slot : Ask(q) \/ Take(q)

Spec == Init /\ [][Next]_vars
=============================================================================
