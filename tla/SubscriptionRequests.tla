------------------------- MODULE SubscriptionRequests -------------------------
(***************************************************************************)
(* Requests on the list of an actor's recorded subscriptions.              *)
(***************************************************************************)
CONSTANTS
  Slot,    \* calls that may be in flight at once
  Name,    \* topic patterns
  Option,  \* load balancing and filters a subscription carries
  Off,     \* "not subscribed"
  Ops      \* the operations a run exercises

\* A list holds a name at most once.
Topics == [Name -> Option \cup {Off}]
Nothing == [n \in Name |-> Off]

\* "update" is a subscribe, or an unsubscribe when its option is Off.
Request ==
  { r \in [op: {"update"}, name: Name, option: Option \cup {Off}]
          \cup [op: {"upsert"}, topics: Topics]
          \cup [op: {"clear", "drop", "restore"}] : r.op \in Ops }

\* Faulty variant: an upsert stores the whole request.
ApplyWhole(r, list) ==
  CASE r.op = "update" -> [list EXCEPT ![r.name] = r.option]
    [] r.op = "upsert" -> r
    [] r.op \in {"clear", "drop"} -> Nothing
    [] r.op = "restore" -> list

\* The list after a request.
Apply(r, list) ==
  CASE r.op = "update" -> [list EXCEPT ![r.name] = r.option]
    [] r.op = "upsert" -> r.topics
    [] r.op \in {"clear", "drop"} -> Nothing
    [] r.op = "restore" -> list
=============================================================================
