------------------------ MODULE MCSubscriptionState -------------------------
(* Two patterns, two ways to subscribe to each.                            *)
EXTENDS SubscriptionState

MCAll == {"update", "clear", "upsert", "restore", "drop"}
=============================================================================
