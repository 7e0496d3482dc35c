--------------------------- MODULE MCSigningKeys ----------------------------
(* Two instances, a key of project j1, one actor of it and one of j2.      *)
EXTENDS SigningKeys

MCKeyProject == [k \in Key |-> "j1"]
MCActorProject == [a \in Actor |-> IF a = "b1" THEN "j2" ELSE "j1"]
MCInstanceOf == [q \in Slot |-> IF q = "v2" /\ "i2" \in Instance THEN "i2" ELSE "i1"]
=============================================================================
