---------------------------- MODULE SigningKeys -----------------------------
(***************************************************************************)
(* Client tokens: JWTs signed with a project's signing key and presented   *)
(* in place of an actor credential.  Several instances of the program      *)
(* verify them, each behind its own kid cache; an administrator disables   *)
(* or deletes a key in a transaction that drops the key from the cache of  *)
(* the instance that runs it, before it commits.                           *)
(*                                                                         *)
(* Signatures are abstract: a presented token is one the holder of its key *)
(* really signed.  Building the session's topics is module Authz; here it  *)
(* either succeeds or is refused.                                          *)
(***************************************************************************)
EXTENDS TtlCache, FiniteSets

CONSTANTS
  Key, Actor, Project, Instance,
  KeyProject,    \* [Key -> Project]
  ActorProject,  \* [Actor -> Project]
  Slot,          \* verifications in flight at once
  InstanceOf,    \* [Slot -> Instance]
  KidTtl,        \* time a resolved key stays cached
  MaxTtl,        \* MAX_TTL_SECONDS: how far ahead exp may lie
  Skew,          \* CLOCK_SKEW_SECONDS
  Exps,          \* expiry times the tokens of a run may carry
  QueryTime,     \* bound of the time one awaited query takes
  MaxTime,       \* bound of the clock
  MaxWrites      \* bound of the administrative transactions

ASSUME KeyAssumption ==
  /\ Key # {} /\ Actor # {} /\ Instance # {}
  /\ KeyProject \in [Key -> Project]
  /\ ActorProject \in [Actor -> Project]
  /\ InstanceOf \in [Slot -> Instance]

ASSUME TimeAssumption ==
  /\ KidTtl \in Nat /\ MaxTtl \in Nat /\ Skew \in Nat /\ QueryTime \in Nat
  /\ Exps \subseteq Nat /\ MaxTime \in Nat /\ MaxWrites \in Nat

VARIABLES
  now, writes,
  key,        \* committed status of each signing key
  txn,        \* the administrative transaction open on each key
  kidCache,   \* SigningKeyService._kidCache of each instance
  actor,      \* is the actor row live, active and unexpired?
  pc,         \* what each verification awaits
  token,      \* the token it verifies, and when its claims passed
  snapshot,   \* the key status its query returned
  since,      \* when the query it awaits was sent
  session,    \* the broker's connection of each actor
  lastActive, \* history: when each key was last committed active
  overlapped  \* history: did a lookup of the key overlap its last transaction?

dbVars == <<writes, key, txn, actor, overlapped>>
slotVars == <<pc, token, snapshot, since>>
vars == <<now, dbVars, kidCache, slotVars, session, lastActive>>

KeyStatus == {"active", "disabled", "deleted"}
Time == 0..MaxTime
Token == [kid: Key, sub: Actor, exp: Nat, verifiedAt: Time]
\* keptWith is history: the status of the key when the connection was made or a
\* revalidate last kept it.
Connection == [connected: {TRUE}, kid: Key, exp: Nat, verifiedAt: Time,
               keptWith: KeyStatus]
Closed == [connected |-> FALSE]
Open(t) == [connected |-> TRUE, kid |-> t.kid, exp |-> t.exp,
            verifiedAt |-> t.verifiedAt, keptWith |-> "active"]

TypeOK ==
  /\ now \in Time /\ writes \in 0..MaxWrites
  /\ key \in [Key -> KeyStatus]
  /\ txn \in [Key -> [step: {"none", "saved", "invalidated"},
                      to: KeyStatus, on: Instance]]
  /\ kidCache \in [Instance -> [Key -> [value: {"active", "none"}, expiresAt: Int]]]
  /\ actor \in [Actor -> BOOLEAN]
  /\ pc \in [Slot -> {"idle", "query", "loaded", "actor"}]
  /\ token \in [Slot -> Token]
  /\ snapshot \in [Slot -> KeyStatus]
  /\ since \in [Slot -> Time]
  /\ session \in [Actor -> Connection \cup {Closed}]
  /\ lastActive \in [Key -> Time]
  /\ overlapped \in [Key -> BOOLEAN]

NullToken == [kid |-> CHOOSE k \in Key : TRUE, sub |-> CHOOSE a \in Actor : TRUE,
              exp |-> 0, verifiedAt |-> 0]

Init ==
  /\ now = 0 /\ writes = 0
  /\ key = [k \in Key |-> "active"]
  /\ txn = [k \in Key |-> [step |-> "none", to |-> "active",
                           on |-> CHOOSE i \in Instance : TRUE]]
  /\ kidCache = [i \in Instance |-> [k \in Key |-> NoEntry("none")]]
  /\ actor = [a \in Actor |-> TRUE]
  /\ pc = [q \in Slot |-> "idle"]
  /\ token = [q \in Slot |-> NullToken]
  /\ snapshot = [q \in Slot |-> "deleted"]
  /\ since = [q \in Slot |-> 0]
  /\ session = [a \in Actor |-> Closed]
  /\ lastActive = [k \in Key |-> 0]
  /\ overlapped = [k \in Key |-> FALSE]

-----------------------------------------------------------------------------
(* Verification.                                                           *)

\* jsonwebtoken's expiry test with clockTolerance, then the one hour cap.
ClaimsPass(exp) == now < exp + Skew /\ ~(exp > now + MaxTtl + Skew)

Release(q) ==
  /\ pc' = [pc EXCEPT ![q] = "idle"]
  /\ token' = [token EXCEPT ![q] = NullToken]
  /\ snapshot' = [snapshot EXCEPT ![q] = "deleted"]
  /\ since' = [since EXCEPT ![q] = 0]

Await(q, query) ==
  /\ pc' = [pc EXCEPT ![q] = query]
  /\ since' = [since EXCEPT ![q] = now]

Cached(q, k) == kidCache[InstanceOf[q]][k]

\* A token whose key is cached: no query, straight to the claims.
PresentHit(q) ==
  /\ pc[q] = "idle"
  /\ \E k \in Key, a \in Actor, e \in Exps :
       /\ Hit(Cached(q, k), now) /\ ClaimsPass(e)
       /\ token' = [token EXCEPT ![q] = [kid |-> k, sub |-> a, exp |-> e,
                                         verifiedAt |-> now]]
  /\ Await(q, "actor")
  /\ UNCHANGED <<now, dbVars, kidCache, snapshot, session>>

PresentMiss(q) ==
  /\ pc[q] = "idle"
  /\ \E k \in Key, a \in Actor, e \in Exps :
       /\ ~Hit(Cached(q, k), now)
       /\ token' = [token EXCEPT ![q] = [kid |-> k, sub |-> a, exp |-> e,
                                         verifiedAt |-> 0]]
       /\ kidCache' = [kidCache EXCEPT ![InstanceOf[q]][k] = NoEntry("none")]
       /\ overlapped' = [overlapped EXCEPT ![k] = @ \/ txn[k].step # "none"]
  /\ Await(q, "query")
  /\ UNCHANGED <<now, writes, key, txn, actor, snapshot, session>>

\* findByKeyId: the row as committed at this instant.
ReadKey(q) ==
  /\ pc[q] = "query"
  /\ snapshot' = [snapshot EXCEPT ![q] = key[token[q].kid]]
  /\ pc' = [pc EXCEPT ![q] = "loaded"]
  /\ UNCHANGED <<now, dbVars, kidCache, token, since, session>>

\* Faulty variant: the row is cached before its status is looked at.
FillKeyOfAnyStatus(q) ==
  /\ pc[q] = "loaded"
  /\ kidCache' = [kidCache EXCEPT ![InstanceOf[q]][token[q].kid] =
                    Entry(snapshot[q], now, KidTtl)]
  /\ IF snapshot[q] = "active" /\ ClaimsPass(token[q].exp)
     THEN /\ token' = [token EXCEPT ![q].verifiedAt = now]
          /\ Await(q, "actor")
          /\ snapshot' = [snapshot EXCEPT ![q] = "deleted"]
     ELSE Release(q)
  /\ UNCHANGED <<now, dbVars, session>>

\* The row arrives: an active key is decrypted and cached, then the signature
\* and the claims are checked.
FillKey(q) ==
  LET k == token[q].kid
  IN /\ pc[q] = "loaded"
     /\ kidCache' = IF snapshot[q] = "active"
                    THEN [kidCache EXCEPT ![InstanceOf[q]][k] =
                            Entry(snapshot[q], now, KidTtl)]
                    ELSE kidCache
     /\ \/ /\ snapshot[q] = "active" /\ ClaimsPass(token[q].exp)
           /\ token' = [token EXCEPT ![q].verifiedAt = now]
           /\ Await(q, "actor")
           /\ snapshot' = [snapshot EXCEPT ![q] = "deleted"]
        \/ ~(snapshot[q] = "active" /\ ClaimsPass(token[q].exp)) /\ Release(q)
     /\ UNCHANGED <<now, dbVars, session>>

\* Faulty variant: any project's key vouches for any actor.
BindActorOfAnyProject(q) ==
  LET t == token[q]
  IN /\ pc[q] = "actor"
     /\ session' = IF actor[t.sub] THEN [session EXCEPT ![t.sub] = Open(t)] ELSE session
     /\ Release(q)
     /\ UNCHANGED <<now, dbVars, kidCache>>

\* getActiveActorByKeyId, the cross-project binding, and the session payload,
\* which may still be refused.
BindActor(q) ==
  LET t == token[q]
  IN /\ pc[q] = "actor"
     /\ \/ /\ actor[t.sub]
           /\ ActorProject[t.sub] = KeyProject[t.kid]
           /\ session' = [session EXCEPT ![t.sub] = Open(t)]
        \/ UNCHANGED session
     /\ Release(q)
     /\ UNCHANGED <<now, dbVars, kidCache>>

-----------------------------------------------------------------------------
(* The broker, which is external.                                          *)

\* revalidateActor looks at the actor and never at a signing key.
Revalidate(a) ==
  /\ session[a].connected
  /\ session' = [session EXCEPT ![a] =
                    IF actor[a] THEN [@ EXCEPT !.keptWith = key[session[a].kid]] ELSE Closed]
  /\ UNCHANGED <<now, dbVars, kidCache, slotVars>>

\* A session runs until authExpiresAt.
ExpireSession(a) ==
  /\ session[a].connected /\ now >= session[a].exp
  /\ session' = [session EXCEPT ![a] = Closed]
  /\ UNCHANGED <<now, dbVars, kidCache, slotVars>>

-----------------------------------------------------------------------------
(* Administration.                                                         *)

Looking(k) == \E q \in Slot : pc[q] \in {"query", "loaded"} /\ token[q].kid = k

\* patchSigningKey or removeSigningKey on instance i: the row is locked and
\* written, not yet visible to others.
SaveKey(i, k) ==
  /\ writes < MaxWrites
  /\ key[k] # "deleted" /\ txn[k].step = "none"
  /\ \E to \in KeyStatus :
       txn' = [txn EXCEPT ![k] = [step |-> "saved", to |-> to, on |-> i]]
  /\ writes' = writes + 1
  /\ overlapped' = [overlapped EXCEPT ![k] = Looking(k)]
  /\ UNCHANGED <<now, key, kidCache, actor, slotVars, session>>

\* Faulty variant: the cached key is left to age out.
InvalidateNothing(k) ==
  /\ txn[k].step = "saved"
  /\ txn' = [txn EXCEPT ![k].step = "invalidated"]
  /\ UNCHANGED <<now, writes, key, actor, overlapped, kidCache, slotVars, session>>

\* ... then the cache of that instance drops the key ...
InvalidateKey(k) ==
  /\ txn[k].step = "saved"
  /\ kidCache' = [kidCache EXCEPT ![txn[k].on][k] = NoEntry("none")]
  /\ txn' = [txn EXCEPT ![k].step = "invalidated"]
  /\ UNCHANGED <<now, writes, key, actor, overlapped, slotVars, session>>

\* ... and only then the transaction commits.
CommitKey(k) ==
  /\ txn[k].step = "invalidated"
  /\ key' = [key EXCEPT ![k] = txn[k].to]
  /\ txn' = [txn EXCEPT ![k].step = "none"]
  /\ UNCHANGED <<now, writes, actor, overlapped, kidCache, slotVars, session>>

RevokeActor(a) ==
  /\ writes < MaxWrites /\ actor[a]
  /\ actor' = [actor EXCEPT ![a] = FALSE]
  /\ writes' = writes + 1
  /\ UNCHANGED <<now, key, txn, overlapped, kidCache, slotVars, session>>

\* A query is answered within QueryTime and the broker is punctual.
Tick ==
  /\ now < MaxTime
  /\ \A q \in Slot : pc[q] # "idle" => now < since[q] + QueryTime
  /\ \A a \in Actor : session[a].connected => now < session[a].exp
  /\ now' = now + 1
  /\ UNCHANGED <<dbVars, kidCache, slotVars, session>>

RecordActive ==
  lastActive' = [k \in Key |-> IF key'[k] = "active" THEN now' ELSE lastActive[k]]

Next ==
  /\ \/ \E q \in Slot : \/ PresentHit(q) \/ PresentMiss(q) \/ ReadKey(q)
                        \/ FillKey(q) \/ BindActor(q)
     \/ \E a \in Actor : Revalidate(a) \/ ExpireSession(a) \/ RevokeActor(a)
     \/ \E i \in Instance, k \in Key : SaveKey(i, k)
     \/ \E k \in Key : InvalidateKey(k) \/ CommitKey(k)
     \/ Tick
  /\ RecordActive

Spec == Init /\ [][Next]_vars

-----------------------------------------------------------------------------
(* Properties.                                                             *)

\* Every connection made with a client token was vouched for: by a key of the
\* actor's own project that had been active within the cache's lifetime (and
\* one query) before the token was verified.  This holds on every instance,
\* whichever lookups raced the revocation and whichever cache missed it.
VouchedFor ==
  \A a \in Actor : session[a].connected =>
    /\ KeyProject[session[a].kid] = ActorProject[a]
    /\ session[a].verifiedAt <= lastActive[session[a].kid] + KidTtl + QueryTime

\* How long a revoked key can keep anyone connected, all delays together.
RevokedKeyReach ==
  \A a \in Actor : session[a].connected =>
    now <= lastActive[session[a].kid] + KidTtl + QueryTime + MaxTtl + Skew

\* When no lookup of a key overlapped the transaction that revoked it, the
\* instance that revoked it does not hold it: tokens stop verifying there now.
RevocationTakesEffect ==
  \A k \in Key :
    /\ key[k] # "active" /\ txn[k].step = "none" /\ ~overlapped[k]
    /\ ~Looking(k)
    => ~Hit(kidCache[txn[k].on][k], now)

\* signingKey.service.ts: disabling a key has to stop new tokens verifying
\* now.  Stated of the revoking instance, once no lookup is in flight.
RevocationEmptiesCache ==
  \A k \in Key :
    key[k] # "active" /\ txn[k].step = "none" /\ ~Looking(k)
      => ~Hit(kidCache[txn[k].on][k], now)

\* signingKey.facade.ts: deleting a key disconnects its actors at their next
\* revalidate, so no connection was kept by one that followed the deletion.
RevalidateDropsDeletedKey ==
  \A a \in Actor : session[a].connected => session[a].keptWith # "deleted"
=============================================================================
