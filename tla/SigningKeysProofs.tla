-------------------------- MODULE SigningKeysProofs --------------------------
(***************************************************************************)
(* Theorems about client tokens for every value of the constants: any      *)
(* number of instances, keys, verifications and revocations, and any       *)
(* lifetimes.                                                              *)
(***************************************************************************)
EXTENDS SigningKeys, TLAPS

\* The actions of a verification, of the broker and of administration.
Verify(q) == PresentHit(q) \/ PresentMiss(q) \/ ReadKey(q) \/ FillKey(q) \/ BindActor(q)
Broker(a) == Revalidate(a) \/ ExpireSession(a) \/ RevokeActor(a)
Administer(k) == InvalidateKey(k) \/ CommitKey(k) \/ \E i \in Instance : SaveKey(i, k)

LEMMA Steps ==
  ASSUME [Next]_vars
  PROVE  \/ RecordActive /\ \/ \E q \in Slot : Verify(q)
                            \/ \E a \in Actor : Broker(a)
                            \/ \E k \in Key : Administer(k)
                            \/ Tick
         \/ UNCHANGED vars
BY DEF Next, Verify, Broker, Administer

-----------------------------------------------------------------------------
(* Type correctness.                                                       *)

LEMMA NullTokenType == NullToken \in Token
BY KeyAssumption, TimeAssumption DEF NullToken, Token, Time

LEMMA EntryTypes ==
  /\ NoEntry("none") \in [value: {"active", "none"}, expiresAt: Int]
  /\ \A t \in Int, ttl \in Int :
       Entry("active", t, ttl) \in [value: {"active", "none"}, expiresAt: Int]
BY DEF NoEntry, Entry

\* What the steps of a verification assign to its own slot.
LEMMA SlotTypes ==
  ASSUME TypeOK, NEW q \in Slot
  PROVE  /\ \A t \in Token : [token EXCEPT ![q] = t] \in [Slot -> Token]
         /\ \A s \in {"idle", "query", "loaded", "actor"} :
              [pc EXCEPT ![q] = s] \in [Slot -> {"idle", "query", "loaded", "actor"}]
         /\ \A v \in KeyStatus : [snapshot EXCEPT ![q] = v] \in [Slot -> KeyStatus]
         /\ \A t \in Time : [since EXCEPT ![q] = t] \in [Slot -> Time]
         /\ now \in Time /\ now \in Int /\ 0 \in Time
         /\ token[q] \in Token /\ token[q].kid \in Key /\ token[q].sub \in Actor
         /\ InstanceOf[q] \in Instance
BY KeyAssumption, TimeAssumption DEF TypeOK, Token, Time

SlotsOK == /\ pc \in [Slot -> {"idle", "query", "loaded", "actor"}]
           /\ token \in [Slot -> Token]
           /\ snapshot \in [Slot -> KeyStatus]
           /\ since \in [Slot -> Time]

CacheOK == kidCache \in [Instance -> [Key -> [value: {"active", "none"}, expiresAt: Int]]]

LEMMA ReleaseType ==
  ASSUME TypeOK, NEW q \in Slot, Release(q)
  PROVE  SlotsOK'
BY SlotTypes, NullTokenType DEF Release, SlotsOK, KeyStatus

LEMMA VerifyType ==
  ASSUME TypeOK, NEW q \in Slot, Verify(q)
  PROVE  /\ now' = now /\ writes' = writes /\ key' = key /\ txn' = txn /\ actor' = actor
         /\ CacheOK' /\ SlotsOK'
         /\ session' \in [Actor -> Connection \cup {Closed}]
         /\ overlapped' \in [Key -> BOOLEAN]
<1>0. /\ CacheOK /\ SlotsOK
      /\ session \in [Actor -> Connection \cup {Closed}]
      /\ overlapped \in [Key -> BOOLEAN]
  BY DEF TypeOK, CacheOK, SlotsOK
<1>1. CASE PresentHit(q)
  <2>1. \E t \in Token : token' = [token EXCEPT ![q] = t]
    <3>1. \A k \in Key, a \in Actor, e \in Exps :
            [kid |-> k, sub |-> a, exp |-> e, verifiedAt |-> now] \in Token
      BY SlotTypes, TimeAssumption DEF Token
    <3> QED BY <1>1, <3>1 DEF PresentHit
  <2>2. SlotsOK'
    BY <1>0, <1>1, <2>1, SlotTypes DEF PresentHit, Await, SlotsOK
  <2> QED BY <1>0, <1>1, <2>2 DEF PresentHit, dbVars, CacheOK
<1>2. CASE PresentMiss(q)
  <2>1. PICK k \in Key, a \in Actor, e \in Exps :
          /\ ~Hit(Cached(q, k), now)
          /\ token' = [token EXCEPT ![q] = [kid |-> k, sub |-> a, exp |-> e,
                                            verifiedAt |-> 0]]
          /\ kidCache' = [kidCache EXCEPT ![InstanceOf[q]][k] = NoEntry("none")]
          /\ overlapped' = [overlapped EXCEPT ![k] = @ \/ txn[k].step # "none"]
    BY <1>2, Zenon DEF PresentMiss
  <2>2. [kid |-> k, sub |-> a, exp |-> e, verifiedAt |-> 0] \in Token
    BY SlotTypes, TimeAssumption DEF Token
  <2>3. SlotsOK'
    BY <1>0, <1>2, <2>1, <2>2, SlotTypes DEF PresentMiss, Await, SlotsOK
  <2>4. CacheOK'
    BY <1>0, <2>1, SlotTypes, EntryTypes DEF CacheOK
  <2>5. (overlapped[k] \/ txn[k].step # "none") \in BOOLEAN
    OBVIOUS
  <2>6. overlapped' \in [Key -> BOOLEAN]
    BY <1>0, <2>1, <2>5
  <2> QED BY <1>0, <1>2, <2>3, <2>4, <2>6 DEF PresentMiss
<1>3. CASE ReadKey(q)
  <2>1. key[token[q].kid] \in KeyStatus
    BY SlotTypes DEF TypeOK
  <2>2. SlotsOK'
    BY <1>0, <1>3, <2>1, SlotTypes DEF ReadKey, SlotsOK
  <2> QED BY <1>0, <1>3, <2>2 DEF ReadKey, dbVars, CacheOK
<1>4. CASE FillKey(q)
  <2>1. CacheOK'
    <3>1. Entry("active", now, KidTtl) \in [value: {"active", "none"}, expiresAt: Int]
      BY SlotTypes, TimeAssumption DEF Entry
    <3> QED BY <1>0, <1>4, <3>1, SlotTypes DEF FillKey, CacheOK
  <2>2. [token[q] EXCEPT !.verifiedAt = now] \in Token
    BY SlotTypes DEF Token
  <2>3. CASE Release(q)
    BY <1>0, <1>4, <2>1, <2>3, ReleaseType DEF FillKey, dbVars
  <2>4. CASE ~Release(q)
    <3>1. /\ token' = [token EXCEPT ![q] = [token[q] EXCEPT !.verifiedAt = now]]
          /\ Await(q, "actor")
          /\ snapshot' = [snapshot EXCEPT ![q] = "deleted"]
      BY <1>4, <2>4 DEF FillKey
    <3>2. SlotsOK'
      BY <1>0, <2>2, <3>1, SlotTypes DEF Await, SlotsOK, KeyStatus
    <3> QED BY <1>0, <1>4, <2>1, <3>2 DEF FillKey, dbVars
  <2> QED BY <2>3, <2>4
<1>5. CASE BindActor(q)
  <2>1. Open(token[q]) \in Connection
    BY SlotTypes DEF Token, Open, Connection, KeyStatus
  <2>2. session' \in [Actor -> Connection \cup {Closed}]
    BY <1>0, <1>5, <2>1 DEF BindActor
  <2> QED BY <1>0, <1>5, <2>2, ReleaseType DEF BindActor, dbVars, CacheOK
<1> QED BY <1>1, <1>2, <1>3, <1>4, <1>5 DEF Verify

LEMMA BrokerType ==
  ASSUME TypeOK, NEW a \in Actor, Broker(a)
  PROVE  /\ UNCHANGED <<now, key, txn, overlapped, kidCache, slotVars>>
         /\ writes' \in 0..MaxWrites
         /\ actor' \in [Actor -> BOOLEAN]
         /\ session' \in [Actor -> Connection \cup {Closed}]
<1> USE TimeAssumption DEF TypeOK, dbVars
<1>1. CASE Revalidate(a)
  <2>1. session[a] \in Connection
    BY <1>1 DEF Revalidate, Closed
  <2>2. [session[a] EXCEPT !.keptWith = key[session[a].kid]] \in Connection
    BY <2>1 DEF Connection
  <2> QED BY <1>1, <2>2 DEF Revalidate
<1>2. CASE ExpireSession(a)
  BY <1>2 DEF ExpireSession
<1>3. CASE RevokeActor(a)
  BY <1>3 DEF RevokeActor
<1> QED BY <1>1, <1>2, <1>3 DEF Broker

LEMMA AdministerType ==
  ASSUME TypeOK, NEW k \in Key, Administer(k)
  PROVE  /\ UNCHANGED <<now, actor, slotVars, session>>
         /\ writes' \in 0..MaxWrites
         /\ key' \in [Key -> KeyStatus]
         /\ txn' \in [Key -> [step: {"none", "saved", "invalidated"},
                              to: KeyStatus, on: Instance]]
         /\ overlapped' \in [Key -> BOOLEAN]
         /\ kidCache' \in [Instance -> [Key -> [value: {"active", "none"}, expiresAt: Int]]]
<1> USE TimeAssumption, EntryTypes DEF TypeOK
<1>1. ASSUME NEW i \in Instance, SaveKey(i, k)
      PROVE  /\ writes' \in 0..MaxWrites
             /\ txn' \in [Key -> [step: {"none", "saved", "invalidated"},
                                  to: KeyStatus, on: Instance]]
             /\ overlapped' \in [Key -> BOOLEAN]
  <2>1. writes' \in 0..MaxWrites
    BY <1>1 DEF SaveKey
  <2>2. PICK to \in KeyStatus :
          txn' = [txn EXCEPT ![k] = [step |-> "saved", to |-> to, on |-> i]]
    BY <1>1 DEF SaveKey
  <2>3. Looking(k) \in BOOLEAN
    BY DEF Looking
  <2>4. overlapped' = [overlapped EXCEPT ![k] = Looking(k)]
    BY <1>1 DEF SaveKey
  <2>5. overlapped' \in [Key -> BOOLEAN]
    BY <2>3, <2>4 DEF TypeOK
  <2>6. txn' \in [Key -> [step: {"none", "saved", "invalidated"},
                         to: KeyStatus, on: Instance]]
    BY <2>2 DEF TypeOK
  <2> QED BY <2>1, <2>5, <2>6
<1>2. CASE InvalidateKey(k)
  BY <1>2 DEF InvalidateKey
<1>3. CASE CommitKey(k)
  BY <1>3 DEF CommitKey
<1> QED BY <1>1, <1>2, <1>3 DEF Administer, SaveKey

LEMMA NextType == TypeOK /\ [Next]_vars => TypeOK'
<1> SUFFICES ASSUME TypeOK, [Next]_vars PROVE TypeOK'
  OBVIOUS
<1>0. ASSUME RecordActive, now' \in Time PROVE lastActive' \in [Key -> Time]
  BY <1>0 DEF RecordActive, TypeOK
<1>1. ASSUME NEW q \in Slot, Verify(q), RecordActive PROVE TypeOK'
  BY <1>0, <1>1, VerifyType DEF TypeOK, CacheOK, SlotsOK
<1>2. ASSUME NEW a \in Actor, Broker(a), RecordActive PROVE TypeOK'
  BY <1>0, <1>2, BrokerType DEF TypeOK, slotVars
<1>3. ASSUME NEW k \in Key, Administer(k), RecordActive PROVE TypeOK'
  BY <1>0, <1>3, AdministerType DEF TypeOK, slotVars
<1>4. CASE Tick /\ RecordActive
  <2>1. now' \in Time
    BY <1>4, TimeAssumption DEF Tick, TypeOK, Time
  <2> QED BY <1>0, <1>4, <2>1 DEF Tick, TypeOK, dbVars, slotVars
<1>5. CASE UNCHANGED vars
  BY <1>5 DEF TypeOK, vars, dbVars, slotVars
<1> QED BY <1>1, <1>2, <1>3, <1>4, <1>5, Steps

LEMMA InitType == Init => TypeOK
<1> SUFFICES ASSUME Init PROVE TypeOK
  OBVIOUS
<1>1. 0 \in Time
  BY TimeAssumption DEF Time
<1>2. (CHOOSE i \in Instance : TRUE) \in Instance
  BY KeyAssumption
<1> QED
  BY <1>1, <1>2, NullTokenType, EntryTypes, TimeAssumption DEF Init, TypeOK, KeyStatus

\* Type correctness: only the status "active" is ever cached, whatever the
\* order of lookups, transactions and ticks.
THEOREM KeysTypeCorrect == Spec => []TypeOK
BY InitType, NextType, PTL DEF Spec
-----------------------------------------------------------------------------
(* How stale a key may be.  What the two properties say of connections     *)
(* follows from what holds, with the same bound, of every cache entry, of   *)
(* every lookup that has read an active row and of every verified token.   *)

\* A cached key was active at most this long before the entry expires.
Staleness == KidTtl + QueryTime

LastActiveInv ==
  \A k \in Key : /\ lastActive[k] <= now
                 /\ key[k] = "active" => lastActive[k] = now

CacheInv ==
  \A i \in Instance, k \in Key : kidCache[i][k].expiresAt <= lastActive[k] + Staleness

\* A token whose claims were checked, at a time its key vouched for it.
Verified(t) ==
  /\ t.verifiedAt <= lastActive[t.kid] + Staleness
  /\ t.exp <= t.verifiedAt + MaxTtl + Skew

AwaitInv ==
  \A q \in Slot :
    /\ pc[q] # "idle" => since[q] <= now /\ now <= since[q] + QueryTime
    /\ pc[q] = "loaded" /\ snapshot[q] = "active" => since[q] <= lastActive[token[q].kid]
    /\ pc[q] = "actor" => Verified(token[q]) /\ since[q] = token[q].verifiedAt

Backed(a) ==
  session[a].connected =>
    /\ KeyProject[session[a].kid] = ActorProject[a]
    /\ Verified(session[a])
    /\ now <= session[a].exp \/ now <= session[a].verifiedAt + QueryTime

SessionInv == \A a \in Actor : Backed(a)

VouchInv == LastActiveInv /\ CacheInv /\ AwaitInv /\ SessionInv

\* The instants a key was last active only ever come later.
LEMMA LastActiveGrows ==
  ASSUME TypeOK, TypeOK', LastActiveInv, RecordActive, now <= now'
  PROVE  /\ LastActiveInv'
         /\ \A k \in Key : lastActive[k] <= lastActive'[k]
<1>1. now \in Int /\ now' \in Int /\ \A k \in Key : lastActive[k] \in Int
  BY DEF TypeOK, Time
<1> QED BY <1>1 DEF LastActiveInv, RecordActive

\* What was vouched for stays so.
LEMMA VerifiedKept ==
  ASSUME TypeOK, TypeOK', \A k \in Key : lastActive[k] <= lastActive'[k],
         NEW t, t.kid \in Key, t.verifiedAt \in Int, Verified(t)
  PROVE  t.verifiedAt <= lastActive'[t.kid] + Staleness
BY TimeAssumption DEF Verified, Staleness, TypeOK, Time

LEMMA CacheKept ==
  ASSUME TypeOK, TypeOK', CacheInv, \A k \in Key : lastActive[k] <= lastActive'[k],
         NEW i \in Instance, NEW k \in Key,
         kidCache'[i][k] \in {kidCache[i][k], NoEntry("none")}
  PROVE  kidCache'[i][k].expiresAt <= lastActive'[k] + Staleness
<1>1. /\ kidCache[i][k].expiresAt \in Int
      /\ lastActive[k] \in Int /\ lastActive'[k] \in Int /\ 0 <= lastActive'[k]
  BY DEF TypeOK, Time
<1>2. Staleness \in Nat
  BY TimeAssumption DEF Staleness
<1> QED BY <1>1, <1>2 DEF CacheInv, NoEntry

LEMMA AwaitKept ==
  ASSUME TypeOK, TypeOK', AwaitInv, \A k \in Key : lastActive[k] <= lastActive'[k],
         NEW q \in Slot, pc'[q] = pc[q], token'[q] = token[q],
         snapshot'[q] = snapshot[q], since'[q] = since[q],
         pc[q] # "idle" => now <= now' /\ now' <= since[q] + QueryTime
  PROVE  /\ pc'[q] # "idle" => since'[q] <= now' /\ now' <= since'[q] + QueryTime
         /\ pc'[q] = "loaded" /\ snapshot'[q] = "active" =>
              since'[q] <= lastActive'[token'[q].kid]
         /\ pc'[q] = "actor" => Verified(token[q])' /\ since'[q] = token'[q].verifiedAt
<1>1. /\ token[q].kid \in Key /\ token[q].verifiedAt \in Int /\ since[q] \in Int
      /\ now \in Int /\ now' \in Int
      /\ \A k \in Key : lastActive[k] \in Int /\ lastActive'[k] \in Int
  BY DEF TypeOK, Token, Time
<1>2. pc[q] = "actor" => token[q].verifiedAt <= lastActive'[token[q].kid] + Staleness
  BY <1>1, VerifiedKept DEF AwaitInv
<1> QED BY <1>1, <1>2 DEF AwaitInv, Verified

\* The kinds of what a connection records.
LEMMA ConnectionType ==
  ASSUME TypeOK, NEW a \in Actor, session[a].connected
  PROVE  /\ session[a].kid \in Key
         /\ session[a].exp \in Int /\ session[a].verifiedAt \in Int
<1>1. session[a] \in Connection
  BY DEF TypeOK, Closed
<1>2. session[a].verifiedAt \in Time
  BY <1>1 DEF Connection
<1>3. session[a].kid \in Key /\ session[a].exp \in Nat
  BY <1>1 DEF Connection
<1> QED BY <1>2, <1>3 DEF Time

LEMMA SessionKept ==
  ASSUME TypeOK, TypeOK', \A k \in Key : lastActive[k] <= lastActive'[k],
         NEW a \in Actor, Backed(a),
         session'[a].connected => /\ session[a].connected
                                  /\ session'[a].kid = session[a].kid
                                  /\ session'[a].exp = session[a].exp
                                  /\ session'[a].verifiedAt = session[a].verifiedAt,
         now' = now \/ (session[a].connected => now' <= session[a].exp)
  PROVE  Backed(a)'
<1> SUFFICES ASSUME session'[a].connected PROVE Backed(a)'
  BY DEF Backed
<1>1. session[a].kid \in Key /\ session[a].verifiedAt \in Int
  BY ConnectionType
<1>2. session[a].verifiedAt <= lastActive'[session[a].kid] + Staleness
  BY <1>1, VerifiedKept DEF Backed
<1> QED BY <1>2 DEF Backed, Verified

\* A verification leaves the other slots alone.
LEMMA OthersKept ==
  ASSUME TypeOK, NEW q \in Slot, Verify(q), NEW p \in Slot \ {q}
  PROVE  /\ pc'[p] = pc[p] /\ token'[p] = token[p]
         /\ snapshot'[p] = snapshot[p] /\ since'[p] = since[p]
<1>1. CASE PresentHit(q)
  BY <1>1 DEF PresentHit, Await, TypeOK
<1>2. CASE PresentMiss(q)
  <2>1. PICK t : token' = [token EXCEPT ![q] = t]
    BY <1>2, Zenon DEF PresentMiss
  <2> QED BY <1>2, <2>1 DEF PresentMiss, Await, TypeOK
<1>3. CASE ReadKey(q)
  BY <1>3 DEF ReadKey, TypeOK
<1>4. CASE Release(q)
  BY <1>4 DEF Release, TypeOK
<1>5. CASE FillKey(q) /\ ~Release(q)
  BY <1>5 DEF FillKey, Await, TypeOK
<1>6. CASE BindActor(q)
  BY <1>4, <1>6 DEF BindActor
<1> QED BY <1>1, <1>2, <1>3, <1>4, <1>5, <1>6 DEF Verify

LEMMA VerifyVouched ==
  ASSUME TypeOK, TypeOK', VouchInv, RecordActive, NEW q \in Slot, Verify(q)
  PROVE  VouchInv'
<1>0. now' = now /\ key' = key
  BY VerifyType
<1>1. /\ LastActiveInv'
      /\ \A k \in Key : lastActive[k] <= lastActive'[k]
  BY <1>0, LastActiveGrows DEF VouchInv, TypeOK, Time
<1>2. \A p \in Slot \ {q} : /\ pc'[p] = pc[p] /\ token'[p] = token[p]
                            /\ snapshot'[p] = snapshot[p] /\ since'[p] = since[p]
  BY OthersKept
<1>3. /\ now \in Int /\ now' \in Int /\ since[q] \in Int /\ token[q] \in Token
      /\ \A k \in Key : lastActive[k] \in Int /\ lastActive'[k] \in Int
      /\ token[q].kid \in Key /\ token[q].sub \in Actor /\ token[q].exp \in Int
      /\ KidTtl \in Int /\ MaxTtl \in Int /\ Skew \in Int /\ QueryTime \in Nat
      /\ InstanceOf[q] \in Instance
  BY KeyAssumption, TimeAssumption DEF TypeOK, Token, Time
<1>o. \A p \in Slot \ {q} :
        /\ pc'[p] # "idle" => since'[p] <= now' /\ now' <= since'[p] + QueryTime
        /\ pc'[p] = "loaded" /\ snapshot'[p] = "active" =>
             since'[p] <= lastActive'[token'[p].kid]
        /\ pc'[p] = "actor" => Verified(token[p])' /\ since'[p] = token'[p].verifiedAt
  <2> TAKE p \in Slot \ {q}
  <2>1. pc[p] # "idle" => now <= now' /\ now' <= since[p] + QueryTime
    BY <1>0, <1>3 DEF VouchInv, AwaitInv
  <2> QED BY <1>1, <1>2, <2>1, AwaitKept DEF VouchInv
<1>s. session' = session => SessionInv'
  BY <1>0, <1>1, SessionKept DEF VouchInv, SessionInv
<1>4. CASE PresentHit(q)
  <2>1. PICK k \in Key, a \in Actor, e \in Exps :
          /\ Hit(Cached(q, k), now) /\ ClaimsPass(e)
          /\ token' = [token EXCEPT ![q] = [kid |-> k, sub |-> a, exp |-> e,
                                            verifiedAt |-> now]]
    BY <1>4 DEF PresentHit
  <2>2. /\ token'[q] = [kid |-> k, sub |-> a, exp |-> e, verifiedAt |-> now]
        /\ pc'[q] = "actor" /\ since'[q] = now
        /\ session' = session /\ kidCache' = kidCache
    BY <1>4, <2>1 DEF PresentHit, Await, TypeOK
  <2>3. now <= lastActive[k] + Staleness
    <3>1. now <= kidCache[InstanceOf[q]][k].expiresAt
      BY <1>3, <2>1 DEF Hit, Cached, TypeOK
    <3> QED BY <1>3, <3>1 DEF VouchInv, CacheInv, TypeOK, Staleness
  <2>4. e <= now + MaxTtl + Skew
    BY <1>3, <2>1, TimeAssumption DEF ClaimsPass
  <2>5. AwaitInv'
    BY <1>0, <1>1, <1>3, <1>o, <2>2, <2>3, <2>4 DEF AwaitInv, Verified, Staleness
  <2>6. CacheInv'
    BY <1>1, <2>2, CacheKept DEF CacheInv, VouchInv
  <2> QED BY <1>1, <1>s, <2>2, <2>5, <2>6 DEF VouchInv
<1>5. CASE PresentMiss(q)
  <2>1. PICK k \in Key :
          kidCache' = [kidCache EXCEPT ![InstanceOf[q]][k] = NoEntry("none")]
    BY <1>5, Zenon DEF PresentMiss
  <2>2. pc'[q] = "query" /\ since'[q] = now /\ session' = session
    BY <1>5 DEF PresentMiss, Await, TypeOK
  <2>3. \A i \in Instance, j \in Key : kidCache'[i][j] \in {kidCache[i][j], NoEntry("none")}
    BY <2>1 DEF TypeOK
  <2>4. CacheInv'
    BY <1>1, <2>3, CacheKept DEF CacheInv, VouchInv
  <2>5. AwaitInv'
    BY <1>0, <1>3, <1>o, <2>2 DEF AwaitInv
  <2> QED BY <1>1, <1>s, <2>2, <2>4, <2>5 DEF VouchInv
<1>6. CASE ReadKey(q)
  <2>1. /\ pc[q] = "query" /\ pc'[q] = "loaded" /\ snapshot'[q] = key[token[q].kid]
        /\ token' = token /\ since' = since /\ session' = session /\ kidCache' = kidCache
    BY <1>6 DEF ReadKey, TypeOK
  <2>2. /\ since[q] <= now /\ now <= since[q] + QueryTime
        /\ key[token[q].kid] = "active" => lastActive[token[q].kid] = now
    BY <1>3, <2>1 DEF VouchInv, AwaitInv, LastActiveInv
  <2>3. snapshot'[q] = "active" => since'[q] <= lastActive'[token'[q].kid]
    BY <1>1, <1>3, <2>1, <2>2
  <2>4. AwaitInv'
    BY <1>0, <1>o, <2>1, <2>2, <2>3 DEF AwaitInv
  <2>5. CacheInv'
    BY <1>1, <2>1, CacheKept DEF CacheInv, VouchInv
  <2> QED BY <1>1, <1>s, <2>1, <2>4, <2>5 DEF VouchInv
<1>7. CASE FillKey(q)
  <2> DEFINE k == token[q].kid
  <2>1. pc[q] = "loaded" /\ session' = session
    BY <1>7 DEF FillKey
  <2>2. /\ now <= since[q] + QueryTime
        /\ snapshot[q] = "active" => since[q] <= lastActive[k]
    BY <2>1 DEF VouchInv, AwaitInv
  <2>3. snapshot[q] = "active" => now + KidTtl <= lastActive'[k] + Staleness
    BY <1>1, <1>3, <2>2 DEF Staleness
  <2>4. CacheInv'
    <3>1. ASSUME NEW i \in Instance, NEW j \in Key
          PROVE  \/ kidCache'[i][j] \in {kidCache[i][j], NoEntry("none")}
                 \/ /\ snapshot[q] = "active" /\ j = k
                    /\ kidCache'[i][j] = Entry("active", now, KidTtl)
      BY <1>3, <1>7 DEF FillKey, TypeOK
    <3>2. Entry("active", now, KidTtl).expiresAt = now + KidTtl
      BY DEF Entry
    <3> QED BY <1>1, <2>3, <3>1, <3>2, CacheKept DEF CacheInv, VouchInv
  <2>5. CASE Release(q)
    <3>1. pc'[q] = "idle"
      BY <2>5 DEF Release, TypeOK
    <3>2. AwaitInv'
      BY <1>o, <3>1 DEF AwaitInv
    <3> QED BY <1>1, <1>s, <2>1, <2>4, <3>2 DEF VouchInv
  <2>6. CASE ~Release(q)
    <3>1. /\ token' = [token EXCEPT ![q] = [token[q] EXCEPT !.verifiedAt = now]]
          /\ snapshot[q] = "active" /\ ClaimsPass(token[q].exp)
          /\ pc'[q] = "actor" /\ since'[q] = now
      BY <1>7, <2>6 DEF FillKey, Await, TypeOK
    <3>2. /\ token'[q].kid = k /\ token'[q].exp = token[q].exp
          /\ token'[q].verifiedAt = now
      BY <1>3, <3>1 DEF TypeOK, Token
    <3>3. token[q].exp <= now + MaxTtl + Skew
      BY <1>3, <3>1 DEF ClaimsPass
    <3>4. now <= lastActive'[k] + Staleness
      BY <1>3, <2>3, <3>1, TimeAssumption DEF Staleness
    <3>5. AwaitInv'
      BY <1>0, <1>3, <1>o, <3>1, <3>2, <3>3, <3>4 DEF AwaitInv, Verified
    <3> QED BY <1>1, <1>s, <2>1, <2>4, <3>5 DEF VouchInv
  <2> QED BY <2>5, <2>6
<1>8. CASE BindActor(q)
  <2>1. pc[q] = "actor" /\ pc'[q] = "idle" /\ kidCache' = kidCache
    BY <1>8 DEF BindActor, Release, TypeOK
  <2>2. AwaitInv'
    BY <1>o, <2>1 DEF AwaitInv
  <2>3. CacheInv'
    BY <1>1, <2>1, CacheKept DEF CacheInv, VouchInv
  <2>4. ASSUME session' # session PROVE SessionInv'
    <3>0. PICK b \in Actor : b = token[q].sub
      BY <1>3
    <3>1. /\ session' = [session EXCEPT ![b] = Open(token[q])]
          /\ ActorProject[b] = KeyProject[token[q].kid]
      BY <1>8, <2>4, <3>0 DEF BindActor
    <3>2. /\ Verified(token[q]) /\ since[q] = token[q].verifiedAt
          /\ now <= since[q] + QueryTime
      BY <2>1 DEF VouchInv, AwaitInv
    <3>3. token[q].verifiedAt <= lastActive'[token[q].kid] + Staleness
      BY <1>1, <1>3, <3>2, VerifiedKept DEF TypeOK, Token, Time
    <3>4. Backed(b)'
      <4>1. session'[b] = Open(token[q])
        BY <3>1 DEF TypeOK
      <4>2. /\ Open(token[q]).kid = token[q].kid
            /\ Open(token[q]).exp = token[q].exp
            /\ Open(token[q]).verifiedAt = token[q].verifiedAt
        BY DEF Open
      <4> QED BY <1>0, <3>1, <3>2, <3>3, <4>1, <4>2 DEF Backed, Verified
    <3>5. ASSUME NEW a \in Actor, a # b PROVE Backed(a)'
      <4>1. session'[a] = session[a]
        BY <3>1, <3>5 DEF TypeOK
      <4>2. Backed(a)
        BY DEF VouchInv, SessionInv
      <4> QED BY <1>0, <1>1, <4>1, <4>2, SessionKept
    <3> QED BY <3>4, <3>5 DEF SessionInv
  <2> QED BY <1>1, <1>s, <2>2, <2>3, <2>4 DEF VouchInv
<1> QED BY <1>4, <1>5, <1>6, <1>7, <1>8 DEF Verify

LEMMA InitVouched == Init => VouchInv
<1> SUFFICES ASSUME Init PROVE VouchInv
  OBVIOUS
<1>1. CacheInv
  BY TimeAssumption DEF Init, CacheInv, Staleness, NoEntry
<1>2. SessionInv
  BY DEF Init, SessionInv, Backed, Closed
<1> QED BY <1>1, <1>2 DEF Init, VouchInv, LastActiveInv, AwaitInv

LEMMA NextVouched == TypeOK /\ VouchInv /\ [Next]_vars => VouchInv'
<1> SUFFICES ASSUME TypeOK, VouchInv, [Next]_vars PROVE VouchInv'
  OBVIOUS
<1>0. TypeOK'
  BY NextType
<1>1. ASSUME NEW q \in Slot, Verify(q), RecordActive PROVE VouchInv'
  BY <1>0, <1>1, VerifyVouched
<1>2. ASSUME RecordActive, now <= now', UNCHANGED slotVars,
             \A q \in Slot : pc[q] # "idle" => now' <= since[q] + QueryTime,
             \A i \in Instance, k \in Key :
               kidCache'[i][k] \in {kidCache[i][k], NoEntry("none")},
             \A a \in Actor :
               /\ session'[a].connected => /\ session[a].connected
                                           /\ session'[a].kid = session[a].kid
                                           /\ session'[a].exp = session[a].exp
                                           /\ session'[a].verifiedAt = session[a].verifiedAt
               /\ now' = now \/ (session[a].connected => now' <= session[a].exp)
      PROVE  VouchInv'
  <2>1. LastActiveInv' /\ \A k \in Key : lastActive[k] <= lastActive'[k]
    BY <1>0, <1>2, LastActiveGrows DEF VouchInv
  <2>2. CacheInv'
    BY <1>0, <1>2, <2>1, CacheKept DEF VouchInv, CacheInv
  <2>3. AwaitInv'
    BY <1>0, <1>2, <2>1, AwaitKept DEF VouchInv, AwaitInv, slotVars
  <2>4. SessionInv'
    BY <1>0, <1>2, <2>1, SessionKept DEF VouchInv, SessionInv
  <2> QED BY <2>1, <2>2, <2>3, <2>4 DEF VouchInv
<1>w. \A q \in Slot : pc[q] # "idle" => now <= since[q] + QueryTime
  BY DEF VouchInv, AwaitInv
<1>n. now \in Int
  BY DEF TypeOK, Time
<1>3. ASSUME NEW a \in Actor, Broker(a), RecordActive PROVE VouchInv'
  <2>1. UNCHANGED <<now, kidCache, slotVars>>
    BY <1>3, BrokerType
  <2>2. \A b \in Actor : session'[b].connected =>
          /\ session[b].connected
          /\ session'[b].kid = session[b].kid /\ session'[b].exp = session[b].exp
          /\ session'[b].verifiedAt = session[b].verifiedAt
    <3>1. CASE Revalidate(a)
      <4>1. session[a] \in Connection
        BY <3>1 DEF Revalidate, TypeOK, Closed
      <4> QED BY <3>1, <4>1 DEF Revalidate, TypeOK, Connection, Closed
    <3>2. CASE ExpireSession(a)
      BY <3>2 DEF ExpireSession, TypeOK, Closed
    <3>3. CASE RevokeActor(a)
      BY <3>3 DEF RevokeActor
    <3> QED BY <1>3, <3>1, <3>2, <3>3 DEF Broker
  <2> QED BY <1>2, <1>3, <1>w, <1>n, <2>1, <2>2
<1>4. ASSUME NEW k \in Key, Administer(k), RecordActive PROVE VouchInv'
  <2>1. UNCHANGED <<now, slotVars, session>>
    BY <1>4, AdministerType
  <2>2. \A i \in Instance, j \in Key : kidCache'[i][j] \in {kidCache[i][j], NoEntry("none")}
    <3>1. ASSUME NEW j \in Key, InvalidateKey(j)
          PROVE  \A i \in Instance, l \in Key :
                   kidCache'[i][l] \in {kidCache[i][l], NoEntry("none")}
      BY <3>1 DEF InvalidateKey, TypeOK
    <3>2. InvalidateKey(k) \/ kidCache' = kidCache
      BY <1>4 DEF Administer, SaveKey, CommitKey
    <3> QED BY <3>1, <3>2
  <2> QED BY <1>2, <1>4, <1>w, <1>n, <2>1, <2>2
<1>5. CASE Tick /\ RecordActive
  <2>1. /\ now' = now + 1 /\ UNCHANGED <<kidCache, slotVars, session>>
        /\ \A q \in Slot : pc[q] # "idle" => now < since[q] + QueryTime
        /\ \A a \in Actor : session[a].connected => now < session[a].exp
    BY <1>5 DEF Tick
  <2>2. \A q \in Slot : since[q] + QueryTime \in Int
    BY TimeAssumption DEF TypeOK, Time
  <2>3. \A a \in Actor : session[a].connected => session[a].exp \in Int
    BY ConnectionType
  <2>4. \A q \in Slot : pc[q] # "idle" => now' <= since[q] + QueryTime
    BY <1>n, <2>1, <2>2
  <2>5. \A a \in Actor : session[a].connected => now' <= session[a].exp
    BY <1>n, <2>1, <2>3
  <2> QED BY <1>2, <1>5, <1>n, <2>1, <2>4, <2>5
<1>6. CASE UNCHANGED vars
  BY <1>6 DEF vars, dbVars, slotVars, VouchInv, LastActiveInv, CacheInv, AwaitInv,
     SessionInv, Backed, Verified
<1> QED BY <1>1, <1>3, <1>4, <1>5, <1>6, Steps

\* Every connection made with a client token was vouched for by a key of the
\* actor's own project that had been active within one cache lifetime and one
\* query, for any number of instances and overlapping revocations.
THEOREM ConnectionsVouchedFor == Spec => []VouchedFor
<1>1. TypeOK /\ VouchInv => VouchedFor
  <2> SUFFICES ASSUME TypeOK, VouchInv, NEW a \in Actor, session[a].connected
               PROVE  /\ KeyProject[session[a].kid] = ActorProject[a]
                      /\ session[a].verifiedAt <=
                           lastActive[session[a].kid] + KidTtl + QueryTime
    BY DEF VouchedFor
  <2>1. Backed(a)
    BY DEF VouchInv, SessionInv
  <2>2. lastActive[session[a].kid] \in Int /\ KidTtl \in Int /\ QueryTime \in Int
    BY ConnectionType, TimeAssumption DEF TypeOK, Time
  <2> QED BY <2>1, <2>2 DEF Backed, Verified, Staleness
<1> QED BY <1>1, InitType, NextType, InitVouched, NextVouched, PTL DEF Spec

\* A revoked key keeps nobody connected longer than the cache's lifetime, one
\* query, the longest life of a token and the clock skew together, provided a
\* query takes no longer than a token may live.
THEOREM RevokedKeysReach ==
  ASSUME QueryTime <= MaxTtl + Skew
  PROVE  Spec => []RevokedKeyReach
<1>1. TypeOK /\ VouchInv => RevokedKeyReach
  <2> SUFFICES ASSUME TypeOK, VouchInv, NEW a \in Actor, session[a].connected
               PROVE  now <= lastActive[session[a].kid] + KidTtl + QueryTime
                               + MaxTtl + Skew
    BY DEF RevokedKeyReach
  <2>1. Backed(a)
    BY DEF VouchInv, SessionInv
  <2>2. /\ now \in Int /\ lastActive[session[a].kid] \in Int
        /\ session[a].exp \in Int /\ session[a].verifiedAt \in Int
    BY ConnectionType DEF TypeOK, Time
  <2> QED BY <2>1, <2>2, TimeAssumption DEF Backed, Verified, Staleness
<1> QED BY <1>1, InitType, NextType, InitVouched, NextVouched, PTL DEF Spec

-----------------------------------------------------------------------------
(* The revoking instance.  While no lookup has overlapped a transaction on  *)
(* the key, none is in flight during it, so what it drops from the cache    *)
(* stays dropped; and a lookup that began after the commit cannot have     *)
(* read an active row.                                                     *)

Clear(k) == ~Hit(kidCache[txn[k].on][k], now)

Effective(k) ==
  ~overlapped[k] =>
    /\ txn[k].step # "none" => ~Looking(k)
    /\ txn[k].step = "invalidated" => Clear(k)
    /\ txn[k].step = "none" /\ key[k] # "active" =>
         /\ Clear(k)
         /\ \A q \in Slot : pc[q] = "loaded" /\ token[q].kid = k => snapshot[q] # "active"

EffectInv == \A k \in Key : Effective(k)

\* An entry that was no hit, or was dropped, is none later.
LEMMA ClearKept ==
  ASSUME TypeOK, TypeOK', now <= now', NEW k \in Key, txn'[k].on = txn[k].on,
         \/ /\ Clear(k)
            /\ kidCache'[txn[k].on][k] \in {kidCache[txn[k].on][k], NoEntry("none")}
         \/ kidCache'[txn[k].on][k] = NoEntry("none")
  PROVE  Clear(k)'
<1>1. txn[k].on \in Instance
  BY DEF TypeOK
<1>2. /\ kidCache[txn[k].on][k].expiresAt \in Int
      /\ now \in Int /\ now' \in Int /\ 0 <= now'
  BY <1>1 DEF TypeOK, Time
<1> QED BY <1>2 DEF Clear, Hit, NoEntry

LEMMA VerifyEffective ==
  ASSUME TypeOK, TypeOK', NEW q \in Slot, Verify(q), NEW k \in Key, Effective(k)
  PROVE  Effective(k)'
<1> SUFFICES ASSUME ~overlapped'[k] PROVE Effective(k)'
  BY DEF Effective
<1>0. now' = now /\ key' = key /\ txn' = txn /\ now \in Int
  BY VerifyType DEF TypeOK, Time
<1>1. \A p \in Slot \ {q} : /\ pc'[p] = pc[p] /\ token'[p] = token[p]
                            /\ snapshot'[p] = snapshot[p]
  BY OthersKept
<1>2. ASSUME ~overlapped[k],
             pc'[q] \in {"query", "loaded"} /\ token'[q].kid = k =>
               \/ txn[k].step = "none"
               \/ pc[q] \in {"query", "loaded"} /\ token[q].kid = k,
             pc'[q] = "loaded" /\ token'[q].kid = k =>
               \/ snapshot'[q] = key[k]
               \/ snapshot'[q] = snapshot[q] /\ pc[q] = "loaded" /\ token[q].kid = k,
             \/ kidCache'[txn[k].on][k] \in {kidCache[txn[k].on][k], NoEntry("none")}
             \/ pc[q] = "loaded" /\ token[q].kid = k /\ snapshot[q] = "active"
      PROVE  Effective(k)'
  <2>1. txn[k].step # "none" => ~Looking(k) /\ ~Looking(k)'
    BY <1>0, <1>1, <1>2 DEF Effective, Looking
  <2>2. CASE txn[k].step = "invalidated"
    <3>1. ~(pc[q] = "loaded" /\ token[q].kid = k)
      BY <2>1, <2>2 DEF Looking
    <3>2. Clear(k)'
      BY <1>0, <1>2, <2>2, <3>1, ClearKept DEF Effective
    <3> QED BY <1>0, <2>1, <2>2, <3>2 DEF Effective
  <2>3. CASE txn[k].step = "none" /\ key[k] # "active"
    <3>1. pc[q] = "loaded" /\ token[q].kid = k => snapshot[q] # "active"
      BY <1>2, <2>3 DEF Effective
    <3>2. Clear(k)'
      BY <1>0, <1>2, <2>3, <3>1, ClearKept DEF Effective
    <3>3. \A p \in Slot : pc'[p] = "loaded" /\ token'[p].kid = k => snapshot'[p] # "active"
      BY <1>1, <1>2, <2>3, <3>1 DEF Effective
    <3> QED BY <1>0, <2>3, <3>2, <3>3 DEF Effective
  <2> QED BY <1>0, <2>1, <2>2, <2>3 DEF Effective
<1>3. CASE PresentHit(q)
  <2>1. pc'[q] = "actor" /\ kidCache' = kidCache /\ overlapped' = overlapped
    BY <1>3 DEF PresentHit, Await, dbVars, TypeOK
  <2> QED BY <1>2, <2>1
<1>4. CASE PresentMiss(q)
  <2>1. PICK j \in Key, a \in Actor, e \in Exps :
          /\ ~Hit(Cached(q, j), now)
          /\ token' = [token EXCEPT ![q] = [kid |-> j, sub |-> a, exp |-> e,
                                            verifiedAt |-> 0]]
          /\ kidCache' = [kidCache EXCEPT ![InstanceOf[q]][j] = NoEntry("none")]
          /\ overlapped' = [overlapped EXCEPT ![j] = @ \/ txn[j].step # "none"]
    BY <1>4, Zenon DEF PresentMiss
  <2>2. token'[q].kid = j /\ pc'[q] = "query"
    BY <1>4, <2>1 DEF PresentMiss, Await, TypeOK
  <2>3. overlapped'[j] <=> overlapped[j] \/ txn[j].step # "none"
    <3>1. j \in DOMAIN overlapped
      BY DEF TypeOK
    <3> QED BY <2>1, <3>1
  <2>4. j # k => overlapped'[k] = overlapped[k]
    BY <2>1 DEF TypeOK
  <2>5. ~overlapped[k] /\ (j = k => txn[k].step = "none")
    BY <2>3, <2>4
  <2>6. kidCache'[txn[k].on][k] \in {kidCache[txn[k].on][k], NoEntry("none")}
    BY <2>1 DEF TypeOK
  <2> QED BY <1>2, <2>2, <2>5, <2>6
<1>5. CASE ReadKey(q)
  <2>1. /\ pc[q] = "query" /\ token' = token /\ snapshot'[q] = key[token[q].kid]
        /\ kidCache' = kidCache /\ overlapped' = overlapped
    BY <1>5 DEF ReadKey, TypeOK, dbVars
  <2> QED BY <1>2, <2>1
<1>6. CASE FillKey(q)
  <2>1. pc[q] = "loaded" /\ pc'[q] \in {"actor", "idle"} /\ overlapped' = overlapped
    BY <1>6 DEF FillKey, Await, Release, TypeOK, dbVars
  <2>2. \/ kidCache'[txn[k].on][k] = kidCache[txn[k].on][k]
        \/ token[q].kid = k /\ snapshot[q] = "active"
    BY <1>6 DEF FillKey, TypeOK, Token
  <2> QED BY <1>2, <2>1, <2>2
<1>7. CASE BindActor(q)
  <2>1. pc'[q] = "idle" /\ kidCache' = kidCache /\ overlapped' = overlapped
    BY <1>7 DEF BindActor, Release, TypeOK, dbVars
  <2> QED BY <1>2, <2>1
<1> QED BY <1>3, <1>4, <1>5, <1>6, <1>7 DEF Verify

LEMMA AdministerEffective ==
  ASSUME TypeOK, TypeOK', NEW j \in Key, Administer(j), NEW k \in Key, Effective(k)
  PROVE  Effective(k)'
<1>0. now' = now /\ now \in Int /\ Looking(k)' = Looking(k)
      /\ pc' = pc /\ token' = token /\ snapshot' = snapshot
  BY AdministerType DEF Looking, slotVars, TypeOK, Time
<1>1. ASSUME NEW i \in Instance, SaveKey(i, j) PROVE Effective(k)'
  <2>1. kidCache' = kidCache /\ key' = key
    BY <1>1 DEF SaveKey
  <2>2. CASE j = k
    <3>1. overlapped' = [overlapped EXCEPT ![k] = Looking(k)]
      BY <1>1, <2>2 DEF SaveKey
    <3>2. k \in DOMAIN overlapped
      BY DEF TypeOK
    <3>3. overlapped'[k] <=> Looking(k)
      BY <3>1, <3>2
    <3>4. txn'[k].step = "saved"
      BY <1>1, <2>2 DEF SaveKey, TypeOK
    <3> QED BY <1>0, <3>3, <3>4 DEF Effective
  <2>3. CASE j # k
    <3>1. txn'[k] = txn[k]
      BY <1>1, <2>3 DEF SaveKey, TypeOK
    <3>2. overlapped' = [overlapped EXCEPT ![j] = Looking(j)]
      BY <1>1 DEF SaveKey
    <3>3. overlapped'[k] = overlapped[k]
      BY <2>3, <3>2 DEF TypeOK
    <3> QED BY <1>0, <2>1, <3>1, <3>3 DEF Effective, Clear
  <2> QED BY <2>2, <2>3
<1>2. CASE InvalidateKey(j)
  <2>1. /\ txn[j].step = "saved" /\ overlapped' = overlapped /\ key' = key
        /\ kidCache' = [kidCache EXCEPT ![txn[j].on][j] = NoEntry("none")]
        /\ txn' = [txn EXCEPT ![j].step = "invalidated"]
    BY <1>2 DEF InvalidateKey
  <2>2. txn[k].on \in Instance /\ txn'[k].on = txn[k].on
        /\ txn'[k].step = IF j = k THEN "invalidated" ELSE txn[k].step
    BY <2>1 DEF TypeOK
  <2>3. kidCache'[txn[k].on][k] = IF j = k THEN NoEntry("none")
                                  ELSE kidCache[txn[k].on][k]
    BY <2>1, <2>2 DEF TypeOK
  <2>4. CASE j = k
    <3>1. Clear(k)'
      BY <1>0, <2>2, <2>3, <2>4, ClearKept
    <3> QED BY <1>0, <2>1, <2>2, <2>4, <3>1 DEF Effective
  <2>5. CASE j # k
    BY <1>0, <2>1, <2>2, <2>3, <2>5 DEF Effective, Clear
  <2> QED BY <2>4, <2>5
<1>3. CASE CommitKey(j)
  <2>1. /\ txn[j].step = "invalidated" /\ overlapped' = overlapped
        /\ kidCache' = kidCache
        /\ txn' = [txn EXCEPT ![j].step = "none"]
        /\ key' = [key EXCEPT ![j] = txn[j].to]
    BY <1>3 DEF CommitKey
  <2>2. /\ txn'[k].on = txn[k].on
        /\ txn'[k].step = IF j = k THEN "none" ELSE txn[k].step
        /\ j # k => key'[k] = key[k]
    BY <2>1 DEF TypeOK
  <2>3. CASE j = k
    <3>1. ~overlapped[k] => ~Looking(k) /\ Clear(k)
      BY <2>1, <2>3 DEF Effective
    <3>2. ~overlapped[k] => Clear(k)'
      BY <1>0, <2>1, <2>2, <3>1 DEF Clear
    <3> QED BY <1>0, <2>1, <2>2, <2>3, <3>1, <3>2 DEF Effective, Looking
  <2>4. CASE j # k
    BY <1>0, <2>1, <2>2, <2>4 DEF Effective, Clear
  <2> QED BY <2>3, <2>4
<1> QED BY <1>1, <1>2, <1>3 DEF Administer

LEMMA NextEffective == TypeOK /\ EffectInv /\ [Next]_vars => EffectInv'
<1> SUFFICES ASSUME TypeOK, EffectInv, [Next]_vars, NEW k \in Key PROVE Effective(k)'
  BY DEF EffectInv
<1>0. TypeOK' /\ Effective(k)
  BY NextType DEF EffectInv
<1>1. ASSUME NEW q \in Slot, Verify(q) PROVE Effective(k)'
  BY <1>0, <1>1, VerifyEffective
<1>2. ASSUME NEW a \in Actor, Broker(a) PROVE Effective(k)'
  BY <1>0, <1>2, BrokerType DEF Effective, Clear, Looking, slotVars
<1>3. ASSUME NEW j \in Key, Administer(j) PROVE Effective(k)'
  BY <1>0, <1>3, AdministerEffective
<1>4. CASE Tick
  <2>1. UNCHANGED <<dbVars, kidCache, slotVars>> /\ now <= now'
    BY <1>4 DEF Tick, TypeOK, Time
  <2>2. Clear(k) => Clear(k)'
    BY <1>0, <2>1, ClearKept DEF dbVars
  <2> QED BY <1>0, <2>1, <2>2 DEF Effective, Looking, dbVars, slotVars
<1>5. CASE UNCHANGED vars
  BY <1>0, <1>5 DEF vars, dbVars, slotVars, Effective, Clear, Looking
<1> QED BY <1>1, <1>2, <1>3, <1>4, <1>5, Steps

\* When no lookup of a key overlapped the transaction that revoked it, the
\* instance that revoked it does not hold it, for any number of instances.
THEOREM RevocationsTakeEffect == Spec => []RevocationTakesEffect
<1>1. Init => EffectInv
  BY DEF Init, EffectInv, Effective
<1>2. EffectInv => RevocationTakesEffect
  BY DEF EffectInv, Effective, Clear, RevocationTakesEffect
<1> QED BY <1>1, <1>2, InitType, NextType, NextEffective, PTL DEF Spec
=============================================================================
