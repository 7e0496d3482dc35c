# nolag-core in TLA+

nolag-core is the authorization core of a realtime messaging service: a NestJS
library over Postgres that tells a broker which topics a connection may use, and
gives administrators the facades that change the answer. Several instances of it
run against one database (READ COMMITTED); inside an instance, handlers
interleave at every `await`. This directory holds TLA+ modules of that core, the
TLC runs that check them on small instances, and TLAPS proofs about them for
every instance. Paths below are relative to the repository; modules live under
`src/modules/` there.

## 1. Inventory

| Component | State | Operations | What is hard | What makes it correct |
|---|---|---|---|---|
| Authorization, `authzModule` | none of its own: it reads every table | `validateActor`, `revalidateActor`, `checkRoomAccess`, `updateSubscription`, `clearSubscriptions`, `getActorScope` | up to nine queries per answer, no transaction around them, writes in between; a cached authentication; three entry points that repeat the same rules | the answer stays in the tenant; no room that was closed throughout; scope fails closed; check and validate agree; revocation arrives |
| Actor tokens, `actorTokenModule` | `actor_token`, `actor_app_access`, `_authCache` per instance | create, patch, delete, authenticate | a cached row outlives its deletion; a scope is asserted without a lock; patch takes FOR SHARE, then updates | deleted actors end up disconnected; an actor's scope exists |
| Recorded subscriptions, `actor_token_state` | at most one row per actor is intended | subscribe, unsubscribe, clear, upsert, drop, read back | read-modify-write by overlapping calls, only one of them locking; FOR UPDATE of no row | no lost update; one row per actor |
| Signing keys, `signingKeyModule` | `signing_key`, `_kidCache` per instance | verify, create, patch, delete | the cache is invalidated before the commit and on one instance only; TTLs, skew and the hour cap add up | a key vouches for its own project only, and for a bounded time after revocation |
| Access scopes, `accessScopeModule` | `access_scope` | create, patch, delete | delete counts actors while an assignment asserts the scope | no actor in a deleted scope; an inactive one gives nothing |
| Projects, `projectModule` | `project`, limits | create, patch, `syncLimits`, soft delete | a soft-deleted project keeps its rows | no access in a deleted project; a limit of null is none where limits were synchronised, the default where not |
| Apps, `platformAppModule` | `app` | create, patch, delete | check-then-insert on slugs | one live app per slug; mode changes reach the resolution |
| Rooms and grants, `roomModule` | `room`, `room_actor_access` | create, `ensureRoom`, static provisioning, patch, delete; grant create, update, delete | grants are patched in memory without a lock; the cap is counted in another transaction; duplicate check without an index | a private room stays private until its last grant is deleted; a revoked grant stays revoked; the cap holds |
| Lobbies, `lobbyModule` | `lobby`, `lobby_room`, two caches | create, provision, patch, delete, add and remove rooms, list, the lobbies of a session | count-then-insert; fill after invalidate, on several instances; a session's two reads | the cap is exceeded by the overlap at most; a cached list is the table's but for named races; a session lists what stood throughout |
| Import and export, `projectConfigModule` | none | import, export, hard delete | a dozen reads without a snapshot; ids re-made from slugs | what is exported refers to nothing it leaves out; what stood throughout is exported; the copy gives the same access but for named cases; limits keep their meaning |
| TTL cache, `common/utils/ttlCache.ts` | a map | get, set, delete, sweep | the boundary instant | nothing is returned past its time |
| Secrets, validators, paging, DTOs, wiring | none, or read-once settings | pure functions | nothing concurrent | unit-testable |
| `example/`, `ui/`, `quickstart/`, scripts | a host application and a console around the core | call the facades above | nothing of their own | not modelled |
| The broker | its connections and the topics it caches for each | external | acts on answers in the order they arrive | modelled from how the core describes it |

**Interaction.** The broker calls `validateActor` on connect and caches the topics
it answers; it calls `checkRoomAccess` on a subscribe that misses them, adds what
is allowed, and calls `revalidateActor` periodically, replacing the set or
dropping the connection. Administrators reach the same tables through the
facades. The only in-memory state shared by handlers is the three caches.

The hazards, each at its line and each with the properties that would catch it
going wrong, are in `PROJECT.json`.

## 2. Modules

| Module | Models | Used by |
|---|---|---|
| `TtlCache` | one entry of the TTL cache: hit, set, no entry | Authz, SigningKeys |
| `AuthzRules` | the schema as constants and row sets; the resolution rules as operators on one database | Authz |
| `Authz` | requests, query by query, against administrative transactions, the clock and the broker | MCAuthz, ProjectConfig, the Authz proofs |
| `AuthzOneRead` | what an answer is that nothing was written during: the rules, on one database | MCAuthzRequests, AuthzAnswerProofs |
| `ProjectConfig` | export, query by query, above the tables of Authz; import; limits | MCProjectConfig |
| `SigningKeys` | client tokens on several instances, key revocation, the session they open | MCSigningKeys |
| `SubscriptionRequests` | requests on a list of subscriptions, and what each makes of it | the next two |
| `Subscriptions` | abstract: each call takes effect once, atomically, on one list | refined by SubscriptionState |
| `SubscriptionState` | the rows, row locks, unlocked find-and-save | MCSubscriptionState |
| `SlugTables` | rows addressed by slug, their unique index, requests on them | Registry, Rooms, Lobbies |
| `Registry` | abstract: each call on rooms takes effect, or is refused, at one instant | refined by Rooms |
| `Rooms` | `RoomFacade`, one query per action | Lobbies |
| `Lobbies` | `LobbyFacade` beside the rooms: lobby rows, memberships, cached lists, sessions | MCLobbies |
| `MC*` | constants for TLC | the cfgs |
| `AuthzProofs`, `AuthzAdminProofs`, `AuthzAnswerProofs`, `SigningKeysProofs`, `SubscriptionStateProofs`, `RoomsProofs`, `LobbiesProofs`, `ProjectConfigProofs` | theorems | |

### AuthzRules and Authz

A database `d` is a record with one function per table. A row's `state` is
`absent`, `live` or `deleted` (`deleted_at` set); a project is `live`, `deleted`
(soft) or `gone` (hard, with its cascade). Foreign keys never change after
creation, so they are constants (`RoomApp`, `GrantRoom`, ...). Permissions, topic
names and slugs are members of small sets; an address keeps room, topic,
permission and scope segment. Which of several rows a query returns first is not
specified by the SQL, so `RowOrders` gives every order of the grant rows. One order
serves both resolutions: of several active grants that name the actor in a room
validate takes the last (`SessionPick`), `checkRoomAccess` the first (`CheckPick`); of
several that name only its type both take the first.

`ExplicitAccess`, `OpenAccess`, `RoomsOf`, `Deciding`, `RoomTopics` are
`_buildAppAccess` in the order of the code; `CheckTopics` is `checkRoomAccess`.
Each is a function of *one* database. `Authz` then runs them one query per action
on whatever the database holds at that instant:

    connect     idle -(cache hit)-> project      idle -> token -> verify -> project
    revalidate  idle -> actor -> project
    both        project -> scope -> appGrants -> openApps -> rooms -> roomGrants -> answer
    check       idle -> actor -> scope -> app -> [appGrant] -> room -> checkGrants -> answer
    any         -> denied

`row`, `resolved`, `access`, `rooms`, `allowed` are the handler's local
variables. `session` is the broker's cache. `seen` is a history variable: per
request, the apps, rooms, doors and scopes that admitted the actor at some
instant since it began.

An administrative transaction is one action where its row lock or its single
statement makes it so. Where the code checks and writes without a lock that joins
the two, it is two actions: `AssertScope`/`WriteScope` (the scope is counted, the
actor written), `CountActors`/`RemoveScope`, and `PatchGrant`/`SaveGrant` (the
grant is found and patched in memory, then saved). `CreateGrant`'s duplicate
check is no guard because nothing enforces it. A room grant may name an actor of another
project, which `create` does not refuse, and goes when either project is erased
(`GrantProjects`).

`AuthzOneRead` adds a history variable, `still`: have tables and clock stood still since
the request began? `Told` and `Admissible` are what the rules answer to it.

### SigningKeys

`PresentHit`, or `PresentMiss`, `ReadKey`, `FillKey`, then `BindActor`, is
`verifyClientToken` followed by `_validateClientToken`. A revocation is `SaveKey`,
`InvalidateKey`, `CommitKey`, in the order of the code: the cache of *one*
instance is dropped *before* the commit. `lastActive` and `overlapped` are
history.

### SubscriptionState

`SelectForUpdate`/`SaveUpdate` is `updateSubscription`; `Find` and one of
`ClearNothing`, `SaveFound`, `UpsertNew` are `clearSubscriptions` and
`upsertState`; `DeleteRows` is `clearState` and the deletion with the actor;
`ReadBack` is the read of a restore on reconnect. `FOR UPDATE` locks the rows that exist and
nothing else. `Subscriptions` is the abstraction, with `recorded <- Recorded`.
`Apart` states what callers must do for the refinement to hold from an empty
table: nobody overlaps the call that makes the first row, or the one that drops
the rows. With `Apart = FALSE` the code's own promise fails (section 7).

### SlugTables, Registry and Rooms

A `Table` maps each id to `Blank` or a row with a state, a slug and a setting (the
columns an update may change). Ids are minted in increasing order, as UUID v7 are.
`Indexed` is the partial unique index on `(app_id, slug)`: marked rows are outside
it. Slugs are members of a set, and none is refused for its form: the facades validate
neither declared nor generated slugs (the DTOs of a host's requests do, before the call). What
an import makes of a slug outside the pattern is in `ProjectConfig`.

A call is `waiting` for one request and at one `step`:

    ensure     find -> count -> check -> insert -> (refind on any error)
    create                      check -> insert
    provision                            insert      (a batch, in one transaction)
    update, delete   lock -> locked

`insert` is the instant the transaction commits: the index then decides. `locked`
holds the row `FOR SHARE`; a write waits until no other call holds it, and if two
holders both want to write, PostgreSQL aborts either (`BreakDeadlock`). `save()`
writes nothing when no column differs, and then waits for nobody (`Writes`).
`ensured` and `freed` are history: the rooms `ensureRoom` made, and whether the slug
a call ensures was given up since the call was made. `Rooms` refines `Registry`
under the identity: the queries before the one that decides are stutters, and
`Registry` says which refusals a caller may see. It allows the cap to refuse a slug that
another call has just created, because `ensureRoom` does.

### Lobbies

`Lobbies` extends `Rooms`, so that calls on both interleave; its own variables are
`lobby` (a slug table), `members` (the rows of `lobby_room`, which outlive both
ends), `cache` (per instance, the list of rooms of a lobby and of lobbies of a
room) and the calls. `ValidateAdd`/`SaveMember` is `addRoomToLobby`: one
statement validates and counts, the next inserts. `FindLobby`/`EraseMember` is
the removal. Both end in `DropLists`, after the commit, on the instance they ran
on. `QueryList`/`FillList` is a cache miss, `ExpireList` the end of an entry at any
time. `ReadLinks`/`ReadLobbies` is `_attachLobbies` of `AuthzService`. History:
`added` (memberships `addRoomToLobby` made), `raced` (lists that an instance holds, or
is about to store, while a change went past it), `standing` and `seen` (lobbies a
session should show at every, and at some, instant of its call).

### ProjectConfig

Extends `Authz` with the tables authorization never reads: lobbies, memberships and the
limit columns (`edits` counts writes to them). `exportProject` is one action per
query, and the loops' remaining iterations are `todo`, `apps` and `here`: scopes,
apps, rooms and type grants of each, lobbies and memberships of each, actors and
the app grants of each, room grants, keys. The document `doc` has the shape of the
tables it lists. An import is one transaction in another deployment: `Accepts` is
its validation (limits of at least one, slugs of the pattern, references within
the document), `Imported` the tables it makes, and `copy` the result. Documents
address rows by slug and an import mints new ids; both are represented by the row
that the slug named. Null topics of an app are the empty list to every reader, and
are written so. `Irregular` is the set of rows whose slug, declared at start, created in process
or made from a name, is outside the pattern. `HandWritten` documents exercise the refusals. History: `steady` (rows
live at every instant since the export began), `joined` (the same for
memberships), `bound` (scopes each actor was in meanwhile), `quiet` (was nothing
written?).

## 3. Runs

| Run | Instance | Question |
|---|---|---|
| `AuthzGrants` | one project, two rooms, three grants (two on the same target), an actor whose access may expire; ten worlds, two writes of any of the six kinds; no requests | Do the two resolutions agree in every database (`CheckAgrees`)? Does erasing a project end all access (`ErasedGivesNothing`)? Does time ever widen access (`TimeNeverWidens`)? Does anything but a deletion open a private room (`OnlyDeletionReopens`)? Can a revoked grant come back (`RevocationIsFinal`)? |
| `AuthzRequests` | two projects, a connect and a check in flight, two writes anywhere between their queries, expiring grants, a cached authentication | Is what an answer holds of the actor's own tenant (`TenantIsolation`), in its scope (`ScopeJustified`), and was it open at some time (`RoomsJustified`)? Is an answer that nothing was written during the one the rules give (`AnswersAsOneRead`)? `TypeOK` |
| `AuthzConverges` | a connect, a check and a revalidate, one write to the actor or its scope, fairness | Does a deleted actor that is out stay out (`OutForGood`), and does it get there (`RevokedStaysOut`)? Does the broker's cache come down to the tables (`SessionConverges`)? |
| `SigningKeys` | two instances, a verification on each, a key, an actor of its project and one of another, two writes | `VouchedFor`, `RevokedKeyReach`, `RevocationTakesEffect`, `TypeOK` |
| `Subscriptions` | two callers, two topics, every operation, from an empty table, two row ids | the refinement `TakesEffectOnce` through creation, overlap and deletion of the row; `TypeOK` |
| `Provisioning` | three room and three lobby ids, three slugs, two calls on each kind in flight, two instances, both caps 1; thirteen starting points (`MCPlaces`), each with its tables and its budget of calls | do rooms implement the registry (`Registered`), by how much are the caps exceeded (`EnsuredWithinCap`, `AddedWithinCap`), which cached lists are stale (`ListsCurrent`), what does a session list (`SessionLobbies`), can a call that overlaps a deletion change the deleted lobby (`DeletedLobbiesStay`)? |
| `ProjectConfig` | two actors of a type, an actor of a second project, two scopes, an app with three rooms, one of them not there yet and with a slug outside the pattern, three grants, one of them to the foreign actor, a lobby; limits of minus one, zero and more; four worlds and five hand-written documents; one administrative write and one edit anywhere in the export | for what may an import refuse an export (`ExportImports`), what may it miss (`StandingRowsExported`, `ScopeNotLost`), is the copy's access that of the original (`CopyKeepsAccess`, `CopyWidensOnly`, `LimitsSurvive`)? |
| `AuthzCheckMatches`, `AuthzScopeDelete`, `SigningKeysRace`, `SigningKeysRevalidate`, `SubscriptionsRows` | the smallest that show it | one statement of the repository each, which the code does not keep (section 7) |

**Why the bounds are enough.** *Writes.* Two writes in `Authz`: each property relates two
tables, so a first write sets the trap (an assertion, a patch in memory, a disabled
grant) and a second springs it; writes that are split over two actions count once. `AuthzConverges` has one: it asks
whether what three requests began before a write is undone once they are through, and
the safety half of it (`OutForGood`) is proved for any number.
In `ProjectConfig` one of each kind: every read of the export is compared with one
earlier read, and a row is lost or kept by one change between the two; the worlds
already hold what a further write would set up (an actor bound to a deleted scope,
a type grant that expires). *Actors.* One suffices in `Authz`, because actors meet
only in the tables, which administrators change freely; a second project is there
for the properties about tenants. In `ProjectConfig` there is a second actor for a room
that is private to the other, and one of a second project for a room that is private to
nobody who is exported. *Time.* `MaxTime` 1 separates before and after every expiry and
every cache lifetime. In `ProjectConfig` it is 0, as its properties look at `now` and
`now + 1`. The signing-key run lets the clock reach five, since its bound
`KidTtl + QueryTime + MaxTtl + Skew` is four and an exact bound is only worth
checking beyond it; its tokens expire at 1, soon enough to be refused as expired,
or at 5, too far ahead to be accepted before 3. *Calls.* Two calls at once on one
row: a third would wait for the lock or repeat an unlocked find. Two on rooms and
two on lobbies: the caps of 1 are then reached, and exceeded by one. A starting
point has a budget of three or four calls chosen to meet on one slug, row, list or
cap: one budget for all would only multiply the calls that do not meet. The
theorems of section 5 have none of these bounds.

`CHECK_DEADLOCK FALSE` stands in the cfgs in which the system may stop:
`AuthzGrants`, `AuthzCheckMatches` and `AuthzScopeDelete`, without requests, where
writes and clock run out; the signing-key ones, where the bounded clock does;
`ProjectConfig` and `Provisioning`, where the budgets do. In every other run
TLC checks deadlock.

**Fairness.** `Authz!FairSpec` assumes that an awaited query is answered
(`Continue`), that the broker keeps revalidating a live connection
(`StartRevalidate`; the facade's documentation says it is called periodically),
that an open transaction ends (`CommitStep`) and that time passes. All are weak.
Nobody has to connect, check, disconnect or administer, so convergence never rests
on a helpful client. `Settled` and `Quiet` are the points after which the claim is
made: administrators are done, no connect is on its way and the cached
authentication is old. A check that had begun by then may still answer, late. No
other run assumes fairness.

## 4. Properties

Only those that are not evident from their names:

- `RoomsJustified`: an answer torn over several reads can mix instants, but each
  conjunct of a room's admission was true at *some* instant of the request. There
  need not be one instant at which all were.
- `ScopeJustified`: the scope of an answer is that of the actor row it began with,
  never none for a scoped actor.
- `AnswersAsOneRead`: an answer is the rules' answer for the tables, in some one order
  of the grant rows, if nothing was written and no time passed while it was put together,
  and a connect did not start from an older cached row. Other requests may run. A request
  is refused only where the rules refuse it; for want of topics only a check is.
- `OutForGood`: an action property beside the liveness of `RevokedStaysOut`. `ShutOut`
  names what could still let a deleted actor in: a connection, a usable cached row, a
  connect that has read the old row. With none of these, no step makes one.
- `TimeNeverWidens` excepts open apps: there an explicit grant that expires gives
  way to the wider access of the open app.
- `CheckAgrees` asks both resolutions for every order of the grant rows, the same for
  both. It excepts what the code treats differently (`Comparable`): an open app that is
  also held explicitly, two active grants that name the actor in the room, and a
  soft-deleted project. The unrestricted form is `CheckMatchesValidate`.
- `RevocationIsFinal`: a patch that had read a grant before its revocation may still
  save what it read. Once no such patch is in flight, nothing brings it back.
- `RevokedKeyReach`: a session opened by a key revoked at time `t` is over by
  `t + KidTtl + QueryTime + MaxTtl + Skew`.
- `RevocationTakesEffect` holds only when no lookup of the key overlapped the
  transaction; without that premise it is `RevocationEmptiesCache`.
- `Registered`: linearizability of the room calls, as a refinement. It contains
  uniqueness of live slugs, `ensureRoom` returning the room of its slug or making
  it, and no update surviving on a deleted room.
- `EnsuredWithinCap`, `AddedWithinCap`: cap plus calls in flight minus one, the
  exact excess of a count that the insert does not repeat. They speak of what
  `ensureRoom` and `addRoomToLobby` made; `createRoom` and provisioning know no cap.
- `ListsCurrent` excepts a list that a change of another instance, or of
  provisioning, went past, one read before and stored after such a change, and one
  that is about to be dropped. Nothing else may leave a stale list.
- `SessionLobbies`: `standing` is contained in what is shown, and that in `seen`.
- `DeletedLobbiesStay`: a patch that found the lobby before its deletion does not write
  it afterwards, because the writes wait for the share locks of others.
- `ExportImports` excepts limits below one and slugs outside the pattern, which the
  export writes and the import refuses (section 7). What it rules out is any other
  refusal, that is, a reference to a row the export left out.
- `LimitsSurvive`: columns of null and columns never synchronised keep their two
  meanings in the copy. A copy has no limit below one, since it would not have been
  imported.
- `ScopeNotLost`: that an exported actor has no scope needs an instant at which it
  had none, or a scope that did not stand throughout. Without the second case it is
  false: an actor moved to a scope created after the scopes were read is written
  without one, which an import makes project-wide.
- `CopyWidensOnly`: the copy of an idle project gives more in three cases. An actor
  bound to a deleted scope becomes unscoped; the expiry of a type grant is not
  exported and imports as never; grants that name deleted actors or actors of other
  projects are not exported, and were all that kept a room private. `CopyKeepsAccess` says that it never gives less.

Each property of a passing run has a faulty variant of a definition (named in
`PROJECT.json`, commented "Faulty variant" in the module) that breaks it.

## 5. Proofs

Checked by TLAPS for all values of the constants, from the named assumptions, which
TLC evaluates in the runs: `KeysAssumption` and `NullsAssumption` (AuthzRules),
`SlotAssumption`, `InitialAssumption` and `InputAssumption` (Authz),
`ConfigAssumption` and `IdAssumption` (ProjectConfig),
`KeyAssumption` and `TimeAssumption` (SigningKeys), `RowAssumption`
(SubscriptionState), `TableAssumption`, `RoomAssumption`, `LobbyAssumption` and
`LinkAssumption`. No
bound on writes, time or calls and no fairness is used; finiteness only of the sets
counted by a cap and of the grant rows, which come back in some order.

*Authorization.*

- `TypeCorrect`: `TypeOK` is inductive. One lemma serves administrative steps (each
  but the erasure replaces one row by a row of its kind, `Successor`) and one serves
  requests, one step per action.
- `TenantsAreIsolated`: `TenantIsolation` speaks of sessions only and is not
  inductive: an answer in preparation must be clean too. The invariant adds that
  explicit app grants stay in their tenant (`GrantsInTenant`), and that what a
  request has read so far does: its app access, scope and topics. Of the scope
  it needs nothing about the actor's row: the code compares the scope's project when
  it resolves it, so the theorem holds for a stale cached row and a dangling scope
  as well.
- `ChecksAgree`: after type correctness a statement about one database: both
  resolutions are reduced to `RoomTopics` of the same access entry. The grants they pick
  are the same in every order (`PicksAgree`): of grants that name the actor there is at
  most one by hypothesis, so first and last are one row (`OrderEnds`: a finite set of rows
  has both ends), and of those that name its type both take the first.
- `RevocationsAreFinal`: an action property. Steps that change a grant are
  enumerated; only a save of a patch in flight can make a deleted row live, and
  only a live row can be found by a new patch.
- `DeletionAloneReopens`: a private room opens when its last live grant goes. A
  disabled grant still makes its room private, and no write but a deletion makes a
  live row something else (`PatchesLive`: what a patch in flight is about to save is live too).
- `TimeTakesAway`: only `Tick` moves the clock, and it leaves the tables alone; an
  expiry that holds now held earlier (`HeldEarlier`), for actor, app grant and room grant alike.
- `ErasureEndsAccess`: `ErasedInv` adds that no actor of an erased project is about
  to be written, which the foreign keys (`NoOrphans`, an invariant of the initial
  tables and of every write) make true.
- `AnswersScoped`, `AnswersJustified`: `JustifiedInv` ties the local variables of a request
  to its history: apps, rooms and scopes it has read were seen to admit the actor
  (`AppsSeen`, `RoomsSeen`, `ScopeSeen`), an answer consists of those, and it is empty before
  that. One point is delicate: a check reads the app before the grant on it, so
  between the two it holds an app that need not admit the actor. That it did, if
  the grant is then found to hold, rests on app grants only ever being taken away.

- `AnswersExact`: `OneReadInv` says of an undisturbed request, query by query, that what
  it has read is what the rules compute up to there: actor, project and scope let it
  through (`Cleared`), its access is that of `FullAccess` or `CheckAccess` so far
  (`AccessRead`), its rooms are those of that access (`RoomsRead`), and its answer is `Told`
  (`Answered`). An early return has to meet an answer of the rules that is empty
  (`NothingToTell`, `EmptyRefused`). `KindsFit` keeps a handler to its own queries.
- `DeletedStaysOut`: `OutForGood` needs that nobody is about to write a deleted actor
  (`DeletedFree`: who asserted a scope holds the actor's row), so that deleted rows stay
  deleted (`DeletedRemain`), and that only a connect reads and caches a token's row
  (`KindsFit`). A cached row that is past its time or unusable does not recover as the
  clock moves.
- `ReferencesKept`: the conditions `WellFormed` puts on the tables a behaviour starts from
  hold of every database it reaches, so starting there loses nothing. No row
  becomes absent again (`ActorsRemain`), so what a patch or an assertion in flight refers to
  is still there when it is saved (`RefsInv`).

*Signing keys.*

- `KeysTypeCorrect`, and `ConnectionsVouchedFor`, `RevokedKeysReach` from
  `VouchInv`: a key was last active now if it is active (`LastActiveInv`); a cache
  entry expires within `KidTtl + QueryTime` of that instant, on whichever instance
  (`CacheInv`); a verification in flight waits no longer than `QueryTime` and has
  read a key that was active when it asked (`AwaitInv`); a session inherits both
  bounds (`SessionInv`). `RevokedKeysReach` additionally assumes `QueryTime <= MaxTtl + Skew`:
  a query that outlives the token it is about would connect an expired session until
  the clock next moves.
- `RevocationsTakeEffect`: `EffectInv` follows the transaction through its three
  steps: once it has dropped the entry, and if nothing overlapped it, the entry stays
  clear and no verification has read the key as active.

*Recorded subscriptions.*

- `SubscriptionsTypeCorrect`, for any rows.
- `LockedRowIsAtomic`: on a row that exists, with any number of calls, topics and
  options, and without drops, `Spec` implements `Subscriptions!Spec`. `OneRowInv`
  says that there is exactly the one row, that a waiting update that has read it
  holds its lock, and that the list it read is therefore still the list.
- `CallersApartAreAtomic`: the same from an empty table, with drops, if callers keep
  apart as `Apart` says. A behaviour alternates between one row (`OneRowInv`) and none
  (`NoRowInv`); in between one call is alone (`Alone`), so that it finds no row, inserts
  one and nobody else does. The hypothesis is what the code leaves to its callers;
  without it the statement is false (`SubscriptionsRows`).

*Rooms and lobbies.*

- `RoomsTypeCorrect`, `RoomsRegistered`: `RoomInv` is the types, `Indexed(room)`, and for
  each call (`CallInv`) that it waits for one request at one of its steps, that a
  row under lock is live, and that a call that looks again finds the room or its
  slug was freed. Each step then maps to a step of `Registry` or a stutter.
- `CapNearlyKept`: rooms that `ensureRoom` made plus calls that have counted
  and not yet inserted (`Made`, `Counted`) never exceed the cap plus calls minus one
  (`CapInv`): a count that passes finds the sum small, and an insert moves one from
  the second to the first.
- `LobbiesTypeCorrect`; `AddedNearlyCapped`, by the same argument for each room (`AddInv`);
  and `RegisteredAmongLobbies`, `CapAmongLobbies`: every step of the composition is a step of
  rooms or leaves them alone, so their theorems carry over.

- `ListsKeptCurrent`: `ListInv` adds to the property that a list between its query
  and its store is the table's, unless a change has overtaken it (`Fetched`).
- `SessionsShowLobbies`: `ViewInv` says of a session call between its two reads that
  what stood throughout is among the links read, and that a linked lobby still live was seen.
  The first read links lobbies that may since have gone; `Ages` (a lobby never
  returns from deletion, and no id is used twice) and `LinksReal` (a membership refers
  to a lobby that is or was there; `LinkAssumption` says it of the tables a behaviour
  starts with) keep the second read from showing any other.
- `DeletionsFinal`: `Ages` for each step of a call (`HandlerAges`). A row under lock is live
  (`LobbyInv`), and neither a patch nor a deletion goes ahead while another call holds the row.

*Import and export.*

- `ConfigTypeCorrect`, `ExportsImport`: `DocInv` says that the document is closed (`Closed`)
  after every query, since each leaves out what refers to a row the document does
  not list, and that the rooms whose type grants are still to be read are listed. Limits
  and slugs are hypotheses of `ExportImports`, because the tables may hold what the
  import refuses.
- `StandingRowsKept`, `ScopesKept`: `HeldInv` has one part per table. A row that stood so
  far is in the document, or its app, room or actor is still before its loop
  (`LoopInv` says what each loop still has to visit). `steady` holds ids of every
  table, so the proof needs that no two tables share one (`IdAssumption`; ids are
  UUIDs), and `MembersFit`, that a lobby has rooms of its own app only.
- `LimitsKept`: while nothing is written, the limits in the document are the columns.
- `AccessKept`, `WideningsKnown`: `CopyInv` says that while nothing is written the document
  mirrors the tables read so far (`Mirrors`: the live rows of the project, with references
  to what the document lists, and nothing else), so an accepted copy is a function of the original. What
  follows is about two databases: explicit and open access carry over entry by entry, the
  grants of a room too but for those of actors that are not exported, and so in every
  order of the rows the grant that decides in one has its counterpart in the other. `AccessKept` goes from the original to
  the copy, `WideningsKnown` back, and where the way back fails names the reason.

Only model-checked: liveness (`RevokedStaysOut`, `SessionConverges`), and the five
violations. Liveness and ENABLED are beyond the
prover, as is induction over data; no module uses a RECURSIVE operator, which would cost
it the SMT backend.

## 6. Not modelled, and why

- Hashing, encryption, token parsing, validators, paging, wiring: pure or
  read-only. A presented credential is one whose secret is right. Of the DTOs only
  that of an imported document is modelled.
- `example/`, `ui/`, `quickstart/`, scripts, Docker files: hosts and demonstrations.
- Creation of signing keys and of projects, renaming, webhooks, topic
  configurations: single writes that no property tells apart.
- Slugs of apps and scopes: the same locked read and insert on a partial unique
  index as `createRoom`, which `Rooms` models; repeating it would add names only.
- `getActorScope` and `resolveLobbySlug`: single reads of one row.
- Lobbies and limits in the session payload, in `Authz`: they change none of the
  topics in it. `Lobbies` models how a session's lobbies are read, `ProjectConfig` how
  its limits are resolved.
- The filter of restored subscriptions by the patterns the connect has resolved
  (`authz.service.ts:924-955`): `ReadBack` returns what is recorded. A pattern that is not
  in the answer is not in the restore either, by a lookup without state of its own.
- More than one revalidate of an actor at a time: in what order the broker applies
  answers that overtake each other is its own affair.
- The width and type of columns: text, enum and JSON columns hold what their types say.
- Last-used stamps and logging, which nothing reads back.
- Several instances in `Authz`: the one state an instance adds is `_authCache`; a
  second one is a second stale copy, and `TenantsAreIsolated` holds whatever the
  cached row says. `SigningKeys` and `Lobbies` have two, since there they differ.
- Postgres itself: READ COMMITTED, row locks, cascades and deadlock detection are
  assumed as documented. Aborts of deadlocked calls appear for rooms and lobbies;
  for actors and scopes, where the facades lock in the same way, they change no row
  and are left out. Lost connections between a commit and its answer look to a
  caller like an aborted call, which no caller retries by itself.
- Crashes: every transaction is atomic, and nothing but the caches outlives a
  handler in memory; an empty cache is an initial state.

## 7. Divergences

Runs expected to find a violation; `PROJECT.json` quotes the lines.

1. `AuthzCheckMatches`: `checkRoomAccess` and `validateActor` must agree, as comments and
   a test say. One write parts them in three ways; TLC stops at the first, and shows all
   with `-continue`. For an open app the actor also holds explicitly, the check gives
   pub/sub on all topics, validate the narrower grant. Of two grants that name the actor
   in a room, the check applies the first row, validate the last. In a soft-deleted
   project, which the check does not look at, it still allows what validate refuses.
2. `AuthzScopeDelete`: a scope can be deleted while an actor is being put in it; the
   actor then has a deleted scope and is refused everywhere. Access is lost, not
   gained.
3. `SigningKeysRace`: a lookup between the invalidation and the commit caches the
   revoked key again on the revoking instance, for a minute.
4. `SigningKeysRevalidate`: a comment says that deleting a key disconnects its
   actors at their next revalidate. Revalidation does not look at keys.
5. `SubscriptionsRows`: two first subscribes find no row to lock and insert two.

Seen while reading, and visible in the modules, without a run of their own:

- `accessScope.entity.ts:64` says that an inactive scope "resolves as though the
  actor had no scope at all"; `_resolveScope` denies instead, and `ScopeJustified`
  checks that it does.
- The lobby cap counts memberships of deleted lobbies, and they cannot be removed,
  since `removeRoomFromLobby` does not find the lobby: they fill the cap for good.
- `findLobbiesForRoom` and `listLobbyRoomsCached` list memberships of deleted
  lobbies, for as long as the rows stand (`lobby.facade.ts:118`,
  `lobbyRoom.repository.ts:9`).
- `ensureRoom` refuses at the cap though another call has just created its slug,
  against the comment at `room.facade.ts:131`; `Registry` allows the refusal.
- The locked reads before an insert (`platformApp.facade.ts:92`,
  `accessScope.facade.ts:67`) lock nothing when they find nothing: the unique index
  alone keeps slugs apart.
- A limit of zero or less can be synchronised (`project.facade.ts:119`), and a slug
  declared at start or made from a name can be outside the pattern, even empty
  (`room.facade.ts:228`). Both are exported; the import's validation
  (`projectConfig.dto.ts:41,110`) then refuses the whole document, which line 393 says
  imports cleanly.
- `_resolveLimits` (`authz.service.ts:371`) takes zero for the default and hands out a
  negative cap as it stands; only the session's lifetime asks for more than zero.
- A copy can give more access than its original (`CopyWidensOnly`).
- Creating a room grant (`roomActorAccess.facade.ts:56`) does not ask whether the actor
  it names is of the room's project. Such a grant lets nobody in, as the app never admits
  that actor, but makes the room private to all others; an export leaves it out.

## 8. Plan

All modules of the original plan exist: TtlCache, AuthzRules, Authz, SigningKeys,
the Subscription modules, SlugTables, Registry, Rooms, Lobbies, ProjectConfig, and
the proofs of section 5. What could still be added, in this order:

1. Of the apps' and scopes' facades, the registry of slugs, if they come to differ from
   those of the rooms.
2. If `actor_token_id` becomes unique or the row is made with the actor:
   `CallersApartAreAtomic` without its hypothesis.
