------------------------------ MODULE SlugTables ------------------------------
(***************************************************************************)
(* The rows of one app that are addressed by slug, rooms or lobbies, and   *)
(* the requests on them.  A row is deleted by marking it, and the unique   *)
(* index on (app_id, slug) leaves marked rows out.                         *)
(***************************************************************************)
EXTENDS Integers, FiniteSets, Functions

CONSTANTS
  Id,       \* ids of rows, which are minted in increasing order (UUID v7)
  Slug,
  Setting,  \* values of the columns an update may change
  Fresh,    \* those a new row has
  Batch,    \* sets of slugs that are declared together
  Slot      \* calls that may be in flight at once

ASSUME TableAssumption ==
  /\ Id \subseteq Nat /\ IsFiniteSet(Id)
  /\ Fresh \in Setting /\ Batch \subseteq SUBSET Slug
  /\ IsFiniteSet(Slot) /\ Slot # {}

Blank == [state |-> "unused"]
Row == {Blank} \cup [state: {"live", "deleted"}, slug: Slug, setting: Setting]
Table == [Id -> Row]

Live(t) == { r \in Id : t[r].state = "live" }
Named(t, s) == { r \in Live(t) : t[r].slug = s }
Unused(t) == { r \in Id : t[r] = Blank }

\* The partial unique index.
Indexed(t) == \A p, r \in Live(t) : t[p].slug = t[r].slug => p = r

\* Ways to name new rows after a set of slugs: the next ids, in any order.
Newcomers(t, slugs) ==
  UNION { { f \in Bijection(ids, slugs) :
              \A r \in ids, x \in Unused(t) \ ids : r < x } : ids \in SUBSET Unused(t) }

\* Faulty variant: the defaults of a new row are not written.
InsertedUnset(t, f) ==
  [r \in Id |-> IF r \in DOMAIN f THEN [state |-> "live", slug |-> f[r]] ELSE t[r]]

Inserted(t, f) ==
  [r \in Id |-> IF r \in DOMAIN f
                THEN [state |-> "live", slug |-> f[r], setting |-> Fresh] ELSE t[r]]

\* "ensure" is for rooms only.
Request ==
  [op: {"ensure", "create"}, slug: Slug] \cup [op: {"provision"}, slugs: Batch]
    \cup [op: {"update"}, id: Id, setting: Setting] \cup [op: {"delete"}, id: Id]

Wanted(u) == IF u.op = "provision" THEN u.slugs ELSE {u.slug}
=============================================================================
