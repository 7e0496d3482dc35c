------------------------------ MODULE TtlCache ------------------------------
(***************************************************************************)
(* An entry of common/utils/ttlCache.ts.  The cache of one key is its      *)
(* entry; the sweep every hundredth write removes only entries that get    *)
(* would not return, so it needs no action.                                *)
(***************************************************************************)
EXTENDS Integers

\* Faulty variant: an entry is returned for ever.
HitForever(entry, t) == entry.expiresAt >= 0

\* get: an entry is returned until the clock has passed its expiry.
Hit(entry, t) == ~(t > entry.expiresAt)

\* set
Entry(value, t, ttl) == [value |-> value, expiresAt |-> t + ttl]

\* No entry, or one dropped by delete or by a get past its time.
NoEntry(value) == [value |-> value, expiresAt |-> -1]
=============================================================================
