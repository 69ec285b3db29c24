------------------------- MODULE IntrospectionCache -------------------------
(***************************************************************************)
(* The BFF's cache of /introspect/household answers                        *)
(* (apps/bff/src/access/introspection-cache.ts), as operators on the Map   *)
(* it keeps.  The Map is a function from the keys it holds to entries      *)
(*    [value |-> ..., expiresAt |-> a time]                                *)
(* where a value has at least the fields hid and userId.                   *)
(***************************************************************************)
EXTENDS Naturals, FiniteSets

CONSTANTS Ttl,             \* options.ttlMs, in clock units
          PruneThreshold,  \* PRUNE_THRESHOLD
          AnyUser          \* an invalidation scope without a userId

ASSUME CacheAssumption == Ttl \in Nat /\ PruneThreshold \in Nat

\* Mutant: one entry per household, whoever asks.
KeyOfHousehold(session, hid) == <<hid, hid>>

KeyOf(session, hid) == <<session, hid>>

Expired(entry, at) == entry.expiresAt <= at

EmptyCache == [k \in {} |-> 0]

Without(entries, keys) == [k \in DOMAIN entries \ keys |-> entries[k]]

(***************************************************************************)
(* get: a hit is an entry that has not expired; an expired one is deleted  *)
(* on the way.                                                             *)
(***************************************************************************)
\* Mutant: the expiry is never looked at.
HitWhatever(entries, key, at) == key \in DOMAIN entries

Hit(entries, key, at) == key \in DOMAIN entries /\ ~Expired(entries[key], at)

AfterGet(entries, key, at) ==
  IF Hit(entries, key, at) THEN entries ELSE Without(entries, {key})

(***************************************************************************)
(* set: a full cache first drops what has expired, and only that; it may   *)
(* still grow beyond the threshold.                                        *)
(***************************************************************************)
\* Mutant: everything goes, expired or not.
PruneAll(entries, at) == EmptyCache

PruneExpired(entries, at) ==
  Without(entries, {k \in DOMAIN entries : Expired(entries[k], at)})

AfterSet(entries, key, value, at) ==
  LET kept == IF Cardinality(DOMAIN entries) >= PruneThreshold
                THEN PruneExpired(entries, at)
                ELSE entries
  IN  [k \in DOMAIN kept \cup {key} |->
         IF k = key THEN [value |-> value, expiresAt |-> at + Ttl] ELSE kept[k]]

(***************************************************************************)
(* invalidate: without a user every member of the household is affected.   *)
(***************************************************************************)
Covers(scope, value) ==
  /\ value.hid = scope.hid
  /\ scope.userId = AnyUser \/ value.userId = scope.userId

AfterInvalidate(entries, scope) ==
  Without(entries, {k \in DOMAIN entries : Covers(scope, entries[k].value)})
=============================================================================
