------------------------------- MODULE Cache -------------------------------
(***************************************************************************)
(* CacheService: values under keys, each with a time to live.  A value is  *)
(* stored as text, so what a reader gets is a copy.  The time an entry has *)
(* left is counted down by Age; an entry without time left is gone.        *)
(***************************************************************************)
EXTENDS Integers

CONSTANTS
  ShortTTL, MediumTTL, LongTTL,     \* CACHE_TTL: 1, 5 and 30 minutes
  NoEntry                           \* what get returns for a key without value

ASSUME CacheAssumption ==
  {ShortTTL, MediumTTL, LongTTL} \subseteq Nat \ {0}

VARIABLE cache

Entry(V) == [val : V, left : Nat \ {0}]

Cached(k) == cache[k] # NoEntry

Put(k, v, ttl) == cache' = [cache EXCEPT ![k] = [val |-> v, left |-> ttl]]

Del(k) == cache' = [cache EXCEPT ![k] = NoEntry]

\* Mutant: an entry stays when its time is over.
OlderLate(e) ==
  IF e = NoEntry \/ e.left = 0 THEN NoEntry ELSE [e EXCEPT !.left = e.left - 1]

Older(e) ==
  IF e = NoEntry \/ e.left = 1 THEN NoEntry ELSE [e EXCEPT !.left = e.left - 1]

Age == cache' = [k \in DOMAIN cache |-> Older(cache[k])]
=============================================================================
