------------------------------- MODULE QCache -------------------------------
(***************************************************************************)
(* QCache, the container both caches of the server are made of: as much of *)
(* it as they use.  A cache is the sequence of its entries, the most       *)
(* recently used first; an entry has at least a key and a cost, and no two *)
(* entries have the same key.  The cache owns its entries: what is no      *)
(* longer in the sequence has been deleted.                                *)
(***************************************************************************)
EXTENDS Naturals, Sequences, SequencesExt

Holds(cache, key) == \E i \in DOMAIN cache : cache[i].key = key
Place(cache, key) == CHOOSE i \in DOMAIN cache : cache[i].key = key
Entry(cache, key) == cache[Place(cache, key)]
Without(cache, key) == IF Holds(cache, key) THEN RemoveAt(cache, Place(cache, key)) ELSE cache

\* object(key) makes the entry the most recently used.
Touch(cache, key) ==
    IF Holds(cache, key) THEN <<Entry(cache, key)>> \o Without(cache, key) ELSE cache

\* What the first n entries cost together.
Costs(cache) ==
    LET costs[n \in 0..Len(cache)] == IF n = 0 THEN 0 ELSE costs[n - 1] + cache[n].cost
    IN  costs
TotalCost(cache) == Costs(cache)[Len(cache)]

\* The entries that remain when the least recently used are removed until the
\* rest costs no more than max.
Trim(cache, max) ==
    LET fits == {n \in 0..Len(cache) : Costs(cache)[n] <= max}
    IN  SubSeq(cache, 1, CHOOSE n \in fits : \A m \in fits : m <= n)

\* insert() with the old entry of the key left in its place.
BugInsertTwice(cache, entry, max) ==
    IF entry.cost > max THEN cache ELSE <<entry>> \o Trim(cache, max - entry.cost)

\* insert(): the old entry of the key is deleted in any case, the new one if it
\* costs more than the cache may.
Insert(cache, entry, max) ==
    IF entry.cost > max THEN Without(cache, entry.key)
    ELSE <<entry>> \o Trim(Without(cache, entry.key), max - entry.cost)
=============================================================================
