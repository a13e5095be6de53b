----------------------------- MODULE MCHashTable -----------------------------
(***************************************************************************)
(* Model-checking harness for HashTable: three keys, one value (the value *)
(* pointer is never compared, only moved), a minimum capacity of 4 so that *)
(* grow (4 -> 8) and shrink both happen with three keys, and hash values   *)
(* 0..7, enough to tell apart every ideal slot of every capacity the table *)
(* reaches.  MCKeys2 is the two-key variant, too small for any Robin-Hood  *)
(* swap to skip a slot, which isolates the other ways keys are duplicated. *)
(***************************************************************************)
EXTENDS HashTable, TLC

CONSTANTS k1, k2, k3, v1

MCKeys == {k1, k2, k3}
MCKeys2 == {k1, k2}
MCVals == {v1}

Symmetry == Permutations(MCKeys) \cup Permutations(MCVals)

\* Duplicated entries can make the table grow without end; the runs stop
\* exploring at MaxCap slots.
MaxCap == 8
CapacityBound == ht.capacity <= MaxCap

\* The map ht_get presents, as the abstract store KVMap sees it.
KV == INSTANCE KVMap WITH map <- AbsMap

-----------------------------------------------------------------------------
(* Properties checked by the runs.                                         *)

\* A probe loop that never ends hangs the whole server, since every
\* command runs on the event-loop thread: from every reachable table,
\* ht_find of any key, and ht_set and ht_delete of any key, stop.
ProbesTerminate ==
    /\ \A k \in Keys : ht_find(ht, k) # Hung
    /\ \A k \in Keys, v \in Vals : ht_set(ht, k, v) # Hung
    /\ \A k \in Keys : ht_delete(ht, k) # Hung

\* ht_size, which DBSIZE and INFO report, counts the live slots, and the
\* tombstone counter that drives the grow threshold counts tombstones.
CountersMatch ==
    /\ ht.size = Cardinality(LiveSlots)
    /\ ht.tombstones = Cardinality({i \in DOMAIN ht.entries : ht.entries[i].occupied = 2})

\* Key uniqueness (spec section 3, invariant 1): no two live slots hold the
\* same key.
UniqueKeys ==
    \A i, j \in LiveSlots : ht.entries[i].key = ht.entries[j].key => i = j

\* The table implements the abstract map: ht_get returns the value of the
\* most recent ht_set of the key, or NULL after ht_delete or db_flush.
RefinesKVMap == KV!Spec

\* A step that does not shrink ht_size keeps every stored key in some live
\* slot: the Robin-Hood swaps of ht_set and ht_resize move entries, they
\* never drop one.
EntriesKept == [][ht'.size >= ht.size => StoredKeys \subseteq StoredKeys']_vars
==============================================================================
