-------------------------------- MODULE KVMap --------------------------------
(***************************************************************************)
(* The abstract contract of the keyspace store (hashtable.h): a finite map *)
(* from keys to opaque values.  ht_set binds a key, ht_delete unbinds it,  *)
(* and db_flush replaces the whole table by an empty one.  ht_get returns  *)
(* the bound value or NULL.  This is what db.c assumes of the hash table.  *)
(***************************************************************************)
CONSTANTS Keys, Vals, NoVal

ASSUME NoVal \notin Vals

VARIABLE map

TypeOK == map \in [Keys -> Vals \cup {NoVal}]

Init == map = [k \in Keys |-> NoVal]

Put(k, v) == map' = [map EXCEPT ![k] = v]

Remove(k) == map' = [map EXCEPT ![k] = NoVal]

Clear == map' = [k \in Keys |-> NoVal]

Next ==
    \/ \E k \in Keys, v \in Vals : Put(k, v)
    \/ \E k \in Keys : Remove(k)
    \/ Clear

Spec == Init /\ [][Next]_map
==============================================================================
