------------------------------ MODULE HashTable ------------------------------
(***************************************************************************)
(* The open-addressed Robin-Hood hash table of src/src/hashtable.c.        *)
(*                                                                         *)
(* The table is one record, as hashtable_t is: the slot array `entries`,   *)
(* `capacity`, and the counters `size` and `tombstones`.  A slot is        *)
(* empty (occupied = 0), live (1) or a tombstone (2).  The per-slot cached *)
(* hash of the C struct is hash[key] here: it is only read for live slots, *)
(* whose key it always belongs to.                                         *)
(*                                                                         *)
(* ht_hash (FNV-1a) is abstracted to an arbitrary function `hash` from     *)
(* keys to 0..HashSpace-1, chosen once in Init: every pattern of           *)
(* collisions between the keys is explored.  Each C operation runs to      *)
(* completion on the single event-loop thread, so each is one step; its    *)
(* probe loops are RECURSIVE operators that follow the C loops exactly,    *)
(* including the index they compute after a Robin-Hood swap.  A loop that  *)
(* has not stopped after ProbeLimit iterations yields Hung.                *)
(***************************************************************************)
EXTENDS Integers, FiniteSets

CONSTANTS
    Keys,       \* the key strings
    Vals,       \* the opaque value pointers
    NoKey,      \* key field of an empty slot or tombstone (NULL)
    NoVal,      \* value field of an empty slot or tombstone (NULL)
    Hung,       \* result of a probe loop that never stops
    MinCap,     \* HT_MIN_CAP and HT_INITIAL_CAP (64 in the code)
    HashSpace   \* number of distinct hash values

ASSUME /\ MinCap \in {2^n : n \in 1..6}
       /\ HashSpace \in Nat \ {0}
       /\ {NoKey, NoVal, Hung} \cap (Keys \cup Vals) = {}

LoadHigh == 70      \* HT_LOAD_HIGH * 100
LoadLow  == 20      \* HT_LOAD_LOW * 100

\* No probe loop needs more iterations than this to find an empty slot
\* when it visits the slots in order; one that exceeds it is cycling.
ProbeLimit == 4 * HashSpace

EmptySlot     == [occupied |-> 0, key |-> NoKey, value |-> NoVal]
TombSlot      == [occupied |-> 2, key |-> NoKey, value |-> NoVal]
LiveSlot(k, v) == [occupied |-> 1, key |-> k, value |-> v]

Slots == {EmptySlot, TombSlot} \cup {LiveSlot(k, v) : k \in Keys, v \in Vals}

VARIABLES
    ht,     \* the hashtable_t
    hash    \* ht_hash restricted to Keys; constant after Init

vars == <<ht, hash>>

probe_index(capacity, h, i) == (h + i) % capacity

probe_distance(capacity, h, slot) == (slot + capacity - (h % capacity)) % capacity

\* Mutant: the slot array is allocated one slot too long.
ht_create_overrun == [entries    |-> [i \in 0..MinCap |-> EmptySlot],
                      capacity   |-> MinCap,
                      size       |-> 0,
                      tombstones |-> 0]

\* ht_create(64, ...): a table of HT_INITIAL_CAP empty slots.
ht_create == [entries    |-> [i \in 0..MinCap - 1 |-> EmptySlot],
              capacity   |-> MinCap,
              size       |-> 0,
              tombstones |-> 0]

(***************************************************************************)
(* The inner loop of ht_resize: place the live entry (k, v) into the new   *)
(* slot array e of capacity nc.  After a swap the loop goes on with the    *)
(* displaced entry's hash and the SAME counter j, as the C code does.      *)
(***************************************************************************)
RECURSIVE ResizePlace(_, _, _, _, _)
ResizePlace(e, nc, k, v, j) ==
    LET idx == probe_index(nc, hash[k], j)
        o   == e[idx]
    IN  IF j > ProbeLimit THEN Hung
        ELSE IF o.occupied = 0 THEN [e EXCEPT ![idx] = LiveSlot(k, v)]
        ELSE IF probe_distance(nc, hash[k], idx) > probe_distance(nc, hash[o.key], idx)
             THEN ResizePlace([e EXCEPT ![idx] = LiveSlot(k, v)], nc, o.key, o.value, j + 1)
             ELSE ResizePlace(e, nc, k, v, j + 1)

\* The outer loop of ht_resize: old slots 0..cap-1 in order.
RECURSIVE Rehash(_, _, _, _)
Rehash(old, nc, i, e) ==
    IF e = Hung \/ i \notin DOMAIN old THEN e
    ELSE IF old[i].occupied = 1
         THEN Rehash(old, nc, i + 1, ResizePlace(e, nc, old[i].key, old[i].value, 0))
         ELSE Rehash(old, nc, i + 1, e)

\* Mutant: the rehash loop starts at old slot 1 instead of 0.
ht_resize_from1(t, newCap) ==
    LET nc == IF newCap < MinCap THEN MinCap ELSE newCap
        e  == Rehash(t.entries, nc, 1, [i \in 0..nc - 1 |-> EmptySlot])
    IN  IF e = Hung THEN Hung
        ELSE [entries    |-> e,
              capacity   |-> nc,
              size       |-> Cardinality({i \in DOMAIN t.entries : t.entries[i].occupied = 1}),
              tombstones |-> 0]

ht_resize(t, newCap) ==
    LET nc == IF newCap < MinCap THEN MinCap ELSE newCap
        e  == Rehash(t.entries, nc, 0, [i \in 0..nc - 1 |-> EmptySlot])
    IN  IF e = Hung THEN Hung
        ELSE [entries    |-> e,
              capacity   |-> nc,
              size       |-> Cardinality({i \in DOMAIN t.entries : t.entries[i].occupied = 1}),
              tombstones |-> 0]

(***************************************************************************)
(* The probe loop of ht_set.  `key` is the key being set; (ck, cv) is the  *)
(* entry carried along, which becomes a displaced entry after a swap.      *)
(* The existence check compares the slot's hash with the CARRIED hash but  *)
(* its key with the ORIGINAL key, and on a match stores the carried value  *)
(* there and frees the carried key, exactly as lines 139-145 do.           *)
(***************************************************************************)
RECURSIVE SetProbe(_, _, _, _, _)
SetProbe(t, key, ck, cv, i) ==
    LET idx == probe_index(t.capacity, hash[ck], i)
        e   == t.entries[idx]
    IN  IF i > ProbeLimit THEN Hung
        ELSE IF e.occupied # 1
             THEN [t EXCEPT !.entries[idx] = LiveSlot(ck, cv),
                            !.size = @ + 1,
                            !.tombstones = IF e.occupied = 2 THEN @ - 1 ELSE @]
        ELSE IF hash[e.key] = hash[ck] /\ e.key = key
             THEN [t EXCEPT !.entries[idx].value = cv]
        ELSE IF probe_distance(t.capacity, hash[ck], idx) > probe_distance(t.capacity, hash[e.key], idx)
             THEN SetProbe([t EXCEPT !.entries[idx] = LiveSlot(ck, cv)], key, e.key, e.value, i + 1)
             ELSE SetProbe(t, key, ck, cv, i + 1)

\* Mutant: the load is compared with the percentage without scaling by 100.
ht_set_unscaled(t, key, value) ==
    LET t1 == IF (t.size + t.tombstones + 1) \div t.capacity > LoadHigh
              THEN ht_resize(t, t.capacity * 2)
              ELSE t
    IN  IF t1 = Hung THEN Hung ELSE SetProbe(t1, key, key, value, 0)

\* ht_set: grow when (size + tombstones + 1) / capacity exceeds 0.70, then probe.
ht_set(t, key, value) ==
    LET t1 == IF ((t.size + t.tombstones + 1) * 100) \div t.capacity > LoadHigh
              THEN ht_resize(t, t.capacity * 2)
              ELSE t
    IN  IF t1 = Hung THEN Hung ELSE SetProbe(t1, key, key, value, 0)

\* ht_find: the slot index holding key, or -1 when the walk stops first.
RECURSIVE FindProbe(_, _, _)
FindProbe(t, key, i) ==
    LET idx == probe_index(t.capacity, hash[key], i)
        e   == t.entries[idx]
    IN  IF i > ProbeLimit THEN Hung
        ELSE IF e.occupied = 0 THEN -1
        ELSE IF e.occupied = 1 /\ i > probe_distance(t.capacity, hash[e.key], idx) THEN -1
        ELSE IF e.occupied = 1 /\ e.key = key THEN idx
        ELSE FindProbe(t, key, i + 1)

ht_find(t, key) == FindProbe(t, key, 0)

\* ht_get: the value of the slot ht_find returns, or NULL.
ht_get(t, key) == LET i == ht_find(t, key) IN IF i \in DOMAIN t.entries THEN t.entries[i].value ELSE NoVal

\* Mutant: a deleted slot is not counted as a tombstone.
ht_delete_uncounted(t, key) ==
    LET i  == ht_find(t, key)
        t2 == [t EXCEPT !.entries[i] = TombSlot, !.size = @ - 1]
    IN  IF i \notin DOMAIN t.entries THEN t
        ELSE IF t2.capacity > MinCap /\ (t2.size * 100) \div t2.capacity < LoadLow
             THEN ht_resize(t2, t2.capacity \div 2)
             ELSE t2

\* ht_delete: tombstone the found slot, then shrink below 0.20 load.
ht_delete(t, key) ==
    LET i  == ht_find(t, key)
        t2 == [t EXCEPT !.entries[i] = TombSlot, !.size = @ - 1, !.tombstones = @ + 1]
    IN  IF i \notin DOMAIN t.entries THEN t
        ELSE IF t2.capacity > MinCap /\ (t2.size * 100) \div t2.capacity < LoadLow
             THEN ht_resize(t2, t2.capacity \div 2)
             ELSE t2

-----------------------------------------------------------------------------
(* The operations db.c performs on its table, each one step.               *)

Init == /\ hash \in [Keys -> 0..HashSpace - 1]
        /\ ht = ht_create

\* ht_set(db->ht, key, entry): db_set, db_incr and list creation.
Set(k, v) == LET r == ht_set(ht, k, v) IN /\ r # Hung
                                            /\ ht' = r
                                            /\ UNCHANGED hash

\* ht_delete(db->ht, key): DEL, lazy and periodic expiry, list collapse.
Delete(k) == LET r == ht_delete(ht, k) IN /\ r # Hung
                                           /\ ht' = r
                                           /\ UNCHANGED hash

\* db_flush: ht_destroy followed by ht_create(64, ...).
Recreate == ht' = ht_create /\ UNCHANGED hash

Next ==
    \/ \E k \in Keys, v \in Vals : Set(k, v)
    \/ \E k \in Keys : Delete(k)
    \/ Recreate

Spec == Init /\ [][Next]_vars

-----------------------------------------------------------------------------
(* Properties.                                                             *)

TypeOK ==
    /\ hash \in [Keys -> 0..HashSpace - 1]
    /\ ht.capacity \in {MinCap * 2^n : n \in 0..4}
    /\ ht.entries \in [0..ht.capacity - 1 -> Slots]
    /\ ht.size \in 0..ht.capacity
    /\ ht.tombstones \in 0..ht.capacity

LiveSlots == {i \in DOMAIN ht.entries : ht.entries[i].occupied = 1}

\* The keys physically stored in some live slot.
StoredKeys == {ht.entries[i].key : i \in LiveSlots}

\* The map the table presents to its callers through ht_get.
AbsMap == [k \in Keys |-> ht_get(ht, k)]

==============================================================================
