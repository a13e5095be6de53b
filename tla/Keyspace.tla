------------------------------- MODULE Keyspace -------------------------------
(***************************************************************************)
(* The keyspace of src/src/db.c: db_entry_t records (an object and an      *)
(* absolute deadline in ms, -1 for none) kept in the hash table, lazy      *)
(* expiry on access (check_expired) and the rate-limited sampling sweep    *)
(* (db_expire_sweep).                                                      *)
(*                                                                         *)
(* The table is used through its contract, a map from keys to entries      *)
(* (KVMap; the table itself is HashTable).  The clock imdb_mstime() is     *)
(* `now`; every call of it inside one operation reads the same value, as   *)
(* an operation takes far less than a millisecond.  Each db_ function is   *)
(* one action and leaves its return value in `result`.                     *)
(***************************************************************************)
EXTENDS DbObject, FiniteSets

CONSTANTS
    Keys,
    NoEntry,        \* ht_get returned NULL
    Nil,            \* a NULL object or string returned to the caller
    MsPerSec,       \* the factor 1000 of db_expire and db_ttl
    TimeWidth,      \* bits of the int64_t deadline arithmetic (64)
    SweepInterval,  \* EXPIRE_SWEEP_INTERVAL (100 ms)
    SweepSamples,   \* EXPIRE_SWEEP_SAMPLES (20)
    StartTime,      \* imdb_mstime() when the server starts
    MaxTime,        \* bound: the clock is not advanced past MaxTime
    MaxListLen,     \* bound: pushes stop at this list length
    Secs,           \* EXPIRE arguments the model tries
    Ranges          \* LRANGE start and stop arguments the model tries

ASSUME {NoEntry, Nil} \cap Strs = {}

VARIABLES
    store,              \* the table: key -> db_entry_t, or NoEntry
    now,                \* imdb_mstime()
    last_expire_sweep,  \* database_t.last_expire_sweep
    result              \* [op, val]: the last operation and what it returned

vars == <<store, now, last_expire_sweep, result>>

Entry(o, e) == [obj |-> o, expire |-> e]

\* The deadline test of check_expired, db_expire_sweep and persist_load.
Expired(e, t) == e.expire >= 0 /\ t > e.expire

\* check_expired(db, key): the table after it has run.
check_expired(st, k) ==
    IF st[k] # NoEntry /\ Expired(st[k], now) THEN [st EXCEPT ![k] = NoEntry] ELSE st

Return(op, v) == result' = [op |-> op, val |-> v]

\* What the db_ function of this step returns.
Returned == result'.val

-----------------------------------------------------------------------------
Init ==
    /\ store = [k \in Keys |-> NoEntry]
    /\ now = StartTime
    /\ last_expire_sweep = StartTime
    /\ result = [op |-> "none", val |-> 0]

\* db_set: the value becomes an int when it parses; the deadline is cleared.
db_set(k, lit) ==
    /\ store' = [store EXCEPT ![k] =
                    Entry(IF obj_try_parse_int(lit) THEN obj_create_int(lit.num)
                          ELSE obj_create_string(lit.str), -1)]
    /\ Return("set", 1)
    /\ UNCHANGED <<now, last_expire_sweep>>

\* Mutant: db_get reads the table without check_expired.
db_get_unchecked(k) ==
    /\ store' = store
    /\ Return("get", IF store[k] = NoEntry THEN Nil ELSE store[k].obj)
    /\ UNCHANGED <<now, last_expire_sweep>>

\* db_get (through db_get_entry): lazy expiry, then the object or NULL.
db_get(k) ==
    LET st == check_expired(store, k) IN
    /\ store' = st
    /\ Return("get", IF st[k] = NoEntry THEN Nil ELSE st[k].obj)
    /\ UNCHANGED <<now, last_expire_sweep>>

\* db_del: lazy expiry, then ht_delete's 0 or 1.
db_del(k) ==
    LET st == check_expired(store, k) IN
    /\ store' = [st EXCEPT ![k] = NoEntry]
    /\ Return("del", IF st[k] = NoEntry THEN 0 ELSE 1)
    /\ UNCHANGED <<now, last_expire_sweep>>

db_exists(k) ==
    LET st == check_expired(store, k) IN
    /\ store' = st
    /\ Return("exists", IF st[k] = NoEntry THEN 0 ELSE 1)
    /\ UNCHANGED <<now, last_expire_sweep>>

\* Mutant: the sum is stored as the mathematical integer, without wrapping.
db_incr_unwrapped(k, delta) ==
    LET st == check_expired(store, k)
        e  == st[k]
    IN  /\ CASE e = NoEntry ->
                    /\ store' = [st EXCEPT ![k] = Entry(obj_create_int(delta), -1)]
                    /\ Return("incr", delta)
             [] e.obj.type = "int" ->
                    /\ store' = [st EXCEPT ![k].obj.num = @ + delta]
                    /\ Return("incr", e.obj.num + delta)
             [] OTHER ->
                    /\ store' = st
                    /\ Return("incr", IntMin)
        /\ UNCHANGED <<now, last_expire_sweep>>

(***************************************************************************)
(* db_incr: an expired or missing key becomes delta; an int is updated in  *)
(* place (wrapping on overflow); a string that parses is promoted; any     *)
(* other kind returns the sentinel INT64_MIN and is left alone.  A string  *)
(* object never parses here, since db_set stores parsable values as ints.  *)
(***************************************************************************)
db_incr(k, delta) ==
    LET st == check_expired(store, k)
        e  == st[k]
    IN  /\ CASE e = NoEntry ->
                    /\ store' = [st EXCEPT ![k] = Entry(obj_create_int(delta), -1)]
                    /\ Return("incr", delta)
             [] e.obj.type = "int" ->
                    /\ store' = [st EXCEPT ![k].obj.num = Wrap(@ + delta)]
                    /\ Return("incr", Wrap(e.obj.num + delta))
             [] OTHER ->
                    /\ store' = st
                    /\ Return("incr", IntMin)
        /\ UNCHANGED <<now, last_expire_sweep>>

(***************************************************************************)
(* db_lpush / db_rpush through get_or_create_list: after lazy expiry a     *)
(* missing key gets an empty list (and ht_set), then a non-list returns    *)
(* -1, else the element is pushed and the new length returned.            *)
(***************************************************************************)
Push(op, k, s, push(_, _)) ==
    LET st == check_expired(store, k)
        o  == IF st[k] = NoEntry THEN obj_create_list ELSE st[k].obj
        ex == IF st[k] = NoEntry THEN -1 ELSE st[k].expire
    IN  /\ Len(o.list) < MaxListLen
        /\ IF o.type # "list"
           THEN store' = st /\ Return(op, -1)
           ELSE /\ store' = [st EXCEPT ![k] = Entry(push(o, s), ex)]
                /\ Return(op, Len(o.list) + 1)
        /\ UNCHANGED <<now, last_expire_sweep>>

db_lpush(k, s) == Push("lpush", k, s, list_lpush)
db_rpush(k, s) == Push("rpush", k, s, list_rpush)

\* Mutant: the key is kept when its last element is popped.
Pop_keeps_empty(op, k, end(_), pop(_)) ==
    LET st == check_expired(store, k)
        e  == st[k]
    IN  /\ IF e = NoEntry \/ e.obj.type # "list"
           THEN store' = st /\ Return(op, Nil)
           ELSE /\ store' = [st EXCEPT ![k].obj = pop(@)]
                /\ Return(op, end(e.obj.list))
        /\ UNCHANGED <<now, last_expire_sweep>>

\* db_lpop / db_rpop: pop, and ht_delete the key once its list is empty.
Pop(op, k, end(_), pop(_)) ==
    LET st == check_expired(store, k)
        e  == st[k]
    IN  /\ IF e = NoEntry \/ e.obj.type # "list"
           THEN store' = st /\ Return(op, Nil)
           ELSE /\ store' = IF Len(e.obj.list) = 1 THEN [st EXCEPT ![k] = NoEntry]
                            ELSE [st EXCEPT ![k].obj = pop(@)]
                /\ Return(op, end(e.obj.list))
        /\ UNCHANGED <<now, last_expire_sweep>>

db_lpop_keeps_empty(k) == Pop_keeps_empty("lpop", k, Head, list_lpop)

db_lpop(k) == Pop("lpop", k, Head, list_lpop)
db_rpop(k) == Pop("rpop", k, LAMBDA l : l[Len(l)], list_rpop)

db_llen(k) ==
    LET st == check_expired(store, k) IN
    /\ store' = st
    /\ Return("llen", CASE st[k] = NoEntry -> 0
                        [] st[k].obj.type # "list" -> -1
                        [] OTHER -> Len(st[k].obj.list))
    /\ UNCHANGED <<now, last_expire_sweep>>

db_lrange(k, start, stop) ==
    LET st == check_expired(store, k) IN
    /\ store' = st
    /\ Return("lrange", IF st[k] = NoEntry \/ st[k].obj.type # "list" THEN <<>>
                        ELSE list_range(st[k].obj.list, start, stop))
    /\ UNCHANGED <<now, last_expire_sweep>>

\* db_expire: deadline now + seconds * 1000 on a live key, in int64_t.  A
\* negative result reads as "no deadline" everywhere else.
db_expire(k, secs) ==
    LET st == check_expired(store, k) IN
    /\ store' = IF st[k] = NoEntry THEN st ELSE [st EXCEPT ![k].expire = WrapTo(TimeWidth, now + WrapTo(TimeWidth, secs * MsPerSec))]
    /\ Return("expire", IF st[k] = NoEntry THEN 0 ELSE 1)
    /\ UNCHANGED <<now, last_expire_sweep>>

\* db_ttl: -2 missing, -1 no deadline, else whole seconds left, at least 0.
db_ttl(k) ==
    LET st == check_expired(store, k)
        remaining == (st[k].expire - now) \div MsPerSec
    IN  /\ store' = st
        /\ Return("ttl", CASE st[k] = NoEntry -> -2
                           [] st[k].expire < 0 -> -1
                           [] OTHER -> IF remaining > 0 THEN remaining ELSE 0)
        /\ UNCHANGED <<now, last_expire_sweep>>

db_persist(k) ==
    LET st == check_expired(store, k) IN
    /\ store' = IF st[k] = NoEntry THEN st ELSE [st EXCEPT ![k].expire = -1]
    /\ Return("persist", IF st[k] = NoEntry \/ st[k].expire < 0 THEN 0 ELSE 1)
    /\ UNCHANGED <<now, last_expire_sweep>>

\* db_size: ht_size, the number of entries in the table.
StoredKeys(st) == {k \in Keys : st[k] # NoEntry}

db_size ==
    /\ Return("dbsize", Cardinality(StoredKeys(store)))
    /\ UNCHANGED <<store, now, last_expire_sweep>>

db_flush ==
    /\ store' = [k \in Keys |-> NoEntry]
    /\ Return("flushdb", 0)
    /\ UNCHANGED <<now, last_expire_sweep>>

(***************************************************************************)
(* db_expire_sweep, when at least SweepInterval ms have passed: walk the   *)
(* table in slot order, counting every entry looked at; delete an expired  *)
(* one and restart the walk from the first slot.  `order` is the slot      *)
(* order of the keys, which the table's layout decides.                    *)
(***************************************************************************)
RECURSIVE SweepWalk(_, _, _, _)
SweepWalk(st, order, i, checked) ==
    LET live == SelectSeq(order, LAMBDA key : st[key] # NoEntry) IN
    IF checked >= SweepSamples \/ i > Len(live) THEN st
    ELSE IF Expired(st[live[i]], now)
         THEN SweepWalk([st EXCEPT ![live[i]] = NoEntry], order, 1, checked + 1)
         ELSE SweepWalk(st, order, i + 1, checked + 1)

KeyOrders == {f \in [1..Cardinality(Keys) -> Keys] : \A k \in Keys : \E i \in DOMAIN f : f[i] = k}

db_expire_sweep ==
    /\ now - last_expire_sweep >= SweepInterval
    /\ last_expire_sweep' = now
    /\ \E order \in KeyOrders : store' = SweepWalk(store, order, 1, 0)
    /\ UNCHANGED <<now, result>>

\* The clock advances by one millisecond.
Tick ==
    /\ now < MaxTime
    /\ now' = now + 1
    /\ UNCHANGED <<store, last_expire_sweep, result>>

-----------------------------------------------------------------------------
\* Every operation but db_size.
Ops ==
    \/ \E k \in Keys :
        \/ \E lit \in Literals : db_set(k, lit)
        \/ db_get(k) \/ db_del(k) \/ db_exists(k)
        \/ \E d \in {1, -1} : db_incr(k, d)
        \/ \E s \in Strs : db_lpush(k, s) \/ db_rpush(k, s)
        \/ db_lpop(k) \/ db_rpop(k) \/ db_llen(k)
        \/ \E a, b \in Ranges : db_lrange(k, a, b)
        \/ \E s \in Secs : db_expire(k, s)
        \/ db_ttl(k) \/ db_persist(k)
    \/ db_flush
    \/ db_expire_sweep
    \/ Tick

Next == Ops \/ db_size

Spec == Init /\ [][Next]_vars

-----------------------------------------------------------------------------
TypeOK ==
    /\ \A k \in Keys : store[k] = NoEntry \/
                        /\ DOMAIN store[k] = {"obj", "expire"}
                        /\ IsObject(store[k].obj, MaxListLen)
                        /\ store[k].expire \in Int
    /\ now \in StartTime..MaxTime
    /\ last_expire_sweep \in StartTime..now

==============================================================================
