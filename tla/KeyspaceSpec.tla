----------------------------- MODULE KeyspaceSpec -----------------------------
(***************************************************************************)
(* What the keyspace promises its callers (spec.md sections 3 and 4.4),    *)
(* with expiry EAGER: an entry is gone the instant the clock passes its    *)
(* deadline, so no caller can ever see it again.  Keyspace implements this *)
(* with lazy deletion on access plus a sampling sweep; the refinement      *)
(* mapping hides the expired entries still in the table.                   *)
(*                                                                         *)
(* `vis` maps each key to its live entry [obj, expire] or NoEntry, `now`   *)
(* is the clock and `result` what the last operation returned.  A         *)
(* deadline is either NoDeadline or an absolute time in ms (spec section  *)
(* 3, "Database entry"): every number is a deadline, negative ones too.   *)
(***************************************************************************)
EXTENDS DbObject, FiniteSets

CONSTANTS Keys, NoEntry, Nil, NoDeadline, MsPerSec, StartTime, MaxTime,
          MaxListLen, Secs, Ranges

VARIABLES vis, now, result

Entry(o, e) == [obj |-> o, expire |-> e]

\* "once the clock passes the deadline the entry is conceptually dead"
Dead(e, t) == e # NoEntry /\ e.expire # NoDeadline /\ t > e.expire

Purge(m, t) == [k \in Keys |-> IF Dead(m[k], t) THEN NoEntry ELSE m[k]]

IsList(e) == e # NoEntry /\ e.obj.type = "list"

\* One operation: the map becomes Purge(m, now) and the caller gets v.
Op(op, m, v) ==
    /\ result' = [op |-> op, val |-> v]
    /\ vis' = Purge(m, now)
    /\ UNCHANGED now

Init == vis = [k \in Keys |-> NoEntry] /\ now = StartTime /\ result = [op |-> "none", val |-> 0]

Set(k, lit) ==
    Op("set", [vis EXCEPT ![k] = Entry(IF obj_try_parse_int(lit) THEN obj_create_int(lit.num)
                                       ELSE obj_create_string(lit.str), NoDeadline)], 1)

Get(k)    == Op("get", vis, IF vis[k] = NoEntry THEN Nil ELSE vis[k].obj)
Del(k)    == Op("del", [vis EXCEPT ![k] = NoEntry], IF vis[k] = NoEntry THEN 0 ELSE 1)
Exists(k) == Op("exists", vis, IF vis[k] = NoEntry THEN 0 ELSE 1)

\* Missing becomes delta, an integer is updated, anything else is a type
\* error signalled by INT64_MIN.
Incr(k, d) ==
    CASE vis[k] = NoEntry -> Op("incr", [vis EXCEPT ![k] = Entry(obj_create_int(d), NoDeadline)], d)
      [] vis[k].obj.type = "int" ->
            Op("incr", [vis EXCEPT ![k].obj.num = Wrap(@ + d)], Wrap(vis[k].obj.num + d))
      [] OTHER -> Op("incr", vis, IntMin)

\* Push autocreates a list and returns the new length; wrong type is -1.
Push(op, k, s, push(_, _)) ==
    LET e == IF vis[k] = NoEntry THEN Entry(obj_create_list, NoDeadline) ELSE vis[k] IN
    /\ Len(e.obj.list) < MaxListLen
    /\ IF e.obj.type # "list" THEN Op(op, vis, -1)
       ELSE Op(op, [vis EXCEPT ![k] = [e EXCEPT !.obj = push(@, s)]], Len(e.obj.list) + 1)

\* Pop returns the end element or nothing; an emptied list's key is removed.
Pop(op, k, end(_), pop(_)) ==
    IF ~IsList(vis[k]) THEN Op(op, vis, Nil)
    ELSE Op(op, IF Len(vis[k].obj.list) = 1 THEN [vis EXCEPT ![k] = NoEntry]
                ELSE [vis EXCEPT ![k].obj = pop(@)],
            end(vis[k].obj.list))

Llen(k) == Op("llen", vis, CASE vis[k] = NoEntry -> 0
                             [] ~IsList(vis[k]) -> -1
                             [] OTHER -> Len(vis[k].obj.list))

Lrange(k, a, b) == Op("lrange", vis, IF IsList(vis[k]) THEN list_range(vis[k].obj.list, a, b) ELSE <<>>)

\* EXPIRE sets the deadline to now + seconds * 1000 and answers 1 if the
\* key existed; zero or negative seconds give a deadline the next tick
\* passes (spec section 4.4).
Expire(k, s) ==
    Op("expire", IF vis[k] = NoEntry THEN vis ELSE [vis EXCEPT ![k].expire = now + s * MsPerSec],
       IF vis[k] = NoEntry THEN 0 ELSE 1)

Ttl(k) ==
    Op("ttl", vis, CASE vis[k] = NoEntry -> -2
                     [] vis[k].expire = NoDeadline -> -1
                     [] OTHER -> LET r == (vis[k].expire - now) \div MsPerSec IN IF r > 0 THEN r ELSE 0)

Persist(k) ==
    Op("persist", IF vis[k] = NoEntry THEN vis ELSE [vis EXCEPT ![k].expire = NoDeadline],
       IF vis[k] = NoEntry \/ vis[k].expire = NoDeadline THEN 0 ELSE 1)

\* DBSIZE is the number of live keys.
DbSize == Op("dbsize", vis, Cardinality({k \in Keys : vis[k] # NoEntry}))

Flush == Op("flushdb", [k \in Keys |-> NoEntry], 0)

\* Time passes; entries whose deadline it passes die with it.
Tick == /\ now < MaxTime
        /\ now' = now + 1
        /\ vis' = Purge(vis, now + 1)
        /\ UNCHANGED result

Next ==
    \/ \E k \in Keys :
        \/ \E lit \in Literals : Set(k, lit)
        \/ Get(k) \/ Del(k) \/ Exists(k)
        \/ \E d \in {1, -1} : Incr(k, d)
        \/ \E s \in Strs : Push("lpush", k, s, list_lpush) \/ Push("rpush", k, s, list_rpush)
        \/ Pop("lpop", k, Head, list_lpop) \/ Pop("rpop", k, LAMBDA l : l[Len(l)], list_rpop)
        \/ Llen(k)
        \/ \E a, b \in Ranges : Lrange(k, a, b)
        \/ \E s \in Secs : Expire(k, s)
        \/ Ttl(k) \/ Persist(k)
    \/ DbSize
    \/ Flush
    \/ Tick

Spec == Init /\ [][Next]_<<vis, now, result>>
==============================================================================
