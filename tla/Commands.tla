------------------------------- MODULE Commands -------------------------------
(***************************************************************************)
(* The command handlers of src/src/command.c over the keyspace of db.c     *)
(* (module Keyspace): command_execute's checks and dispatch, and every     *)
(* cmd_ handler with the db_ calls it makes and the reply it writes.       *)
(*                                                                         *)
(* A request is abstracted to its command and its arguments, already       *)
(* typed: a key, a literal (Literals), a list element (Strs), or the       *)
(* number strtoll or atoi reads.  A reply is a sequence of RESP items, each *)
(* written by one resp_write_ call of module Resp; their payloads are      *)
(* bytes, a message or a stored string being one opaque byte.              *)
(*                                                                         *)
(* A handler whose body calls db_ once is one action.  A handler that      *)
(* loops over its arguments (SET with EX, DEL, MSET, MGET, LPUSH, RPUSH)   *)
(* makes one db_ call per step: every db_ call reads imdb_mstime() afresh, *)
(* so the clock can pass a deadline between two calls of one command.     *)
(* Nothing else runs between them: the loop thread executes one request   *)
(* to its end.  The expiry sweep runs only between requests.               *)
(***************************************************************************)
EXTENDS Keyspace, Resp
LOCAL INSTANCE SequencesExt

CONSTANTS
    NoArg,        \* PING without an argument
    MaxArgs,      \* bound: keys of DEL and MGET, pairs of MSET, values of a push
    ArgLiterals   \* the values SET and MSET requests carry

ASSUME ArgLiterals \subseteq Literals /\ MaxArgs \in Nat \ {0}

VARIABLES
    pc,     \* "idle", the handler whose loop is running, or "stopped"
    calls,  \* the db_ calls the running loop makes, in order
    i,      \* the next call
    acc,    \* what the calls made so far returned
    out     \* the reply written for the last request

cmd_vars == <<pc, calls, i, acc, out>>
all_vars == <<vars, cmd_vars>>

LoopHandlers == {"SET", "DEL", "MSET", "MGET", "LPUSH", "RPUSH"}

\* Reply items.
ROk        == [t |-> "status", v |-> <<"OK">>]
RInt(n)    == [t |-> "int", v |-> n]
RBulk(x)   == [t |-> "bulk", v |-> x]
RNil       == [t |-> "nil", v |-> 0]
RErr(e)    == [t |-> "error", v |-> <<e>>]
RArray(n)  == [t |-> "array", v |-> n]

\* A string object's bytes, or an int's decimal digits (snprintf PRId64).
BulkOf(o) == IF o.type = "string" THEN RBulk(<<o.str>>) ELSE RBulk(Decimal(o.num))

Call(f, k, a) == [f |-> f, k |-> k, a |-> a]

\* One db_ call of a loop.
DbCall(c) ==
    CASE c.f = "set"    -> db_set(c.k, c.a)
      [] c.f = "expire" -> db_expire(c.k, c.a)
      [] c.f = "del"    -> db_del(c.k)
      [] c.f = "get"    -> db_get(c.k)
      [] c.f = "lpush"  -> db_lpush(c.k, c.a)
      [] c.f = "rpush"  -> db_rpush(c.k, c.a)

\* The bytes a reply item appends: the resp_write_ call that writes it.
ItemBytes(it) ==
    CASE it.t = "status" -> resp_write_simple_string(it.v)
      [] it.t = "error"  -> resp_write_error(it.v)
      [] it.t = "int"    -> resp_write_integer(it.v)
      [] it.t = "bulk"   -> resp_write_bulk_string(it.v)
      [] it.t = "nil"    -> resp_write_nil
      [] it.t = "array"  -> resp_write_array_header(it.v)

\* The reply buffer after the handler: its items' bytes in order.
Wire(r) == FoldLeft(LAMBDA b, it : b \o ItemBytes(it), <<>>, r)

Reply(r) == out' = r

Done(r) ==
    /\ Reply(r)
    /\ pc' = "idle"
    /\ UNCHANGED <<calls, i, acc>>

\* No request is being executed.
Idle == pc = "idle"

(***************************************************************************)
(* command_execute's own errors: not an array or an empty one, a name that *)
(* is not a string, or a name not in command_table.  Nothing else runs.   *)
(***************************************************************************)
BadRequest(e) ==
    /\ Idle
    /\ e \in {"ERR invalid command format", "ERR invalid command", "ERR unknown command"}
    /\ Done(<<RErr(e)>>)
    /\ UNCHANGED vars

\* The argument-count check each handler starts with (and MSET's parity
\* check): fewer arguments than the command needs.  PING, DBSIZE, FLUSHDB,
\* INFO, SAVE and SHUTDOWN have none.
ArgCountNames == {"SET", "GET", "DEL", "EXISTS", "INCR", "DECR", "MSET", "MGET",
                  "LPUSH", "RPUSH", "LPOP", "RPOP", "LLEN", "LRANGE", "EXPIRE",
                  "TTL", "PERSIST"}

ArgCountError(name) ==
    /\ Idle
    /\ name \in ArgCountNames
    /\ Done(<<RErr("ERR wrong number of arguments")>>)
    /\ UNCHANGED vars

-----------------------------------------------------------------------------
(* The handlers that make one db_ call, or none.                           *)

cmd_ping(msg) ==
    /\ Idle
    /\ Done(IF msg = NoArg THEN <<[t |-> "status", v |-> <<"PONG">>]>> ELSE <<RBulk(<<msg>>)>>)
    /\ UNCHANGED vars

\* GET: nil, the value, or a type error for a list.
cmd_get(k) ==
    /\ Idle
    /\ db_get(k)
    /\ Done(<<CASE Returned = Nil -> RNil
               [] Returned.type = "list" -> RErr("WRONGTYPE")
               [] OTHER -> BulkOf(Returned)>>)

cmd_exists(k) ==
    /\ Idle
    /\ db_exists(k)
    /\ Done(<<RInt(Returned)>>)

\* INCR (delta 1) and DECR (delta -1): INT64_MIN from db_incr is read as
\* the type error.
cmd_incr(k, delta) ==
    /\ Idle
    /\ db_incr(k, delta)
    /\ Done(<<IF Returned = IntMin THEN RErr("ERR value is not an integer or out of range")
              ELSE RInt(Returned)>>)

PopReply(v) == IF v = Nil THEN <<RNil>> ELSE <<RBulk(<<v>>)>>

cmd_lpop(k) == Idle /\ db_lpop(k) /\ Done(PopReply(Returned))
cmd_rpop(k) == Idle /\ db_rpop(k) /\ Done(PopReply(Returned))

cmd_llen(k) ==
    /\ Idle
    /\ db_llen(k)
    /\ Done(<<IF Returned < 0 THEN RErr("WRONGTYPE") ELSE RInt(Returned)>>)

\* LRANGE: start and stop are atoi of the arguments.
cmd_lrange(k, start, stop) ==
    /\ Idle
    /\ db_lrange(k, start, stop)
    /\ LET items == Returned IN
       Done(<<RArray(Len(items))>> \o [j \in DOMAIN items |-> RBulk(<<items[j]>>)])

\* EXPIRE: the seconds are strtoll of the argument.
cmd_expire(k, secs) == Idle /\ db_expire(k, secs) /\ Done(<<RInt(Returned)>>)
cmd_ttl(k)          == Idle /\ db_ttl(k) /\ Done(<<RInt(Returned)>>)
cmd_persist(k)      == Idle /\ db_persist(k) /\ Done(<<RInt(Returned)>>)

cmd_dbsize == Idle /\ db_size /\ Done(<<RInt(Returned)>>)
cmd_flushdb == Idle /\ db_flush /\ Done(<<ROk>>)

\* INFO: the snprintf text, four CRLF-terminated lines, the last carrying
\* db_size.
InfoText(n) == <<"# Server", CR, LF, "inmemdb_version:1.0.0", CR, LF,
                 "# Keyspace", CR, LF, "db0:keys=">> \o Decimal(n) \o CRLF
cmd_info == Idle /\ db_size /\ Done(<<RBulk(InfoText(Returned))>>)

\* SAVE: persist_save (module Persist) succeeds or fails; the keyspace is
\* only read.
cmd_save(ok) ==
    /\ Idle
    /\ Done(<<IF ok THEN ROk ELSE RErr("ERR failed to save database")>>)
    /\ UNCHANGED vars

\* SHUTDOWN: persist_save, whose result is ignored, +OK, server_stop.
cmd_shutdown ==
    /\ Idle
    /\ Reply(<<ROk>>)
    /\ pc' = "stopped"
    /\ UNCHANGED <<vars, calls, i, acc>>

-----------------------------------------------------------------------------
(* The handlers that loop: the first step checks the arguments and fixes   *)
(* the calls; RunCall makes them one by one; Finish writes the reply.      *)

StartLoop(h, cs) ==
    /\ Idle
    /\ pc' = h
    /\ calls' = cs
    /\ i' = 1
    /\ acc' = <<>>
    /\ UNCHANGED <<vars, out>>

\* SET key value [EX secs]: db_set, then db_expire only when secs > 0.
cmd_set(k, lit, ex) ==
    StartLoop("SET", <<Call("set", k, lit)>> \o
                     (IF ex # NoArg /\ ex > 0 THEN <<Call("expire", k, ex)>> ELSE <<>>))

cmd_del(keys)  == StartLoop("DEL", [j \in DOMAIN keys |-> Call("del", keys[j], 0)])
cmd_mget(keys) == StartLoop("MGET", [j \in DOMAIN keys |-> Call("get", keys[j], 0)])
cmd_mset(pairs) == StartLoop("MSET", [j \in DOMAIN pairs |-> Call("set", pairs[j][1], pairs[j][2])])

\* Bound: the pushes of one command fit in MaxListLen.
PushRoom(k, vals) ==
    IF store[k] = NoEntry THEN Len(vals) <= MaxListLen
    ELSE Len(store[k].obj.list) + Len(vals) <= MaxListLen

\* LPUSH/RPUSH key v1 v2 ...: one db_lpush or db_rpush per value, on the
\* key the handler reads again for every value.
cmd_lpush(k, vals) ==
    /\ PushRoom(k, vals)
    /\ StartLoop("LPUSH", [j \in DOMAIN vals |-> Call("lpush", k, vals[j])])
cmd_rpush(k, vals) ==
    /\ PushRoom(k, vals)
    /\ StartLoop("RPUSH", [j \in DOMAIN vals |-> Call("rpush", k, vals[j])])

\* A push loop stops at the first -1.
PushFailed == pc \in {"LPUSH", "RPUSH"} /\ acc # <<>> /\ Last(acc) < 0

RunCall ==
    /\ pc \in LoopHandlers
    /\ i <= Len(calls)
    /\ ~PushFailed
    /\ DbCall(calls[i])
    /\ acc' = Append(acc, Returned)
    /\ i' = i + 1
    /\ UNCHANGED <<pc, calls, out>>

\* Mutants: an array header that also counts itself; a push reply that
\* counts the values pushed instead of the list's length.
mget_reply_argc(a) == <<RArray(Len(a) + 1)>> \o
                      [j \in DOMAIN a |-> IF a[j] = Nil THEN RNil
                                          ELSE IF a[j].type = "list" THEN RNil
                                          ELSE BulkOf(a[j])]
push_reply_count(a) == IF Last(a) < 0 THEN <<RErr("WRONGTYPE")>> ELSE <<RInt(Len(a))>>

del_reply(a)  == <<RInt(FoldLeft(LAMBDA x, y : x + y, 0, a))>>
mget_reply(a) == <<RArray(Len(a))>> \o
                 [j \in DOMAIN a |-> IF a[j] = Nil THEN RNil
                                     ELSE IF a[j].type = "list" THEN RNil
                                     ELSE BulkOf(a[j])]
push_reply(a) == IF Last(a) < 0 THEN <<RErr("WRONGTYPE")>> ELSE <<RInt(Last(a))>>

Finish ==
    /\ pc \in LoopHandlers
    /\ i > Len(calls) \/ PushFailed
    /\ Reply(CASE pc \in {"SET", "MSET"} -> <<ROk>>
               [] pc = "DEL"  -> del_reply(acc)
               [] pc = "MGET" -> mget_reply(acc)
               [] OTHER       -> push_reply(acc))
    /\ pc' = "idle"
    \* the handler's locals end with it
    /\ calls' = <<>> /\ i' = 1 /\ acc' = <<>>
    /\ UNCHANGED vars

-----------------------------------------------------------------------------
\* The expiry sweep at the end of a pass of the loop, between requests.
Sweep == Idle /\ db_expire_sweep /\ UNCHANGED cmd_vars

\* The clock runs during a request too, until the process has exited.
Clock == pc # "stopped" /\ Tick /\ UNCHANGED cmd_vars

\* After SHUTDOWN the process has exited: nothing happens any more.
Terminated == pc = "stopped" /\ UNCHANGED all_vars

Init_cmd ==
    /\ Init
    /\ pc = "idle"
    /\ calls = <<>>
    /\ i = 1
    /\ acc = <<>>
    /\ out = <<>>

ArgSeqs(S) == UNION {[1..n -> S] : n \in 1..MaxArgs}

\* Every request but DBSIZE and INFO.
Requests ==
    \/ \E e \in {"ERR invalid command format", "ERR invalid command", "ERR unknown command"} : BadRequest(e)
    \/ \E name \in ArgCountNames : ArgCountError(name)
    \/ \E m \in Strs \cup {NoArg} : cmd_ping(m)
    \/ \E k \in Keys :
        \/ \E lit \in ArgLiterals, ex \in Secs \cup {NoArg} : cmd_set(k, lit, ex)
        \/ cmd_get(k) \/ cmd_exists(k)
        \/ \E d \in {1, -1} : cmd_incr(k, d)
        \/ \E vals \in ArgSeqs(Strs) : cmd_lpush(k, vals) \/ cmd_rpush(k, vals)
        \/ cmd_lpop(k) \/ cmd_rpop(k) \/ cmd_llen(k)
        \/ \E a, b \in Ranges : cmd_lrange(k, a, b)
        \/ \E s \in Secs : cmd_expire(k, s)
        \/ cmd_ttl(k) \/ cmd_persist(k)
    \/ \E keys \in ArgSeqs(Keys) : cmd_del(keys) \/ cmd_mget(keys)
    \/ \E pairs \in ArgSeqs(Keys \X ArgLiterals) : cmd_mset(pairs)
    \/ cmd_flushdb
    \/ \E ok \in BOOLEAN : cmd_save(ok)
    \/ cmd_shutdown

CommandSteps == Requests \/ RunCall \/ Finish \/ Sweep \/ Clock \/ Terminated

Next_cmd == CommandSteps \/ cmd_dbsize \/ cmd_info

Spec_cmd == Init_cmd /\ [][Next_cmd]_all_vars

SpecWithoutSize_cmd == Init_cmd /\ [][CommandSteps]_all_vars
=============================================================================
