------------------------------- MODULE Persist -------------------------------
(***************************************************************************)
(* Snapshots (src/src/persist.c) and the restart that loads them          *)
(* (main.c): persist_save writes dump.rdb.tmp, closes it, removes          *)
(* dump.rdb and renames the temporary file over it; persist_load, at       *)
(* start-up, reads dump.rdb into an empty keyspace, skipping the entries   *)
(* whose deadline has passed.                                              *)
(*                                                                         *)
(* The file is a sequence of tokens, one per fwrite of the save: the       *)
(* magic, a type byte, an int64, a uint32 or a length-prefixed string.  A  *)
(* file cut short is cut at a token boundary: a read that meets a cut      *)
(* token fails exactly as one that meets the end of the file.  The         *)
(* keyspace is a map from keys to db_entry_t records; the commands that    *)
(* change it are modelled in Keyspace, so here any key may take any entry  *)
(* between two saves (Mutate).                                              *)
(*                                                                         *)
(* Failures, enabled by the constant Faults: "write" (fopen or an fwrite   *)
(* fails), "flush" (the flush in fclose fails and only part of the buffer  *)
(* reaches the file), "rename" (rename fails) and "crash" (the process     *)
(* dies between two steps of a save and is restarted).  The save runs      *)
(* synchronously on the loop thread, so no command runs during it.         *)
(***************************************************************************)
EXTENDS DbObject, FiniteSets
LOCAL INSTANCE SequencesExt

CONSTANTS
    Keys,
    NoEntry,    \* no entry for the key
    NoFile,     \* the file does not exist
    Values,     \* the objects the commands can store
    Deadlines,  \* deadlines EXPIRE can set (-1: none)
    StartTime,
    MaxTime,    \* bound: the clock is not advanced past MaxTime
    Faults      \* the failures the environment may produce

RDB_TYPE_STRING == 0
RDB_TYPE_INT    == 1
RDB_TYPE_LIST   == 2
RDB_EOF         == 255

Dump == "dump.rdb"
Tmp  == "dump.rdb.tmp"

VARIABLES
    db,     \* the keyspace: key -> [obj, expire] or NoEntry
    now,    \* imdb_mstime()
    fs,     \* the directory: file name -> token sequence or NoFile
    pc,     \* the step of persist_save to run next, or "idle"
    ret,    \* what the last persist_save returned
    saved   \* the keyspace as of the last persist_save that returned 0

vars == <<db, now, fs, pc, ret, saved>>

Tok(t, v) == [t |-> t, v |-> v]

Expired(e) == e.expire >= 0 /\ now > e.expire

\* The entries a load or a reader treats as present.
Live(m) == [k \in Keys |-> IF m[k] # NoEntry /\ Expired(m[k]) THEN NoEntry ELSE m[k]]

EmptyDb == [k \in Keys |-> NoEntry]

(***************************************************************************)
(* One record of the loop body of persist_save: type byte, deadline, key,  *)
(* then the value (a string, an int64, or a count and the elements).       *)
(***************************************************************************)
TypeTag(o) == CASE o.type = "string" -> RDB_TYPE_STRING
                [] o.type = "int"    -> RDB_TYPE_INT
                [] o.type = "list"   -> RDB_TYPE_LIST

\* Mutant: the element count written is one more than the length.
Record_count_plus1(k, e) ==
    <<Tok("u8", TypeTag(e.obj)), Tok("i64", e.expire), Tok("str", k)>> \o
    CASE e.obj.type = "string" -> <<Tok("str", e.obj.str)>>
      [] e.obj.type = "int"    -> <<Tok("i64", e.obj.num)>>
      [] e.obj.type = "list"   -> <<Tok("u32", Len(e.obj.list) + 1)>> \o
                                  [i \in 1..Len(e.obj.list) |-> Tok("str", e.obj.list[i])]

Record(k, e) ==
    <<Tok("u8", TypeTag(e.obj)), Tok("i64", e.expire), Tok("str", k)>> \o
    CASE e.obj.type = "string" -> <<Tok("str", e.obj.str)>>
      [] e.obj.type = "int"    -> <<Tok("i64", e.obj.num)>>
      [] e.obj.type = "list"   -> <<Tok("u32", Len(e.obj.list))>> \o
                                  [i \in 1..Len(e.obj.list) |-> Tok("str", e.obj.list[i])]

\* The whole file persist_save produces, for the table's slot order.
Encode(m, order) ==
    <<Tok("magic", 0)>>
    \o FlattenSeq([i \in 1..Len(order) |-> Record(order[i], m[order[i]])])
    \o <<Tok("u8", RDB_EOF)>>

\* The orders ht_iter_next can visit the stored keys in.
SlotOrders(m) == SetToSeqs({k \in Keys : m[k] # NoEntry})

(***************************************************************************)
(* The record loop of persist_load from token i on, into the keyspace st.  *)
(* It stops at the trailer and at the first read that fails; an expired    *)
(* record's value is read and dropped; a list keeps the elements read      *)
(* before a failed one.                                                    *)
(***************************************************************************)
SkipLen(f, type, p) ==
    CASE type \in {RDB_TYPE_STRING, RDB_TYPE_INT} -> 1
      [] type = RDB_TYPE_LIST -> IF p <= Len(f) THEN 1 + f[p].v ELSE 1
      [] OTHER -> 0

\* Mutant: the elements are added with list_lpush instead of list_rpush.
LoadedObject_lpush(f, type, p, n) ==
    CASE type = RDB_TYPE_STRING -> obj_create_string(f[p].v)
      [] type = RDB_TYPE_INT    -> obj_create_int(f[p].v)
      [] type = RDB_TYPE_LIST   -> [obj_create_list EXCEPT !.list = [j \in 1..n |-> f[p + n + 1 - j].v]]

\* The object a record's value becomes: obj_create_string, obj_create_int,
\* or obj_create_list and list_rpush of the n elements read.
LoadedObject(f, type, p, n) ==
    CASE type = RDB_TYPE_STRING -> obj_create_string(f[p].v)
      [] type = RDB_TYPE_INT    -> obj_create_int(f[p].v)
      [] type = RDB_TYPE_LIST   -> [obj_create_list EXCEPT !.list = [j \in 1..n |-> f[p + j].v]]

RECURSIVE LoadRecords(_, _, _)
LoadRecords(f, i, st) ==
    IF i + 2 > Len(f) \/ f[i].v = RDB_EOF THEN st
    ELSE LET type   == f[i].v
             expire == f[i + 1].v
             key    == f[i + 2].v
             p      == i + 3
         IN  IF expire >= 0 /\ now > expire
             THEN LoadRecords(f, p + SkipLen(f, type, p), st)
             ELSE IF type \notin {RDB_TYPE_STRING, RDB_TYPE_INT, RDB_TYPE_LIST} \/ p > Len(f) THEN st
             ELSE LET n == IF type # RDB_TYPE_LIST THEN 0
                           ELSE IF f[p].v <= Len(f) - p THEN f[p].v ELSE Len(f) - p
                  IN  LoadRecords(f, p + 1 + n,
                                  [st EXCEPT ![key] = [obj |-> LoadedObject(f, type, p, n), expire |-> expire]])

\* persist_load into the empty keyspace db_create gives: nothing unless the
\* file exists and starts with the magic.
persist_load(f) ==
    IF f = NoFile \/ f = <<>> \/ f[1] # Tok("magic", 0) THEN EmptyDb
    ELSE LoadRecords(f, 2, EmptyDb)

-----------------------------------------------------------------------------
Init ==
    /\ db = EmptyDb
    /\ now = StartTime
    /\ fs = [f \in {Dump, Tmp} |-> NoFile]
    /\ pc = "idle"
    /\ ret = 0
    /\ saved = EmptyDb

\* A command changes one key: any db_ write, expiry or deletion.
Mutate(k, e) ==
    /\ pc = "idle"
    /\ db' = [db EXCEPT ![k] = e]
    /\ UNCHANGED <<now, fs, pc, ret, saved>>

Tick ==
    /\ now < MaxTime
    /\ now' = now + 1
    /\ UNCHANGED <<db, fs, pc, ret, saved>>

(***************************************************************************)
(* persist_save up to the fclose: write every entry, in slot order, to the *)
(* temporary file.  fopen failing returns -1 at once; a failed fwrite goes *)
(* to `fail`, which closes and removes the temporary file and returns -1.  *)
(* fclose's result is not looked at: when its flush fails the file keeps   *)
(* only a prefix and the save goes on.                                     *)
(***************************************************************************)
SaveWrite ==
    /\ pc = "idle"
    /\ \/ /\ "write" \in Faults
          /\ ret' = -1
          /\ \/ UNCHANGED fs
             \/ fs' = [fs EXCEPT ![Tmp] = NoFile]
          /\ UNCHANGED pc
       \/ \E order \in SlotOrders(db) :
            LET data == Encode(db, order) IN
            /\ \/ fs' = [fs EXCEPT ![Tmp] = data]
               \/ /\ "flush" \in Faults
                  /\ \E n \in 0..Len(data) - 1 : fs' = [fs EXCEPT ![Tmp] = SubSeq(data, 1, n)]
            /\ pc' = "remove"
            /\ UNCHANGED ret
    /\ UNCHANGED <<db, now, saved>>

\* remove(filename): the old snapshot is deleted before the rename.
SaveRemove ==
    /\ pc = "remove"
    /\ fs' = [fs EXCEPT ![Dump] = NoFile]
    /\ pc' = "rename"
    /\ UNCHANGED <<db, now, ret, saved>>

\* rename(tmp, filename); on failure the temporary file is removed.
SaveRename ==
    /\ pc = "rename"
    /\ pc' = "idle"
    /\ \/ /\ fs' = [fs EXCEPT ![Dump] = fs[Tmp], ![Tmp] = NoFile]
          /\ ret' = 0
          /\ saved' = db
       \/ /\ "rename" \in Faults
          /\ fs' = [fs EXCEPT ![Tmp] = NoFile]
          /\ ret' = -1
          /\ UNCHANGED saved
    /\ UNCHANGED <<db, now>>

(***************************************************************************)
(* The process exits (after SHUTDOWN or a signal, or by a crash in the     *)
(* middle of a save when "crash" is a fault) and main starts it again:     *)
(* db_create, then persist_load(db, "dump.rdb").                           *)
(***************************************************************************)
Restart ==
    /\ pc = "idle" \/ "crash" \in Faults
    /\ db' = persist_load(fs[Dump])
    /\ pc' = "idle"
    /\ UNCHANGED <<now, fs, ret, saved>>

Entries == [obj : Values, expire : Deadlines]

Next ==
    \/ \E k \in Keys, e \in Entries \cup {NoEntry} : Mutate(k, e)
    \/ Tick
    \/ SaveWrite \/ SaveRemove \/ SaveRename
    \/ Restart

Spec == Init /\ [][Next]_vars

-----------------------------------------------------------------------------
TypeOK ==
    /\ \A k \in Keys : db[k] = NoEntry \/ (IsObject(db[k].obj, 3) /\ db[k].expire \in Int)
    /\ pc \in {"idle", "remove", "rename"}
    /\ ret \in {0, -1}

=============================================================================
