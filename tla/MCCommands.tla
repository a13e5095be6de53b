------------------------------ MODULE MCCommands ------------------------------
(***************************************************************************)
(* Model-checking harness for Commands: the keyspace instance of           *)
(* MCKeyspace and up to two keys, pairs or values per request.  The main   *)
(* run uses one string, lists of up to two elements and the smaller        *)
(* argument sets below; the push run uses MCKeyspace's sets and lists of   *)
(* up to three elements, so a push can add two values to a list that      *)
(* already has one.                                                        *)
(***************************************************************************)
EXTENDS Commands, MCKeyspace

MCCmdStrs == {s1}
MCCmdSecs == {0, 1}
MCCmdRanges == {-1, 0, 1}
\* One number and one text: INCR turns the number into the others.
MCArgLiterals == {[kind |-> "digits", num |-> 0], [kind |-> "text", str |-> s1]}

\* No step reads `result` or `out`; the properties read only the values a
\* step writes into them (see MCKeyspace).
CmdView == <<StateView, pc, calls, i, acc>>

PushHandlers == {"LPUSH", "RPUSH"}

\* The step in which a push command writes an integer reply.
PushAnswered == pc \in PushHandlers /\ pc' = "idle" /\ out'[1].t = "int"

-----------------------------------------------------------------------------
(***************************************************************************)
(* The reply a handler means, as the value RESP gives it (spec 4.5 and     *)
(* 4.6): one scalar, or one array whose members follow its header.         *)
(***************************************************************************)
ItemValue(it) ==
    CASE it.t = "status" -> Val("simple", it.v, 0, <<>>)
      [] it.t = "error"  -> Val("error", it.v, 0, <<>>)
      [] it.t = "int"    -> Val("int", <<>>, it.v, <<>>)
      [] it.t = "bulk"   -> Val("bulk", it.v, 0, <<>>)
      [] it.t = "nil"    -> NilValue

ReplyValue(r) ==
    IF r[1].t = "array"
    THEN Val("array", <<>>, 0, [j \in 1..Len(r) - 1 |-> ItemValue(r[j + 1])])
    ELSE ItemValue(r[1])

\* Spec 4.6 and the codec round-trip: every handler writes exactly one
\* reply.  The bytes its resp_write_ calls append (an array header first,
\* then the members, as cmd_mget and cmd_lrange write them) are one frame:
\* resp_parse, as a client's parser, consumes all of them and reads back the
\* reply the handler meant.
RepliesRoundTrip ==
    [][out' # <<>> =>
        resp_parse(Wire(out')) = Result(Len(Wire(out')), ReplyValue(out'))]_all_vars

(***************************************************************************)
(* The frames of spec 4.5, written from its grammar, and a bounded set of  *)
(* them: simple strings and errors, integers, bulk strings over "a", CR    *)
(* and LF (bulk strings are binary-safe), nil, and arrays of up to two     *)
(* members nested once.                                                    *)
(***************************************************************************)
RECURSIVE Frame(_), Frames(_)
Frames(s) == IF s = <<>> THEN <<>> ELSE Frame(Head(s)) \o Frames(Tail(s))
Frame(v) ==
    CASE v.t = "simple" -> <<"+">> \o v.str \o CRLF
      [] v.t = "error"  -> <<"-">> \o v.str \o CRLF
      [] v.t = "int"    -> <<":">> \o Decimal(v.num) \o CRLF
      [] v.t = "bulk"   -> <<"$">> \o Decimal(Len(v.str)) \o CRLF \o v.str \o CRLF
      [] v.t = "nil"    -> <<"$", "-", "1">> \o CRLF
      [] v.t = "array"  -> <<"*">> \o Decimal(Len(v.items)) \o CRLF \o Frames(v.items)

UpTo(S, n) == UNION {[1..k -> S] : k \in 0..n}
ScalarFrames ==
    {Val(t, s, 0, <<>>) : t \in {"simple", "error"}, s \in UpTo({"a"}, 1)}
    \cup {Val("int", <<>>, n, <<>>) : n \in {-10, -1, 0, 7, 12}}
    \cup {Val("bulk", s, 0, <<>>) : s \in UpTo({"a", CR, LF}, 2)}
    \cup {NilValue}
ArrayFrames == {Val("array", <<>>, 0, items) : items \in UpTo(ScalarFrames, 2)}
TestFrames == ScalarFrames \cup ArrayFrames
              \cup {Val("array", <<>>, 0, <<a>>) : a \in ArrayFrames}

\* The round trip for every frame of TestFrames.
FramesRoundTrip ==
    \A v \in TestFrames :
        LET f == Frame(v) IN
        /\ resp_parse(f) = Result(Len(f), v)
        /\ \A k \in 0..Len(f) - 1 : resp_parse(SubSeq(f, 1, k)).n = 0

\* The codec round-trip of spec section 8 for resp_parse_value: a valid
\* frame parses, consuming exactly its bytes, to its value, and every
\* truncation of it parses as incomplete (0), so process_client_input
\* waits for the rest of a request that a recv split.  The round trip is a
\* fact about resp.c alone, the same in every state, and TLC does not cache
\* it, so the invariant evaluates it in the initial state only.
CodecRoundTrip == Init_cmd => FramesRoundTrip

\* The integer LPUSH/RPUSH replies is the length of the key's list after
\* the last db_lpush/db_rpush of the command (command.c:187, 205).
PushReplyIsLength ==
    [][PushAnswered => Len(store[calls[1].k].obj.list) = out'[1].v]_all_vars

\* A push of n values that succeeds has added all n of them: its reply is at
\* least n, whatever the clock does while the handler loops over the values
\* (spec section 5: the loop thread runs one command at a time, so no other
\* change can come between the pushes of one command).
PushKeepsAllValues ==
    [][PushAnswered => out'[1].v >= Len(calls)]_all_vars
==============================================================================
