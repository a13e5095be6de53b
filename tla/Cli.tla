--------------------------------- MODULE Cli ---------------------------------
(***************************************************************************)
(* The command-line client of src/cli/cli.c, and the connection it holds   *)
(* to the server.                                                          *)
(*                                                                         *)
(* The REPL of main: read a line with fgets, trim it, build_command, send  *)
(* it, recv_response, parse_resp and print the reply, leave after a line   *)
(* that starts with SHUTDOWN.  recv_response is one step per recv: TCP     *)
(* hands the reply over in pieces of any size, and the loop parses what it *)
(* has after each one.  print_resp's layout is left out: what the CLI      *)
(* shows is the value parse_resp returned.                                 *)
(*                                                                         *)
(* Bytes are as in module Resp.  "S" stands for the eight bytes SHUTDOWN.  *)
(*                                                                         *)
(* The server is the environment: it parses each request with resp_parse   *)
(* and answers it with one frame, written by the resp_write_ calls, in     *)
(* request order (what runs server_main and cmd_main check).  It executes  *)
(* SHUTDOWN without the +OK reaching this client (run srv_shutdown), and   *)
(* it may go away at any time, killed by a signal or a crash.              *)
(***************************************************************************)
EXTENDS Integers, Sequences
LOCAL INSTANCE SequencesExt
R == INSTANCE Resp

CONSTANTS
    Lines,      \* the lines fgets returns, newline included
    MaxLines,   \* bound: lines the user types
    BUF_SIZE,   \* recv_buf's size (65536)
    ArgCap,     \* the args[128] of build_command
    Replies     \* the values the server answers with

ASSUME MaxLines \in Nat /\ BUF_SIZE \in Nat \ {0} /\ ArgCap \in Nat \ {0}

CR == R!CR
LF == R!LF
CRLF == R!CRLF
DQ == "\""
Blanks == {" ", "\t"}

VARIABLES
    cli_pc,     \* "prompt", "recv" (inside recv_response) or "exited"
    line,       \* line[]: the last line read, trimmed
    recv_buf,   \* recv_buf[0..total)
    nread,      \* lines read so far
    nsent,      \* requests sent so far
    answered,   \* requests whose recv_response has returned
    shown,      \* the replies printed: [req |-> request number, val |-> value]
    to_server,  \* requests sent, not yet executed, as resp_parse reads them
    to_cli,     \* reply bytes the server has sent, not yet received
    replied,    \* replied[n]: the value the server answered request n with
    up          \* the server still holds the connection open

cli_vars == <<cli_pc, line, recv_buf, nread, nsent, answered, shown>>
env_vars == <<to_server, to_cli, replied, up>>
vars == <<cli_vars, env_vars>>

\* The number of leading bytes of s that are in S, or that are not.
SpanIn(s, S) ==
    LET stop == {j \in DOMAIN s : s[j] \notin S}
    IN IF stop = {} THEN Len(s) ELSE R!First(stop) - 1
SpanOut(s, S) ==
    LET stop == {j \in DOMAIN s : s[j] \in S}
    IN IF stop = {} THEN Len(s) ELSE R!First(stop) - 1

Drop(s, n) == SubSeq(s, n + 1, Len(s))

\* main's "Trim newline": drop the trailing run of LF and CR bytes.
Trim(l) ==
    LET keep == {j \in DOMAIN l : l[j] \notin {CR, LF}}
    IN IF keep = {} THEN <<>> ELSE SubSeq(l, 1, CHOOSE j \in keep : \A m \in keep : m <= j)

(***************************************************************************)
(* build_command's tokenizer: skip blanks; a token that starts with a      *)
(* quote runs to the next quote, which is skipped; any other runs to the   *)
(* next blank.  It stops after ArgCap tokens.                              *)
(***************************************************************************)
RECURSIVE Tokenize(_, _)
Tokenize(s, args) ==
    LET p == Drop(s, SpanIn(s, Blanks)) IN
    IF s = <<>> \/ Len(args) >= ArgCap \/ p = <<>> THEN args
    ELSE IF Head(p) = DQ
         THEN LET n == SpanOut(Tail(p), {DQ})
                  rest == Drop(Tail(p), n)
              IN Tokenize(IF rest # <<>> THEN Tail(rest) ELSE rest,
                          Append(args, SubSeq(Tail(p), 1, n)))
         ELSE LET n == SpanOut(p, Blanks)
              IN Tokenize(Drop(p, n), Append(args, SubSeq(p, 1, n)))

\* Mutant: the payload of an argument is not followed by CRLF.
ArgFrame_no_crlf(a) == <<"$">> \o R!Decimal(Len(a)) \o CRLF \o a

\* One argument of the RESP array: "$%zu\r\n", the bytes, "\r\n".
ArgFrame(a) == <<"$">> \o R!Decimal(Len(a)) \o CRLF \o a \o CRLF

\* The bytes build_command writes to cmd_buf; <<>> when it returns 0.
build_command(l) ==
    LET args == Tokenize(l, <<>>) IN
    IF args = <<>> THEN <<>>
    ELSE FoldLeft(LAMBDA b, a : b \o ArgFrame(a),
                  <<"*">> \o R!Decimal(Len(args)) \o CRLF, args)

-----------------------------------------------------------------------------
(***************************************************************************)
(* parse_resp, the CLI's own parser.  It differs from resp_parse_value: a  *)
(* bulk string is copied with memcpy, NUL bytes included, and a negative   *)
(* length or count other than -1 is not rejected.  For a bulk, need =      *)
(* consumed + (size_t)blen + 2 is computed modulo 2^64: when the sum is    *)
(* below 0 it wraps to a huge value, need > len, and the parse returns 0   *)
(* (incomplete).  Otherwise need <= len, the malloc of (size_t)blen + 1    *)
(* fails and memcpy writes through NULL.  An array's count wraps, and      *)
(* print_resp reads its items from the NULL that calloc returned.  Either  *)
(* crash is the value "crash".                                             *)
(***************************************************************************)
Crash == R!Val("crash", <<>>, 0, <<>>)

RECURSIVE parse_resp(_), parse_items(_, _, _, _)

\* The loop of the '*' case: the first item that is not complete ends the
\* parse with its result.
parse_items(buf, total, cnt, items) ==
    IF Len(items) >= cnt THEN R!Result(total, R!Val("array", <<>>, 0, items))
    ELSE LET r == parse_resp(Drop(buf, total))
         IN IF r.n <= 0 THEN R!Result(r.n, R!NilValue)
            ELSE parse_items(buf, total + r.n, cnt, Append(items, r.v))

parse_resp(buf) ==
    IF buf = <<>> \/ R!find_crlf(buf) = 0 THEN R!Incomplete
    ELSE
    LET crlf     == R!find_crlf(buf)
        ln       == SubSeq(buf, 2, crlf - 1)
        consumed == crlf + 1
        len      == R!atoi(ln)
    IN CASE buf[1] = "+" -> R!Result(consumed, R!Val("simple", R!strndup(ln), 0, <<>>))
         [] buf[1] = "-" -> R!Result(consumed, R!Val("error", R!strndup(ln), 0, <<>>))
         [] buf[1] = ":" -> R!Result(consumed, R!Val("int", <<>>, R!strtoll(ln), <<>>))
         [] buf[1] = "$" ->
              IF len = -1 THEN R!Result(consumed, R!NilValue)
              ELSE IF consumed + len + 2 < 0 THEN R!Incomplete
              ELSE IF len < -1 THEN R!Result(consumed, Crash)
              ELSE IF consumed + len + 2 > Len(buf) THEN R!Incomplete
              ELSE R!Result(consumed + len + 2,
                            R!Val("bulk", SubSeq(buf, consumed + 1, consumed + len), 0, <<>>))
         [] buf[1] = "*" ->
              IF len = -1 THEN R!Result(consumed, R!NilValue)
              ELSE IF len < -1 THEN R!Result(consumed, Crash)
              ELSE parse_items(buf, consumed, len, <<>>)
         [] OTHER -> R!Malformed

\* Mutants: recv_response returns after its first recv; it returns only
\* when the buffer is full.
recv_complete_first(buf) == TRUE
recv_complete_full(buf) == Len(buf) >= BUF_SIZE
\* Mutant: the loop does not stop when the buffer is full.
recv_complete_unbounded(buf) == parse_resp(buf).n > 0

\* recv_response's loop ends: the bytes parse as a reply, or the buffer is
\* full.
recv_complete(buf) == parse_resp(buf).n > 0 \/ Len(buf) >= BUF_SIZE

\* strncmp(line, "SHUTDOWN", 8) == 0 (or "shutdown").
IsShutdownLine(l) == l # <<>> /\ l[1] = "S"

-----------------------------------------------------------------------------
(* The REPL of main.                                                        *)

Init ==
    /\ cli_pc = "prompt"
    /\ line = <<>>
    /\ recv_buf = <<>>
    /\ nread = 0 /\ nsent = 0 /\ answered = 0
    /\ shown = <<>>
    /\ to_server = <<>> /\ to_cli = <<>> /\ replied = <<>>
    /\ up = TRUE

\* fgets returns a line that leaves nothing to send (empty once trimmed,
\* or no token): `continue`.
SkipLine(l) ==
    /\ cli_pc = "prompt" /\ nread < MaxLines
    /\ build_command(Trim(l)) = <<>>
    /\ nread' = nread + 1
    /\ line' = Trim(l)
    /\ UNCHANGED <<cli_pc, recv_buf, nsent, answered, shown, env_vars>>

(***************************************************************************)
(* fgets returns a line with a token: build_command and send.  The send    *)
(* succeeds while the connection is open.  After the server has closed it  *)
(* the kernel may still take the bytes, which are lost, or send fails (or  *)
(* SIGPIPE ends the process): "Connection lost".                           *)
(***************************************************************************)
SendLine(l) ==
    /\ cli_pc = "prompt" /\ nread < MaxLines
    /\ build_command(Trim(l)) # <<>>
    /\ nread' = nread + 1
    /\ line' = Trim(l)
    /\ \/ /\ nsent' = nsent + 1
          /\ cli_pc' = "recv"
          /\ recv_buf' = <<>>
          /\ to_server' = IF up THEN Append(to_server, R!resp_parse(build_command(Trim(l))).v)
                           ELSE to_server
       \/ /\ ~up
          /\ cli_pc' = "exited"
          /\ UNCHANGED <<nsent, recv_buf, to_server>>
    /\ UNCHANGED <<answered, shown, to_cli, replied, up>>

\* fgets returns NULL at the end of the input: the loop ends.
EndOfInput ==
    /\ cli_pc = "prompt"
    /\ cli_pc' = "exited"
    /\ UNCHANGED <<line, recv_buf, nread, nsent, answered, shown, env_vars>>

(***************************************************************************)
(* One recv of recv_response.  It returns 0 once the server has closed the *)
(* connection and every byte is read: "Connection lost".  Otherwise it     *)
(* returns some of the bytes waiting, at most the free space of recv_buf.  *)
(* When they complete a reply or fill the buffer, recv_response returns:   *)
(* main parses the buffer again, prints the reply if it parses, and leaves *)
(* after a SHUTDOWN line.                                                  *)
(***************************************************************************)
\* What main does once recv_response has returned with buf: parse it again,
\* print the reply if it parses, leave after a SHUTDOWN line.
ShowReply(buf) ==
    LET r == parse_resp(buf) IN
    /\ answered' = answered + 1
    /\ recv_buf' = <<>>
    /\ shown' = IF r.n > 0 THEN Append(shown, [req |-> nsent, val |-> r.v]) ELSE shown
    /\ cli_pc' = IF IsShutdownLine(line) \/ (r.n > 0 /\ r.v = Crash) THEN "exited" ELSE "prompt"

CliRecv ==
    /\ cli_pc = "recv"
    /\ \/ /\ to_cli = <<>> /\ ~up
          /\ cli_pc' = "exited"
          /\ UNCHANGED <<recv_buf, answered, shown, to_cli>>
       \/ \E k \in 1..Len(to_cli) :
            /\ k <= BUF_SIZE - Len(recv_buf)
            /\ to_cli' = Drop(to_cli, k)
            /\ \/ /\ recv_complete(recv_buf \o SubSeq(to_cli, 1, k))
                  /\ ShowReply(recv_buf \o SubSeq(to_cli, 1, k))
               \/ /\ ~recv_complete(recv_buf \o SubSeq(to_cli, 1, k))
                  /\ recv_buf' = recv_buf \o SubSeq(to_cli, 1, k)
                  /\ UNCHANGED <<answered, shown, cli_pc>>
    /\ UNCHANGED <<line, nread, nsent, to_server, replied, up>>

\* The process has ended.
Exited == cli_pc = "exited" /\ UNCHANGED vars

-----------------------------------------------------------------------------
(* The server, as this client sees it.                                     *)

RECURSIVE ServerWrites(_), WriteItems(_)

\* The bytes the resp_write_ calls of a handler append for a value: an
\* array's header, then its members.
ServerWrites(v) ==
    CASE v.t = "simple" -> R!resp_write_simple_string(v.str)
      [] v.t = "error"  -> R!resp_write_error(v.str)
      [] v.t = "int"    -> R!resp_write_integer(v.num)
      [] v.t = "bulk"   -> R!resp_write_bulk_string(v.str)
      [] v.t = "nil"    -> R!resp_write_nil
      [] v.t = "array"  -> R!resp_write_array_header(Len(v.items)) \o WriteItems(v.items)
WriteItems(s) == IF s = <<>> THEN <<>> ELSE ServerWrites(Head(s)) \o WriteItems(Tail(s))

\* command_execute's lookup of the name, the first item of the array.
IsShutdownRequest(cmd) == cmd.items[1].str = <<"S">>

\* The bytes of each reply, written once.
ReplyBytes == [v \in Replies |-> ServerWrites(v)]

\* process_client_input: the request parses, command_execute answers it
\* with one frame, and the frame is queued and sent behind the earlier ones.
Serve ==
    /\ up /\ to_server # <<>>
    /\ ~IsShutdownRequest(Head(to_server))
    /\ \E v \in Replies :
         /\ to_cli' = to_cli \o ReplyBytes[v]
         /\ replied' = Append(replied, v)
    /\ to_server' = Tail(to_server)
    /\ UNCHANGED <<cli_vars, up>>

\* SHUTDOWN: cmd_shutdown queues +OK and stops the loop, which closes the
\* connection at the end of the pass with the reply unsent.
ServeShutdown ==
    /\ up /\ to_server # <<>>
    /\ IsShutdownRequest(Head(to_server))
    /\ up' = FALSE
    /\ to_server' = <<>>
    /\ UNCHANGED <<cli_vars, to_cli, replied>>

\* The server goes away (a signal, a crash): the bytes it has sent still
\* arrive, then the end of the stream.
ServerGone ==
    /\ up
    /\ up' = FALSE
    /\ to_server' = <<>>
    /\ UNCHANGED <<cli_vars, to_cli, replied>>

CliStep ==
    \/ \E l \in Lines : SkipLine(l) \/ SendLine(l)
    \/ EndOfInput
    \/ CliRecv
    \/ Exited

ServerStep == Serve \/ ServeShutdown \/ ServerGone

Next == CliStep \/ ServerStep

(***************************************************************************)
(* recv blocks only while nothing has arrived, and the server's loop       *)
(* returns from select within 50 ms: a recv that can return eventually     *)
(* does, and a request that has arrived is eventually executed.  The user  *)
(* and a server that goes away are under no obligation.                    *)
(*                                                                         *)
(* CliRecv is enabled exactly when RecvReady holds: with bytes waiting, a  *)
(* recv of one byte fits (recv_buf is never full between recvs, TypeOK)   *)
(* and one of its two branches takes it; with none, only the closed        *)
(* connection ends the wait.  CliFair is WF_vars(CliRecv) written with     *)
(* that condition, so that TLC need not unfold parse_resp to decide it.    *)
(***************************************************************************)
RecvReady == cli_pc = "recv" /\ (to_cli # <<>> \/ ~up)

CliFair == []<>~RecvReady \/ []<><<CliRecv>>_vars

Spec == Init /\ [][Next]_vars /\ CliFair /\ WF_vars(Serve \/ ServeShutdown)

-----------------------------------------------------------------------------
TypeOK ==
    /\ cli_pc \in {"prompt", "recv", "exited"}
    /\ nread \in 0..MaxLines /\ nsent \in 0..nread /\ answered \in 0..nsent
    /\ Len(recv_buf) < BUF_SIZE
    /\ \A j \in DOMAIN shown : shown[j].req \in 1..nsent
    /\ up \in BOOLEAN
=============================================================================
