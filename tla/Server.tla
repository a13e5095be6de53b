-------------------------------- MODULE Server --------------------------------
(***************************************************************************)
(* The event loop of src/src/server.c (server_run, server_accept,          *)
(* process_client_input, server_remove_client) with the clients and the    *)
(* network around it, and the part of command.c and main.c that drives it: *)
(* SET-like writes, SHUTDOWN and the signal handler.                        *)
(*                                                                         *)
(* One pass of the loop is a sequence of server steps, as the C code runs  *)
(* them: Select (build the fd sets and select), Accept, then for each slot *)
(* in index order ReadClient and WriteClient, then EndPass (the expiry     *)
(* sweep and the `while (srv->running)` test).  The clients act between    *)
(* any two server steps, as remote processes do.                           *)
(*                                                                         *)
(* Bytes are abstracted to pieces: a request is sent as two pieces, so a   *)
(* recv can stop in the middle of one.  The keyspace is abstracted to the  *)
(* set of writes it holds, and dump.rdb to the set of writes saved.        *)
(***************************************************************************)
EXTENDS Integers, Sequences, FiniteSets

CONSTANTS
    Conns,      \* the client processes; each connects at most once
    MaxClients, \* MAX_CLIENTS (1024)
    BufPieces,  \* CLIENT_BUF_SIZE (64 KiB), in pieces
    MaxReqs,    \* bound: requests each client sends
    Kinds,      \* request kinds: "set" (a write), "shutdown", "bad" (malformed)
    NoConn      \* an empty slot of srv->clients

ASSUME /\ MaxClients \in Nat \ {0} /\ BufPieces \in Nat \ {0}
       /\ Kinds \subseteq {"set", "shutdown", "bad"}

Slots == 1..MaxClients

VARIABLES
    running,        \* srv->running
    pc,             \* the server step to run next
    read_fds,       \* slots select reported readable
    write_fds,      \* slots with unsent bytes when the fd sets were built
    listen_ready,   \* the listening socket was readable
    slot,           \* srv->clients: slot -> connection or NoConn
    rbuf,           \* read_buf[0..read_len): the pieces received, unparsed
    wbuf,           \* write_buf[write_pos..write_len): request numbers replied
    db,             \* the writes <<c, n>> the keyspace holds
    snapshot,       \* the writes in dump.rdb
    save_ok,        \* the last persist_save succeeded
    stopped_by,     \* SHUTDOWN requests <<c, n>> executed
    cstate,         \* "idle", "backlog", "open", "rejected" or "gone"
    peer_closed,    \* the client has closed its socket
    wire,           \* pieces sent by the client, not yet received
    sent,           \* the kinds of the requests the client has sent, in order
    received        \* the request numbers whose replies the client has read

server_vars == <<running, pc, read_fds, write_fds, listen_ready, slot, rbuf, wbuf>>
store_vars  == <<db, snapshot, save_ok, stopped_by>>
client_vars == <<cstate, peer_closed, wire, sent, received>>
vars == <<server_vars, store_vars, client_vars>>

Piece(n, kind) == [req |-> n, kind |-> kind]

Occupied == {i \in Slots : slot[i] # NoConn}

\* The socket has something for recv: data, or the end of the stream.
Readable(c) == wire[c] # <<>> \/ peer_closed[c]

\* Mutant: the client loop runs to i <= MAX_CLIENTS.
NextSlot_past_end(i) == IF i <= MaxClients THEN <<"read", i + 1>> ELSE <<"end", 0>>

\* The next iteration of `for (int i = 0; i < MAX_CLIENTS; i++)`.
NextSlot(i) == IF i < MaxClients THEN <<"read", i + 1>> ELSE <<"end", 0>>

\* Mutant: a request is complete only when a byte follows it.
resp_parse_late(buf) ==
    CASE buf = <<>>            -> 0
      [] buf[1].kind = "bad"   -> -1
      [] Len(buf) <= 2         -> 0
      [] OTHER                 -> 2

(***************************************************************************)
(* resp_parse on a read buffer that starts at a request boundary: -1 when  *)
(* the request is malformed (its offending line is in the first piece), 0  *)
(* when it is incomplete, else the pieces it occupies.                     *)
(***************************************************************************)
resp_parse(buf) ==
    CASE buf = <<>>            -> 0
      [] buf[1].kind = "bad"   -> -1
      [] Len(buf) < 2          -> 0
      [] OTHER                 -> 2

(***************************************************************************)
(* command_execute for request n of client c, on the part of the server   *)
(* state it touches: a write is applied and answered; SHUTDOWN saves the   *)
(* keyspace (persist_save succeeds when ok), answers +OK whatever the save *)
(* returned, and clears srv->running.                                      *)
(***************************************************************************)
command_execute(c, n, kind, st, ok) ==
    CASE kind = "set" ->
            [st EXCEPT !.db = @ \cup {<<c, n>>}, !.wbuf = Append(@, n)]
      [] kind = "shutdown" ->
            [st EXCEPT !.snapshot = IF ok THEN st.db ELSE @,
                       !.save_ok = ok,
                       !.stopped_by = @ \cup {<<c, n>>},
                       !.wbuf = Append(@, n),
                       !.running = FALSE]

\* process_client_input: parse, execute and queue the reply, shift the
\* buffer, until the parser returns 0 or less.
RECURSIVE process_client_input(_, _, _)
process_client_input(c, st, ok) ==
    IF resp_parse(st.rbuf) <= 0 THEN st
    ELSE LET n == st.rbuf[1].req
             done == command_execute(c, n, st.rbuf[1].kind, st, ok)
         IN  process_client_input(c, [done EXCEPT !.rbuf = SubSeq(@, resp_parse(st.rbuf) + 1, Len(@))], ok)

\* The length passed to recv: CLIENT_BUF_SIZE - read_len.
recv_space(i) == BufPieces - Len(rbuf[i])

\* Mutant: write_pos is not advanced after a send.
send_advance_stale(w, k) == w

\* The unsent bytes after a send of k: write_pos += n, and both positions
\* reset to 0 when everything is sent.
send_advance(w, k) == SubSeq(w, k + 1, Len(w))

\* server_remove_client: close the socket, free the slot and its buffers.
RemoveClient(i) ==
    /\ cstate' = [cstate EXCEPT ![slot[i]] = "gone"]
    /\ slot' = [slot EXCEPT ![i] = NoConn]
    /\ rbuf' = [rbuf EXCEPT ![i] = <<>>]
    /\ wbuf' = [wbuf EXCEPT ![i] = <<>>]
-----------------------------------------------------------------------------
Init ==
    /\ running = TRUE
    /\ pc = <<"select", 0>>
    /\ read_fds = {} /\ write_fds = {} /\ listen_ready = FALSE
    /\ slot = [i \in Slots |-> NoConn]
    /\ rbuf = [i \in Slots |-> <<>>]
    /\ wbuf = [i \in Slots |-> <<>>]
    /\ db = {} /\ snapshot = {} /\ save_ok = TRUE /\ stopped_by = {}
    /\ cstate = [c \in Conns |-> "idle"]
    /\ peer_closed = [c \in Conns |-> FALSE]
    /\ wire = [c \in Conns |-> <<>>]
    /\ sent = [c \in Conns |-> <<>>]
    /\ received = [c \in Conns |-> <<>>]

\* Build the fd sets and select: read interest on every client, write
\* interest on those with unsent bytes; the sets select returns.
Select ==
    /\ pc = <<"select", 0>>
    /\ pc' = <<"accept", 0>>
    /\ read_fds' = {i \in Occupied : Readable(slot[i])}
    /\ write_fds' = {i \in Occupied : wbuf[i] # <<>>}
    /\ listen_ready' = \E c \in Conns : cstate[c] = "backlog"
    /\ UNCHANGED <<running, slot, rbuf, wbuf, store_vars, client_vars>>

\* server_accept: one pending connection; closed at once when the table
\* is full, else put in the first free slot.
Accept ==
    /\ pc = <<"accept", 0>>
    /\ pc' = <<"read", 1>>
    /\ IF listen_ready
       THEN \E c \in {x \in Conns : cstate[x] = "backlog"} :
              IF Cardinality(Occupied) >= MaxClients
              THEN /\ cstate' = [cstate EXCEPT ![c] = "rejected"]
                   /\ UNCHANGED <<slot, rbuf, wbuf>>
              ELSE LET i == CHOOSE j \in Slots : slot[j] = NoConn /\ \A k \in 1..j - 1 : slot[k] # NoConn
                   IN  /\ slot' = [slot EXCEPT ![i] = c]
                       /\ rbuf' = [rbuf EXCEPT ![i] = <<>>]
                       /\ wbuf' = [wbuf EXCEPT ![i] = <<>>]
                       /\ cstate' = [cstate EXCEPT ![c] = "open"]
       ELSE UNCHANGED <<slot, rbuf, wbuf, cstate>>
    /\ UNCHANGED <<running, read_fds, write_fds, listen_ready, store_vars,
                   peer_closed, wire, sent, received>>

(***************************************************************************)
(* The read half of one iteration of the client loop: a recv of at most    *)
(* the free space of the buffer.  It returns 0 (the client is dropped and  *)
(* the write half skipped) at the end of the stream and when the buffer is *)
(* full, as recv of length 0 does; otherwise it returns some of the bytes  *)
(* waiting, and process_client_input runs on the buffer.  `ok` is whether *)
(* a persist_save made by a command of this batch succeeds.               *)
(***************************************************************************)
ReadClient(i) ==
    /\ pc = <<"read", i>>
    /\ IF slot[i] = NoConn \/ i \notin read_fds
       THEN /\ pc' = <<"write", i>>
            /\ UNCHANGED <<running, slot, rbuf, wbuf, store_vars, cstate, wire>>
       ELSE LET c     == slot[i]
                space == recv_space(i)
            IN  \/ /\ space = 0 \/ wire[c] = <<>>
                   /\ RemoveClient(i)
                   /\ pc' = NextSlot(i)
                   /\ UNCHANGED <<running, store_vars, wire>>
                \/ /\ space > 0 /\ wire[c] # <<>>
                   /\ \E k \in 1..Len(wire[c]), ok \in BOOLEAN :
                        /\ k <= space
                        /\ LET st == process_client_input(c,
                                        [rbuf |-> rbuf[i] \o SubSeq(wire[c], 1, k),
                                         wbuf |-> wbuf[i], db |-> db, snapshot |-> snapshot,
                                         save_ok |-> save_ok, stopped_by |-> stopped_by,
                                         running |-> running], ok)
                           IN  /\ rbuf' = [rbuf EXCEPT ![i] = st.rbuf]
                               /\ wbuf' = [wbuf EXCEPT ![i] = st.wbuf]
                               /\ db' = st.db /\ snapshot' = st.snapshot
                               /\ save_ok' = st.save_ok /\ stopped_by' = st.stopped_by
                               /\ running' = st.running
                        /\ wire' = [wire EXCEPT ![c] = SubSeq(@, k + 1, Len(@))]
                   /\ pc' = <<"write", i>>
                   /\ UNCHANGED <<slot, cstate>>
    /\ UNCHANGED <<read_fds, write_fds, listen_ready, peer_closed, sent, received>>

(***************************************************************************)
(* The write half: when the slot was write-ready, send what is pending.   *)
(* The kernel takes some prefix of the bytes; the client reads the replies *)
(* the prefix completes.  A send to a closed peer fails and drops it.      *)
(***************************************************************************)
WriteClient(i) ==
    /\ pc = <<"write", i>>
    /\ pc' = NextSlot(i)
    /\ IF slot[i] = NoConn \/ i \notin write_fds
       THEN UNCHANGED <<slot, rbuf, wbuf, cstate, received>>
       ELSE LET c == slot[i] IN
            \/ /\ peer_closed[c]
               /\ RemoveClient(i)
               /\ UNCHANGED received
            \/ /\ ~peer_closed[c]
               /\ \E k \in 1..Len(wbuf[i]) :
                    /\ received' = [received EXCEPT ![c] = @ \o SubSeq(wbuf[i], 1, k)]
                    /\ wbuf' = [wbuf EXCEPT ![i] = send_advance(@, k)]
               /\ UNCHANGED <<slot, rbuf, cstate>>
    /\ UNCHANGED <<running, read_fds, write_fds, listen_ready, store_vars,
                   peer_closed, wire, sent>>

\* The end of a pass: db_expire_sweep (the keyspace here has no deadlines),
\* then the loop test; on exit the listener and every client are closed.
EndPass ==
    /\ pc = <<"end", 0>>
    /\ IF running
       THEN /\ pc' = <<"select", 0>>
            /\ UNCHANGED <<slot, rbuf, wbuf, cstate>>
       ELSE /\ pc' = <<"done", 0>>
            /\ slot' = [i \in Slots |-> NoConn]
            /\ rbuf' = [i \in Slots |-> <<>>]
            /\ wbuf' = [i \in Slots |-> <<>>]
            /\ cstate' = [c \in Conns |-> IF cstate[c] \in {"open", "backlog"} THEN "gone" ELSE cstate[c]]
    /\ UNCHANGED <<running, read_fds, write_fds, listen_ready, store_vars,
                   peer_closed, wire, sent, received>>

(***************************************************************************)
(* signal_handler (main.c): persist_save then server_stop, between any two *)
(* steps of the loop.  Arriving while the loop blocks in select, it makes  *)
(* select fail with EINTR and the pass ends at once.                       *)
(***************************************************************************)
signal_handler ==
    /\ running /\ pc # <<"done", 0>>
    /\ running' = FALSE
    /\ \E ok \in BOOLEAN : /\ snapshot' = IF ok THEN db ELSE snapshot
                           /\ save_ok' = ok
    /\ pc' \in IF pc = <<"select", 0>> THEN {pc, <<"end", 0>>} ELSE {pc}
    /\ UNCHANGED <<read_fds, write_fds, listen_ready, slot, rbuf, wbuf, db,
                   stopped_by, client_vars>>

\* A client connects: the kernel queues it on the listening socket.
Connect(c) ==
    /\ cstate[c] = "idle" /\ pc # <<"done", 0>>
    /\ cstate' = [cstate EXCEPT ![c] = "backlog"]
    /\ UNCHANGED <<server_vars, store_vars, peer_closed, wire, sent, received>>

\* A client sends a request (the CLI frames it as an array of bulk strings).
SendRequest(c, kind) ==
    /\ cstate[c] \in {"backlog", "open"} /\ ~peer_closed[c]
    /\ Len(sent[c]) < MaxReqs
    /\ sent' = [sent EXCEPT ![c] = Append(@, kind)]
    /\ wire' = [wire EXCEPT ![c] = @ \o <<Piece(Len(sent[c]) + 1, kind), Piece(Len(sent[c]) + 1, kind)>>]
    /\ UNCHANGED <<server_vars, store_vars, cstate, peer_closed, received>>

\* A client closes its socket.
CloseClient(c) ==
    /\ cstate[c] \in {"backlog", "open"} /\ ~peer_closed[c]
    /\ peer_closed' = [peer_closed EXCEPT ![c] = TRUE]
    /\ UNCHANGED <<server_vars, store_vars, cstate, wire, sent, received>>

\* After the loop has exited nothing changes any more.
Terminated == pc = <<"done", 0>> /\ UNCHANGED vars

ServerStep ==
    \/ Select \/ Accept \/ EndPass
    \/ \E i \in Slots : ReadClient(i) \/ WriteClient(i)

ClientStep ==
    \E c \in Conns :
        \/ Connect(c)
        \/ \E kind \in Kinds : SendRequest(c, kind)
        \/ CloseClient(c)

Next == ServerStep \/ ClientStep \/ signal_handler \/ Terminated

\* The loop never blocks for good: select returns within 50 ms, so every
\* server step that is enabled is eventually taken.
Spec == Init /\ [][Next]_vars /\ WF_vars(ServerStep)

-----------------------------------------------------------------------------
TypeOK ==
    /\ running \in BOOLEAN
    /\ pc \in ({"select", "accept", "end", "done"} \X {0}) \cup ({"read", "write"} \X Slots)
    /\ read_fds \subseteq Slots /\ write_fds \subseteq Slots
    /\ slot \in [Slots -> Conns \cup {NoConn}]
    /\ \A i \in Slots : Len(rbuf[i]) <= BufPieces
    /\ cstate \in [Conns -> {"idle", "backlog", "open", "rejected", "gone"}]
    /\ \A c \in Conns : Len(sent[c]) <= MaxReqs

==============================================================================
