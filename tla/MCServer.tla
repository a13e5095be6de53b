------------------------------- MODULE MCServer -------------------------------
(***************************************************************************)
(* Model-checking harness for Server: two clients, one or two slots (one   *)
(* slot makes server_accept turn a client away), a read buffer of three    *)
(* pieces (one and a half requests, so a recv can stop inside a request    *)
(* and a pipelined request can find the buffer full) and two requests per  *)
(* client.                                                                 *)
(***************************************************************************)
EXTENDS Server, TLC

CONSTANTS c1, c2

MCConns == {c1, c2}
KindsWellFormed == {"set", "shutdown"}
KindsAll == {"set", "shutdown", "bad"}

\* The writes whose "+OK" the client has read.
Acked == {<<c, n>> \in Conns \X (1..MaxReqs) :
             /\ n \in 1..Len(sent[c]) /\ sent[c][n] = "set"
             /\ \E j \in DOMAIN received[c] : received[c][j] = n}

-----------------------------------------------------------------------------
\* Spec section 5 (Ordering): on each connection replies arrive in request
\* order, one per request, whatever the pipelining, the split of requests
\* across recv calls and the short sends: the replies a client has read
\* are those of its first requests, in order.
RepliesInOrder ==
    \A c \in Conns : \A j \in DOMAIN received[c] : received[c][j] = j

\* Every request a client sends is eventually answered, unless the client
\* closes its socket, is turned away or dropped, or the server stops:
\* pipelined requests left in the read buffer and replies left in the
\* write buffer are not forgotten by the loop.
RepliesEventually ==
    \A c \in Conns : \A n \in 1..MaxReqs :
        Len(sent[c]) >= n ~> (Len(received[c]) >= n \/ peer_closed[c]
                              \/ cstate[c] \in {"gone", "rejected"})

\* Spec sections 4.5, 4.7 and 7: on malformed input the client is dropped
\* without a reply.  Between passes, no connected client's read buffer
\* starts with a request the parser has rejected.
MalformedDropped ==
    pc = <<"select", 0>> => \A i \in Occupied : rbuf[i] = <<>> \/ rbuf[i][1].kind # "bad"

\* Spec table 4.6: SHUTDOWN replies +OK.  Once the loop has exited, every
\* client that sent a SHUTDOWN that was executed, and did not close its
\* socket, has read that reply.
ShutdownAnswered ==
    pc = <<"done", 0>> =>
        \A x \in stopped_by : ~peer_closed[x[1]] =>
            \E j \in DOMAIN received[x[1]] : received[x[1]][j] = x[2]

\* Spec section 4.8: the snapshot is a point-in-time view taken while no
\* command can run.  Once the loop has exited after a successful final
\* save, every write whose +OK a client has read is in dump.rdb.
AckedWritesSaved ==
    pc = <<"done", 0>> /\ save_ok => Acked \subseteq snapshot
==============================================================================
