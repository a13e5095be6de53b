-------------------------------- MODULE MCCli --------------------------------
(***************************************************************************)
(* Model-checking harness for Cli: three lines typed, from lines that test *)
(* each path of build_command (blanks, a quoted token with a blank in it,  *)
(* an empty quoted token, a quote inside a bare token, an unterminated     *)
(* quote, a CR inside a token, a line with nothing to send, SHUTDOWN), and *)
(* replies of every RESP type: a bulk string holding CR LF, a two-digit    *)
(* integer, and an array whose members are a bulk string and nil.          *)
(* BUF_SIZE is 12 bytes: every reply fits but the array, whose 16 bytes   *)
(* stand for a reply longer than the 64 KiB recv_buf.                      *)
(***************************************************************************)
EXTENDS Cli

SP == " "

MCLines ==
    { <<"a", SP, "b", LF>>,
      <<DQ, "a", SP, "b", DQ, LF>>,
      <<DQ, DQ, CR, LF>>,
      <<"a", DQ, "b", SP, DQ, "a", LF>>,
      <<SP, "a", CR, "b", LF>>,
      <<SP, "\t", CR, LF>>,
      <<"S", LF>> }

MCReplies ==
    { R!Val("simple", <<"O", "K">>, 0, <<>>),
      R!Val("error", <<"E">>, 0, <<>>),
      R!Val("int", <<>>, 12, <<>>),
      R!Val("bulk", <<"a", CR, LF>>, 0, <<>>),
      R!Val("array", <<>>, 0, <<R!Val("bulk", <<"a">>, 0, <<>>), R!NilValue>>) }

-----------------------------------------------------------------------------
\* The arguments build_command tokenized, as bulk strings.
ArgsValue(l) ==
    LET args == Tokenize(l, <<>>)
    IN R!Val("array", <<>>, 0, [j \in DOMAIN args |-> R!Val("bulk", args[j], 0, <<>>)])

\* Spec 6 (CLI surface): the CLI frames a line as an array of bulk
\* strings.  Every request it sends is one frame that the server's
\* resp_parse consumes whole and reads as exactly the line's tokens:
\* quoted blanks, empty tokens and CR bytes included.
RequestsFramed ==
    [][nsent' = nsent + 1 =>
        LET req == build_command(line')
        IN R!resp_parse(req) = R!Result(Len(req), ArgsValue(line'))]_vars

\* Request m's reply was longer than recv_buf holds.
Overflowed(m) == m \in DOMAIN replied /\ Len(ReplyBytes[replied[m]]) >= BUF_SIZE

\* No reply to a request before n overflowed recv_buf.
FitsBefore(n) == \A m \in 1..n - 1 : ~Overflowed(m)

\* Spec 4.6 and 5 (one reply per request, in order): whatever pieces TCP
\* cuts the replies into, every reply the CLI prints is the server's reply
\* to the request the CLI sent last: recv_response never returns a part of
\* a reply, nor a reply the server has not written for this request.  This
\* holds as long as every earlier reply fitted recv_buf: after one that did
\* not, its tail is left in the socket and read as the next reply.
CliShowsOwnReply ==
    \A j \in DOMAIN shown :
        FitsBefore(shown[j].req) =>
            /\ shown[j].req \in DOMAIN replied
            /\ shown[j].val = replied[shown[j].req]

\* Every request sent is answered: its recv_response returns, or the CLI
\* ends because the server went away.  recv_response never waits for
\* bytes of a reply it already holds.  As above, this holds until a reply
\* overflows recv_buf: the tail left behind may never parse, and
\* recv_response then waits for bytes the server will not send.
RepliesAnswered ==
    \A n \in 1..MaxLines :
        (nsent >= n /\ FitsBefore(n)) ~> (answered >= n \/ cli_pc = "exited")
=============================================================================
