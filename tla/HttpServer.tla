----------------------------- MODULE HttpServer -----------------------------
(***************************************************************************)
(* A connection of the HTTP server (Connection.cpp, RequestParser.cpp,      *)
(* RequestHandler.cpp, Reply.cpp, ConnectionManager.cpp, Server.cpp) and    *)
(* the client at its other end: any client that keeps the connection and    *)
(* sends one request after the other without waiting, or the one of         *)
(* Client.cpp, which asks once and reads until the end of the stream.       *)
(*                                                                          *)
(* The handlers run on the one thread of the io_service, except that a      *)
(* method may be executed on another.  What the other side and the clock    *)
(* do are steps of their own, which make a handler due.                     *)
(*                                                                          *)
(* A token is the run of characters that takes the parser to its next       *)
(* state: the request line, a content-length header, the empty line, the    *)
(* payload, or one control character.  Connections do not share state, so   *)
(* one is modelled.                                                         *)
(***************************************************************************)
EXTENDS Integers, Sequences, SequencesExt

CONSTANTS Kinds,       \* what may be requested
          MaxRequests, \* requests of a client that keeps the connection
          Clients      \* the clients there are: "any", "coin"

ASSUME HttpAssumption ==
    /\ Kinds \subseteq {"call", "deferred", "stop", "unknown", "missing"}
    /\ MaxRequests \in Nat \ {0}
    /\ Clients \subseteq {"any", "coin"}

VARIABLES server,    \* the Server
          conn,      \* the Connection
          toServer,  \* tokens on the wire
          sent,      \* replies written to the wire
          client     \* the client

vars == <<server, conn, toServer, sent, client>>

Words == {"line", "length", "blank", "payload", "control"}

Token == [req : 1..MaxRequests, word : Words, kind : Kinds]

(* What a reply says: what the method returned, an error in an ok reply, or *)
(* one of the stock replies.                                                *)
Replies == [req : 1..MaxRequests, what : {"result", "rpc_error", "not_found", "bad_request"}]

NoReply == [req |-> 0, what |-> "none"]

(* The types.  The keep-alive timer runs only while a request is awaited,   *)
(* and a connection that is freed has nothing under way.                    *)
TypeOK ==
    /\ server \in {"running", "stopping", "stopped"}
    /\ conn \in [state : {"none", "managed", "freed"},
                 socket : {"open", "shut", "closed"},
                 ops : SUBSET {"read", "exec", "write"},
                 parser : [state : {"start", "header", "sized", "payload"},
                           req : 0..MaxRequests, kind : Kinds \cup {"none"}],
                 buffer : Seq(Token),
                 reply : Replies \cup {NoReply},
                 armed : BOOLEAN, due : BOOLEAN, passed : BOOLEAN]
    /\ conn.state = "freed" => conn.socket = "closed" /\ conn.ops = {} /\ ~conn.armed
    /\ conn.armed => conn.ops = {"read"}
    /\ toServer \in Seq(Token)
    /\ sent \in Seq(Replies)
    /\ client \in [kind : Clients,
                   phase : {"connecting", "writing", "reading", "content", "done"},
                   asked : Seq([kind : Kinds, bad : BOOLEAN]),
                   got : 0..MaxRequests]

(* The parser of a new connection, and after reset(). *)
Reset == [state |-> "start", req |-> 0, kind |-> "none"]

Init ==
    /\ server = "running"
    /\ conn = [state |-> "none", socket |-> "open", ops |-> {}, parser |-> Reset,
               buffer |-> <<>>, reply |-> NoReply,
               armed |-> FALSE, due |-> FALSE, passed |-> FALSE]
    /\ toServer = <<>>
    /\ sent = <<>>
    /\ \E kind \in Clients :
          client = [kind |-> kind, phase |-> "connecting", asked |-> <<>>, got |-> 0]

----------------------------------------------------------------------------
(* RequestParser *)

(* consume(): the parser after a token, and "true", "false" or "more".      *)
(* Request line, header, empty line and payload come in the order the       *)
(* clients send them; a control character fails everywhere but in a         *)
(* payload.                                                                 *)
Consume(p, t) ==
    CASE t.word = "line" ->
           <<[state |-> "header", req |-> t.req, kind |-> t.kind], "more">>
      [] t.word = "length" -> <<[p EXCEPT !.state = "sized"], "more">>
      [] t.word = "blank" /\ p.state = "sized" -> <<[p EXCEPT !.state = "payload"], "more">>
      [] t.word = "blank" /\ p.state # "sized" -> <<[p EXCEPT !.state = "start"], "true">>
      [] p.state = "payload" -> <<[p EXCEPT !.state = "start"], "true">>
      [] OTHER -> <<[state |-> "start", req |-> t.req, kind |-> p.kind], "false">>

(* A token after one that decided is kept for later. *)
Advance(s, t) ==
    LET c == Consume(s.parser, t) IN
    IF s.result # "more" THEN [s EXCEPT !.rest = Append(@, t)]
    ELSE [s EXCEPT !.parser = c[1], !.result = c[2]]

(* parse(): tokens are consumed until one decides. *)
Parse(parser, tokens) ==
    LET f[n \in 0..Len(tokens)] ==
          IF n = 0 THEN [parser |-> parser, result |-> "more", rest |-> <<>>]
          ELSE Advance(f[n - 1], tokens[n])
    IN  f[Len(tokens)]

----------------------------------------------------------------------------
(* Connection *)

Cancelled(c) == [c EXCEPT !.armed = FALSE]

(* stop() of the ConnectionManager, and then the last pointer is gone. *)
Stopped(c) == [Cancelled(c) EXCEPT !.state = "freed", !.socket = "closed", !.ops = {}]

(* async_exec() and Reply::exec(): a method that is found is executed; in   *)
(* an error, or if there is no such method, the reply is an ok one too.     *)
(* What is got and is no method is looked for on disk.                      *)
Answer(kind) ==
    CASE kind \in {"call", "deferred", "stop"} -> "result"
      [] kind = "missing" -> "not_found"
      [] OTHER -> "rpc_error"

(* handle_exec(), and what handle_read() does with a bad request: the reply *)
(* is set and a write of it started.                                        *)
Replied(c, req, what) ==
    [c EXCEPT !.reply = [req |-> req, what |-> what],
              !.ops = @ \cup {"write"}]

(* dispatch(): a method is executed here or on another thread. *)
Dispatch(c, req, kind) ==
    IF kind = "deferred" THEN [c EXCEPT !.ops = @ \cup {"exec"}]
    ELSE Replied(c, req, Answer(kind))

(* handle_read() without an error, for a connection that has the tokens     *)
(* still to be parsed in its buffer.                                        *)
HandleRead(old) ==
    LET c == Cancelled(old)
        parsed == Parse(c.parser, c.buffer)
        next == [c EXCEPT !.parser = parsed.parser, !.buffer = parsed.rest]
    IN  CASE parsed.result = "more" -> [next EXCEPT !.ops = @ \cup {"read"}]
          [] parsed.result = "false" -> Replied(next, parsed.parser.req, "bad_request")
          [] parsed.result = "true" ->
               Dispatch(next, parsed.parser.req, parsed.parser.kind)

(* The server is told to stop when Stop is executed. *)
Stops(old, new) ==
    server' = IF new.reply # old.reply /\ new.reply.what = "result" /\ new.parser.kind = "stop"
              THEN "stopping" ELSE server

Running == server # "stopped"

(* The other side has sent all it ever will. *)
Ended == client.phase = "done"

(* A read that gets a part of what is on the wire. *)
Read(n) ==
    LET c == [conn EXCEPT !.ops = @ \ {"read"}, !.buffer = SubSeq(toServer, 1, n)]
        new == HandleRead(c)
    IN  /\ Running
        /\ "read" \in conn.ops
        /\ conn.socket = "open"
        /\ n <= Len(toServer)
        /\ conn' = new
        /\ toServer' = SubSeq(toServer, n + 1, Len(toServer))
        /\ Stops(conn, new)
        /\ UNCHANGED <<sent, client>>

(* A read that finds the end of the stream. *)
ReadEnds ==
    /\ Running
    /\ "read" \in conn.ops
    /\ conn.socket = "shut" \/ (Ended /\ toServer = <<>>)
    /\ conn' = Stopped(conn)
    /\ UNCHANGED <<server, toServer, sent, client>>

(* exec() of a method on another thread, which writes the reply itself. *)
Exec ==
    /\ Running
    /\ "exec" \in conn.ops
    /\ conn' = Replied([conn EXCEPT !.ops = @ \ {"exec"}], conn.parser.req, "result")
    /\ UNCHANGED <<server, toServer, sent, client>>

(* Mutant: what is left in the buffer is forgotten. *)
ContinueAfresh(c) == [c EXCEPT !.buffer = <<>>, !.ops = @ \cup {"read"}]

(* handle_write() goes on with what is left in the buffer, or reads.        *)
Continue(c) ==
    IF c.buffer # <<>> THEN HandleRead(c) ELSE [c EXCEPT !.ops = @ \cup {"read"}]

(* Mutant: a connection is kept alive for good. *)
KeptForever(c) == c

(* The keep-alive timer is started.  The connection is kept alive whatever  *)
(* the request said: the version is written with its major number twice, so *)
(* it is never 1.0, and the headers are cleared before they are looked at.  *)
KeptAlive(c) == [c EXCEPT !.armed = TRUE, !.passed = FALSE]

(* handle_write() without an error. *)
Write ==
    LET new == Continue(KeptAlive([conn EXCEPT !.ops = @ \ {"write"}])) IN
    /\ Running
    /\ "write" \in conn.ops
    /\ conn.socket = "open"
    /\ sent' = Append(sent, conn.reply)
    /\ conn' = new
    /\ Stops(conn, new)
    /\ UNCHANGED <<toServer, client>>

(* Mutant: a connection that cannot be written to is not stopped. *)
WriteFailedQuietly(c) == [c EXCEPT !.ops = @ \ {"write"}]

WriteFailed(c) == Stopped(c)

WriteFails ==
    /\ Running
    /\ "write" \in conn.ops
    /\ conn.socket = "shut" \/ Ended
    /\ conn' = WriteFailed(conn)
    /\ UNCHANGED <<server, toServer, sent, client>>

(* handle_timeout(): the time may have been set again since the handler     *)
(* became due, but a timer that was only cancelled still counts.            *)
HandleTimeout ==
    /\ Running
    /\ conn.state = "managed"
    /\ conn.due
    /\ conn' = [conn EXCEPT !.due = FALSE,
                            !.socket = IF conn.passed THEN "shut" ELSE @]
    /\ UNCHANGED <<server, toServer, sent, client>>

TimerExpires ==
    /\ conn.armed
    /\ conn' = [conn EXCEPT !.armed = FALSE, !.due = TRUE, !.passed = TRUE]
    /\ UNCHANGED <<server, toServer, sent, client>>

----------------------------------------------------------------------------
(* Server *)

(* start() *)
Started(c) == [c EXCEPT !.state = "managed", !.ops = {"read"}]

(* handle_accept(), ConnectionManager::start() and Connection::start(). *)
Accept ==
    /\ server = "running"
    /\ client.phase = "connecting"
    /\ conn.state = "none"
    /\ conn' = Started(conn)
    /\ client' = [client EXCEPT !.phase = "writing"]
    /\ UNCHANGED <<server, toServer, sent>>

(* handle_stop(): every connection is closed and no handler runs any more. *)
HandleStop ==
    /\ server = "stopping"
    /\ server' = "stopped"
    /\ conn' = Stopped(conn)
    /\ UNCHANGED <<toServer, sent, client>>

----------------------------------------------------------------------------
(* The clients *)

(* A request of kind k, number n: as it should be with or without a         *)
(* payload, or ended by a control character somewhere.                      *)
Shapes == {<<"line", "blank">>, <<"line", "length", "blank", "payload">>,
           <<"control">>, <<"line", "control">>, <<"line", "length", "control">>}

Tokens(shape, n, kind) ==
    [i \in DOMAIN shape |-> [req |-> n, word |-> shape[i], kind |-> kind]]

Asks(shape, kind) ==
    /\ toServer' = toServer \o Tokens(shape, Len(client.asked) + 1, kind)
    /\ UNCHANGED <<server, conn, sent>>

(* A client that keeps the connection sends another request. *)
Ask(shape, kind) ==
    /\ client.kind = "any"
    /\ client.phase = "writing"
    /\ Len(client.asked) < MaxRequests
    /\ Asks(shape, kind)
    /\ client' = [client EXCEPT !.asked =
                    Append(@, [kind |-> kind, bad |-> Last(shape) = "control"])]

(* It goes, perhaps in the middle of a request. *)
Leave(shape) ==
    /\ client.kind = "any"
    /\ client.phase = "writing"
    /\ shape # <<>> => Len(client.asked) < MaxRequests
    /\ \E kind \in Kinds : Asks(shape, kind)
    /\ client' = [client EXCEPT !.phase = "done"]

(* async_post() or async_get(), and handle_connect(). *)
WriteRequest(shape, kind) ==
    /\ client.kind = "coin"
    /\ client.phase = "writing"
    /\ Asks(shape, kind)
    /\ client' = [client EXCEPT !.phase = "reading",
                                !.asked = <<[kind |-> kind, bad |-> FALSE]>>]

(* handle_read_status_line(), handle_read_headers(): the reply is there. *)
ReadReply ==
    /\ client.kind = "coin"
    /\ client.phase = "reading"
    /\ sent # <<>>
    /\ client' = [client EXCEPT !.phase = "content", !.got = Len(sent)]
    /\ UNCHANGED <<server, conn, toServer, sent>>

(* handle_done(): at the end of the stream, however much was read. *)
HandleDone ==
    /\ client.kind = "coin"
    /\ conn.socket # "open"
    /\ client.phase = "content" \/ (client.phase = "reading" /\ sent = <<>>)
    /\ client' = [client EXCEPT !.phase = "done"]
    /\ UNCHANGED <<server, conn, toServer, sent>>

(* handle_resolve() or handle_connect() with an error. *)
Refused ==
    /\ client.phase = "connecting"
    /\ client' = [client EXCEPT !.phase = "done"]
    /\ UNCHANGED <<server, conn, toServer, sent>>

Handlers == ReadEnds \/ Exec \/ Write \/ WriteFails \/ HandleTimeout \/ Accept \/ HandleStop
            \/ \E n \in 1..Len(toServer) : Read(n)

Next ==
    \/ Handlers
    \/ TimerExpires
    \/ \E kind \in Kinds :
          \/ \E shape \in Shapes : Ask(shape, kind)
          \/ \E shape \in {<<"line", "blank">>, <<"line", "length", "blank", "payload">>} :
                WriteRequest(shape, kind)
    \/ \E shape \in {<<>>, <<"line">>, <<"line", "length">>} : Leave(shape)
    \/ ReadReply
    \/ HandleDone
    \/ Refused

(* Handlers that are due run, time passes, and the client of Client.cpp     *)
(* goes on; nothing is expected of any other.                               *)
Fairness ==
    /\ WF_vars(Handlers)
    /\ WF_vars(HandleTimeout)
    /\ WF_vars(TimerExpires)
    /\ WF_vars(ReadReply)
    /\ WF_vars(HandleDone)
    /\ WF_vars(\E kind \in Kinds : WriteRequest(<<"line", "length", "blank", "payload">>, kind))

Spec == Init /\ [][Next]_vars /\ Fairness

----------------------------------------------------------------------------
(* Every request is answered once, in the order they were sent and by what  *)
(* it asked for, wherever reads cut the stream and whatever came before on  *)
(* the same parser and the same reply.                                      *)
RepliesInOrder ==
    \A i \in DOMAIN sent :
        /\ sent[i].req = i
        /\ sent[i].what = IF client.asked[i].bad THEN "bad_request"
                          ELSE Answer(client.asked[i].kind)

(* The reply, which a write that is under way still refers to, is not       *)
(* touched: a connection reads, executes or writes, one at a time.          *)
OneOperation ==
    conn.state = "managed" =>
        \E op \in {"read", "exec", "write"} : conn.ops = {op}

(* The client of Client.cpp is called back with the reply of its request,   *)
(* also when the keep-alive timer fires meanwhile, unless the server was    *)
(* told to stop or it was refused.                                          *)
CoinIsAnswered ==
    client.kind = "coin" /\ client.phase = "done" /\ conn.state # "none" /\ server = "running"
        => client.got = 1

(* The types; replies are right, in order and left alone while they are     *)
(* written, and the client of Client.cpp gets its own.                      *)
RepliesAreSound == TypeOK /\ RepliesInOrder /\ OneOperation /\ CoinIsAnswered

(* A call of the client of Client.cpp comes to an end, although it waits    *)
(* for the end of the stream and its "Connection: close" is not looked at.  *)
CallsEnd == (client.kind = "coin" /\ client.phase = "writing") ~> (client.phase = "done")

(* A connection the client has left is given up, in whatever state it is. *)
ConnectionsEnd == (client.phase = "done" /\ conn.state = "managed") ~> (conn.state = "freed")
=============================================================================
