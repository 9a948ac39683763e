--------------------------- MODULE HttpConnection ---------------------------
(***************************************************************************)
(* One connection of the embedded HTTP server, from accept to close:       *)
(* cppcms::impl::cgi::http (src/http_api.cpp), its base connection         *)
(* (src/cgi_api.cpp), the context that serves a request on it              *)
(* (src/http_context.cpp), the output buffers of the response              *)
(* (src/http_response.cpp) and the watchdog.                               *)
(*                                                                         *)
(* The client's bytes are units: a request of kind k is k.head units of    *)
(* headers and k.body units of content, and a read takes any number of     *)
(* the units that have arrived.  What the server sends are tokens: the     *)
(* headers of an answer, a unit of its content, the terminator of a        *)
(* chunked answer.  Every token carries the number of its request.  The    *)
(* socket accepts any number of tokens of a write.                         *)
(*                                                                         *)
(* A handler of the event loop is one action.  A synchronous application   *)
(* runs in a thread of the pool, an asynchronous one in the loop.          *)
(***************************************************************************)
EXTENDS Integers, SequencesExt

CONSTANTS Kinds,          \* for each request of the client, the kinds it may have
          MaxLen,         \* bound on the units of an answer
          MaxHeader,      \* the 16384 bytes headers may take, in units
          Timeout         \* http.timeout

ASSUME HttpAssumption ==
    /\ \A i \in DOMAIN Kinds : \A k \in Kinds[i] :
          /\ k.head \in Nat \ {0} /\ k.body \in Nat
          /\ k.ka \in BOOLEAN           \* "Connection: keep-alive"
          /\ k.v11 \in BOOLEAN          \* HTTP/1.1
          /\ k.bad \in {"no", "line", "method"}
    /\ {MaxLen, MaxHeader, Timeout} \subseteq Nat

VARIABLES
    client,     \* kinds of its requests, units of the last one to send, gone
    in,         \* units in the receive buffer of the socket
    conn,       \* members of the connection, see NewConnection
    resp,       \* the response and its device, see NewResponse
    app,        \* what the application still writes, and what it declares
    pc,         \* where the request is
    loop,       \* what the event loop holds of this connection, see NewLoop
    quiet,      \* time since the client last sent or took anything
    peer        \* the handler of async_on_peer_reset()

vars == <<client, in, conn, resp, app, pc, loop, quiet, peer>>

NewConnection ==
    [open |-> TRUE, broken |-> FALSE, sent |-> <<>>, cur |-> 1,
     input_body_ |-> <<>>, got |-> 0, total_read_ |-> 0, left |-> 0,
     in_watchdog_ |-> FALSE, headers_done_ |-> FALSE, chunked_te_ |-> FALSE,
     keep_alive_ |-> FALSE, client_accepts_keep_alive_ |-> FALSE,
     output_content_length_ |-> -1, output_written_ |-> 0,
     pending_output_ |-> <<>>, error_state_ |-> FALSE]

NewResponse == [requested |-> FALSE, conn_ |-> FALSE, buf |-> <<>>,
                final_ |-> FALSE, eof_send_ |-> FALSE]

\* The handlers that wait for the socket and those in the queue, whether the
\* watchdog looks at the connection, and the time since update_time(): beyond
\* Timeout it is time to die.
NewLoop == [readable |-> "no", writeable |-> <<>>, posted |-> <<>>,
            watched |-> FALSE, idle |-> 0]

NoApp == [left |-> 0, length |-> -1]

Kind == client.kinds[conn.cur]

HeadToken(c) == [k |-> "head", r |-> c.cur, length |-> c.output_content_length_,
                 chunked |-> c.chunked_te_, close |-> ~c.keep_alive_]
Token(name, r) == [k |-> name, r |-> r]
Data(c) == Token("data", c.cur)

-----------------------------------------------------------------------------
(* Formatting of the output.                                               *)

make_chunked_wrapper_NoTrailer(c, out, completed) ==
    IF completed /\ out = <<>> THEN <<Token("last", c.cur)>> ELSE out

make_chunked_wrapper(c, out, completed) ==
    IF completed THEN Append(out, Token("last", c.cur)) ELSE out

set_response_headers(c, k, length) ==
    [c EXCEPT !.client_accepts_keep_alive_ = k.ka,
              !.output_content_length_ = length,
              !.output_written_ = 0]

\* The headers go out with the first output.  An answer that is complete by
\* then gets a Content-Length; one that is not is chunked if the client wants
\* to keep the connection and speaks HTTP/1.1, and ends with the connection
\* otherwise.
first_output(c, out, completed) ==
    LET c1 == IF c.output_content_length_ = -1 /\ completed
              THEN [c EXCEPT !.output_content_length_ = Len(out)] ELSE c
        ka == /\ c.client_accepts_keep_alive_ /\ ~c.error_state_
              /\ c1.output_content_length_ # -1 \/ client.kinds[c.cur].v11
    IN  [c1 EXCEPT !.keep_alive_ = ka,
                   !.chunked_te_ = ka /\ c1.output_content_length_ = -1,
                   !.headers_done_ = TRUE]

\* The connection after format_output(), the packet, and whether it failed.
format_output(c, out, completed) ==
    LET c1   == IF c.headers_done_ THEN c ELSE first_output(c, out, completed)
        head == IF c.headers_done_ THEN <<>> ELSE <<HeadToken(c1)>>
        n    == c1.output_written_ + Len(out)
    IN  IF c1.chunked_te_
        THEN [c |-> c1, packet |-> head \o make_chunked_wrapper(c1, out, completed),
              e |-> FALSE]
        ELSE [c |-> [c1 EXCEPT !.output_written_ = n], packet |-> head \o out,
              e |-> c1.output_content_length_ # -1 /\ n > c1.output_content_length_]

\* What the socket does with a write of some tokens: it takes n of them, or
\* there is an error because the client has gone; then every write fails.
write_some(c, output) ==
    (IF c.broken THEN {} ELSE [n : 0 .. Len(output), e : {FALSE}]) \cup
    (IF client.gone THEN {[n |-> 0, e |-> TRUE]} ELSE {})

Send(c, output, w) == [c EXCEPT !.sent = @ \o SubSeq(output, 1, w.n), !.broken = w.e]

\* Outcomes of connection::nonblocking_write(): the connection and the error.
\* It returned true when pending_output_ is empty and there is no error.
nonblocking_write(c, out, eof) ==
    LET f      == format_output(c, out, eof)
        output == f.c.pending_output_ \o f.packet
    IN  IF f.e THEN {[c |-> f.c, e |-> TRUE]}
        ELSE IF output = <<>> THEN {[c |-> f.c, e |-> FALSE]}
        ELSE IF ~c.open THEN {[c |-> f.c, e |-> TRUE]}
        ELSE {[c |-> [Send(f.c, output, w) EXCEPT !.pending_output_ =
                        SubSeq(output, w.n + 1, Len(output))],
               e |-> w.e] : w \in write_some(c, output)}

\* Outcomes of http::write_to_socket(), which blocks until all is sent, the
\* client has gone or the timeout of timed_write_some() has passed; after an
\* error the connection is closed.
write_to_socket(c, output) ==
    {[c |-> [Send(c, output, w) EXCEPT !.open = ~w.e], e |-> w.e] :
     w \in IF c.open /\ ~c.broken
           THEN [n : 0 .. Len(output), e : {TRUE}] \cup {[n |-> Len(output), e |-> FALSE]}
           ELSE {[n |-> 0, e |-> TRUE]}}

\* Outcomes of connection::write().
write(c, out, eof) ==
    LET f      == format_output(c, out, eof)
        output == f.c.pending_output_ \o f.packet
    IN  IF f.e THEN {[c |-> f.c, e |-> TRUE]}
        ELSE IF output = <<>> THEN {[c |-> f.c, e |-> FALSE]}
        ELSE write_to_socket([f.c EXCEPT !.pending_output_ = <<>>], output)

-----------------------------------------------------------------------------
(* The device under the output stream: output_device writes with write(),  *)
(* async_io_buf with nonblocking_write().  An outcome is the connection,   *)
(* the device, the result (ok for 0) and the error.                        *)

device_write(c, d, out, async) ==
    LET send_eof == d.final_ /\ ~d.eof_send_
        Outcomes == IF async THEN nonblocking_write(c, out, send_eof)
                             ELSE write(c, out, send_eof)
    IN  IF ~d.conn_ THEN {[c |-> c, d |-> d, ok |-> FALSE, e |-> FALSE]}
        ELSE {[c |-> w.c, ok |-> ~w.e, e |-> w.e,
               d |-> [d EXCEPT !.eof_send_ = send_eof, !.conn_ = ~w.e]] :
              w \in Outcomes}

device_flush(c, d, async) ==
    {[o EXCEPT !.d.buf = <<>>] : o \in device_write(c, d, d.buf, async)}

\* response::out(): the first call opens the device and sets the headers.
out_conn(c) == IF resp.requested THEN c ELSE set_response_headers(c, Kind, app.length)
out_resp(d) == IF d.requested THEN d ELSE [d EXCEPT !.requested = TRUE, !.conn_ = TRUE]

\* response::finalize()
finalize(async) ==
    device_flush(out_conn(conn), [out_resp(resp) EXCEPT !.final_ = TRUE], async)

\* Outcomes of connection::async_write(): the handler is posted, or it waits
\* for the socket with the tokens of arm.
async_write(c, out, eof) ==
    {LET done == w.e \/ w.c.pending_output_ = <<>>
     IN  [c    |-> IF done THEN w.c ELSE [w.c EXCEPT !.pending_output_ = <<>>],
          post |-> done, e |-> w.e,
          arm  |-> IF done THEN <<>> ELSE w.c.pending_output_] :
     w \in nonblocking_write(c, out, eof)}

\* Outcomes of connection::async_write_response(): those of async_write(),
\* with the device.
async_write_response(c, d) ==
    UNION {IF ~f.ok \/ f.c.pending_output_ = <<>>
           THEN {[c |-> f.c, d |-> f.d, post |-> TRUE, e |-> f.e, arm |-> <<>>]}
           ELSE {[c |-> w.c, d |-> f.d, post |-> w.post, e |-> w.e, arm |-> w.arm] :
                   w \in async_write(f.c, <<>>, FALSE)} :
           f \in device_flush(c, d, TRUE)}

-----------------------------------------------------------------------------
(* Pieces of handlers.  `c' and `l' are the connection and the loop as the *)
(* statements before have left them.                                       *)

Post(l, h, n, e) == [l EXCEPT !.posted = Append(@, [h |-> h, n |-> n, e |-> e])]

update_time_Never(l) == l

update_time(l) == [l EXCEPT !.idle = 0]

Written_NoWatch(l, w) ==
    IF w.post THEN Post(l, "write", 0, w.e)
              ELSE [update_time(l) EXCEPT !.writeable = w.arm]

\* on_async_write_start(), or the handler of the write is posted.
Written(l, w) ==
    IF w.post THEN Post(l, "write", 0, w.e)
              ELSE [update_time(l) EXCEPT !.writeable = w.arm, !.watched = TRUE]

\* The context is dropped, and with the last reference to the connection the
\* socket is closed.  A handler of async_on_peer_reset() is such a reference.
Gone(c, l) ==
    LET kept == l.readable = "eof" /\ c.open
    IN  /\ pc' = "gone"
        /\ conn' = [c EXCEPT !.open = kept]
        /\ loop' = [l EXCEPT !.watched = @ /\ kept]
        /\ resp' = NewResponse /\ app' = NoApp

\* reset_all(): the state of the next request.  pending_output_, error_state_
\* and what was read ahead stay.
reset_all(c) ==
    [c EXCEPT !.cur = @ + 1, !.got = 0, !.total_read_ = 0, !.left = 0,
              !.headers_done_ = FALSE, !.chunked_te_ = FALSE, !.keep_alive_ = FALSE,
              !.client_accepts_keep_alive_ = FALSE,
              !.output_content_length_ = -1, !.output_written_ = 0]

\* What was read ahead is parsed by a posted handler, otherwise the loop calls
\* some_headers_data_read() when there is input.
async_read_some_headers(c, l) ==
    update_time(IF c.input_body_ # <<>> \/ ~c.open
                THEN Post(l, "headers", 0, c.input_body_ = <<>>)
                ELSE [l EXCEPT !.readable = "headers"])

\* context::run(): async_prepare_request() aborts on a closed socket, otherwise
\* async_read_headers().
run(c, l) ==
    LET c1 == [c EXCEPT !.total_read_ = 0, !.in_watchdog_ = TRUE]
    IN  /\ pc' = "headers"
        /\ resp' = NewResponse /\ app' = NoApp
        /\ IF ~c.open
           THEN conn' = c /\ loop' = Post(l, "headers", 0, TRUE)
           ELSE /\ conn' = c1
                /\ loop' = async_read_some_headers(
                              c1, [l EXCEPT !.watched = @ \/ ~c.in_watchdog_])

Rest(s, n) == SubSeq(s, n + 1, Len(s))

\* How many of n units a read for `left' units of content takes.
Wanted(n, left) == IF n < left THEN n ELSE left

Consumed_All(s, n) == <<>>

\* What stays of input_body_ for the next request.
Consumed(s, n) == Rest(s, n)

\* Reads at most c.left units of content; `units' are in the socket.
async_read_some(c, l, units) ==
    LET ahead == c.input_body_ # <<>>
        eof   == ~c.open \/ (units = <<>> /\ client.gone)
        l1    == update_time(l)
    IN
    \/ \* from what was read ahead
       LET n == Wanted(Len(c.input_body_), c.left)
       IN  /\ ahead
           /\ conn' = [c EXCEPT !.input_body_ = Consumed(@, n)]
           /\ loop' = Post(l1, "content", n, FALSE)
           /\ in' = units
    \/ \* from the socket
       \E n \in 1 .. Wanted(Len(units), c.left) :
           /\ ~ahead /\ c.open
           /\ loop' = Post(l1, "content", n, FALSE)
           /\ in' = Rest(units, n) /\ conn' = c
    \/ \* nothing has arrived yet
       /\ ~ahead /\ ~eof /\ units = <<>>
       /\ loop' = [l1 EXCEPT !.readable = "content"]
       /\ in' = units /\ conn' = c
    \/ \* nothing will arrive
       /\ ~ahead /\ eof
       /\ loop' = Post(l1, "content", 0, TRUE)
       /\ in' = units /\ conn' = c

\* on_async_read_complete() and the dispatch of the request, to the thread
\* pool or to an asynchronous application.
Ready(c, l) ==
    /\ conn' = [c EXCEPT !.in_watchdog_ = FALSE]
    /\ loop' = [l EXCEPT !.watched = @ /\ ~c.in_watchdog_]
    /\ pc' \in {"queued", "async"}
    /\ \E n \in 0 .. MaxLen : \E length \in {-1, n} :
          app' = [left |-> n, length |-> length]
    /\ UNCHANGED resp

\* An error page instead of the application; the connection is not kept.
handle_http_error(c, l) ==
    \E w \in async_write([set_response_headers(c, Kind, -1) EXCEPT !.error_state_ = TRUE],
                         <<Data(c)>>, TRUE) :
        /\ pc' = "error"
        /\ conn' = w.c
        /\ loop' = Written(l, w)
        /\ UNCHANGED <<resp, app>>

\* "400 Bad Request", written to the socket as it is.
error_response(c, l) ==
    LET message == <<Token("bad", c.cur)>>
    IN  \E w \in IF c.open THEN write_some(c, message) ELSE {[n |-> 0, e |-> TRUE]} :
            /\ pc' = "badreq"
            /\ conn' = Send(c, message, w)
            /\ loop' = IF w.e \/ w.n = 1 THEN Post(l, "write", 0, w.e)
                                         ELSE [l EXCEPT !.writeable = message]
            /\ UNCHANGED <<resp, app>>

\* load_content(): on_headers_ready() finds an application and admits the size
\* of the content, or returns a status.
load_content(c, l, units) ==
    \/ handle_http_error(c, l) /\ in' = units
    \/ /\ Kind.body > 0
       /\ async_read_some([c EXCEPT !.left = Kind.body], l, units)
       /\ pc' = "content"
       /\ UNCHANGED <<resp, app>>
    \/ Kind.body = 0 /\ Ready(c, l) /\ in' = units

on_some_content_read(c, l, e, n, units) ==
    \/ e /\ Gone(c, l) /\ in' = units
    \/ ~e /\ handle_http_error(c, l) /\ in' = units
    \/ LET c1 == [c EXCEPT !.left = @ - n]
       IN  /\ ~e
           /\ \/ c1.left = 0 /\ Ready(c1, l) /\ in' = units
              \/ /\ c1.left > 0
                 /\ async_read_some(c1, l, units)
                 /\ UNCHANGED <<pc, resp, app>>

\* The parser takes the units of the headers from input_body_.
parse(c, l, units) ==
    LET need == Kind.head - c.got
        more == [c EXCEPT !.got = @ + Len(c.input_body_), !.input_body_ = <<>>]
        done == [c EXCEPT !.got = Kind.head, !.input_body_ = Rest(@, need)]
    IN
    \/ Kind.bad = "line" /\ Gone(c, l) /\ in' = units
    \/ /\ Kind.bad # "line" /\ Len(c.input_body_) < need
       /\ in' = units
       /\ IF c.total_read_ > MaxHeader
          THEN Gone(more, l)
          ELSE /\ conn' = more /\ loop' = async_read_some_headers(more, l)
               /\ UNCHANGED <<pc, resp, app>>
    \/ /\ Kind.bad = "method" /\ Len(c.input_body_) >= need
       /\ error_response(done, l) /\ in' = units
    \/ \* the address of a client that has gone is not known any more
       /\ Kind.bad = "no" /\ Len(c.input_body_) >= need
       /\ client.gone /\ c.cur = 1
       /\ Gone([done EXCEPT !.open = FALSE], l) /\ in' = units
    \/ /\ Kind.bad = "no" /\ Len(c.input_body_) >= need
       /\ load_content(done, update_time(l), units)

some_headers_data_read(c, l, e) ==
    \/ e /\ Gone(c, l) /\ UNCHANGED in
    \/ ~e /\ c.input_body_ = <<>> /\ in = <<>> /\ Gone(c, l) /\ UNCHANGED in
    \/ /\ ~e /\ c.input_body_ = <<>>
       /\ \E n \in 1 .. Len(in) :
             parse([c EXCEPT !.input_body_ = SubSeq(in, 1, n), !.total_read_ = @ + n],
                   l, Rest(in, n))
    \/ /\ ~e /\ c.input_body_ # <<>>
       /\ parse([c EXCEPT !.total_read_ = @ + Len(c.input_body_)], l, in)

\* A write has ended: handle_http_error_eof(), on_error_response_written(), or
\* the async_write_binder of a flush or of the complete response.
write_ended(c, l, e) ==
    \/ pc \in {"error", "badreq"} /\ Gone(c, l)
    \/ pc = "flushing" /\ e /\ Gone(c, l)
    \/ /\ pc = "flushing" /\ ~e
       /\ pc' = "async"
       /\ conn' = c /\ loop' = l
       /\ UNCHANGED <<resp, app>>
    \/ /\ pc = "completing" /\ ~c.keep_alive_      \* do_eof() closes the socket
       /\ Gone([c EXCEPT !.open = FALSE],
               IF l.readable = "eof" THEN Post([l EXCEPT !.readable = "no"], "eof", 0, TRUE)
                                     ELSE l)
    \/ pc = "completing" /\ c.keep_alive_ /\ e /\ Gone(c, l)
    \/ /\ pc = "completing" /\ c.keep_alive_ /\ ~e      \* try_restart()
       /\ run(reset_all(c), update_time(l))

-----------------------------------------------------------------------------
(* The client.                                                             *)

\* A unit of the current request, or the first of a new one: the client may
\* send a request before the one before it is answered.
ClientSends ==
    /\ ~client.gone /\ conn.open
    /\ \/ /\ client.todo # <<>>
          /\ in' = Append(in, Head(client.todo))
          /\ client' = [client EXCEPT !.todo = Tail(@)]
       \/ /\ client.todo = <<>> /\ Len(client.kinds) < Len(Kinds)
          /\ \E k \in Kinds[Len(client.kinds) + 1] :
                LET units == [i \in 1 .. k.head + k.body |->
                                [r |-> Len(client.kinds) + 1, p |-> i]]
                IN  /\ in' = Append(in, Head(units))
                    /\ client' = [client EXCEPT !.kinds = Append(@, k),
                                                !.todo = Tail(units)]
    /\ UNCHANGED <<conn, resp, app, pc, loop, quiet, peer>>

ClientGoes ==
    /\ ~client.gone /\ conn.open
    /\ client' = [client EXCEPT !.gone = TRUE]
    /\ UNCHANGED <<in, conn, resp, app, pc, loop, quiet, peer>>

-----------------------------------------------------------------------------
(* The event loop.                                                         *)

\* The time since the client last sent or took something, after a step that
\* has read if `in' has changed.
StillQuiet == quiet' = IF in' # in THEN 0 ELSE quiet

\* The socket has input, or its end, and the handler waits for it.
Readable ==
    LET l == [loop EXCEPT !.readable = "no"]
    IN
    /\ in # <<>> \/ client.gone
    /\ \/ /\ loop.readable = "headers"
          /\ some_headers_data_read(conn, l, FALSE)
       \/ /\ loop.readable = "content"
          /\ \/ \E n \in 1 .. Wanted(Len(in), conn.left) :
                    on_some_content_read(conn, l, FALSE, n, Rest(in, n))
             \/ in = <<>> /\ on_some_content_read(conn, l, TRUE, 0, in)
    /\ StillQuiet
    /\ UNCHANGED <<client, peer>>

\* The first handler in the queue is called.
Posted ==
    LET p == Head(loop.posted)
        l == [loop EXCEPT !.posted = Tail(@)]
    IN
    /\ loop.posted # <<>>
    /\ \/ p.h = "headers" /\ some_headers_data_read(conn, l, p.e)
       \/ p.h = "content" /\ on_some_content_read(conn, l, p.e, p.n, in)
       \/ p.h = "write" /\ write_ended(conn, l, p.e) /\ UNCHANGED in
       \/ p.h = "run" /\ run(conn, l) /\ UNCHANGED in
    /\ StillQuiet
    /\ UNCHANGED <<client, peer>>

\* async_write_handler: the client takes some of what waits for it, or has gone.
\* The 400 of error_response() is written without telling the watchdog.
Writeable ==
    LET l == [loop EXCEPT !.writeable = <<>>]
    IN
    /\ loop.writeable # <<>>
    /\ \/ \E n \in 1 .. Len(loop.writeable) :
             LET rest == Rest(loop.writeable, n)
                 c    == Send(conn, loop.writeable, [n |-> n, e |-> FALSE])
                 l1   == IF pc = "badreq" THEN l
                         ELSE [update_time(l) EXCEPT !.watched = @ /\ rest # <<>>]
             IN  /\ quiet' = 0
                 /\ IF rest = <<>> THEN write_ended(c, l1, FALSE)
                    ELSE /\ conn' = c /\ loop' = [l1 EXCEPT !.writeable = rest]
                         /\ UNCHANGED <<resp, app, pc>>
       \/ client.gone /\ write_ended(conn, l, TRUE) /\ UNCHANGED quiet
    /\ UNCHANGED <<client, in, peer>>

\* Time passes; what counts is whether more than Timeout has passed.
Tick ==
    /\ pc # "gone" \/ loop.readable = "eof"
    /\ loop.idle <= Timeout \/ quiet <= Timeout
    /\ loop' = [loop EXCEPT !.idle = IF @ > Timeout THEN @ ELSE @ + 1]
    /\ quiet' = IF quiet > Timeout THEN quiet ELSE quiet + 1
    /\ UNCHANGED <<client, in, conn, resp, app, pc, peer>>

\* http_watchdog::check() finds that it is time to die: async_die() cancels the
\* handlers that wait for the socket and closes it.
check ==
    LET l1 == [loop EXCEPT !.watched = FALSE, !.readable = "no", !.writeable = <<>>]
        l2 == IF loop.readable = "no" THEN l1 ELSE Post(l1, loop.readable, 0, TRUE)
        l3 == IF loop.writeable = <<>> THEN l2 ELSE Post(l2, "write", 0, TRUE)
    IN  /\ loop.watched /\ loop.idle > Timeout
        /\ loop' = l3
        /\ conn' = [conn EXCEPT !.open = FALSE]
        /\ UNCHANGED <<client, in, resp, app, pc, quiet, peer>>

-----------------------------------------------------------------------------
(* The application.                                                        *)

\* A worker of the thread pool takes the request.
WorkerTakes ==
    /\ pc = "queued"
    /\ pc' = "sync"
    /\ UNCHANGED <<client, in, conn, resp, app, loop, quiet, peer>>

\* The application writes a unit to response().out().  It stays in the buffer,
\* or the buffer is full and all is written.
AppWrites ==
    LET c == out_conn(conn)
        d == out_resp(resp)
    IN
    /\ pc \in {"sync", "async"} /\ app.left > 0
    /\ app' = [app EXCEPT !.left = @ - 1]
    /\ \/ conn' = c /\ resp' = [d EXCEPT !.buf = Append(@, Data(c))]
       \/ \E o \in device_write(c, d, Append(d.buf, Data(c)), pc = "async") :
              conn' = o.c /\ resp' = IF o.ok THEN [o.d EXCEPT !.buf = <<>>] ELSE o.d
    /\ UNCHANGED <<client, in, pc, loop, quiet, peer>>

\* context::complete_response(), in the worker.
complete_response ==
    /\ pc = "sync" /\ app.left = 0
    /\ \E o \in finalize(FALSE) :
          IF o.c.keep_alive_
          THEN /\ pc' = "restart"
               /\ conn' = reset_all(o.c)
               /\ loop' = Post(update_time(loop), "run", 0, FALSE)
               /\ resp' = NewResponse /\ app' = NoApp
          ELSE Gone(o.c, loop)
    /\ UNCHANGED <<client, in, quiet, peer>>

\* context::async_flush_output(), when there is something to flush.
async_flush_output ==
    /\ pc = "async"
    /\ resp.conn_ /\ (resp.buf # <<>> \/ conn.pending_output_ # <<>>)
    /\ \E w \in async_write_response(conn, resp) :
          /\ pc' = "flushing"
          /\ conn' = w.c /\ resp' = w.d
          /\ loop' = Written(loop, w)
    /\ UNCHANGED <<client, in, app, quiet, peer>>

\* context::async_complete_response()
async_complete_response ==
    /\ pc = "async" /\ app.left = 0
    /\ \E o \in finalize(TRUE) : \E w \in async_write_response(o.c, o.d) :
          /\ pc' = "completing"
          /\ conn' = w.c /\ resp' = w.d
          /\ loop' = Written(loop, w)
    /\ peer' = IF peer = "set" THEN "completed" ELSE peer
    /\ UNCHANGED <<client, in, app, quiet>>

App == WorkerTakes \/ AppWrites \/ complete_response \/ async_flush_output
       \/ async_complete_response

-----------------------------------------------------------------------------
(* The connection is accepted and the first context runs.                  *)

Init ==
    /\ client = [kinds |-> <<>>, todo |-> <<>>, gone |-> FALSE]
    /\ in = <<>>
    /\ conn = [NewConnection EXCEPT !.in_watchdog_ = TRUE]
    /\ resp = NewResponse /\ app = NoApp
    /\ pc = "headers"
    /\ loop = [NewLoop EXCEPT !.readable = "headers", !.watched = TRUE]
    /\ quiet = 0
    /\ peer = "no"

Next ==
    \/ ClientSends \/ ClientGoes
    \/ Readable \/ Posted \/ Writeable \/ Tick \/ check
    \/ App

\* The loop calls what is in its queue and the watchdog's timer, the workers and
\* applications go on, and time passes.  Nothing makes the client send or take
\* anything.
Fairness == WF_vars(Posted) /\ WF_vars(Tick) /\ WF_vars(check) /\ WF_vars(App)

Spec == Init /\ [][Next]_vars /\ Fairness

-----------------------------------------------------------------------------
(* An asynchronous application that also waits for the client to go.       *)

\* context::async_on_peer_reset(): async_read_eof() reads one byte.
async_on_peer_reset ==
    /\ pc = "async" /\ peer = "no" /\ conn.open
    /\ peer' = "set"
    /\ LET l == [loop EXCEPT !.watched = TRUE]
       IN  IF in # <<>> \/ client.gone
           THEN /\ loop' = Post(l, "eof", 0, FALSE)
                /\ in' = IF in = <<>> THEN in ELSE Tail(in)
           ELSE loop' = [l EXCEPT !.readable = "eof"] /\ UNCHANGED in
    /\ UNCHANGED <<client, conn, resp, app, pc, quiet>>

\* The handler is called, whatever was read and with whatever error.
handle_eof ==
    /\ peer' = IF peer = "completed" THEN "late" ELSE "called"
    /\ \/ /\ loop.readable = "eof" /\ (in # <<>> \/ client.gone)
          /\ in' = IF in = <<>> THEN in ELSE Tail(in)
          /\ loop' = [loop EXCEPT !.readable = "no"]
       \/ /\ loop.posted # <<>> /\ Head(loop.posted).h = "eof"
          /\ loop' = [loop EXCEPT !.posted = Tail(@)]
          /\ UNCHANGED in
    /\ StillQuiet
    /\ UNCHANGED <<client, conn, resp, app, pc>>

PeerSpec == Init /\ [][Next \/ async_on_peer_reset \/ handle_eof]_vars

-----------------------------------------------------------------------------
(* Properties.                                                             *)

TypeOK ==
    /\ client.gone \in BOOLEAN
    /\ pc \in {"headers", "content", "badreq", "error", "queued", "sync", "async",
               "flushing", "completing", "restart", "gone"}
    /\ loop.readable \in {"no", "headers", "content", "eof"}
    /\ loop.idle \in 0 .. Timeout + 1 /\ quiet \in 0 .. Timeout + 1
    /\ loop.watched \in BOOLEAN
    /\ peer \in {"no", "set", "called", "completed", "late"}

\* What the client sees: the headers of the answers split the tokens into
\* segments, one for each answer.
Heads == {i \in DOMAIN conn.sent : conn.sent[i].k \in {"head", "bad"}}
Segment(i) == LET ends == {j \in Heads : j > i}
                  last == IF ends = {} THEN Len(conn.sent)
                          ELSE (CHOOSE j \in ends : \A m \in ends : j <= m) - 1
              IN  SubSeq(conn.sent, i + 1, last)
IsLast(i) == \A j \in Heads : j <= i

\* The content of the answer whose headers are at i is as announced, as far as
\* it goes; Whole(i): nothing is missing.
AsAnnounced(i) ==
    LET h == conn.sent[i]
        s == Segment(i)
    IN  /\ \A j \in DOMAIN s : s[j].r = h.r
        /\ h.k = "bad" => s = <<>>
        /\ h.k = "head" =>
              /\ \A j \in DOMAIN s : s[j].k = "data" \/ (h.chunked /\ j = Len(s))
              /\ h.length # -1 => Len(s) <= h.length
Whole(i) ==
    LET h == conn.sent[i]
        s == Segment(i)
    IN  /\ h.k = "head" /\ ~h.close
        /\ IF h.chunked THEN s # <<>> /\ s[Len(s)].k = "last" ELSE Len(s) = h.length

\* Whatever the interleaving of partial writes, flushes, keep-alive and
\* pipelined requests, the client can tell the answers apart: the n-th headers
\* belong to the n-th request, an answer that others follow is whole, and while
\* the server waits for request n + 1 the answer n is whole and nothing of it is
\* held back.
AnswersInOrder ==
    /\ TypeOK
    /\ conn.sent # <<>> => 1 \in Heads
    /\ \A i \in Heads :
          /\ conn.sent[i].r = Len(SelectSeq(SubSeq(conn.sent, 1, i),
                                            LAMBDA x : x.k \in {"head", "bad"}))
          /\ AsAnnounced(i)
          /\ ~IsLast(i) => Whole(i)
    /\ pc \in {"restart", "headers"} /\ conn.cur > 1 /\ conn.open /\ ~client.gone =>
          /\ conn.pending_output_ = <<>>
          /\ \E i \in Heads : conn.sent[i].r = conn.cur - 1 /\ IsLast(i) /\ Whole(i)

\* A request is read to its end and no further: when it is handed to the
\* application the next unit, read ahead or not, is the first of the request
\* that follows.
RequestsAreSeparated ==
    pc \in {"queued", "sync", "async", "flushing", "completing", "restart"} =>
        LET ahead == conn.input_body_ \o in
            next  == IF pc = "restart" THEN conn.cur ELSE conn.cur + 1
        IN  ahead # <<>> => Head(ahead) = [r |-> next, p |-> 1]

\* The watchdog looks after the connection whenever it waits for the client,
\* and only then, so that a slow application is not cut off; and its time to
\* die is not before Timeout has passed since the client last did something.
\* The answer 400 to a malformed request is exempt from the last part: it is sent
\* without update_time(), and its time runs from the last read.
WatchdogMindsTheClient ==
    /\ loop.readable # "no" \/ loop.writeable # <<>> => loop.watched
    /\ pc \in {"queued", "sync", "async", "restart"} => ~loop.watched
    /\ loop.readable # "no" \/ (loop.writeable # <<>> /\ pc # "badreq") =>
            loop.idle <= quiet

\* Every connection ends, even if the client stops in the middle of a request or
\* does not take the answer.
ConnectionEnds == <>(pc = "gone" /\ ~conn.open)

\* The handler of async_on_peer_reset() is not called any more once
\* async_complete_response() was called, at least not for a client that is still
\* there.
NoPeerResetAfterComplete == peer = "late" => client.gone

=============================================================================
