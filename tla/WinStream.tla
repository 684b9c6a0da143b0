----------------------------- MODULE WinStream -----------------------------
(***************************************************************************)
(* The URL streams of nswinviewr (npnetstream.cpp, netscape.cpp): the same *)
(* HTTP streams as NetStream, driven by Windows messages.  WSAAsyncSelect  *)
(* posts a message to the window when a socket gets ready, once, and posts *)
(* the next of its kind only after the call that re-enables it (recv for   *)
(* FD_READ, a send that would block for FD_WRITE, nothing for FD_CLOSE and *)
(* FD_CONNECT).  A message names the descriptor alone, and the messages a  *)
(* socket has in the queue survive closesocket.                            *)
(*                                                                         *)
(* Everything runs on the thread of the window; plugin_NetworkNotify is    *)
(* modelled in steps, one from each call into the plugin to the next.  A   *)
(* proto_stream and its socket_stream share one identity.  A video is      *)
(* read through a proto_stream_wrapper, itself a proto_stream with a       *)
(* socket that is never connected.                                         *)
(***************************************************************************)
EXTENDS Integers, Sequences, FiniteSets

CONSTANTS Protos,     \* addresses a proto_stream may live at
          Streams,    \* addresses an NPNetStream may live at
          Fds,        \* socket handles
          Null,       \* the null pointer, and "no such entry"
          Responses,  \* what a server may answer
          ReqLen,     \* units in a request (m_header.len)
          ChunkLen,   \* units in m_chunk
          Look,       \* units wanted past the header of a long response
          MaxReady,   \* most units the plugin accepts in one write
          MaxStale    \* bound: messages of closed sockets when a socket is opened

ResponseSpace ==
  [hdr : Nat \ {0}, body : Nat, long : BOOLEAN, redirect : BOOLEAN, video : BOOLEAN]

ASSUME NullAssumption == Null \notin Protos \cup Streams \cup Fds
ASSUME SizeAssumption == /\ ReqLen \in Nat \ {0}
                         /\ ChunkLen \in Nat \ {0}
                         /\ Look \in Nat
                         /\ MaxReady \in Nat \ {0}
                         /\ MaxStale \in Nat
ASSUME ResponseAssumption ==
  /\ Responses \subseteq ResponseSpace /\ Null \notin Responses
  /\ \A r \in Responses : r.video => r.long

VARIABLES
  \* socket_stream
  m_files, last_error,
  stream_list,  \* __stream_list: the socket registered for a handle
  \* proto_stream
  m_ref, m_flags, m_waitp,
  m_header,     \* units of the request sent (m_header.off)
  m_chunk,      \* off and len
  inner,        \* the proto_stream a proto_stream_wrapper reads from
  \* NPNetStream
  m_protop, created, m_offset,
  notReady,     \* the streams the plugin last answered writeready with 0 for
  \* the handler running on the thread of the window
  pc, frame,
  \* Windows: the message queue, and the events each socket may still post
  queue, armed,
  \* the network: state of each connection, units arrived, units read, the answer
  conn, rx, rd, resp

sockVars == <<m_files, last_error, stream_list>>
protoVars == <<m_ref, m_flags, m_waitp, m_header, m_chunk, inner>>
streamVars == <<m_protop, created, m_offset, notReady>>
handlerVars == <<pc, frame>>
winVars == <<queue, armed>>
netVars == <<conn, rx, rd, resp>>
vars == <<sockVars, protoVars, streamVars, handlerVars, winVars, netVars>>

Live(p) == m_ref[p] > 0
OpenFds == {m_files[p] : p \in {q \in Protos : Live(q)}}
MinOf(a, b) == IF a <= b THEN a ELSE b

\* What a call on s's proto_stream reaches: a wrapper forwards to the proto_stream it wraps.
Source(p) == IF inner[p] = Null THEN p ELSE inner[p]

NoChunk == [off |-> 0, len |-> ChunkLen]
NoFrame == [s |-> Null, pos |-> 0, len |-> 0]
Events == {"READ", "WRITE", "CLOSE"}

Init ==
  /\ m_files = [p \in Protos |-> Null]
  /\ last_error = [p \in Protos |-> "none"]
  /\ stream_list = [f \in Fds |-> Null]
  /\ m_ref = [p \in Protos |-> 0]
  /\ m_flags = [p \in Protos |-> {}]
  /\ m_waitp = [p \in Protos |-> Null]
  /\ m_header = [p \in Protos |-> 0]
  /\ m_chunk = [p \in Protos |-> NoChunk]
  /\ inner = [p \in Protos |-> Null]
  /\ m_protop = [s \in Streams |-> Null]
  /\ created = [s \in Streams |-> FALSE]
  /\ m_offset = [s \in Streams |-> 0]
  /\ notReady = {}
  /\ pc = "idle"
  /\ frame = NoFrame
  /\ queue = <<>>
  /\ armed = [p \in Protos |-> {}]
  /\ conn = [p \in Protos |-> "none"]
  /\ rx = [p \in Protos |-> 0]
  /\ rd = [p \in Protos |-> 0]
  /\ resp = [p \in Protos |-> Null]

-----------------------------------------------------------------------------
(* The message queue: external.                                            *)

Message(p, ev) == [fd |-> m_files[p], ev |-> ev, stale |-> FALSE]

\* The messages a closed socket leaves in the queue.  The mark is the model's: the program
\* sees only the handle, which the next socket() may return again.
Orphaned(q, gone) ==
  [i \in DOMAIN q |->
     IF \E p \in gone : m_files[p] = q[i].fd THEN [q[i] EXCEPT !.stale = TRUE] ELSE q[i]]

StaleCount == Len(SelectSeq(queue, LAMBDA m : m.stale))

-----------------------------------------------------------------------------
(* Construction and destruction of proto_streams with their sockets.       *)

\* References left when NPN_GetURLNotify or NPN_PostURLNotify returns: the constructor's, the
\* NPNetStream's, less the one given up by the closing rel().
GetURLRef == 1 + 1 - 1

\* The proto_streams that rel() on p deletes: a wrapper takes what it wraps along.
Deleted(p) ==
  IF p = Null THEN {} ELSE IF m_ref[p] > 1 THEN {}
  ELSE {p} \cup {q \in {inner[p]} \ {Null} : m_ref[q] = 1}

\* __stream_list once new is registered on f and the sockets of gone are closed.
Registered(new, f, gone) ==
  [g \in Fds |-> IF new # Null /\ g = f THEN new
                 ELSE IF \E p \in gone : m_files[p] = g THEN Null ELSE stream_list[g]]

\* Values after new is constructed with handle f, and started towards its server if connects;
\* the objects of gone are deleted.  Nothing of a deleted object is kept.
Turnover(new, f, connects, gone) ==
  LET At(fn, fresh, clear) ==
        [p \in Protos |-> IF p = new THEN fresh ELSE IF p \in gone THEN clear ELSE fn[p]]
  IN /\ m_files' = At(m_files, f, Null)
     /\ stream_list' = Registered(IF connects THEN new ELSE Null, f, gone)
     /\ last_error' = At(last_error, "none", "none")
     /\ m_flags' = At(m_flags, {}, {})
     /\ m_header' = At(m_header, 0, 0)
     /\ m_chunk' = At(m_chunk, NoChunk, NoChunk)
     /\ queue' = Orphaned(queue, gone)
     /\ armed' = At(armed, IF connects THEN Events ELSE {}, {})
     /\ conn' = At(conn, IF connects THEN "connecting" ELSE "none", "none")
     /\ rx' = At(rx, 0, 0)
     /\ rd' = At(rd, 0, 0)
     /\ resp' = At(resp, Null, Null)

-----------------------------------------------------------------------------
(* Requests.  They come from the window's thread or from inside a call     *)
(* into the plugin.  A request that fails (not http, connect refused at    *)
(* once, no handle) deletes what it had built and changes nothing.         *)

PluginTurn == {"idle", "newstream", "writeready", "write", "destroystream", "urlnotify"}

GetURL(s, p, f) ==
  /\ pc \in PluginTurn
  /\ StaleCount <= MaxStale
  /\ m_protop[s] = Null /\ ~Live(p) /\ f \notin OpenFds
  /\ Turnover(p, f, TRUE, {})
  /\ m_ref' = [m_ref EXCEPT ![p] = GetURLRef]
  /\ m_waitp' = [m_waitp EXCEPT ![p] = s]
  /\ m_protop' = [m_protop EXCEPT ![s] = p]
  /\ created' = [created EXCEPT ![s] = FALSE]
  /\ m_offset' = [m_offset EXCEPT ![s] = 0]
  /\ UNCHANGED <<inner, notReady, handlerVars>>

-----------------------------------------------------------------------------
(* proto_stream::on_read.                                                  *)

Broken == {"CREATED", "ERROR"}

\* WSAGetLastError after a recv that found no data; "fatal" includes WSAENOTCONN.
Errno(p) == CASE conn[p] = "eof" -> "none"
              [] conn[p] = "open" -> "WSAEWOULDBLOCK"
              [] OTHER -> "fatal"

\* recv_chunk: units read into m_chunk, what it returns (-1, 0 or a count), last_error.
RecvChunk(p) ==
  LET room == ChunkLen - m_chunk[p].off
      n == MinOf(room, rx[p] - rd[p])
  IN IF room = 0 THEN [n |-> 0, ret |-> 0, errno |-> last_error[p]]
     ELSE IF n = room THEN [n |-> n, ret |-> n, errno |-> "none"]
     ELSE [n |-> n, ret |-> IF conn[p] = "eof" THEN 0 ELSE -1, errno |-> Errno(p)]

\* recv on p enables FD_READ again, and Windows posts it at once when data is left; q is the
\* queue before the call.
Rearm(p, q, unread) ==
  IF unread
  THEN queue' = Append(q, Message(p, "READ")) /\ armed' = [armed EXCEPT ![p] = @ \ {"READ"}]
  ELSE queue' = q /\ armed' = [armed EXCEPT ![p] = @ \cup {"READ"}]

\* The first off units of the response show the end of the header ("\r\n\r\n"), and enough
\* of the body when the Content-Length is 120000 or more.
HeaderDone(p, off) ==
  /\ resp[p] # Null
  /\ off >= resp[p].hdr
  /\ resp[p].long => off >= resp[p].hdr + Look

\* Mutant of BodyStart: the header is handed to the plugin as well.
BodyStartAtZero(p) == 0

BodyStart(p) == resp[p].hdr

\* The connection ended, or m_chunk was full, before the header was complete.
EndOfResponse(ret) == ret = 0

\* The flags a complete header sets: check_video looks at the body of a long response only.
HeaderFlags(p) == {"CREATED"} \cup IF resp[p].video THEN {"VIDEO"} ELSE {}

-----------------------------------------------------------------------------
(* plugin_NetworkNotify: a message is taken from the queue and handed to   *)
(* the socket its handle names now.                                        *)

EndEvent == pc' = "idle" /\ frame' = NoFrame

\* NOTIFY(m_waitp): the waiter's OnRead runs, if there is a waiter.
Wake(p) ==
  IF m_waitp[p] = Null THEN EndEvent
  ELSE pc' = "onread" /\ frame' = [NoFrame EXCEPT !.s = m_waitp[p]]

Receiver == stream_list[Head(queue).fd]
Arrives(events) == pc = "idle" /\ queue # <<>> /\ Head(queue).ev \in events

\* recv_chunk, and what on_read makes of it.
ReadResponse(p) ==
  LET got == RecvChunk(p)
      off == m_chunk[p].off + got.n
  IN /\ rd' = [rd EXCEPT ![p] = @ + got.n]
     /\ last_error' = [last_error EXCEPT ![p] = got.errno]
     /\ IF m_chunk[p].off = ChunkLen THEN queue' = Tail(queue) /\ UNCHANGED armed
        ELSE Rearm(p, Tail(queue), rx[p] > rd[p] + got.n)
     /\ IF got.ret = -1 /\ got.errno # "WSAEWOULDBLOCK"
        THEN /\ m_flags' = [m_flags EXCEPT ![p] = @ \cup Broken]
             /\ m_chunk' = [m_chunk EXCEPT ![p].off = off]
             /\ Wake(p)
        ELSE IF HeaderDone(p, off)
        THEN /\ m_flags' = [m_flags EXCEPT ![p] = @ \cup HeaderFlags(p)]
             /\ m_chunk' = [m_chunk EXCEPT ![p] = [off |-> BodyStart(p), len |-> off]]
             /\ Wake(p)
        ELSE /\ m_chunk' = [m_chunk EXCEPT ![p].off = off]
             /\ IF EndOfResponse(got.ret)
                THEN m_flags' = [m_flags EXCEPT ![p] = @ \cup Broken] /\ Wake(p)
                ELSE m_flags' = m_flags /\ EndEvent

\* FD_READ or FD_CLOSE: socket_stream::on_read, then proto_stream::on_read.
OnRead ==
  /\ Arrives({"READ", "CLOSE"}) /\ Receiver # Null
  /\ IF "CREATED" \in m_flags[Receiver]
     THEN /\ Wake(Receiver) /\ queue' = Tail(queue)
          /\ UNCHANGED <<m_flags, m_chunk, last_error, rd, armed>>
     ELSE ReadResponse(Receiver)
  /\ UNCHANGED <<m_files, stream_list, m_ref, m_waitp, m_header, inner, streamVars,
                 conn, rx, resp>>

\* Units of an unfinished request one send_chunk may get rid of.
SendCounts(p) == 1..(ReqLen - m_header[p])

\* Mutant of SendFails: a request is never sent to a server that has begun to close.
SendFailsEof(p) == conn[p] # "open"

SendFails(p) == conn[p] \notin {"open", "eof"}

\* FD_WRITE: send_chunk sends until the request is out or the send would block, which enables
\* the next FD_WRITE.
OnWrite ==
  /\ Arrives({"WRITE"}) /\ Receiver # Null
  /\ queue' = Tail(queue)
  /\ LET p == Receiver
     IN IF m_header[p] = ReqLen
        THEN EndEvent /\ UNCHANGED <<m_header, last_error, m_flags, armed>>
        ELSE IF SendFails(p)
        THEN /\ last_error' = [last_error EXCEPT ![p] = "fatal"]
             /\ m_flags' = [m_flags EXCEPT ![p] = @ \cup Broken]
             /\ Wake(p)
             /\ UNCHANGED <<m_header, armed>>
        ELSE \E n \in SendCounts(p) :
               LET blocked == m_header[p] + n < ReqLen
               IN /\ m_header' = [m_header EXCEPT ![p] = @ + n]
                  /\ last_error' =
                       [last_error EXCEPT ![p] = IF blocked THEN "WSAEWOULDBLOCK" ELSE "none"]
                  /\ armed' = IF blocked THEN [armed EXCEPT ![p] = @ \cup {"WRITE"}] ELSE armed
                  /\ EndEvent /\ UNCHANGED m_flags
  /\ UNCHANGED <<m_files, stream_list, m_ref, m_waitp, m_chunk, inner, streamVars, netVars>>

\* No socket is registered under the handle: the message is dropped.
OnUnknown ==
  /\ Arrives(Events) /\ Receiver = Null
  /\ queue' = Tail(queue)
  /\ UNCHANGED <<sockVars, protoVars, streamVars, handlerVars, armed, netVars>>

-----------------------------------------------------------------------------
(* NPNetStream::OnRead and recv_wrapper.                                   *)

\* Mutant of Block: the stream is kept whatever the last send or recv did.
BlockAlways(errno) == TRUE

\* block(): the last send or recv only found nothing to do, so the stream is kept.
Block(errno) == errno = "WSAEWOULDBLOCK"

\* Mutant of Teardown: destroystream is not called.
TeardownSilently(s) == "urlnotify"

\* Where the destructor of the NPNetStream s starts.
Teardown(s) == IF created[s] THEN "destroystream" ELSE "urlnotify"

\* OnRead returns: 0 keeps the stream, -1 makes recv_wrapper delete it.
Return(keep) ==
  IF keep THEN EndEvent ELSE pc' = Teardown(frame.s) /\ UNCHANGED frame

Connected(p) == m_flags[p] \cap Broken = {"CREATED"}

\* The response of s is complete and not announced: a redirect is followed, or newstream called.
Fresh(s) == Connected(Source(m_protop[s])) /\ ~created[s]

Redirect(q, f) ==
  /\ pc = "onread" /\ Fresh(frame.s)
  /\ ~Live(q) /\ f \notin OpenFds /\ StaleCount <= MaxStale
  /\ LET s == frame.s
         p == m_protop[s]
     IN /\ resp[p].redirect
        /\ Turnover(q, f, TRUE, Deleted(p))
        /\ m_ref' = [m_ref EXCEPT ![p] = @ - 1, ![q] = 1]
        /\ m_waitp' = [m_waitp EXCEPT ![p] = Null, ![q] = s]
        /\ m_protop' = [m_protop EXCEPT ![s] = q]
  /\ EndEvent
  /\ UNCHANGED <<inner, created, m_offset, notReady>>

\* RedirectURLNotify returns NULL: nothing changes, and OnRead returns 0.
RedirectFails ==
  /\ pc = "onread" /\ Fresh(frame.s)
  /\ resp[m_protop[frame.s]].redirect
  /\ EndEvent
  /\ UNCHANGED <<sockVars, protoVars, streamVars, winVars, netVars>>

\* Mutant of WrappedRef: rel() is not called on the proto_stream that was wrapped.
LeakedWrappedRef(p) == m_ref[p] + 1

\* References on a proto_stream once it is wrapped: the wrapper's, less the NPNetStream's.
WrappedRef(p) == m_ref[p] + 1 - 1

\* A video is wrapped in a proto_stream_wrapper w, whose own socket f stays unused; then
\* newstream is called.
Wrap(w, f) ==
  /\ pc = "onread" /\ Fresh(frame.s)
  /\ ~Live(w) /\ f \notin OpenFds
  /\ LET s == frame.s
         p == m_protop[s]
     IN /\ ~resp[p].redirect /\ "VIDEO" \in m_flags[p]
        /\ Turnover(w, f, FALSE, {})
        /\ m_ref' = [m_ref EXCEPT ![p] = WrappedRef(p), ![w] = 1]
        /\ inner' = [inner EXCEPT ![w] = p]
        /\ m_protop' = [m_protop EXCEPT ![s] = w]
  /\ pc' = "newstream"
  /\ UNCHANGED <<m_waitp, created, m_offset, notReady, frame>>

\* What OnRead does first otherwise.
Proceed ==
  /\ pc = "onread"
  /\ LET s == frame.s
         p == Source(m_protop[s])
     IN /\ Fresh(s) => ~resp[p].redirect /\ "VIDEO" \notin m_flags[p]
        /\ IF Fresh(s) THEN pc' = "newstream" /\ UNCHANGED frame
           ELSE IF created[s] THEN pc' = "writeready" /\ UNCHANGED frame
           ELSE Return(Block(last_error[p]))
  /\ UNCHANGED <<sockVars, protoVars, streamVars, winVars, netVars>>

NewStream(ok) ==
  /\ pc = "newstream"
  /\ m_offset' = [m_offset EXCEPT ![frame.s] = 0]
  /\ created' = [created EXCEPT ![frame.s] = ok]
  /\ IF ok THEN pc' = "writeready" /\ UNCHANGED frame ELSE Return(FALSE)
  /\ UNCHANGED <<sockVars, protoVars, m_protop, notReady, winVars, netVars>>

\* proto_stream::recv_data with room for c units: from m_chunk, then from the socket.
RecvData(p, c) ==
  LET chunk == m_chunk[p]
      fromChunk == MinOf(c, chunk.len - chunk.off)
      fromSocket == MinOf(c, rx[p] - rd[p])
      Deliver(pos, n) == pc' = "write" /\ frame' = [frame EXCEPT !.pos = pos, !.len = n]
  IN IF "ERROR" \in m_flags[p]
     THEN Return(Block(last_error[p])) /\ UNCHANGED <<m_chunk, rd, last_error, winVars>>
     ELSE IF fromChunk > 0
     THEN /\ Deliver(chunk.off, fromChunk)
          /\ m_chunk' = [m_chunk EXCEPT ![p].off = @ + fromChunk]
          /\ UNCHANGED <<rd, last_error, winVars>>
     ELSE /\ rd' = [rd EXCEPT ![p] = @ + fromSocket]
          /\ Rearm(p, queue, rx[p] > rd[p] + fromSocket)
          /\ IF fromSocket > 0
             THEN Deliver(rd[p], fromSocket) /\ last_error' = [last_error EXCEPT ![p] = "none"]
             ELSE /\ Return(Block(Errno(p)))
                  /\ last_error' = [last_error EXCEPT ![p] = Errno(p)]
          /\ UNCHANGED m_chunk

\* writeready returns c; with 0 the stream waits for the next event.
WriteReady(c) ==
  /\ pc = "writeready"
  /\ IF c = 0 THEN EndEvent /\ UNCHANGED <<m_chunk, rd, last_error, winVars>>
     ELSE RecvData(Source(m_protop[frame.s]), c)
  /\ notReady' = IF c = 0 THEN notReady \cup {frame.s} ELSE notReady \ {frame.s}
  /\ UNCHANGED <<m_files, stream_list, m_ref, m_flags, m_waitp, m_header, inner,
                 m_protop, created, m_offset, conn, rx, resp>>

\* write consumes all it is given, or the stream is torn down.
Write(ok) ==
  /\ pc = "write"
  /\ IF ok
     THEN /\ m_offset' = [m_offset EXCEPT ![frame.s] = @ + frame.len]
          /\ pc' = "writeready"
          /\ frame' = [frame EXCEPT !.pos = 0, !.len = 0]
     ELSE Return(FALSE) /\ UNCHANGED m_offset
  /\ UNCHANGED <<sockVars, protoVars, m_protop, created, notReady, winVars, netVars>>

DestroyStream ==
  /\ pc = "destroystream"
  /\ pc' = "urlnotify"
  /\ UNCHANGED <<sockVars, protoVars, streamVars, frame, winVars, netVars>>

\* urlnotify returns; the proto_stream is released and the NPNetStream is gone.
URLNotify ==
  /\ pc = "urlnotify"
  /\ LET s == frame.s
         p == m_protop[s]
         gone == Deleted(p)
     IN /\ Turnover(Null, Null, FALSE, gone)
        /\ m_ref' = [q \in Protos |-> IF q = p \/ (p \in gone /\ q = inner[p])
                                      THEN m_ref[q] - 1 ELSE m_ref[q]]
        /\ m_waitp' = [q \in Protos |-> IF q \in gone THEN Null ELSE m_waitp[q]]
        /\ inner' = [q \in Protos |-> IF q \in gone THEN Null ELSE inner[q]]
        /\ m_protop' = [m_protop EXCEPT ![s] = Null]
        /\ created' = [created EXCEPT ![s] = FALSE]
        /\ m_offset' = [m_offset EXCEPT ![s] = 0]
        /\ notReady' = notReady \ {s}
  /\ EndEvent

-----------------------------------------------------------------------------
(* The network, the servers and Winsock: external.  FD_CONNECT is left     *)
(* out: plugin_NetworkNotify ignores it, even when it reports a failure.   *)

NetworkStep(p) ==
  /\ UNCHANGED <<sockVars, protoVars, streamVars, handlerVars, rd>>
  /\ Live(p)

Post(p, ev) == /\ queue' = Append(queue, Message(p, ev))
               /\ armed' = [armed EXCEPT ![p] = @ \ {ev}]

Accept(p) == /\ conn[p] = "connecting"
             /\ conn' = [conn EXCEPT ![p] = "open"]
             /\ Post(p, "WRITE")
             /\ NetworkStep(p) /\ UNCHANGED <<rx, resp>>

Refuse(p) == /\ conn[p] = "connecting"
             /\ conn' = [conn EXCEPT ![p] = "refused"]
             /\ NetworkStep(p) /\ UNCHANGED <<winVars, rx, resp>>

\* A send would succeed again.
PostWrite(p) == /\ conn[p] \in {"open", "eof", "rst"} /\ "WRITE" \in armed[p]
                /\ Post(p, "WRITE")
                /\ NetworkStep(p) /\ UNCHANGED <<conn, rx, resp>>

\* The server settles what it will answer.
Answer(p, r) == /\ conn[p] = "open" /\ resp[p] = Null
                /\ resp' = [resp EXCEPT ![p] = r]
                /\ NetworkStep(p) /\ UNCHANGED <<winVars, conn, rx>>

\* One more unit of the answer arrives.
Arrive(p) == /\ conn[p] = "open" /\ resp[p] # Null
             /\ rx[p] < resp[p].hdr + resp[p].body
             /\ rx' = [rx EXCEPT ![p] = @ + 1]
             /\ IF "READ" \in armed[p] THEN Post(p, "READ") ELSE UNCHANGED winVars
             /\ NetworkStep(p) /\ UNCHANGED <<conn, resp>>

\* The server closes, whether or not all of the answer was sent, or the connection is reset.
Close(p, how) == /\ conn[p] \in {"open"} \cup IF how = "rst" THEN {"eof"} ELSE {}
                 /\ conn' = [conn EXCEPT ![p] = how]
                 /\ NetworkStep(p) /\ UNCHANGED <<winVars, rx, resp>>

\* FD_CLOSE comes once, before or after the last data has been read.
PostClose(p) == /\ conn[p] \in {"eof", "rst"} /\ "CLOSE" \in armed[p]
                /\ Post(p, "CLOSE")
                /\ NetworkStep(p) /\ UNCHANGED <<conn, rx, resp>>

-----------------------------------------------------------------------------
Requests == \E s \in Streams, p \in Protos, f \in Fds : GetURL(s, p, f)
Dispatch == OnRead \/ OnWrite \/ OnUnknown
Handler == \/ \E q \in Protos, f \in Fds : Redirect(q, f)
           \/ RedirectFails
           \/ \E w \in Protos, f \in Fds : Wrap(w, f)
           \/ Proceed
           \/ \E ok \in BOOLEAN : NewStream(ok)
           \/ \E c \in 0..MaxReady : WriteReady(c)
           \/ \E ok \in BOOLEAN : Write(ok)
           \/ DestroyStream
           \/ URLNotify
Network == \E p \in Protos : \/ Accept(p)
                             \/ Refuse(p)
                             \/ PostWrite(p)
                             \/ \E r \in Responses : Answer(p, r)
                             \/ Arrive(p)
                             \/ \E how \in {"eof", "rst"} : Close(p, how)
                             \/ PostClose(p)

Next == Requests \/ Dispatch \/ Handler \/ Network

Spec == Init /\ [][Next]_vars

\* The window's thread takes every message from its queue and the handlers return; the plugin
\* does not answer writeready with 0 for ever.  A connect has an outcome, Winsock posts what it
\* owes, a server that has the whole request closes the connection in the end, and no chain of
\* servers redirects for ever.
FairSpec ==
  /\ Spec
  /\ WF_vars(Dispatch) /\ WF_vars(Handler)
  /\ \A p \in Protos :
       /\ WF_vars(Accept(p) \/ Refuse(p))
       /\ WF_vars(PostWrite(p)) /\ WF_vars(PostClose(p))
       /\ SF_vars(\E r \in Responses : ~r.redirect /\ Answer(p, r))
       /\ WF_vars(m_header[p] = ReqLen /\ Close(p, "eof"))
  /\ \A s \in Streams : SF_vars(frame.s = s /\ \E c \in 1..MaxReady : WriteReady(c))

-----------------------------------------------------------------------------
(* Properties.                                                             *)

\* Type invariant.
TypeOK ==
  /\ m_files \in [Protos -> Fds \cup {Null}]
  /\ last_error \in [Protos -> {"none", "WSAEWOULDBLOCK", "fatal"}]
  /\ stream_list \in [Fds -> Protos \cup {Null}]
  /\ m_ref \in [Protos -> Nat]
  /\ m_flags \in [Protos -> SUBSET (Broken \cup {"VIDEO"})]
  /\ m_waitp \in [Protos -> Streams \cup {Null}]
  /\ m_header \in [Protos -> 0..ReqLen]
  /\ m_chunk \in [Protos -> [off : Nat, len : Nat]]
  /\ inner \in [Protos -> Protos \cup {Null}]
  /\ m_protop \in [Streams -> Protos \cup {Null}]
  /\ created \in [Streams -> BOOLEAN]
  /\ m_offset \in [Streams -> Nat]
  /\ notReady \subseteq Streams
  /\ pc \in PluginTurn \cup {"onread"}
  /\ frame \in [s : Streams \cup {Null}, pos : Nat, len : Nat]
  /\ queue \in Seq([fd : Fds, ev : Events, stale : BOOLEAN])
  /\ armed \in [Protos -> SUBSET Events]
  /\ conn \in [Protos -> {"none", "connecting", "refused", "open", "eof", "rst"}]
  /\ rx \in [Protos -> Nat]
  /\ rd \in [Protos -> Nat]
  /\ resp \in [Protos -> Responses \cup {Null}]

\* No dangling pointer and no leak, wrappers included: every live proto_stream has exactly one
\* reference, from the NPNetStream that uses it or from the wrapper around it; the waiter it
\* wakes is the live NPNetStream that reads from it; the running handler's stream is alive.
Ownership ==
  /\ \A p \in Protos : Live(p) =>
       /\ m_ref[p] = 1
       /\ Cardinality({s \in Streams : m_protop[s] = p})
            + Cardinality({w \in Protos : Live(w) /\ inner[w] = p}) = 1
       /\ inner[p] = Null =>
            m_waitp[p] \in Streams /\ Source(m_protop[m_waitp[p]]) = p
  /\ \A s \in Streams : m_protop[s] # Null =>
       /\ Live(m_protop[s]) /\ Live(Source(m_protop[s]))
       /\ m_waitp[Source(m_protop[s])] = s
  /\ pc \notin {"idle"} => m_protop[frame.s] # Null

\* __stream_list holds exactly the sockets that were connected and not closed, each under its
\* own handle; the unused socket of a wrapper is not in it.
SocketTable ==
  /\ \A p \in Protos : Live(p) /\ inner[p] = Null => stream_list[m_files[p]] = p
  /\ \A f \in Fds : stream_list[f] # Null => Live(stream_list[f]) /\ m_files[stream_list[f]] = f

\* The three together: what is allocated, open and referred to is one.
StreamsSound == TypeOK /\ Ownership /\ SocketTable

\* The units passed to write are the body at m_offset: nothing is lost, repeated, reordered or
\* taken from the header, through a wrapper or not, however the events cut the response.
DeliveryInOrder ==
  pc = "write" => /\ frame.len > 0
                  /\ frame.pos = resp[Source(m_protop[frame.s])].hdr + m_offset[frame.s]

\* Why a connected proto_stream may be declared broken: the connection was reset; it closed
\* before the header (and, for a long response, Look units more) had arrived; that does not fit
\* m_chunk; or, while the connection is not made, a message of an earlier socket with the same
\* handle: its own messages never come that early.
BreakCause(p) ==
  LET needed == resp[p].hdr + IF resp[p].long THEN Look ELSE 0
  IN /\ conn[p] # "none"
     /\ conn[p] \in {"connecting", "refused"} => Head(queue).stale
     /\ conn[p] \in {"open", "eof"} =>
          IF resp[p] = Null THEN conn[p] = "eof"
          ELSE \/ conn[p] = "eof" /\ rx[p] < needed
               \/ ChunkLen < needed /\ rx[p] >= ChunkLen

ErrorHasCause ==
  [][\A p \in Protos : "ERROR" \notin m_flags[p] /\ "ERROR" \in m_flags'[p] => BreakCause(p)]_vars

\* An open stream is destroyed only when the plugin cut a write short, sending failed, or the
\* connection is over and every unit of the body that arrived has been written.
DestroyedWhenDelivered ==
  pc = "destroystream" =>
    LET s == frame.s
        p == Source(m_protop[s])
    IN \/ frame.len > 0
       \/ "ERROR" \in m_flags[p] /\ conn[p] = "rst"
       \/ conn[p] \in {"eof", "rst"} /\ resp[p].hdr + m_offset[s] = rx[p]

\* Nothing will wake the stream again: FD_CLOSE has come and no message for its handle is left.
Silent(s) ==
  /\ pc = "idle" /\ m_protop[s] # Null
  /\ LET p == Source(m_protop[s])
     IN "CLOSE" \notin armed[p] /\ \A i \in DOMAIN queue : queue[i].fd # m_files[p]

\* A response that does not fit m_chunk is given up without a recv: block() then judges by the
\* last send, and keeps the stream when that one was unfinished.
Overrun(p) == "ERROR" \in m_flags[p] /\ m_chunk[p].off = ChunkLen

\* Why a stream may be left waiting: the plugin was not ready for more, a redirect could not be
\* followed, or the response overran m_chunk before the request was out.
Waits(s) ==
  \/ created[s] /\ s \in notReady
  \/ Fresh(s) /\ resp[m_protop[s]].redirect
  \/ Overrun(Source(m_protop[s]))

\* The last event of a connection is wasted only on a stream that waits for one of the reasons
\* above: no other path through OnRead returns 0 once FD_CLOSE has been seen.
LastEventUsed == \A s \in Streams : Silent(s) => Waits(s)

\* What arrives is delivered: in order, before the stream is destroyed, and not left lying when
\* the last event has come.
DeliverySound == DeliveryInOrder /\ DestroyedWhenDelivered /\ LastEventUsed

Refused(s) == m_protop[s] # Null /\ conn[Source(m_protop[s])] = "refused"

-----------------------------------------------------------------------------
\* The calls the plugin sees for a URL: see NPStreamAPI.
Calls == {"newstream", "write", "destroystream", "urlnotify"}

API == INSTANCE NPStreamAPI
       WITH phase <- [s \in Streams |->
                        IF m_protop[s] = Null THEN "none"
                        ELSE IF pc \in Calls /\ frame.s = s THEN pc
                        ELSE IF created[s] THEN "open" ELSE "pending"],
            written <- m_offset

\* newstream, write, destroystream and urlnotify are called in the order NPAPI promises, once
\* each but for write, with contiguous offsets.
ImplementsAPI == API!APISpec

\* Every request ends with urlnotify, but for a refused connection, of which only the ignored
\* FD_CONNECT tells, and for a stream that wasted its last event (LastEventUsed).
RequestsEnd ==
  \A s \in Streams :
    (m_protop[s] # Null) ~> (m_protop[s] = Null \/ Refused(s) \/ (Silent(s) /\ Waits(s)))
=============================================================================
