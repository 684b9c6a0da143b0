----------------------------- MODULE NetStream -----------------------------
(***************************************************************************)
(* The URL streams of npprunner (npn_stream.cpp, npn_network.cpp): the     *)
(* plugin asks for a URL, proto_stream speaks HTTP over a socket_stream    *)
(* that GDK watches, and NPNetStream hands the body to the plugin.         *)
(*                                                                         *)
(* Everything runs on the GTK thread.  plugin_NetworkNotify is the only    *)
(* entry from the main loop; the handler it starts is modelled in steps,   *)
(* one from each call into the plugin to the next, because the plugin may  *)
(* call NPN_GetURLNotify from inside newstream, writeready, write,         *)
(* destroystream and urlnotify, and because the network moves meanwhile.   *)
(*                                                                         *)
(* A proto_stream and the socket_stream it owns live and die together and  *)
(* share one identity.  Identities are addresses: a freed one is used      *)
(* again.  Data is counted in units; ChunkLen stands for the 1024 bytes of *)
(* m_chunk, Look for the 12 bytes read past the header of a long response. *)
(***************************************************************************)
EXTENDS Integers

CONSTANTS Protos,     \* addresses a proto_stream may live at
          Streams,    \* addresses an NPNetStream may live at
          Fds,        \* file descriptors
          Null,       \* the null pointer, and "no such entry"
          Responses,  \* what a server may answer
          ReqLen,     \* units in a request (m_header.len)
          ChunkLen,   \* units in m_chunk
          Look,       \* units wanted past the header of a long response
          MaxReady    \* most units the plugin accepts in one write

ResponseSpace == [hdr : Nat \ {0}, body : Nat, long : BOOLEAN, redirect : BOOLEAN]

ASSUME NullAssumption == Null \notin Protos \cup Streams \cup Fds
ASSUME SizeAssumption == /\ ReqLen \in Nat \ {0}
                         /\ ChunkLen \in Nat \ {0}
                         /\ Look \in Nat
                         /\ MaxReady \in Nat \ {0}
ASSUME ResponseAssumption == Responses \subseteq ResponseSpace /\ Null \notin Responses

VARIABLES
  \* socket_stream
  m_files,      \* its descriptor
  connected,    \* SF_CONNECTED: some event has been seen
  interest,     \* the conditions its GDK input m_tag waits for
  last_error,   \* outcome of its last send or recv
  stream_list,  \* __stream_list: the socket registered for a descriptor
  \* proto_stream
  m_ref, m_flags, m_waitp,
  m_header,     \* units of the request sent (m_header.off)
  m_chunk,      \* off and len
  \* NPNetStream
  m_protop,     \* its proto_stream; Null where no NPNetStream lives
  created,      \* NF_CREATED: newstream has succeeded
  m_offset,
  \* the handler running on the GTK thread
  pc, frame,
  \* the network: state of each connection, units arrived, units read, the answer
  conn, rx, rd, resp

sockVars == <<m_files, connected, interest, last_error, stream_list>>
protoVars == <<m_ref, m_flags, m_waitp, m_header, m_chunk>>
streamVars == <<m_protop, created, m_offset>>
netVars == <<conn, rx, rd, resp>>
vars == <<sockVars, protoVars, streamVars, pc, frame, netVars>>

Live(p) == m_ref[p] > 0
OpenFds == {m_files[p] : p \in {q \in Protos : Live(q)}}
MinOf(a, b) == IF a <= b THEN a ELSE b

NoChunk == [off |-> 0, len |-> ChunkLen]
NoFrame == [fd |-> Null, p |-> Null, more |-> FALSE, s |-> Null, pos |-> 0, len |-> 0]

Init ==
  /\ m_files = [p \in Protos |-> Null]
  /\ connected = [p \in Protos |-> FALSE]
  /\ interest = [p \in Protos |-> {}]
  /\ last_error = [p \in Protos |-> "none"]
  /\ stream_list = [f \in Fds |-> Null]
  /\ m_ref = [p \in Protos |-> 0]
  /\ m_flags = [p \in Protos |-> {}]
  /\ m_waitp = [p \in Protos |-> Null]
  /\ m_header = [p \in Protos |-> 0]
  /\ m_chunk = [p \in Protos |-> NoChunk]
  /\ m_protop = [s \in Streams |-> Null]
  /\ created = [s \in Streams |-> FALSE]
  /\ m_offset = [s \in Streams |-> 0]
  /\ pc = "idle"
  /\ frame = NoFrame
  /\ conn = [p \in Protos |-> "none"]
  /\ rx = [p \in Protos |-> 0]
  /\ rd = [p \in Protos |-> 0]
  /\ resp = [p \in Protos |-> Null]

-----------------------------------------------------------------------------
(* Construction and destruction of a proto_stream with its socket.         *)

\* The proto_streams that rel() deletes.
Rel(p) == IF p # Null /\ m_ref[p] = 1 THEN {p} ELSE {}

\* Mutant of GetURLRef: the closing rel() is forgotten.
LeakedGetURLRef == 1 + 1

\* References left on a proto_stream when NPN_GetURLNotify returns: the constructor's, the
\* NPNetStream's, less the one given up by the closing rel().
GetURLRef == 1 + 1 - 1

\* __stream_list once new is registered on f and the sockets of gone are closed.
Registered(new, f, gone) ==
  [g \in Fds |-> IF new # Null /\ g = f THEN new
                 ELSE IF \E p \in gone : m_files[p] = g THEN Null ELSE stream_list[g]]

\* A proto_stream new is constructed on descriptor f, starts connecting and has its request
\* set (none if new is Null); rel() is called on old (none if Null).  Nothing of a deleted
\* object is kept, so a new one at the same address starts from the same values.
Turnover(new, f, ref, old) ==
  LET gone == Rel(old)
      At(fn, fresh, clear) ==
        [p \in Protos |-> IF p = new THEN fresh ELSE IF p \in gone THEN clear ELSE fn[p]]
  IN /\ m_ref' = [p \in Protos |-> IF p = new THEN ref
                                   ELSE IF p = old THEN m_ref[p] - 1 ELSE m_ref[p]]
     /\ m_files' = At(m_files, f, Null)
     /\ interest' = At(interest, {"READ", "WRITE"}, {})
     /\ stream_list' = Registered(new, f, gone)
     /\ connected' = At(connected, FALSE, FALSE)
     /\ last_error' = At(last_error, "none", "none")
     /\ m_flags' = At(m_flags, {}, {})
     /\ m_header' = At(m_header, 0, 0)
     /\ m_chunk' = At(m_chunk, NoChunk, NoChunk)
     /\ conn' = At(conn, "connecting", "none")
     /\ rx' = At(rx, 0, 0)
     /\ rd' = At(rd, 0, 0)
     /\ resp' = At(resp, Null, Null)

-----------------------------------------------------------------------------
(* Requests.  They come from the main loop or from inside a call into the  *)
(* plugin.  A request that fails (not http, connect refused at once, no    *)
(* descriptor) deletes what it had built and changes nothing.              *)

PluginTurn == {"idle", "newstream", "writeready", "write", "destroystream", "urlnotify"}

GetURL(s, p, f) ==
  /\ pc \in PluginTurn
  /\ m_protop[s] = Null /\ ~Live(p) /\ f \notin OpenFds
  /\ Turnover(p, f, GetURLRef, Null)
  /\ m_waitp' = [m_waitp EXCEPT ![p] = s]
  /\ m_protop' = [m_protop EXCEPT ![s] = p]
  /\ created' = [created EXCEPT ![s] = FALSE]
  /\ m_offset' = [m_offset EXCEPT ![s] = 0]
  /\ UNCHANGED <<pc, frame>>

-----------------------------------------------------------------------------
(* Dispatch.  GDK calls plugin_NetworkNotify with the conditions that were *)
(* ready when it polled; the read half runs before the write half, each    *)
(* after looking the descriptor up again.                                  *)

Readable(p) == rd[p] < rx[p] \/ conn[p] \in {"eof", "rst"}
Writable(p) == conn[p] \in {"open", "eof", "rst"}
Ready(p) == (IF Readable(p) THEN {"READ"} ELSE {}) \cup (IF Writable(p) THEN {"WRITE"} ELSE {})

Notify(p, cond) ==
  /\ pc = "idle"
  /\ Live(p) /\ cond # {} /\ cond \subseteq interest[p] \cap Ready(p)
  /\ pc' = IF "READ" \in cond THEN "read" ELSE "send"
  /\ frame' = [NoFrame EXCEPT !.fd = m_files[p], !.p = p, !.more = (cond = {"READ", "WRITE"})]
  /\ UNCHANGED <<sockVars, protoVars, streamVars, netVars>>

\* The half that was running returns to plugin_NetworkNotify.
EndHalf ==
  IF frame.more
  THEN pc' = "send" /\ frame' = [NoFrame EXCEPT !.fd = frame.fd, !.p = frame.p]
  ELSE pc' = "idle" /\ frame' = NoFrame

\* NOTIFY(m_waitp): the waiter's OnRead runs, if there is a waiter.
Wake(p) ==
  IF m_waitp[p] = Null THEN EndHalf
  ELSE pc' = "onread" /\ frame' = [frame EXCEPT !.s = m_waitp[p]]

Broken == {"CREATED", "ERROR"}

-----------------------------------------------------------------------------
(* proto_stream::on_read.                                                  *)

\* errno after a recv that found no data waiting.
RecvErrno(p) ==
  CASE conn[p] = "eof" -> "none"
    [] conn[p] = "rst" -> "fatal"
    [] OTHER -> "EWOULDBLOCK"

\* Mutant of RecvChunk: a recv that succeeds leaves last_error as it was.
StickyRecvChunk(p) ==
  LET room == ChunkLen - m_chunk[p].off
      n == MinOf(room, rx[p] - rd[p])
  IN IF room = 0 THEN [n |-> 0, ret |-> 0, errno |-> last_error[p]]
     ELSE IF n = room THEN [n |-> n, ret |-> n, errno |-> last_error[p]]
     ELSE [n |-> n, ret |-> IF conn[p] = "eof" THEN 0 ELSE -1,
           errno |-> IF conn[p] = "eof" THEN last_error[p] ELSE RecvErrno(p)]

\* recv_chunk: units read into m_chunk, what it returns (-1, 0 or a count), last_error.
RecvChunk(p) ==
  LET room == ChunkLen - m_chunk[p].off
      n == MinOf(room, rx[p] - rd[p])
  IN IF room = 0 THEN [n |-> 0, ret |-> 0, errno |-> last_error[p]]
     ELSE IF n = room THEN [n |-> n, ret |-> n, errno |-> "none"]
     ELSE [n |-> n, ret |-> IF conn[p] = "eof" THEN 0 ELSE -1, errno |-> RecvErrno(p)]

\* Mutant of HeaderDone: every response has to be Look units past its header.
EagerLookHeaderDone(p, off) ==
  /\ resp[p] # Null
  /\ off >= resp[p].hdr + Look

\* The first off units of the response show the end of the header ("\r\n\r\n"), and enough
\* of the body when the Content-Length is 120000 or more.
HeaderDone(p, off) ==
  /\ resp[p] # Null
  /\ off >= resp[p].hdr
  /\ resp[p].long => off >= resp[p].hdr + Look

\* Mutant of BodyStart: the header is handed to the plugin as well.
BodyStartAtZero(p) == 0

\* Where reading resumes in m_chunk once the header has been parsed.
BodyStart(p) == resp[p].hdr

ReadResponse(p) ==
  LET got == RecvChunk(p)
      off == m_chunk[p].off + got.n
  IN /\ rd' = [rd EXCEPT ![p] = @ + got.n]
     /\ last_error' = [last_error EXCEPT ![p] = got.errno]
     /\ IF got.ret = -1 /\ got.errno # "EWOULDBLOCK"
        THEN /\ m_flags' = [m_flags EXCEPT ![p] = @ \cup Broken]
             /\ m_chunk' = [m_chunk EXCEPT ![p].off = off]
             /\ Wake(p)
        ELSE IF HeaderDone(p, off)
        THEN /\ m_flags' = [m_flags EXCEPT ![p] = @ \cup {"CREATED"}]
             /\ m_chunk' = [m_chunk EXCEPT ![p] = [off |-> BodyStart(p), len |-> off]]
             /\ Wake(p)
        ELSE /\ m_chunk' = [m_chunk EXCEPT ![p].off = off]
             /\ IF got.ret = 0
                THEN m_flags' = [m_flags EXCEPT ![p] = @ \cup Broken] /\ Wake(p)
                ELSE m_flags' = m_flags /\ EndHalf

\* The read half: socket_stream::on_read, then proto_stream::on_read.
ReadHalf ==
  /\ pc = "read"
  /\ LET p == stream_list[frame.fd]
     IN /\ connected' = [connected EXCEPT ![p] = TRUE]
        /\ IF "CREATED" \in m_flags[p]
           THEN Wake(p) /\ UNCHANGED <<m_flags, m_chunk, last_error, rd>>
           ELSE ReadResponse(p)
  /\ UNCHANGED <<m_files, interest, stream_list, m_ref, m_waitp, m_header, streamVars,
                 conn, rx, resp>>

-----------------------------------------------------------------------------
(* socket_stream::on_write, then proto_stream::on_write.                   *)

\* Mutant of AfterConnect: the input keeps waiting for a write.
AfterConnectWrite(p) == IF connected[p] THEN interest[p] ELSE {"WRITE"}

\* What the GDK input waits for after the first event, if that event is a write.
AfterConnect(p) == IF connected[p] THEN interest[p] ELSE {"READ"}

\* Units of an unfinished request one send_chunk may get rid of.
SendCounts(p) == 1..(ReqLen - m_header[p])

SendRequest(p) ==
  IF m_header[p] = ReqLen
  THEN EndHalf /\ UNCHANGED <<m_header, last_error, m_flags>>
  ELSE IF conn[p] = "rst"
  THEN /\ last_error' = [last_error EXCEPT ![p] = "fatal"]
       /\ m_flags' = [m_flags EXCEPT ![p] = @ \cup Broken]
       /\ Wake(p)
       /\ UNCHANGED m_header
  ELSE \E n \in SendCounts(p) :
         /\ m_header' = [m_header EXCEPT ![p] = @ + n]
         /\ last_error' = [last_error EXCEPT
                             ![p] = IF m_header[p] + n < ReqLen THEN "EWOULDBLOCK" ELSE "none"]
         /\ EndHalf
         /\ UNCHANGED m_flags

\* The write half.  The read half may have closed the socket it was called for.
WriteHalf ==
  /\ pc = "send"
  /\ LET p == stream_list[frame.fd]
     IN IF p = Null
        THEN pc' = "idle" /\ frame' = NoFrame
             /\ UNCHANGED <<connected, interest, m_header, last_error, m_flags>>
        ELSE /\ interest' = [interest EXCEPT ![p] = AfterConnect(p)]
             /\ connected' = [connected EXCEPT ![p] = TRUE]
             /\ SendRequest(p)
  /\ UNCHANGED <<m_files, stream_list, m_ref, m_waitp, m_chunk, streamVars, netVars>>

-----------------------------------------------------------------------------
(* NPNetStream::OnRead and recv_wrapper.                                   *)

Connected(p) == m_flags[p] \cap Broken = {"CREATED"}

\* Mutant of Block: a recv that would block ends the stream.
BlockNever(errno) == FALSE

\* block(): the last send or recv only found nothing to do, so the stream is kept.
Block(errno) == errno = "EWOULDBLOCK"

\* Mutant of Teardown: destroystream is not called.
TeardownSilently(s) == "urlnotify"

\* Where the destructor of the NPNetStream s starts.
Teardown(s) == IF created[s] THEN "destroystream" ELSE "urlnotify"

\* OnRead returns: 0 keeps the stream, -1 makes recv_wrapper delete it.
Return(keep) ==
  IF keep THEN EndHalf ELSE pc' = Teardown(frame.s) /\ UNCHANGED frame

\* The first events after the response header: follow a redirect or announce the stream.
Fresh(s) == Connected(m_protop[s]) /\ ~created[s]

\* Mutant of RedirectFds: the old proto_stream is released before the new one is built.
RedirectFdsAfterRel(s) == Fds \ (OpenFds \ {m_files[m_protop[s]]})

\* Descriptors socket() may return while the old proto_stream of s is still open.
RedirectFds(s) == Fds \ OpenFds

Redirect(q, f) ==
  /\ pc = "onread" /\ Fresh(frame.s)
  /\ ~Live(q) /\ f \in RedirectFds(frame.s)
  /\ LET s == frame.s
         p == m_protop[s]
     IN /\ resp[p].redirect
        /\ Turnover(q, f, 1, p)
        /\ m_waitp' = [m_waitp EXCEPT ![p] = Null, ![q] = s]
        /\ m_protop' = [m_protop EXCEPT ![s] = q]
  /\ EndHalf
  /\ UNCHANGED <<created, m_offset>>

\* RedirectURLNotify returns NULL: nothing changes, and OnRead returns 0.
RedirectFails ==
  /\ pc = "onread" /\ Fresh(frame.s)
  /\ resp[m_protop[frame.s]].redirect
  /\ EndHalf
  /\ UNCHANGED <<sockVars, protoVars, streamVars, netVars>>

\* What OnRead does first otherwise.
Proceed ==
  /\ pc = "onread"
  /\ LET s == frame.s
         p == m_protop[s]
     IN /\ Fresh(s) => ~resp[p].redirect
        /\ IF Fresh(s) THEN pc' = "newstream" /\ UNCHANGED frame
           ELSE IF created[s] THEN pc' = "writeready" /\ UNCHANGED frame
           ELSE Return(Block(last_error[p]))
  /\ UNCHANGED <<sockVars, protoVars, streamVars, netVars>>

NewStream(ok) ==
  /\ pc = "newstream"
  /\ LET s == frame.s
     IN /\ m_offset' = [m_offset EXCEPT ![s] = 0]
        /\ created' = [created EXCEPT ![s] = ok]
  /\ IF ok THEN pc' = "writeready" /\ UNCHANGED frame ELSE Return(FALSE)
  /\ UNCHANGED <<sockVars, protoVars, m_protop, netVars>>

\* proto_stream::recv_data with room for c units: from m_chunk, then from the socket.
RecvData(p, c) ==
  LET chunk == m_chunk[p]
      fromChunk == MinOf(c, chunk.len - chunk.off)
      fromSocket == MinOf(c, rx[p] - rd[p])
      Deliver(pos, n) == pc' = "write" /\ frame' = [frame EXCEPT !.pos = pos, !.len = n]
  IN IF "ERROR" \in m_flags[p]
     THEN Return(Block(last_error[p])) /\ UNCHANGED <<m_chunk, rd, last_error>>
     ELSE IF fromChunk > 0
     THEN /\ Deliver(chunk.off, fromChunk)
          /\ m_chunk' = [m_chunk EXCEPT ![p].off = @ + fromChunk]
          /\ UNCHANGED <<rd, last_error>>
     ELSE IF fromSocket > 0
     THEN /\ Deliver(rd[p], fromSocket)
          /\ rd' = [rd EXCEPT ![p] = @ + fromSocket]
          /\ last_error' = [last_error EXCEPT ![p] = "none"]
          /\ UNCHANGED m_chunk
     ELSE /\ last_error' = [last_error EXCEPT ![p] = RecvErrno(p)]
          /\ Return(Block(RecvErrno(p)))
          /\ UNCHANGED <<m_chunk, rd>>

\* writeready returns c; with 0 the stream waits for the next event.
WriteReady(c) ==
  /\ pc = "writeready"
  /\ IF c = 0 THEN EndHalf /\ UNCHANGED <<m_chunk, rd, last_error>>
     ELSE RecvData(m_protop[frame.s], c)
  /\ UNCHANGED <<m_files, connected, interest, stream_list, m_ref, m_flags, m_waitp, m_header,
                 streamVars, conn, rx, resp>>

\* write consumes all it is given, or the stream is torn down.
Write(ok) ==
  /\ pc = "write"
  /\ IF ok
     THEN /\ m_offset' = [m_offset EXCEPT ![frame.s] = @ + frame.len]
          /\ pc' = "writeready"
          /\ frame' = [frame EXCEPT !.pos = 0, !.len = 0]
     ELSE Return(FALSE) /\ UNCHANGED m_offset
  /\ UNCHANGED <<sockVars, protoVars, m_protop, created, netVars>>

DestroyStream ==
  /\ pc = "destroystream"
  /\ pc' = "urlnotify"
  /\ UNCHANGED <<sockVars, protoVars, streamVars, frame, netVars>>

\* urlnotify returns; the proto_stream is released and the NPNetStream is gone.
URLNotify ==
  /\ pc = "urlnotify"
  /\ LET s == frame.s
         p == m_protop[s]
     IN /\ Turnover(Null, Null, 0, p)
        /\ m_waitp' = [q \in Protos |-> IF q \in Rel(p) THEN Null ELSE m_waitp[q]]
        /\ m_protop' = [m_protop EXCEPT ![s] = Null]
        /\ created' = [created EXCEPT ![s] = FALSE]
        /\ m_offset' = [m_offset EXCEPT ![s] = 0]
  /\ EndHalf

-----------------------------------------------------------------------------
(* The network and the servers: external.                                  *)

ServerStep(p) ==
  /\ UNCHANGED <<sockVars, protoVars, streamVars, pc, frame, rd>>
  /\ Live(p)

Accept(p) == /\ conn[p] = "connecting"
             /\ conn' = [conn EXCEPT ![p] = "open"]
             /\ ServerStep(p) /\ UNCHANGED <<rx, resp>>

\* The server settles what it will answer.
Answer(p, r) == /\ conn[p] = "open" /\ resp[p] = Null
                /\ resp' = [resp EXCEPT ![p] = r]
                /\ ServerStep(p) /\ UNCHANGED <<conn, rx>>

\* One more unit of the answer arrives.
Arrive(p) == /\ conn[p] = "open" /\ resp[p] # Null
             /\ rx[p] < resp[p].hdr + resp[p].body
             /\ rx' = [rx EXCEPT ![p] = @ + 1]
             /\ ServerStep(p) /\ UNCHANGED <<conn, resp>>

\* The server closes, whether or not all of the answer was sent.
Close(p) == /\ conn[p] = "open"
            /\ conn' = [conn EXCEPT ![p] = "eof"]
            /\ ServerStep(p) /\ UNCHANGED <<rx, resp>>

\* The connection is refused or reset.
Reset(p) == /\ conn[p] \in {"connecting", "open", "eof"}
            /\ conn' = [conn EXCEPT ![p] = "rst"]
            /\ ServerStep(p) /\ UNCHANGED <<rx, resp>>

-----------------------------------------------------------------------------
Requests == \E s \in Streams, p \in Protos, f \in Fds : GetURL(s, p, f)
Dispatch == \E p \in Protos, cond \in SUBSET {"READ", "WRITE"} : Notify(p, cond)
Handler == \/ ReadHalf
           \/ WriteHalf
           \/ \E q \in Protos, f \in Fds : Redirect(q, f)
           \/ RedirectFails
           \/ Proceed
           \/ \E ok \in BOOLEAN : NewStream(ok)
           \/ \E c \in 0..MaxReady : WriteReady(c)
           \/ \E ok \in BOOLEAN : Write(ok)
           \/ DestroyStream
           \/ URLNotify
Network == \E p \in Protos : \/ Accept(p)
                             \/ \E r \in Responses : Answer(p, r)
                             \/ Arrive(p)
                             \/ Close(p)
                             \/ Reset(p)

Next == Requests \/ Dispatch \/ Handler \/ Network

Spec == Init /\ [][Next]_vars

\* GLib dispatches every source that stays ready, the handlers return, and the plugin does not
\* answer writeready with 0 for ever.  A connect has an outcome, a server that has the whole
\* request closes the connection in the end (it is asked to: "Connection: close"), and no
\* chain of servers redirects for ever.
FairSpec ==
  /\ Spec
  /\ WF_vars(Handler)
  /\ \A p \in Protos :
       /\ SF_vars(\E cond \in {{"READ"}, {"READ", "WRITE"}} : Notify(p, cond))
       /\ SF_vars(\E cond \in {{"WRITE"}, {"READ", "WRITE"}} : Notify(p, cond))
       /\ WF_vars(Accept(p) \/ (conn[p] = "connecting" /\ Reset(p)))
       /\ SF_vars(\E r \in Responses : ~r.redirect /\ Answer(p, r))
       /\ WF_vars(m_header[p] = ReqLen /\ Close(p))
  /\ \A s \in Streams : SF_vars(frame.s = s /\ \E c \in 1..MaxReady : WriteReady(c))

-----------------------------------------------------------------------------
(* Properties.                                                             *)

Errno == {"none", "EWOULDBLOCK", "fatal"}
Frames == [fd : Fds \cup {Null}, p : Protos \cup {Null}, more : BOOLEAN,
           s : Streams \cup {Null}, pos : Nat, len : Nat]
PcValues == PluginTurn \cup {"read", "send", "onread"}

\* Type invariant of the socket, protocol, stream and handler state.
TypeOK ==
  /\ m_files \in [Protos -> Fds \cup {Null}]
  /\ connected \in [Protos -> BOOLEAN]
  /\ interest \in [Protos -> SUBSET {"READ", "WRITE"}]
  /\ last_error \in [Protos -> Errno]
  /\ stream_list \in [Fds -> Protos \cup {Null}]
  /\ m_ref \in [Protos -> Nat]
  /\ m_flags \in [Protos -> SUBSET Broken]
  /\ m_waitp \in [Protos -> Streams \cup {Null}]
  /\ m_header \in [Protos -> 0..ReqLen]
  /\ m_chunk \in [Protos -> [off : Nat, len : Nat]]
  /\ m_protop \in [Streams -> Protos \cup {Null}]
  /\ created \in [Streams -> BOOLEAN]
  /\ m_offset \in [Streams -> Nat]
  /\ pc \in PcValues
  /\ frame \in Frames
  /\ conn \in [Protos -> {"none", "connecting", "open", "eof", "rst"}]
  /\ rx \in [Protos -> Nat]
  /\ rd \in [Protos -> Nat]
  /\ resp \in [Protos -> Responses \cup {Null}]

OnStream == {"onread", "newstream", "writeready", "write", "destroystream", "urlnotify"}

\* No dangling waiter and no leak: a live proto_stream has exactly one reference, held by the
\* live NPNetStream its m_waitp wakes, and a live NPNetStream holds a live proto_stream that
\* wakes it, so NOTIFY (npn_stream.cpp:22) never calls into a deleted object; the handler
\* that is inside OnRead works on a live stream.
Ownership ==
  /\ \A p \in Protos : Live(p) =>
       /\ m_ref[p] = 1
       /\ m_waitp[p] \in Streams
       /\ m_protop[m_waitp[p]] = p
  /\ \A s \in Streams : m_protop[s] # Null =>
       /\ m_protop[s] \in Protos
       /\ Live(m_protop[s])
       /\ m_waitp[m_protop[s]] = s
  /\ pc \in OnStream => frame.s \in Streams /\ m_protop[frame.s] # Null

\* __stream_list holds exactly the open sockets, each under its own descriptor: an event never
\* reaches a closed socket or another connection's (close, connect, plugin_NetworkNotify).
SocketTable ==
  /\ \A p \in Protos : Live(p) => m_files[p] \in Fds /\ stream_list[m_files[p]] = p
  /\ \A f \in Fds : stream_list[f] # Null =>
       /\ stream_list[f] \in Protos
       /\ Live(stream_list[f])
       /\ m_files[stream_list[f]] = f

\* The three together: what is allocated, open and referred to is one.
StreamsSound == TypeOK /\ Ownership /\ SocketTable

\* Whatever the read half did, including closing the socket and opening others, the write half
\* of the same event finds that socket or none: not a new one on the same descriptor.
WriteHalfSameSocket ==
  pc = "send" => stream_list[frame.fd] \in {Null, frame.p}

\* The units passed to write are the body at m_offset: nothing is lost, repeated, reordered
\* or taken from the header, however the response was cut between m_chunk and the socket.
DeliveryInOrder ==
  pc = "write" => /\ frame.len > 0
                  /\ frame.pos = resp[m_protop[frame.s]].hdr + m_offset[frame.s]

\* Why a proto_stream may be declared broken: the connection was reset, it closed before the
\* header (and, for a long response, Look units more) had arrived, or that does not fit m_chunk.
HasCause(p) ==
  LET needed == resp[p].hdr + IF resp[p].long THEN Look ELSE 0
  IN \/ conn[p] = "rst"
     \/ conn[p] = "eof" /\ (resp[p] = Null \/ rx[p] < needed)
     \/ resp[p] # Null /\ ChunkLen < needed /\ rx[p] >= ChunkLen

\* No proto_stream is declared broken for another reason (recv_chunk, send_chunk).
ErrorHasCause == \A p \in Protos : "ERROR" \in m_flags[p] => HasCause(p)

\* A broken proto_stream is torn down by the very event that finds it broken, with two
\* exceptions: the plugin had the stream open and was not ready, or an unfinished send left
\* EWOULDBLOCK behind for block() to see, which takes a read event before the first write
\* event.  Neither is forgotten: another read event is already due.
ErrorTearsDown ==
  \A p \in Protos : pc = "idle" /\ "ERROR" \in m_flags[p] =>
    /\ created[m_waitp[p]] \/ interest[p] = {"READ", "WRITE"}
    /\ "READ" \in interest[p]
    /\ Readable(p)

\* An open stream is destroyed only when the plugin cut a write short, sending failed, or the
\* connection is over and every unit of the body that arrived has been written.
DestroyedWhenDelivered ==
  pc = "destroystream" =>
    LET s == frame.s
        p == m_protop[s]
    IN \/ frame.len > 0
       \/ "ERROR" \in m_flags[p] /\ conn[p] = "rst"
       \/ conn[p] \in {"eof", "rst"} /\ resp[p].hdr + m_offset[s] = rx[p]

-----------------------------------------------------------------------------
(* The inductive invariant of NetStream_proofs.                            *)

\* What has been read has arrived; m_chunk is never overrun, nor read past its end.
Bounds ==
  \A p \in Protos :
    /\ rd[p] <= rx[p]
    /\ m_chunk[p].off <= m_chunk[p].len
    /\ "CREATED" \notin m_flags[p] => m_chunk[p].len = ChunkLen

\* The descriptor a handler was entered with stays open and its own until the handler itself
\* closes it, and then only the write half is left to run.
FrameOK ==
  /\ pc # "idle" => frame.fd \in Fds /\ frame.p \in Protos
  /\ pc = "read" => stream_list[frame.fd] = frame.p
  /\ pc = "send" => stream_list[frame.fd] \in {Null, frame.p}
  /\ pc \in OnStream => /\ frame.s \in Streams
                        /\ m_protop[frame.s] = frame.p
                        /\ stream_list[frame.fd] = frame.p

\* Types, ownership, the descriptor table and the running handler together: none of them is
\* preserved by every step without the others.
IndInv == TypeOK /\ Ownership /\ SocketTable /\ Bounds /\ FrameOK

\* What the handler's place in OnRead says of the stream, for the proof of ImplementsAPI.
CallOrder ==
  /\ pc = "newstream" => ~created[frame.s]
  /\ pc \in {"writeready", "write", "destroystream"} => created[frame.s]
  /\ pc = "write" => frame.len > 0
  /\ \A s \in Streams : ~created[s] => m_offset[s] = 0

\* For the proofs about the data: where in the response the next unit for the plugin is, and
\* the units that are in the hands of the plugin, or that it refused.
Position(p) == IF m_chunk[p].off < m_chunk[p].len THEN m_chunk[p].off ELSE rd[p]
Handed(s) == IF frame.s = s THEN frame.len ELSE 0

\* Before its header is complete a response lies in m_chunk; then the rest of m_chunk comes
\* before what is still in the socket.
ReadingOK(p) ==
  /\ ~Live(p) => m_flags[p] = {}
  /\ "ERROR" \in m_flags[p] => "CREATED" \in m_flags[p]
  /\ resp[p] = Null => rx[p] = 0
  /\ "CREATED" \notin m_flags[p] => rd[p] = m_chunk[p].off
  /\ Connected(p) => /\ resp[p] # Null
                     /\ resp[p].hdr <= m_chunk[p].off
                     /\ m_chunk[p].len <= rd[p]
                     /\ m_chunk[p].off < m_chunk[p].len => rd[p] = m_chunk[p].len

\* The input of a live socket waits for reads; an event has been seen before anything was read
\* or went wrong; and a broken connection has a read event due.
EventsOK(p) ==
  /\ Live(p) => "READ" \in interest[p]
  /\ rd[p] > 0 \/ m_flags[p] # {} => connected[p]
  /\ "ERROR" \in m_flags[p] => Readable(p)

\* block() keeps a broken stream that is not open only if its socket waits for writes too.
BlockOK(p) ==
  Live(p) /\ ~created[m_waitp[p]] =>
    /\ "CREATED" \notin m_flags[p] /\ m_chunk[p].off = ChunkLen /\ last_error[p] = "EWOULDBLOCK"
         => interest[p] = {"READ", "WRITE"}
    /\ "ERROR" \in m_flags[p] =>
         \/ interest[p] = {"READ", "WRITE"}
         \/ pc = "onread" /\ frame.p = p /\ last_error[p] # "EWOULDBLOCK"
         \/ pc = "urlnotify" /\ frame.p = p

\* What the plugin was given of a stream is what was taken from its response.
DeliveredOK(s) ==
  m_protop[s] # Null =>
    LET p == m_protop[s]
    IN /\ created[s] => "CREATED" \in m_flags[p]
       /\ created[s] /\ "ERROR" \in m_flags[p] => conn[p] = "rst"
       /\ Connected(p) => Position(p) = resp[p].hdr + m_offset[s] + Handed(s)

\* What the handler's place says of the data and of the events it was entered for.
HandlerOK ==
  /\ pc \notin {"write", "destroystream", "urlnotify"} => frame.len = 0
  /\ pc = "write" => frame.pos = resp[m_protop[frame.s]].hdr + m_offset[frame.s]
  /\ pc \in {"newstream", "write"} => Connected(m_protop[frame.s])
  /\ pc = "read" => Readable(frame.p)
  /\ pc = "send" => ~frame.more
  /\ pc # "idle" /\ (frame.more \/ pc = "send") /\ stream_list[frame.fd] = frame.p
       => "WRITE" \in interest[frame.p]

\* The invariant about the data, on top of IndInv and CallOrder.
DataInv ==
  /\ \A p \in Protos : ReadingOK(p) /\ EventsOK(p) /\ BlockOK(p)
  /\ \A s \in Streams : DeliveredOK(s)
  /\ HandlerOK /\ ErrorHasCause /\ DestroyedWhenDelivered

-----------------------------------------------------------------------------
\* The calls the plugin sees for a URL: see NPStreamAPI.
Calls == {"newstream", "write", "destroystream", "urlnotify"}

API == INSTANCE NPStreamAPI
       WITH phase <- [s \in Streams |->
                        IF m_protop[s] = Null THEN "none"
                        ELSE IF pc \in Calls /\ frame.s = s THEN pc
                        ELSE IF created[s] THEN "open" ELSE "pending"],
            written <- m_offset

\* newstream, write, destroystream and urlnotify are called in the order NPAPI promises, once
\* each but for write, with contiguous offsets.
ImplementsAPI == API!APISpec

\* Cases the code leaves hanging: a redirect that cannot be followed is tried again at every
\* event, and a request of which the first send took only a part is never finished.
RedirectPending(s) == pc = "idle" /\ Fresh(s) /\ resp[m_protop[s]].redirect
HalfSent(s) == m_header[m_protop[s]] \in 1..(ReqLen - 1) /\ "WRITE" \notin interest[m_protop[s]]

\* Every request ends: the plugin gets its urlnotify, whatever is lost, reset or late, except
\* in the two cases above.
RequestsEnd ==
  \A s \in Streams :
    (m_protop[s] # Null) ~> (m_protop[s] = Null \/ RedirectPending(s) \/ HalfSent(s))
=============================================================================
