-------------------------- MODULE WinStream_proofs --------------------------
(***************************************************************************)
(* Proofs about WinStream, for every number of addresses, handles and      *)
(* responses, and message queues of any length.  IndInv is inductive: it   *)
(* says who refers to whom (LinksOK), and then, for each proto_stream and  *)
(* each NPNetStream alone, what its own state and its own messages satisfy *)
(* A step changes one of each, and leaves the messages of the others where *)
(* they are.                                                               *)
(***************************************************************************)
EXTENDS WinStream, FiniteSetTheorems, TLAPS

\* A message the socket of handle f has posted, not one of an earlier socket.
Msg(f, ev) == [fd |-> f, ev |-> ev, stale |-> FALSE]

Has(q, m) == \E i \in DOMAIN q : q[i] = m

\* No b is in q without an a before it.
Before(q, a, b) == \A j \in DOMAIN q : q[j] = b => \E i \in 1..(j - 1) : q[i] = a

Messages == [fd : Fds, ev : Events, stale : BOOLEAN]

\* A proto_stream with a connection: not a wrapper.
Wired(p) == Live(p) /\ inner[p] = Null

\* Every proto_stream has one reference and a handle no other has.  One with a connection is
\* registered under its handle, and its waiter is the stream that reads from it; every stream
\* has one, and every registered handle.
LinksOK ==
  /\ \A p \in Protos : ~Live(p) => inner[p] = Null
  /\ \A p \in Protos : Live(p) => m_ref[p] = 1 /\ m_files[p] \in Fds
  /\ \A p, q \in Protos : Live(p) /\ Live(q) /\ m_files[p] = m_files[q] => p = q
  /\ \A p \in Protos : Wired(p) =>
       /\ m_waitp[p] \in Streams /\ m_protop[m_waitp[p]] # Null
       /\ Source(m_protop[m_waitp[p]]) = p
       /\ stream_list[m_files[p]] = p
  /\ \A w \in Protos : inner[w] # Null => Wired(inner[w]) /\ m_protop[m_waitp[inner[w]]] = w
  /\ \A s \in Streams : m_protop[s] # Null =>
       Live(m_protop[s]) /\ m_waitp[Source(m_protop[s])] = s
  /\ \A f \in Fds : stream_list[f] # Null =>
       Wired(stream_list[f]) /\ m_files[stream_list[f]] = f

\* A message that is not stale is of a registered socket.
QueueOK == \A f \in Fds, ev \in Events : Has(queue, Msg(f, ev)) => stream_list[f] # Null

\* A handler serves a stream that exists.
FrameOK == pc # "idle" => frame.s \in Streams /\ m_protop[frame.s] # Null

Met == {"open", "eof", "rst"}

\* Nothing is read that has not arrived; until the header is complete m_chunk is what was read.
ProtoOK(p) ==
  /\ rd[p] <= rx[p] /\ m_chunk[p].off <= m_chunk[p].len
  /\ "CREATED" \notin m_flags[p] =>
       m_chunk[p].len = ChunkLen /\ m_chunk[p].off = rd[p] /\ "ERROR" \notin m_flags[p]
  /\ rx[p] > 0 => resp[p] # Null
  /\ resp[p] # Null => conn[p] \in Met
  /\ Wired(p) <=> conn[p] # "none"

\* The messages of p's own socket: none before it is connected, FD_CLOSE once, when the
\* connection is over.  Until the header is complete, FD_CLOSE has not been handled, and FD_READ
\* is due for data that arrived, ahead of FD_CLOSE.
MessageOK(p) ==
  Wired(p) =>
    /\ \A ev \in Events : Has(queue, Message(p, ev)) => conn[p] \in Met
    /\ Has(queue, Message(p, "CLOSE")) => "CLOSE" \notin armed[p]
    /\ "CLOSE" \notin armed[p] => conn[p] \in {"eof", "rst"}
    /\ "CREATED" \notin m_flags[p] => "CLOSE" \in armed[p] \/ Has(queue, Message(p, "CLOSE"))
    /\ "CREATED" \notin m_flags[p] /\ m_chunk[p].off < ChunkLen =>
         /\ rx[p] > rd[p] => "READ" \notin armed[p]
         /\ "READ" \notin armed[p] => Has(queue, Message(p, "READ"))
         /\ rx[p] > rd[p] => Before(queue, Message(p, "READ"), Message(p, "CLOSE"))

\* FD_CLOSE has been handled.
Ended(p) == "CLOSE" \notin armed[p] /\ ~Has(queue, Message(p, "CLOSE"))

Serving(s) == pc # "idle" /\ frame.s = s

\* A stream is announced when its response is complete; a connection that breaks after that was
\* reset.  A stream reads through a wrapper from newstream on.
OpenOK(s, p) ==
  /\ ~created[s] => m_offset[s] = 0
  /\ created[s] => "CREATED" \in m_flags[p] /\ resp[p] # Null
  /\ created[s] /\ "ERROR" \in m_flags[p] => conn[p] = "rst" /\ last_error[p] = "fatal"
  /\ inner[m_protop[s]] # Null => created[s] \/ (Serving(s) /\ pc \in {"newstream", "urlnotify"})

\* What holds in the calls of a handler for s; at destroystream the reason for it.
HandlerOK(s, p) ==
  Serving(s) =>
    /\ pc = "onread" => "CREATED" \in m_flags[p]
    /\ pc \in {"onread", "newstream", "writeready"} => frame.len = 0
    /\ pc = "newstream" => ~created[s] /\ Connected(p)
    /\ pc \in {"writeready", "write", "destroystream"} => created[s]
    /\ pc = "write" => Connected(p) /\ frame.len > 0 /\ frame.pos = resp[p].hdr + m_offset[s]
    /\ pc = "destroystream" =>
         \/ frame.len > 0
         \/ "ERROR" \in m_flags[p] /\ conn[p] = "rst"
         \/ conn[p] \in {"eof", "rst"} /\ resp[p].hdr + m_offset[s] = rx[p]

\* A broken stream that was not announced is kept only if its response overran m_chunk, and a
\* stream that has seen FD_CLOSE only if it waits.
LastOK(s, p) ==
  /\ ~created[s] /\ "ERROR" \in m_flags[p] =>
       m_chunk[p].off = ChunkLen \/ (Serving(s) /\ last_error[p] # "WSAEWOULDBLOCK")
  /\ Ended(p) /\ ~Serving(s) => Waits(s)

\* s is being torn down.
Leaving(s) == Serving(s) /\ pc \in {"destroystream", "urlnotify"}

\* Units of s handed to the write that is running.
Handed(s) == IF Serving(s) /\ pc = "write" THEN frame.len ELSE 0

\* The unit to be delivered next: in m_chunk until that is used up, then in the socket.
Position(p) == IF m_chunk[p].off < m_chunk[p].len THEN m_chunk[p].off ELSE rd[p]

\* What was written and is being written is the body up to the next unit.
DeliveredOK(s, p) ==
  Connected(p) =>
    /\ resp[p] # Null
    /\ m_chunk[p].len <= rd[p]
    /\ m_chunk[p].off < m_chunk[p].len => rd[p] = m_chunk[p].len
    /\ ~Leaving(s) => Position(p) = resp[p].hdr + m_offset[s] + Handed(s)

StreamOK(s) ==
  m_protop[s] # Null =>
    LET p == Source(m_protop[s])
    IN OpenOK(s, p) /\ HandlerOK(s, p) /\ LastOK(s, p) /\ DeliveredOK(s, p)

\* The inductive invariant.
IndInv ==
  /\ TypeOK /\ LinksOK /\ QueueOK /\ FrameOK
  /\ \A p \in Protos : ProtoOK(p) /\ MessageOK(p)
  /\ \A s \in Streams : StreamOK(s)

-----------------------------------------------------------------------------
(* Queues of messages.                                                     *)

LEMMA AppendMessage ==
  ASSUME NEW S, NEW q \in Seq(S), NEW x \in S, NEW m
  PROVE  Has(Append(q, x), m) <=> Has(q, m) \/ x = m
<1>1. /\ Len(q) \in Nat /\ DOMAIN q = 1..Len(q) /\ DOMAIN Append(q, x) = 1..(Len(q) + 1)
      /\ Append(q, x)[Len(q) + 1] = x
      /\ \A i \in 1..Len(q) : Append(q, x)[i] = q[i]
  OBVIOUS
<1>2. ASSUME Has(Append(q, x), m) PROVE Has(q, m) \/ x = m
  <2>1. PICK i \in 1..(Len(q) + 1) : Append(q, x)[i] = m
    BY <1>1, <1>2 DEF Has
  <2>2. i = Len(q) + 1 \/ i \in 1..Len(q)
    BY <1>1
  <2> QED BY <1>1, <2>1, <2>2 DEF Has
<1>3. ASSUME Has(q, m) PROVE Has(Append(q, x), m)
  <2>1. PICK i \in 1..Len(q) : q[i] = m
    BY <1>1, <1>3 DEF Has
  <2>2. i \in 1..(Len(q) + 1)
    BY <1>1
  <2> QED BY <1>1, <2>1, <2>2 DEF Has
<1>4. ASSUME x = m PROVE Has(Append(q, x), m)
  <2>1. Len(q) + 1 \in 1..(Len(q) + 1)
    BY <1>1
  <2> QED BY <1>1, <1>4, <2>1 DEF Has
<1> QED BY <1>2, <1>3, <1>4

LEMMA TailMessage ==
  ASSUME NEW S, NEW q \in Seq(S), q # <<>>, NEW m
  PROVE  Has(q, m) <=> Head(q) = m \/ Has(Tail(q), m)
<1>1. /\ Len(q) \in Nat \ {0} /\ DOMAIN q = 1..Len(q) /\ DOMAIN Tail(q) = 1..(Len(q) - 1)
      /\ Head(q) = q[1]
      /\ \A i \in 1..(Len(q) - 1) : Tail(q)[i] = q[i + 1]
  OBVIOUS
<1>2. ASSUME Has(q, m), Head(q) # m PROVE Has(Tail(q), m)
  <2>1. PICK i \in 1..Len(q) : q[i] = m
    BY <1>1, <1>2 DEF Has
  <2>2. i # 1
    BY <1>1, <1>2, <2>1
  <2>3. i - 1 \in 1..(Len(q) - 1) /\ (i - 1) + 1 = i
    BY <1>1, <2>2
  <2>4. Tail(q)[i - 1] = m
    BY <1>1, <2>1, <2>3
  <2> QED BY <1>1, <2>3, <2>4 DEF Has
<1>3. ASSUME Has(Tail(q), m) PROVE Has(q, m)
  <2>1. PICK i \in 1..(Len(q) - 1) : Tail(q)[i] = m
    BY <1>1, <1>3 DEF Has
  <2>2. i + 1 \in 1..Len(q) /\ q[i + 1] = m
    BY <1>1, <2>1
  <2> QED BY <1>1, <2>2 DEF Has
<1>4. ASSUME Head(q) = m PROVE Has(q, m)
  <2>1. 1 \in 1..Len(q)
    BY <1>1
  <2> QED BY <1>1, <1>4, <2>1 DEF Has
<1> QED BY <1>2, <1>3, <1>4

LEMMA AppendBefore ==
  ASSUME NEW S, NEW q \in Seq(S), NEW x \in S, NEW a, NEW b, Before(q, a, b), x = b => Has(q, a)
  PROVE  Before(Append(q, x), a, b)
<1>1. /\ Len(q) \in Nat /\ DOMAIN q = 1..Len(q) /\ DOMAIN Append(q, x) = 1..(Len(q) + 1)
      /\ Append(q, x)[Len(q) + 1] = x
      /\ \A i \in 1..Len(q) : Append(q, x)[i] = q[i]
  OBVIOUS
<1> SUFFICES ASSUME NEW j \in 1..(Len(q) + 1), Append(q, x)[j] = b
             PROVE  \E i \in 1..(j - 1) : Append(q, x)[i] = a
  BY <1>1 DEF Before
<1>2. CASE j = Len(q) + 1
  <2>1. PICK i \in 1..Len(q) : q[i] = a
    BY <1>1, <1>2 DEF Has
  <2>2. i \in 1..(j - 1) /\ Append(q, x)[i] = a
    BY <1>1, <1>2, <2>1
  <2> QED BY <2>2
<1>3. CASE j # Len(q) + 1
  <2>1. j \in 1..Len(q) /\ q[j] = b
    BY <1>1, <1>3
  <2>2. PICK i \in 1..(j - 1) : q[i] = a
    BY <1>1, <2>1 DEF Before
  <2>3. i \in 1..Len(q)
    BY <1>1, <2>1
  <2>4. Append(q, x)[i] = a
    BY <1>1, <2>2, <2>3
  <2> QED BY <2>4
<1> QED BY <1>2, <1>3

LEMMA TailBefore ==
  ASSUME NEW S, NEW q \in Seq(S), q # <<>>, NEW a, NEW b, Before(q, a, b), Head(q) # a
  PROVE  Before(Tail(q), a, b)
<1>1. /\ Len(q) \in Nat \ {0} /\ DOMAIN q = 1..Len(q) /\ DOMAIN Tail(q) = 1..(Len(q) - 1)
      /\ Head(q) = q[1]
      /\ \A i \in 1..(Len(q) - 1) : Tail(q)[i] = q[i + 1]
  OBVIOUS
<1> SUFFICES ASSUME NEW j \in 1..(Len(q) - 1), Tail(q)[j] = b
             PROVE  \E i \in 1..(j - 1) : Tail(q)[i] = a
  BY <1>1 DEF Before
<1>2. j + 1 \in 1..Len(q) /\ q[j + 1] = b /\ (j + 1) - 1 = j
  BY <1>1
<1>3. PICK i \in 1..j : q[i] = a
  BY <1>1, <1>2 DEF Before
<1>4. i # 1
  BY <1>1, <1>3
<1>5. i - 1 \in 1..(j - 1) /\ i - 1 \in 1..(Len(q) - 1) /\ (i - 1) + 1 = i
  BY <1>1, <1>4
<1>6. Tail(q)[i - 1] = a
  BY <1>1, <1>3, <1>5
<1> QED BY <1>5, <1>6

\* The first message has none before it.
LEMMA HeadBefore ==
  ASSUME NEW S, NEW q \in Seq(S), q # <<>>, NEW a, NEW b, Before(q, a, b)
  PROVE  Head(q) # b
<1>1. 1 \in DOMAIN q /\ Head(q) = q[1]
  OBVIOUS
<1>2. ASSUME q[1] = b PROVE FALSE
  <2>1. \E i \in 1..(1 - 1) : q[i] = a
    BY <1>1, <1>2 DEF Before
  <2> QED BY <2>1
<1> QED BY <1>1, <1>2

-----------------------------------------------------------------------------
(* The links.                                                              *)

\* The proto_stream a stream reads from.
LEMMA OfStream ==
  ASSUME TypeOK, LinksOK, NEW s \in Streams, m_protop[s] # Null
  PROVE  LET p == Source(m_protop[s])
         IN /\ p \in Protos /\ Wired(p) /\ m_waitp[p] = s
            /\ m_files[p] \in Fds /\ stream_list[m_files[p]] = p /\ m_ref[p] = 1
            /\ m_protop[s] \in Protos /\ m_ref[m_protop[s]] = 1
            /\ m_protop[s] = p \/ inner[m_protop[s]] = p
<1> DEFINE m == m_protop[s]
<1>1. m \in Protos /\ Live(m) /\ m_waitp[Source(m)] = s /\ m_ref[m] = 1
  BY DEF TypeOK, LinksOK
<1>2. CASE inner[m] = Null
  <2>1. Source(m) = m /\ Wired(m)
    BY <1>1, <1>2 DEF Source, Wired
  <2> QED BY <1>1, <2>1 DEF LinksOK
<1>3. CASE inner[m] # Null
  <2>1. Source(m) = inner[m] /\ inner[m] \in Protos /\ Wired(inner[m])
    BY <1>1, <1>3 DEF TypeOK, LinksOK, Source
  <2>2. Live(inner[m]) /\ m_ref[inner[m]] = 1 /\ m_files[inner[m]] \in Fds
        /\ stream_list[m_files[inner[m]]] = inner[m]
    BY <2>1 DEF LinksOK, Wired
  <2> QED BY <1>1, <2>1, <2>2
<1> QED BY <1>2, <1>3

\* The stream that reads from a proto_stream.
LEMMA OfProto ==
  ASSUME LinksOK, NEW p \in Protos, Wired(p)
  PROVE  /\ m_waitp[p] \in Streams /\ m_protop[m_waitp[p]] # Null
         /\ Source(m_protop[m_waitp[p]]) = p
         /\ m_files[p] \in Fds /\ stream_list[m_files[p]] = p
BY DEF LinksOK, Wired

\* The socket registered under a handle.
LEMMA OfHandle ==
  ASSUME TypeOK, LinksOK, NEW f \in Fds, stream_list[f] # Null
  PROVE  stream_list[f] \in Protos /\ Wired(stream_list[f]) /\ m_files[stream_list[f]] = f
BY DEF TypeOK, LinksOK

\* Two proto_streams with a connection have different handles.
LEMMA HandlesDiffer ==
  ASSUME LinksOK, NEW p \in Protos, NEW q \in Protos, Wired(p), Wired(q), p # q
  PROVE  m_files[p] # m_files[q]
BY DEF LinksOK, Wired

-----------------------------------------------------------------------------
(* What a step leaves alone.                                               *)

Links == <<m_ref, m_files, inner, m_waitp, m_protop, stream_list>>

\* The step changes nothing of the proto_stream q and its connection.
Same(q) ==
  /\ m_flags'[q] = m_flags[q] /\ m_chunk'[q] = m_chunk[q] /\ last_error'[q] = last_error[q]
  /\ conn'[q] = conn[q] /\ rx'[q] = rx[q] /\ rd'[q] = rd[q] /\ resp'[q] = resp[q]
  /\ armed'[q] = armed[q]

\* The step takes, posts and reorders no message of q's socket.
SameMessages(q) ==
  /\ \A ev \in Events : Has(queue, Message(q, ev))' <=> Has(queue, Message(q, ev))
  /\ Before(queue, Message(q, "READ"), Message(q, "CLOSE"))
       => Before(queue, Message(q, "READ"), Message(q, "CLOSE"))'

\* The links of q are as they were.
SameLinks(q) == m_files'[q] = m_files[q] /\ (Wired(q)' <=> Wired(q))

LEMMA ProtoUnaffected ==
  ASSUME NEW q \in Protos, ProtoOK(q), MessageOK(q), Same(q), SameLinks(q),
         Wired(q) => SameMessages(q)
  PROVE  ProtoOK(q)' /\ MessageOK(q)'
<1>1. ProtoOK(q)'
  BY DEF ProtoOK, Same, SameLinks
<1>2. MessageOK(q)'
  BY DEF MessageOK, Same, SameLinks, SameMessages, Events
<1> QED BY <1>1, <1>2

\* A stream no handler serves, before and after the step, or the handler does not run.
LEMMA StreamUnaffected ==
  ASSUME NEW s \in Streams, NEW p, p = Source(m_protop[s]),
         StreamOK(s), Same(p), SameLinks(p), SameMessages(p),
         m_protop'[s] = m_protop[s], inner'[m_protop[s]] = inner[m_protop[s]],
         created'[s] = created[s], m_offset'[s] = m_offset[s],
         s \in notReady' <=> s \in notReady,
         UNCHANGED handlerVars \/ (~Serving(s) /\ ~Serving(s)')
  PROVE  StreamOK(s)'
<1> SUFFICES ASSUME m_protop[s] # Null PROVE StreamOK(s)'
  BY DEF StreamOK
<1>1. Source(m_protop[s])' = p
  BY DEF Source
<1>2. OpenOK(s, p) /\ HandlerOK(s, p) /\ LastOK(s, p) /\ DeliveredOK(s, p)
  BY DEF StreamOK
<1> USE DEF handlerVars
<1>3. OpenOK(s, p)'
  BY <1>2 DEF OpenOK, Same, Serving
<1>4. HandlerOK(s, p)'
  BY <1>2 DEF HandlerOK, Same, Serving, Connected
<1>5. Ended(p)' => Ended(p)
  BY DEF Ended, Same, SameMessages, Events
<1>6. ~Serving(s) /\ Waits(s) => Waits(s)'
  <2>1. Connected(p)' <=> Connected(p)
    BY DEF Connected, Same
  <2>2. Fresh(s) => Fresh(s)'
    BY <1>1, <2>1 DEF Fresh
  <2>3. Overrun(p) => Overrun(p)'
    BY DEF Overrun, Same
  <2>4. ~Serving(s) /\ Fresh(s) => m_protop[s] = p
    BY <1>2 DEF Fresh, OpenOK, Source
  <2>5. resp'[p] = resp[p]
    BY DEF Same
  <2> QED BY <1>1, <2>2, <2>3, <2>4, <2>5 DEF Waits
<1>7. LastOK(s, p)'
  BY <1>2, <1>5, <1>6 DEF LastOK, Same, Serving
<1>8. DeliveredOK(s, p)'
  BY <1>2 DEF DeliveredOK, Same, Connected, Position, Leaving, Handed, Serving
<1> QED BY <1>1, <1>3, <1>4, <1>7, <1>8 DEF StreamOK

\* A step that works on the stream s and its proto_stream p only, and links nothing anew.
LEMMA OneStep ==
  ASSUME IndInv, NEW s \in Streams, NEW p, m_protop[s] # Null, p = Source(m_protop[s]),
         UNCHANGED Links,
         \A q \in Protos \ {p} : Same(q) /\ (Wired(q) => SameMessages(q)),
         \A r \in Streams \ {s} : /\ created'[r] = created[r] /\ m_offset'[r] = m_offset[r]
                                  /\ r \in notReady' <=> r \in notReady
                                  /\ UNCHANGED handlerVars \/ (~Serving(r) /\ ~Serving(r)'),
         TypeOK', QueueOK', FrameOK', ProtoOK(p)', MessageOK(p)',
         OpenOK(s, p)', HandlerOK(s, p)', LastOK(s, p)', DeliveredOK(s, p)'
  PROVE  IndInv'
<1>1. TypeOK /\ LinksOK
  BY DEF IndInv
<1>2. \A q : (Wired(q)' <=> Wired(q)) /\ Source(q)' = Source(q)
  BY DEF Links, Wired, Live, Source
<1>3. LinksOK'
  BY <1>1, <1>2 DEF LinksOK, Links, Live
<1>4. ASSUME NEW q \in Protos PROVE ProtoOK(q)' /\ MessageOK(q)'
  <2>1. CASE q = p
    BY <2>1
  <2>2. CASE q # p
    <3>1. Same(q) /\ SameLinks(q) /\ (Wired(q) => SameMessages(q)) /\ ProtoOK(q) /\ MessageOK(q)
      BY <1>2, <2>2 DEF Links, SameLinks, IndInv
    <3> QED BY <3>1, ProtoUnaffected
  <2> QED BY <2>1, <2>2
<1>5. ASSUME NEW r \in Streams PROVE StreamOK(r)'
  <2>1. CASE r = s
    <3>1. Source(m_protop[s])' = p
      BY <1>2 DEF Links, Source
    <3> QED BY <2>1, <3>1 DEF StreamOK
  <2>2. CASE r # s /\ m_protop[r] # Null
    <3> DEFINE q == Source(m_protop[r])
    <3>1. q \in Protos /\ Wired(q) /\ m_waitp[q] = r /\ m_waitp[p] = s
      BY <1>1, <2>2, OfStream
    <3>2. q # p
      BY <2>2, <3>1
    <3>3. Same(q) /\ SameLinks(q) /\ SameMessages(q) /\ StreamOK(r)
      BY <1>2, <3>1, <3>2 DEF Links, SameLinks, IndInv
    <3>4. /\ m_protop'[r] = m_protop[r] /\ inner'[m_protop[r]] = inner[m_protop[r]]
          /\ created'[r] = created[r] /\ m_offset'[r] = m_offset[r]
          /\ r \in notReady' <=> r \in notReady
          /\ UNCHANGED handlerVars \/ (~Serving(r) /\ ~Serving(r)')
      BY <2>2 DEF Links
    <3> QED BY <3>3, <3>4, StreamUnaffected
  <2>3. CASE m_protop[r] = Null
    BY <2>3 DEF Links, StreamOK
  <2> QED BY <2>1, <2>2, <2>3
<1> QED BY <1>3, <1>4, <1>5 DEF IndInv

-----------------------------------------------------------------------------
(* What a step does to the queue.                                          *)

LEMMA QueueUnchanged ==
  ASSUME NEW q \in Protos, UNCHANGED <<queue, m_files>>
  PROVE  SameMessages(q)
BY DEF SameMessages, Message

\* p posts a message.
LEMMA PostedMessages ==
  ASSUME TypeOK, NEW p \in Protos, NEW ev \in Events, m_files[p] \in Fds, UNCHANGED m_files,
         queue' = Append(queue, Message(p, ev))
  PROVE  /\ \A f \in Fds, e \in Events :
              Has(queue', Msg(f, e)) <=> Has(queue, Msg(f, e)) \/ (f = m_files[p] /\ e = ev)
         /\ \A q \in Protos : m_files[q] # m_files[p] => SameMessages(q)
<1>1. queue \in Seq(Messages) /\ Message(p, ev) \in Messages
  BY DEF TypeOK, Messages, Message
<1>2. \A m : Has(queue', m) <=> Has(queue, m) \/ Message(p, ev) = m
  BY <1>1, AppendMessage
<1>3. ASSUME NEW f \in Fds, NEW e \in Events
      PROVE  Has(queue', Msg(f, e)) <=> Has(queue, Msg(f, e)) \/ (f = m_files[p] /\ e = ev)
  BY <1>2 DEF Msg, Message
<1>4. ASSUME NEW q \in Protos, m_files[q] # m_files[p] PROVE SameMessages(q)
  <2>1. \A e : Message(p, ev) # Message(q, e) /\ Message(q, e)' = Message(q, e)
    BY <1>4 DEF Message
  <2>2. Before(queue, Message(q, "READ"), Message(q, "CLOSE"))
          => Before(queue', Message(q, "READ"), Message(q, "CLOSE"))
    BY <1>1, <2>1, AppendBefore
  <2>3. \A e : Has(queue', Message(q, e)) <=> Has(queue, Message(q, e))
    BY <1>2, <2>1
  <2> QED BY <2>1, <2>2, <2>3 DEF SameMessages
<1> QED BY <1>3, <1>4

\* The first message is taken.
LEMMA TakenMessage ==
  ASSUME TypeOK, queue # <<>>, UNCHANGED m_files, queue' = Tail(queue)
  PROVE  /\ \A m : Has(queue, m) <=> Head(queue) = m \/ Has(queue', m)
         /\ \A q \in Protos : m_files[q] # Head(queue).fd => SameMessages(q)
         /\ Head(queue) \in Messages
<1>1. queue \in Seq(Messages)
  BY DEF TypeOK, Messages
<1>2. \A m : Has(queue, m) <=> Head(queue) = m \/ Has(queue', m)
  BY <1>1, TailMessage
<1>3. ASSUME NEW q \in Protos, m_files[q] # Head(queue).fd PROVE SameMessages(q)
  <2>1. \A e : Head(queue) # Message(q, e) /\ Message(q, e)' = Message(q, e)
    BY <1>3 DEF Message
  <2>2. Before(queue, Message(q, "READ"), Message(q, "CLOSE"))
          => Before(queue', Message(q, "READ"), Message(q, "CLOSE"))
    BY <1>1, <2>1, TailBefore
  <2>3. \A e : Has(queue', Message(q, e)) <=> Has(queue, Message(q, e))
    BY <1>2, <2>1
  <2> QED BY <2>1, <2>2, <2>3 DEF SameMessages
<1>4. Head(queue) \in Messages
  BY <1>1
<1> QED BY <1>2, <1>3, <1>4

-----------------------------------------------------------------------------
(* The initial state, and the network.                                     *)

LEMMA InitIndInv == Init => IndInv
<1> SUFFICES ASSUME Init PROVE IndInv
  OBVIOUS
<1> USE NullAssumption, SizeAssumption DEF Init
<1>1. TypeOK
  <2>1. queue \in Seq([fd : Fds, ev : Events, stale : BOOLEAN])
    OBVIOUS
  <2>2. /\ frame \in [s : Streams \cup {Null}, pos : Nat, len : Nat]
        /\ m_chunk \in [Protos -> [off : Nat, len : Nat]]
    BY DEF NoFrame, NoChunk
  <2> QED BY <2>1, <2>2 DEF TypeOK, PluginTurn, Broken, Events
<1>2. \A p \in Protos : ~Live(p) /\ ~Wired(p)
  BY DEF Live, Wired
<1>3. LinksOK
  BY <1>2 DEF LinksOK
<1>4. QueueOK
  <2>1. \A m : ~Has(queue, m)
    BY DEF Has
  <2> QED BY <2>1 DEF QueueOK
<1>5. ASSUME NEW p \in Protos PROVE ProtoOK(p) /\ MessageOK(p)
  <2>1. m_chunk[p] = [off |-> 0, len |-> ChunkLen] /\ rd[p] = 0 /\ rx[p] = 0
        /\ m_flags[p] = {} /\ resp[p] = Null /\ conn[p] = "none"
    BY DEF NoChunk
  <2>2. ProtoOK(p)
    BY <1>2, <2>1 DEF ProtoOK
  <2> QED BY <1>2, <2>2 DEF MessageOK
<1>6. \A s \in Streams : StreamOK(s)
  BY DEF StreamOK
<1>7. FrameOK
  BY DEF FrameOK
<1> QED BY <1>1, <1>3, <1>4, <1>5, <1>6, <1>7 DEF IndInv

\* What the network changes of a connection: it never goes back, and an answer is settled once.
LEMMA NetworkChanges ==
  ASSUME IndInv, Network
  PROVE  \E p \in Protos :
           /\ Wired(p)
           /\ UNCHANGED <<sockVars, protoVars, streamVars, handlerVars, rd>>
           /\ \A q \in Protos \ {p} : /\ conn'[q] = conn[q] /\ rx'[q] = rx[q] /\ resp'[q] = resp[q]
                                      /\ armed'[q] = armed[q]
           /\ conn' \in [Protos -> {"none", "connecting", "refused", "open", "eof", "rst"}]
           /\ rx' \in [Protos -> Nat] /\ resp' \in [Protos -> Responses \cup {Null}]
           /\ armed' \in [Protos -> SUBSET Events]
           /\ rx[p] <= rx'[p] /\ (conn[p] # "open" => rx'[p] = rx[p])
           /\ rx'[p] > 0 => resp'[p] # Null
           /\ resp[p] # Null => resp'[p] = resp[p]
           /\ conn[p] = "rst" => conn'[p] = "rst"
           /\ conn[p] \in {"eof", "rst"} => conn'[p] \in {"eof", "rst"}
           /\ conn[p] \in Met => conn'[p] \in Met
           /\ conn'[p] # "none" /\ (resp'[p] # Null => conn'[p] \in Met)
           /\ \/ queue' = queue /\ armed' = armed /\ (rx'[p] > rx[p] => "READ" \notin armed[p])
              \/ \E ev \in Events :
                   /\ queue' = Append(queue, Message(p, ev)) /\ armed'[p] = armed[p] \ {ev}
                   /\ conn'[p] \in Met
                   /\ ev = "CLOSE" => conn'[p] \in {"eof", "rst"} /\ "CLOSE" \in armed[p]
                   /\ rx'[p] > rx[p] => ev = "READ" /\ conn[p] = "open"
           /\ rx'[p] > rx[p] => conn[p] = "open"
<1>1. PICK p \in Protos : \/ Accept(p) \/ Refuse(p) \/ PostWrite(p)
                          \/ \E r \in Responses : Answer(p, r)
                          \/ Arrive(p) \/ \E how \in {"eof", "rst"} : Close(p, how) \/ PostClose(p)
  BY DEF Network
<1>2. /\ UNCHANGED <<sockVars, protoVars, streamVars, handlerVars, rd>> /\ Live(p)
      /\ conn[p] # "none"
  BY <1>1 DEF Accept, Refuse, PostWrite, Answer, Arrive, Close, PostClose, NetworkStep
<1>3. /\ Wired(p) /\ rx[p] \in Nat /\ (rx[p] > 0 => resp[p] # Null)
      /\ resp[p] # Null => conn[p] \in Met
  BY <1>2 DEF IndInv, ProtoOK, TypeOK
<1>4. /\ conn \in [Protos -> {"none", "connecting", "refused", "open", "eof", "rst"}]
      /\ rx \in [Protos -> Nat] /\ resp \in [Protos -> Responses \cup {Null}]
      /\ armed \in [Protos -> SUBSET Events]
  BY DEF IndInv, TypeOK
<1>5. rx[p] + 1 \in Nat /\ rx[p] + 1 > rx[p] /\ rx[p] <= rx[p] + 1 /\ rx[p] <= rx[p] /\ ~(rx[p] > rx[p])
      /\ 0 <= rx[p]
  BY <1>3
<1>6. CASE Accept(p)
  <2>1. /\ conn[p] = "connecting" /\ conn' = [conn EXCEPT ![p] = "open"]
        /\ queue' = Append(queue, Message(p, "WRITE"))
        /\ armed' = [armed EXCEPT ![p] = @ \ {"WRITE"}] /\ UNCHANGED <<rx, resp>>
    BY <1>6 DEF Accept, Post
  <2> WITNESS p \in Protos
  <2>2. "WRITE" \in Events
    BY DEF Events
  <2> QED BY <1>2, <1>3, <1>4, <1>5, <2>1, <2>2 DEF Met
<1>7. CASE Refuse(p)
  <2>1. /\ conn[p] = "connecting" /\ conn' = [conn EXCEPT ![p] = "refused"]
        /\ UNCHANGED <<queue, armed, rx, resp>>
    BY <1>7 DEF Refuse, winVars
  <2> WITNESS p \in Protos
  <2> QED BY <1>2, <1>3, <1>4, <1>5, <2>1 DEF Met
<1>8. CASE PostWrite(p)
  <2>1. /\ conn[p] \in Met /\ UNCHANGED <<conn, rx, resp>>
        /\ queue' = Append(queue, Message(p, "WRITE"))
        /\ armed' = [armed EXCEPT ![p] = @ \ {"WRITE"}]
    BY <1>8 DEF PostWrite, Post, Met
  <2> WITNESS p \in Protos
  <2>2. "WRITE" \in Events
    BY DEF Events
  <2> QED BY <1>2, <1>3, <1>4, <1>5, <2>1, <2>2
<1>9. CASE \E r \in Responses : Answer(p, r)
  <2>1. PICK r \in Responses : Answer(p, r)
    BY <1>9
  <2>2. /\ conn[p] = "open" /\ resp[p] = Null /\ resp' = [resp EXCEPT ![p] = r]
        /\ UNCHANGED <<queue, armed, conn, rx>>
    BY <2>1 DEF Answer, winVars
  <2>3. r # Null
    BY ResponseAssumption
  <2> WITNESS p \in Protos
  <2> QED BY <1>2, <1>3, <1>4, <1>5, <2>2, <2>3 DEF Met
<1>10. CASE Arrive(p)
  <2>1. /\ conn[p] = "open" /\ resp[p] # Null /\ rx' = [rx EXCEPT ![p] = @ + 1]
        /\ UNCHANGED <<conn, resp>>
        /\ \/ "READ" \notin armed[p] /\ UNCHANGED <<queue, armed>>
           \/ /\ queue' = Append(queue, Message(p, "READ"))
              /\ armed' = [armed EXCEPT ![p] = @ \ {"READ"}]
    BY <1>10 DEF Arrive, Post, winVars
  <2> WITNESS p \in Protos
  <2>2. "READ" \in Events
    BY DEF Events
  <2> QED BY <1>2, <1>3, <1>4, <1>5, <2>1, <2>2 DEF Met
<1>11. CASE \E how \in {"eof", "rst"} : Close(p, how)
  <2>1. PICK how \in {"eof", "rst"} : Close(p, how)
    BY <1>11
  <2>2. /\ conn[p] \in {"open", "eof"} /\ (conn[p] = "eof" => how = "rst")
        /\ conn' = [conn EXCEPT ![p] = how] /\ UNCHANGED <<queue, armed, rx, resp>>
    BY <2>1 DEF Close, winVars
  <2> WITNESS p \in Protos
  <2> QED BY <1>2, <1>3, <1>4, <1>5, <2>2 DEF Met
<1>12. CASE PostClose(p)
  <2>1. /\ conn[p] \in {"eof", "rst"} /\ "CLOSE" \in armed[p] /\ UNCHANGED <<conn, rx, resp>>
        /\ queue' = Append(queue, Message(p, "CLOSE"))
        /\ armed' = [armed EXCEPT ![p] = @ \ {"CLOSE"}]
    BY <1>12 DEF PostClose, Post
  <2> WITNESS p \in Protos
  <2>2. "CLOSE" \in Events
    BY DEF Events
  <2> QED BY <1>2, <1>3, <1>4, <1>5, <2>1, <2>2 DEF Met
<1> QED BY <1>1, <1>6, <1>7, <1>8, <1>9, <1>10, <1>11, <1>12

\* The same with the messages of the queue: none is taken, one of p may be posted.
LEMMA NetworkStepInv == IndInv /\ Network => IndInv'
<1> SUFFICES ASSUME IndInv, Network PROVE IndInv'
  OBVIOUS
<1> USE DEF sockVars, protoVars, streamVars, handlerVars
<1>1. PICK p \in Protos :
        /\ Wired(p)
        /\ UNCHANGED <<sockVars, protoVars, streamVars, handlerVars, rd>>
        /\ \A q \in Protos \ {p} : /\ conn'[q] = conn[q] /\ rx'[q] = rx[q] /\ resp'[q] = resp[q]
                                   /\ armed'[q] = armed[q]
        /\ conn' \in [Protos -> {"none", "connecting", "refused", "open", "eof", "rst"}]
        /\ rx' \in [Protos -> Nat] /\ resp' \in [Protos -> Responses \cup {Null}]
        /\ armed' \in [Protos -> SUBSET Events]
        /\ rx[p] <= rx'[p] /\ (conn[p] # "open" => rx'[p] = rx[p])
        /\ rx'[p] > 0 => resp'[p] # Null
        /\ resp[p] # Null => resp'[p] = resp[p]
        /\ conn[p] = "rst" => conn'[p] = "rst"
        /\ conn[p] \in {"eof", "rst"} => conn'[p] \in {"eof", "rst"}
        /\ conn[p] \in Met => conn'[p] \in Met
        /\ conn'[p] # "none" /\ (resp'[p] # Null => conn'[p] \in Met)
        /\ \/ queue' = queue /\ armed' = armed /\ (rx'[p] > rx[p] => "READ" \notin armed[p])
           \/ \E ev \in Events :
                /\ queue' = Append(queue, Message(p, ev)) /\ armed'[p] = armed[p] \ {ev}
                /\ conn'[p] \in Met
                /\ ev = "CLOSE" => conn'[p] \in {"eof", "rst"} /\ "CLOSE" \in armed[p]
                /\ rx'[p] > rx[p] => ev = "READ" /\ conn[p] = "open"
        /\ rx'[p] > rx[p] => conn[p] = "open"
  BY NetworkChanges
<1>2. TypeOK /\ LinksOK /\ QueueOK /\ FrameOK /\ ProtoOK(p) /\ MessageOK(p)
  BY DEF IndInv
<1>0. m_files[p] \in Fds /\ stream_list[m_files[p]] = p
  BY <1>1, <1>2, OfProto
<1>3. PICK s \in Streams : m_protop[s] # Null /\ p = Source(m_protop[s])
  BY <1>1, <1>2, OfProto
<1>4. OpenOK(s, p) /\ HandlerOK(s, p) /\ LastOK(s, p) /\ DeliveredOK(s, p)
  BY <1>3 DEF IndInv, StreamOK
<1>5. rd[p] \in Nat /\ rx[p] \in Nat /\ rx'[p] \in Nat /\ m_files' = m_files
  BY <1>1, <1>2 DEF TypeOK
<1>6. ASSUME NEW ev \in Events, queue' = Append(queue, Message(p, ev))
      PROVE  /\ \A f \in Fds, e \in Events :
                  Has(queue', Msg(f, e)) <=> Has(queue, Msg(f, e)) \/ (f = m_files[p] /\ e = ev)
             /\ \A q \in Protos : m_files[q] # m_files[p] => SameMessages(q)
  BY <1>0, <1>2, <1>5, <1>6, PostedMessages
<1>7. \A q \in Protos \ {p} : Wired(q) => SameMessages(q)
  <2>1. \A q \in Protos \ {p} : Wired(q) => m_files[q] # m_files[p]
    BY <1>1, <1>2, HandlesDiffer
  <2>2. CASE queue' = queue
    BY <1>5, <2>2, QueueUnchanged
  <2> QED BY <1>1, <1>6, <2>1, <2>2
<1>8. \A q \in Protos \ {p} : Same(q)
  BY <1>1 DEF Same
<1>9. TypeOK'
  <2>1. queue' \in Seq([fd : Fds, ev : Events, stale : BOOLEAN])
    <3>1. \A e \in Events : Message(p, e) \in Messages
      BY <1>0 DEF Message, Messages
    <3>2. queue \in Seq(Messages)
      BY <1>2 DEF TypeOK, Messages
    <3>3. ASSUME NEW e \in Events, queue' = Append(queue, Message(p, e)) PROVE queue' \in Seq(Messages)
      BY <3>1, <3>2, <3>3
    <3>4. queue' \in Seq(Messages)
      BY <1>1, <3>2, <3>3
    <3> QED BY <3>4 DEF Messages
  <2> QED BY <1>1, <1>2, <2>1 DEF TypeOK
<1>10. QueueOK'
  <2>1. CASE queue' = queue
    BY <1>1, <1>2, <2>1 DEF QueueOK
  <2>2. ASSUME NEW ev \in Events, queue' = Append(queue, Message(p, ev)) PROVE QueueOK'
    <3>1. p # Null
      BY NullAssumption
    <3> QED BY <1>0, <1>1, <1>2, <1>6, <2>2, <3>1 DEF QueueOK
  <2> QED BY <1>1, <2>1, <2>2
<1>11. FrameOK'
  BY <1>1, <1>2 DEF FrameOK
<1>12. Wired(p)' /\ Message(p, "READ")' = Msg(m_files[p], "READ")
       /\ \A ev : Message(p, ev)' = Msg(m_files[p], ev) /\ Message(p, ev) = Msg(m_files[p], ev)
  BY <1>1, <1>5 DEF Wired, Live, Message, Msg
<1>13. ProtoOK(p)'
  BY <1>1, <1>2, <1>5, <1>12 DEF ProtoOK
<1> DEFINE RM == Msg(m_files[p], "READ")
           CM == Msg(m_files[p], "CLOSE")
<1>14. /\ \A ev \in Events : Has(queue, Msg(m_files[p], ev)) => conn[p] \in Met
       /\ Has(queue, CM) => "CLOSE" \notin armed[p]
       /\ "CLOSE" \notin armed[p] => conn[p] \in {"eof", "rst"}
       /\ "CREATED" \notin m_flags[p] => "CLOSE" \in armed[p] \/ Has(queue, CM)
       /\ "CREATED" \notin m_flags[p] /\ m_chunk[p].off < ChunkLen =>
            /\ rx[p] > rd[p] => "READ" \notin armed[p]
            /\ "READ" \notin armed[p] => Has(queue, RM)
            /\ rx[p] > rd[p] => Before(queue, RM, CM)
  BY <1>1, <1>2, <1>12 DEF MessageOK, Message
<1>15. "READ" \in Events /\ "CLOSE" \in Events /\ RM # CM
  BY DEF Events, Msg
<1>16. ~Has(queue, CM) => Before(queue, RM, CM)
  BY DEF Has, Before
<1>17. ASSUME NEW ev \in Events, queue' = Append(queue, Message(p, ev)), Before(queue, RM, CM),
              ev = "CLOSE" => Has(queue, RM)
       PROVE  Before(queue', RM, CM)
  <2>1. queue \in Seq(Messages) /\ Message(p, ev) \in Messages
    BY <1>0, <1>2 DEF TypeOK, Messages, Message
  <2>2. Message(p, ev) = CM => ev = "CLOSE"
    BY DEF Message, Msg
  <2> HIDE DEF RM, CM
  <2> QED BY <1>17, <2>1, <2>2, AppendBefore
<1>18. Ended(p)' => Ended(p)
  <2> USE <1>12, <1>14, <1>15 DEF Ended
  <2>1. CASE queue' = queue /\ armed' = armed
    BY <2>1
  <2>2. ASSUME NEW ev \in Events, queue' = Append(queue, Message(p, ev)),
               armed'[p] = armed[p] \ {ev}
        PROVE  Ended(p)' => Ended(p)
    BY <1>0, <1>6, <2>2
  <2> QED BY <1>1, <2>1, <2>2
<1>19. MessageOK(p)'
  <2> HIDE DEF RM, CM
  <2>1. /\ \A ev \in Events : Has(queue', Msg(m_files[p], ev)) => conn'[p] \in Met
        /\ Has(queue', CM) => "CLOSE" \notin armed'[p]
        /\ "CLOSE" \notin armed'[p] => conn'[p] \in {"eof", "rst"}
    <3>1. CASE queue' = queue /\ armed' = armed
      BY <1>1, <1>14, <3>1
    <3>2. ASSUME NEW ev \in Events, queue' = Append(queue, Message(p, ev)),
                 armed'[p] = armed[p] \ {ev}, conn'[p] \in Met,
                 ev = "CLOSE" => conn'[p] \in {"eof", "rst"}
          PROVE  /\ \A e \in Events : Has(queue', Msg(m_files[p], e)) => conn'[p] \in Met
                 /\ Has(queue', CM) => "CLOSE" \notin armed'[p]
                 /\ "CLOSE" \notin armed'[p] => conn'[p] \in {"eof", "rst"}
      <4>1. Has(queue', CM) => Has(queue, CM) \/ ev = "CLOSE"
        BY <1>0, <1>6, <1>15, <3>2 DEF CM
      <4> QED BY <1>1, <1>14, <3>2, <4>1
    <3> QED BY <1>1, <3>1, <3>2
  <2>2. "CREATED" \notin m_flags[p] => "CLOSE" \in armed'[p] \/ Has(queue', CM)
    BY <1>14, <1>15, <1>18, <1>12 DEF Ended, RM, CM
  <2>3. ASSUME "CREATED" \notin m_flags[p], m_chunk[p].off < ChunkLen
        PROVE  /\ rx'[p] > rd[p] => "READ" \notin armed'[p]
               /\ "READ" \notin armed'[p] => Has(queue', RM)
               /\ rx'[p] > rd[p] => Before(queue', RM, CM)
    <3>1. CASE queue' = queue /\ armed' = armed /\ (rx'[p] > rx[p] => "READ" \notin armed[p])
      <4>1. rx'[p] > rx[p] => ~Has(queue, CM)
        BY <1>1, <1>14
      <4>2. rx'[p] = rx[p] \/ rx'[p] > rx[p]
        BY <1>1, <1>5
      <4> QED BY <1>14, <1>16, <2>3, <3>1, <4>1, <4>2
    <3>2. ASSUME NEW ev \in Events, queue' = Append(queue, Message(p, ev)),
                 armed'[p] = armed[p] \ {ev},
                 ev = "CLOSE" => "CLOSE" \in armed[p],
                 rx'[p] > rx[p] => ev = "READ" /\ conn[p] = "open"
          PROVE  /\ rx'[p] > rd[p] => "READ" \notin armed'[p]
                 /\ "READ" \notin armed'[p] => Has(queue', RM)
                 /\ rx'[p] > rd[p] => Before(queue', RM, CM)
      <4>1. Has(queue', RM) <=> Has(queue, RM) \/ ev = "READ"
        BY <1>0, <1>6, <1>15, <3>2 DEF RM
      <4>2. rx'[p] = rx[p] \/ rx'[p] > rx[p]
        BY <1>1, <1>5
      <4>3. rx'[p] > rx[p] => ~Has(queue, CM)
        BY <1>1, <1>14
      <4>4. rx'[p] > rd[p] => "READ" \notin armed'[p]
        BY <1>14, <2>3, <3>2, <4>2
      <4>5. "READ" \notin armed'[p] => Has(queue', RM)
        BY <1>14, <2>3, <3>2, <4>1
      <4>6. ASSUME rx'[p] > rd[p] PROVE Before(queue', RM, CM)
        <5>1. Before(queue, RM, CM)
          BY <1>14, <1>16, <2>3, <4>2, <4>3, <4>6
        <5>2. ev = "CLOSE" => Has(queue, RM)
          BY <1>14, <2>3, <3>2, <4>2, <4>6
        <5> QED BY <1>17, <3>2, <5>1, <5>2
      <4> QED BY <4>4, <4>5, <4>6
    <3> QED BY <1>1, <3>1, <3>2
  <2> QED BY <1>1, <1>12, <2>1, <2>2, <2>3 DEF MessageOK, Message, RM, CM
<1>20. OpenOK(s, p)'
  BY <1>1, <1>4 DEF OpenOK, Serving
<1>21. HandlerOK(s, p)'
  BY <1>1, <1>2, <1>4, <1>5 DEF HandlerOK, Serving, Connected, OpenOK, DeliveredOK
<1>22. ~Serving(s) /\ Waits(s) => Waits(s)'
  <2>1. ~Serving(s) /\ Fresh(s) => m_protop[s] = p /\ resp'[p] = resp[p]
    BY <1>1, <1>3, <1>4 DEF Fresh, OpenOK, DeliveredOK, Source
  <2> QED BY <1>1, <2>1 DEF Waits, Fresh, Connected, Overrun, Source
<1>23. LastOK(s, p)'
  BY <1>1, <1>4, <1>18, <1>22 DEF LastOK, Serving
<1>24. DeliveredOK(s, p)'
  BY <1>1, <1>4 DEF DeliveredOK, Connected, Position, Leaving, Handed, Serving
<1>25. UNCHANGED Links
  BY <1>1 DEF Links
<1>26. \A r \in Streams \ {s} : /\ created'[r] = created[r] /\ m_offset'[r] = m_offset[r]
                                /\ r \in notReady' <=> r \in notReady
                                /\ UNCHANGED handlerVars \/ (~Serving(r) /\ ~Serving(r)')
  BY <1>1
<1> HIDE DEF RM, CM
<1> QED BY <1>7, <1>8, <1>9, <1>10, <1>11, <1>13, <1>19, <1>20, <1>21, <1>23, <1>24, <1>25,
           <1>3, <1>26, OneStep

-----------------------------------------------------------------------------
(* Steps of a handler that only move it on.                                *)

\* The stream a handler serves, and what is known of it.
LEMMA Served ==
  ASSUME IndInv, pc # "idle"
  PROVE  LET s == frame.s
             p == Source(m_protop[s])
         IN /\ s \in Streams /\ m_protop[s] # Null /\ Serving(s)
            /\ p \in Protos /\ Wired(p) /\ ProtoOK(p) /\ MessageOK(p)
            /\ m_files[p] \in Fds /\ stream_list[m_files[p]] = p
            /\ OpenOK(s, p) /\ HandlerOK(s, p) /\ LastOK(s, p) /\ DeliveredOK(s, p)
<1>1. frame.s \in Streams /\ m_protop[frame.s] # Null /\ TypeOK /\ LinksOK
  BY DEF IndInv, FrameOK
<1> QED BY <1>1, OfStream DEF IndInv, StreamOK, Serving

\* A stream whose proto_stream no step touched is in order if the handler's part is.
LEMMA InnerStep ==
  ASSUME IndInv, pc # "idle", NEW s \in Streams, s = frame.s, NEW p, p = Source(m_protop[s]),
         UNCHANGED <<sockVars, protoVars, winVars, netVars, m_protop>>,
         \A r \in Streams \ {s} : /\ created'[r] = created[r] /\ m_offset'[r] = m_offset[r]
                                  /\ r \in notReady' <=> r \in notReady,
         pc' = "idle" \/ frame'.s = s,
         TypeOK', OpenOK(s, p)', HandlerOK(s, p)', LastOK(s, p)', DeliveredOK(s, p)'
  PROVE  IndInv'
<1> USE DEF sockVars, protoVars, winVars, netVars
<1>1. m_protop[s] # Null /\ p \in Protos /\ ProtoOK(p) /\ MessageOK(p) /\ QueueOK
  BY Served DEF IndInv
<1>2. UNCHANGED Links
  BY DEF Links
<1>3. \A q \in Protos : Same(q) /\ SameMessages(q) /\ SameLinks(q)
  BY QueueUnchanged DEF Same, SameLinks, Wired, Live
<1>4. ProtoOK(p)' /\ MessageOK(p)'
  BY <1>1, <1>3, ProtoUnaffected
<1>5. QueueOK'
  BY <1>1 DEF QueueOK
<1>6. FrameOK'
  BY <1>1 DEF FrameOK
<1>7. \A r \in Streams \ {s} : /\ created'[r] = created[r] /\ m_offset'[r] = m_offset[r]
                               /\ r \in notReady' <=> r \in notReady
                               /\ UNCHANGED handlerVars \/ (~Serving(r) /\ ~Serving(r)')
  BY DEF Serving
<1> QED BY <1>1, <1>2, <1>3, <1>4, <1>5, <1>6, <1>7, OneStep

\* The handler returns: a stream that keeps a connection that is over waits.
LEMMA KeptOpen ==
  ASSUME NEW p \in Protos, MessageOK(p), Wired(p), conn[p] = "open"
  PROVE  ~Ended(p)
BY DEF MessageOK, Ended

LEMMA EndTypes ==
  ASSUME TypeOK, EndEvent
  PROVE  /\ pc' \in PluginTurn \cup {"onread"}
         /\ frame' \in [s : Streams \cup {Null}, pos : Nat, len : Nat]
         /\ \A s : ~Serving(s)'
BY DEF EndEvent, NoFrame, PluginTurn, Serving

LEMMA RedirectFailsInv == ASSUME IndInv, RedirectFails PROVE IndInv'
<1>1. PICK s \in Streams, p \in Protos :
        /\ s = frame.s /\ p = Source(m_protop[s]) /\ m_protop[s] # Null /\ Serving(s)
        /\ OpenOK(s, p) /\ LastOK(s, p) /\ DeliveredOK(s, p)
  BY Served DEF RedirectFails
<1>2. /\ pc = "onread" /\ Connected(p) /\ ~created[s] /\ resp[m_protop[s]].redirect /\ EndEvent
      /\ UNCHANGED <<sockVars, protoVars, streamVars, winVars, netVars>>
  BY <1>1 DEF RedirectFails, Fresh
<1>3. TypeOK /\ EndEvent
  BY <1>2 DEF IndInv
<1>4. pc' = "idle" /\ TypeOK' /\ \A r : ~Serving(r)'
  BY <1>2, <1>3, EndTypes DEF TypeOK, EndEvent, sockVars, protoVars, streamVars, winVars, netVars
<1> USE DEF sockVars, protoVars, streamVars, winVars, netVars
<1>5. OpenOK(s, p)'
  BY <1>1, <1>2, <1>4 DEF OpenOK
<1>6. HandlerOK(s, p)'
  BY <1>4 DEF HandlerOK
<1>7. LastOK(s, p)'
  <2>1. Waits(s)'
    BY <1>1, <1>2 DEF Waits, Fresh, Connected, Source
  <2>2. "ERROR" \notin m_flags[p]
    BY <1>2 DEF Connected, Broken
  <2> QED BY <1>2, <2>1, <2>2 DEF LastOK
<1>8. DeliveredOK(s, p)'
  BY <1>1, <1>2, <1>4 DEF DeliveredOK, Connected, Position, Leaving, Handed
<1> QED BY <1>1, <1>2, <1>4, <1>5, <1>6, <1>7, <1>8, InnerStep

LEMMA ProceedInv == ASSUME IndInv, Proceed PROVE IndInv'
<1>1. PICK s \in Streams, p \in Protos :
        /\ s = frame.s /\ p = Source(m_protop[s]) /\ m_protop[s] # Null /\ Serving(s)
        /\ OpenOK(s, p) /\ HandlerOK(s, p) /\ LastOK(s, p) /\ DeliveredOK(s, p)
  BY Served DEF Proceed
<1>2. /\ pc = "onread" /\ TypeOK
      /\ UNCHANGED <<sockVars, protoVars, streamVars, winVars, netVars>>
      /\ \/ Connected(p) /\ ~created[s] /\ pc' = "newstream" /\ frame' = frame
         \/ created[s] /\ pc' = "writeready" /\ frame' = frame
         \/ ~Connected(p) /\ ~created[s] /\ Return(Block(last_error[p]))
  BY <1>1 DEF Proceed, Fresh, IndInv
<1>3. frame.len = 0 /\ "CREATED" \in m_flags[p]
  BY <1>1, <1>2 DEF HandlerOK
<1>4. /\ pc' \in PluginTurn \cup {"onread"}
      /\ frame' \in [s : Streams \cup {Null}, pos : Nat, len : Nat]
      /\ pc' = "idle" \/ frame' = frame
  BY <1>2, EndTypes DEF Return, Teardown, PluginTurn, TypeOK, EndEvent
<1>5. pc' \in {"idle", "newstream", "writeready", "urlnotify"}
  BY <1>1, <1>2 DEF Return, Teardown, EndEvent
<1> USE DEF sockVars, protoVars, streamVars, winVars, netVars
<1>6. TypeOK'
  BY <1>2, <1>4 DEF TypeOK
<1>7. OpenOK(s, p)'
  BY <1>1, <1>2 DEF OpenOK
<1>8. HandlerOK(s, p)'
  BY <1>1, <1>2, <1>3, <1>4, <1>5 DEF HandlerOK, Connected, Return, Teardown, EndEvent
<1>9. LastOK(s, p)'
  <2>1. CASE pc' # "idle"
    <3>1. Serving(s)'
      BY <1>1, <1>4, <2>1 DEF Serving
    <3>2. ~created[s] /\ "ERROR" \in m_flags[p] =>
            m_chunk[p].off = ChunkLen \/ last_error[p] # "WSAEWOULDBLOCK"
      BY <1>1 DEF LastOK
    <3> QED BY <1>2, <3>1, <3>2 DEF LastOK
  <2>2. CASE pc' = "idle"
    <3>1. ~Connected(p) /\ ~created[s] /\ last_error[p] = "WSAEWOULDBLOCK"
      BY <1>1, <1>2, <2>2 DEF Return, Block, Teardown
    <3>2. "ERROR" \in m_flags[p]
      BY <1>2, <1>3, <3>1 DEF Connected, Broken, TypeOK
    <3>3. m_chunk[p].off = ChunkLen
      BY <1>1, <3>1, <3>2 DEF LastOK
    <3>4. Waits(s)'
      BY <1>1, <1>2, <3>2, <3>3 DEF Waits, Overrun, Source
    <3> QED BY <1>2, <3>3, <3>4 DEF LastOK
  <2> QED BY <2>1, <2>2
<1>10. DeliveredOK(s, p)'
  <2>1. ~Connected(p) \/ pc' \in {"newstream", "writeready"}
    BY <1>2
  <2>2. Handed(s) = 0 /\ ~Leaving(s)
    BY <1>2 DEF Handed, Leaving
  <2>3. pc' \in {"newstream", "writeready"} => Handed(s)' = 0
    BY DEF Handed
  <2> QED BY <1>1, <1>2, <2>1, <2>2, <2>3 DEF DeliveredOK, Connected, Position
<1> QED BY <1>1, <1>2, <1>4, <1>6, <1>7, <1>8, <1>9, <1>10, InnerStep

LEMMA NewStreamInv == ASSUME IndInv, NEW ok \in BOOLEAN, NewStream(ok) PROVE IndInv'
<1>1. PICK s \in Streams, p \in Protos :
        /\ s = frame.s /\ p = Source(m_protop[s]) /\ m_protop[s] # Null /\ Serving(s)
        /\ OpenOK(s, p) /\ HandlerOK(s, p) /\ LastOK(s, p) /\ DeliveredOK(s, p)
  BY Served DEF NewStream
<1>2. /\ pc = "newstream" /\ TypeOK /\ ~created[s] /\ Connected(p) /\ frame.len = 0
      /\ m_offset[s] = 0
      /\ UNCHANGED <<sockVars, protoVars, m_protop, notReady, winVars, netVars>>
      /\ m_offset' = [m_offset EXCEPT ![s] = 0] /\ created' = [created EXCEPT ![s] = ok]
  BY <1>1 DEF NewStream, IndInv, HandlerOK, OpenOK
<1>3. /\ frame' = frame
      /\ \/ ok /\ pc' = "writeready"
         \/ ~ok /\ pc' = "urlnotify"
  BY <1>1, <1>2 DEF NewStream, Return, Teardown
<1>4. created'[s] = ok /\ m_offset' = m_offset /\ Serving(s)' /\ pc' # "idle"
  BY <1>1, <1>2, <1>3 DEF TypeOK, Serving
<1> USE DEF sockVars, protoVars, streamVars, winVars, netVars
<1>5. TypeOK'
  BY <1>2, <1>3, <1>4 DEF TypeOK, PluginTurn
<1>6. "CREATED" \in m_flags[p] /\ "ERROR" \notin m_flags[p] /\ resp[p] # Null
  BY <1>1, <1>2 DEF Connected, Broken, DeliveredOK
<1>7. OpenOK(s, p)'
  BY <1>1, <1>2, <1>3, <1>4, <1>6 DEF OpenOK
<1>8. HandlerOK(s, p)'
  BY <1>2, <1>3, <1>4 DEF HandlerOK
<1>9. LastOK(s, p)'
  BY <1>2, <1>4, <1>6 DEF LastOK
<1>10. DeliveredOK(s, p)'
  BY <1>1, <1>2, <1>3, <1>4 DEF DeliveredOK, Connected, Position, Handed, Leaving
<1> QED BY <1>1, <1>2, <1>3, <1>4, <1>5, <1>7, <1>8, <1>9, <1>10, InnerStep

LEMMA WriteInv == ASSUME IndInv, NEW ok \in BOOLEAN, Write(ok) PROVE IndInv'
<1>1. PICK s \in Streams, p \in Protos :
        /\ s = frame.s /\ p = Source(m_protop[s]) /\ m_protop[s] # Null /\ Serving(s)
        /\ OpenOK(s, p) /\ HandlerOK(s, p) /\ LastOK(s, p) /\ DeliveredOK(s, p)
  BY Served DEF Write
<1>2. /\ pc = "write" /\ TypeOK /\ created[s] /\ Connected(p) /\ frame.len > 0 /\ frame.len \in Nat
      /\ m_offset[s] \in Nat /\ resp[p] \in Responses
      /\ UNCHANGED <<sockVars, protoVars, m_protop, created, notReady, winVars, netVars>>
      /\ \/ /\ m_offset' = [m_offset EXCEPT ![s] = @ + frame.len]
            /\ pc' = "writeready" /\ frame' = [frame EXCEPT !.pos = 0, !.len = 0]
         \/ m_offset' = m_offset /\ pc' = "destroystream" /\ frame' = frame
  BY <1>1 DEF Write, Return, Teardown, IndInv, HandlerOK, DeliveredOK, TypeOK
<1>3. resp[p].hdr \in Nat
  BY <1>2, ResponseAssumption DEF ResponseSpace
<1>4. frame'.s = s /\ pc' # "idle" /\ Serving(s)'
      /\ frame' \in [s : Streams \cup {Null}, pos : Nat, len : Nat]
  <2>1. frame \in [s : Streams \cup {Null}, pos : Nat, len : Nat]
    BY <1>2 DEF TypeOK
  <2>2. frame' = frame \/ frame' = [frame EXCEPT !.pos = 0, !.len = 0]
    BY <1>2
  <2>3. frame' \in [s : Streams \cup {Null}, pos : Nat, len : Nat] /\ frame'.s = s
    <3>1. CASE frame' = frame
      BY <1>1, <2>1, <3>1
    <3>2. CASE frame' = [frame EXCEPT !.pos = 0, !.len = 0]
      <4>1. frame' = [s |-> frame.s, pos |-> 0, len |-> 0]
        BY <2>1, <3>2
      <4> QED BY <1>1, <4>1
    <3> QED BY <2>2, <3>1, <3>2
  <2> QED BY <1>2, <2>3 DEF Serving
<1> USE DEF sockVars, protoVars, streamVars, winVars, netVars
<1>5. m_offset' \in [Streams -> Nat] /\ \A r \in Streams \ {s} : m_offset'[r] = m_offset[r]
  <2>1. m_offset[s] + frame.len \in Nat
    BY <1>2
  <2>2. m_offset \in [Streams -> Nat]
    BY <1>2 DEF TypeOK
  <2>3. m_offset' = m_offset \/ m_offset' = [m_offset EXCEPT ![s] = m_offset[s] + frame.len]
    BY <1>2
  <2> QED BY <2>1, <2>2, <2>3
<1>6. TypeOK'
  BY <1>2, <1>4, <1>5 DEF TypeOK, PluginTurn
<1>7. OpenOK(s, p)'
  BY <1>1, <1>2 DEF OpenOK
<1>8. HandlerOK(s, p)'
  <2>1. pc' = "writeready" => frame'.len = 0
    BY <1>2 DEF TypeOK
  <2> QED BY <1>2, <1>4, <2>1 DEF HandlerOK
<1>9. LastOK(s, p)'
  BY <1>1, <1>2, <1>4 DEF LastOK
<1>10. DeliveredOK(s, p)'
  <2>1. Connected(p)' => Connected(p)
    BY <1>2 DEF Connected
  <2>2. Position(p)' = Position(p)
    BY <1>2 DEF Position
  <2>3. CASE pc' = "writeready"
    <3>1. m_offset'[s] = m_offset[s] + frame.len /\ Handed(s)' = 0 /\ Handed(s) = frame.len
      BY <1>1, <1>2, <2>3 DEF TypeOK, Handed
    <3>2. Position(p) = resp[p].hdr + m_offset[s] + frame.len
      BY <1>1, <1>2, <3>1 DEF DeliveredOK, Leaving
    <3>3. Position(p)' = resp[p].hdr + m_offset'[s] + Handed(s)'
      BY <1>2, <1>3, <2>2, <3>1, <3>2
    <3> QED BY <1>1, <1>2, <2>1, <3>3 DEF DeliveredOK
  <2>4. CASE pc' = "destroystream"
    <3>1. Leaving(s)'
      BY <1>4, <2>4 DEF Leaving
    <3> QED BY <1>1, <1>2, <2>1, <3>1 DEF DeliveredOK
  <2> QED BY <1>2, <2>3, <2>4
<1> QED BY <1>1, <1>2, <1>4, <1>5, <1>6, <1>7, <1>8, <1>9, <1>10, InnerStep

LEMMA DestroyStreamInv == ASSUME IndInv, DestroyStream PROVE IndInv'
<1>1. PICK s \in Streams, p \in Protos :
        /\ s = frame.s /\ p = Source(m_protop[s]) /\ m_protop[s] # Null /\ Serving(s)
        /\ OpenOK(s, p) /\ HandlerOK(s, p) /\ LastOK(s, p) /\ DeliveredOK(s, p)
  BY Served DEF DestroyStream
<1>2. /\ pc = "destroystream" /\ pc' = "urlnotify" /\ TypeOK /\ created[s]
      /\ UNCHANGED <<sockVars, protoVars, streamVars, frame, winVars, netVars>>
  BY <1>1 DEF DestroyStream, IndInv, HandlerOK
<1>3. Serving(s)'
  BY <1>1, <1>2 DEF Serving
<1> USE DEF sockVars, protoVars, streamVars, winVars, netVars
<1>4. TypeOK'
  BY <1>2 DEF TypeOK, PluginTurn
<1>5. OpenOK(s, p)' /\ HandlerOK(s, p)' /\ LastOK(s, p)'
  BY <1>1, <1>2, <1>3 DEF OpenOK, HandlerOK, LastOK
<1>6. DeliveredOK(s, p)'
  BY <1>1, <1>2, <1>3 DEF DeliveredOK, Connected, Leaving
<1> QED BY <1>1, <1>2, <1>4, <1>5, <1>6, InnerStep

-----------------------------------------------------------------------------
(* writeready, and the data it lets through.                               *)

\* recv posts FD_READ again, or enables it; q is the queue it finds.
LEMMA RearmMessages ==
  ASSUME TypeOK, NEW p \in Protos, m_files[p] \in Fds, UNCHANGED m_files,
         NEW q \in Seq(Messages), NEW unread \in BOOLEAN, Rearm(p, q, unread)
  PROVE  /\ queue' \in Seq(Messages) /\ armed' \in [Protos -> SUBSET Events]
         /\ \A f \in Fds, e \in Events :
              Has(queue', Msg(f, e)) <=> Has(q, Msg(f, e)) \/ (unread /\ f = m_files[p] /\ e = "READ")
         /\ "READ" \notin armed'[p] <=> unread
         /\ "CLOSE" \in armed'[p] <=> "CLOSE" \in armed[p]
         /\ \A r \in Protos \ {p} : armed'[r] = armed[r]
         /\ \A r : m_files[r] # m_files[p]
                     /\ Before(q, Message(r, "READ"), Message(r, "CLOSE"))
                     => Before(queue', Message(r, "READ"), Message(r, "CLOSE"))
<1>1. armed \in [Protos -> SUBSET Events] /\ "READ" \in Events /\ "CLOSE" \in Events
  BY DEF TypeOK, Events
<1>2. CASE unread
  <2>1. queue' = Append(q, Message(p, "READ")) /\ armed' = [armed EXCEPT ![p] = @ \ {"READ"}]
    BY <1>2 DEF Rearm
  <2>2. Message(p, "READ") \in Messages
    BY <1>1 DEF Message, Messages
  <2>3. \A m : Has(queue', m) <=> Has(q, m) \/ Message(p, "READ") = m
    BY <2>1, <2>2, AppendMessage
  <2>4. ASSUME NEW f \in Fds, NEW e \in Events
        PROVE  Has(queue', Msg(f, e)) <=> Has(q, Msg(f, e)) \/ (f = m_files[p] /\ e = "READ")
    BY <2>3 DEF Msg, Message
  <2>5. ASSUME NEW r, m_files[r] # m_files[p], Before(q, Message(r, "READ"), Message(r, "CLOSE"))
        PROVE  Before(queue', Message(r, "READ"), Message(r, "CLOSE"))
    <3>1. Message(p, "READ") # Message(r, "CLOSE")
      BY <2>5 DEF Message
    <3> QED BY <2>1, <2>2, <2>5, <3>1, AppendBefore
  <2>6. queue' \in Seq(Messages)
    BY <2>1, <2>2
  <2> QED BY <1>1, <1>2, <2>1, <2>4, <2>5, <2>6
<1>3. CASE ~unread
  <2>1. queue' = q /\ armed' = [armed EXCEPT ![p] = @ \cup {"READ"}]
    BY <1>3 DEF Rearm
  <2> QED BY <1>1, <1>3, <2>1
<1> QED BY <1>2, <1>3

\* recv on a proto_stream whose response is complete and not broken.
LEMMA WriteReadySocket ==
  ASSUME IndInv, NEW c \in 0..MaxReady, c # 0, WriteReady(c),
         NEW s \in Streams, NEW p \in Protos, s = frame.s, p = Source(m_protop[s]),
         "ERROR" \notin m_flags[p], m_chunk[p].off = m_chunk[p].len
  PROVE  IndInv'
<1> DEFINE n == MinOf(c, rx[p] - rd[p])
<1>1. /\ pc = "writeready" /\ TypeOK /\ LinksOK /\ QueueOK
      /\ Wired(p) /\ ProtoOK(p) /\ MessageOK(p) /\ m_protop[s] # Null
      /\ m_files[p] \in Fds /\ stream_list[m_files[p]] = p
      /\ OpenOK(s, p) /\ HandlerOK(s, p) /\ DeliveredOK(s, p) /\ Serving(s)
  BY Served DEF WriteReady, IndInv
<1>2. /\ created[s] /\ frame.len = 0 /\ "CREATED" \in m_flags[p] /\ resp[p] # Null
      /\ Connected(p) /\ conn[p] \in Met
  <2>1. created[s] /\ frame.len = 0
    BY <1>1 DEF HandlerOK
  <2>2. "CREATED" \in m_flags[p] /\ resp[p] # Null
    BY <1>1, <2>1 DEF OpenOK
  <2>3. m_flags[p] \subseteq (Broken \cup {"VIDEO"})
    BY <1>1 DEF TypeOK
  <2> QED BY <1>1, <2>1, <2>2, <2>3 DEF ProtoOK, Connected, Broken
<1>3. /\ c \in Nat /\ rx[p] \in Nat /\ rd[p] \in Nat /\ rd[p] <= rx[p]
      /\ m_chunk[p].off \in Nat /\ m_chunk[p].len \in Nat
      /\ resp[p].hdr \in Nat /\ m_offset[s] \in Nat
  <2>1. resp[p] \in Responses
    BY <1>1, <1>2 DEF TypeOK
  <2> QED BY <1>1, <2>1, SizeAssumption, ResponseAssumption DEF TypeOK, ProtoOK, ResponseSpace
<1>4. n \in Nat /\ n <= rx[p] - rd[p] /\ rx[p] - rd[p] \in Nat /\ (n = 0 => rx[p] = rd[p])
  BY <1>3 DEF MinOf
<1>5. MinOf(c, m_chunk[p].len - m_chunk[p].off) = 0
  BY <1>3 DEF MinOf
<1> DEFINE unread == rx[p] > rd[p] + n
<1>6. /\ rd' = [rd EXCEPT ![p] = @ + n]
      /\ Rearm(p, queue, unread)
      /\ \/ /\ n > 0 /\ pc' = "write" /\ frame' = [frame EXCEPT !.pos = rd[p], !.len = n]
            /\ last_error' = [last_error EXCEPT ![p] = "none"]
         \/ /\ ~(n > 0) /\ Return(Block(Errno(p))) /\ last_error' = [last_error EXCEPT ![p] = Errno(p)]
      /\ UNCHANGED m_chunk
      /\ notReady' = notReady \ {s}
      /\ UNCHANGED <<m_files, stream_list, m_ref, m_flags, m_waitp, m_header, inner,
                     m_protop, created, m_offset, conn, rx, resp>>
  BY <1>1, <1>5 DEF WriteReady, RecvData
<1> HIDE DEF n
<1>7. Errno(p) \in {"none", "WSAEWOULDBLOCK", "fatal"} /\ (Errno(p) = "WSAEWOULDBLOCK" <=> conn[p] = "open")
  BY DEF Errno
<1>8. unread \in BOOLEAN /\ queue \in Seq(Messages)
  BY <1>1 DEF TypeOK, Messages
<1> HIDE DEF unread
<1>9. /\ queue' \in Seq(Messages) /\ armed' \in [Protos -> SUBSET Events]
      /\ \A f \in Fds, e \in Events :
           Has(queue', Msg(f, e)) <=> Has(queue, Msg(f, e)) \/ (unread /\ f = m_files[p] /\ e = "READ")
      /\ "CLOSE" \in armed'[p] <=> "CLOSE" \in armed[p]
      /\ \A r \in Protos \ {p} : armed'[r] = armed[r]
      /\ \A r : /\ m_files[r] # m_files[p]
                /\ Before(queue, Message(r, "READ"), Message(r, "CLOSE"))
                => Before(queue', Message(r, "READ"), Message(r, "CLOSE"))
  BY <1>1, <1>6, <1>8, RearmMessages
<1>10. \/ /\ n > 0 /\ pc' = "write" /\ frame' = [s |-> s, pos |-> rd[p], len |-> n]
       \/ /\ n = 0 /\ conn[p] = "open" /\ pc' = "idle" /\ frame' = NoFrame
       \/ /\ n = 0 /\ conn[p] \in {"eof", "rst"} /\ pc' = "destroystream" /\ frame' = frame
  <2>1. CASE n > 0
    BY <1>1, <1>6, <2>1 DEF TypeOK
  <2>2. CASE ~(n > 0)
    <3>1. n = 0 /\ Return(Block(Errno(p)))
      BY <1>4, <1>6, <2>2
    <3>2. CASE conn[p] = "open"
      BY <1>7, <3>1, <3>2 DEF Block, Return, EndEvent
    <3>3. CASE conn[p] # "open"
      BY <1>1, <1>2, <1>7, <3>1, <3>3 DEF Block, Return, Teardown, Met
    <3> QED BY <3>2, <3>3
  <2> QED BY <2>1, <2>2
<1>11. /\ rd'[p] = rd[p] + n /\ rd'[p] \in Nat /\ rd' \in [Protos -> Nat] /\ rd'[p] <= rx[p]
       /\ \A q \in Protos \ {p} : rd'[q] = rd[q] /\ last_error'[q] = last_error[q]
       /\ last_error' \in [Protos -> {"none", "WSAEWOULDBLOCK", "fatal"}]
  <2>1. rd[p] + n \in Nat /\ rd[p] + n <= rx[p]
    BY <1>3, <1>4
  <2>2. rd' \in [Protos -> Nat] /\ rd'[p] = rd[p] + n /\ \A q \in Protos \ {p} : rd'[q] = rd[q]
    BY <1>1, <1>6, <2>1 DEF TypeOK
  <2>3. /\ \A q \in Protos \ {p} : last_error'[q] = last_error[q]
        /\ last_error' \in [Protos -> {"none", "WSAEWOULDBLOCK", "fatal"}]
    <3>1. PICK e \in {"none", "WSAEWOULDBLOCK", "fatal"} : last_error' = [last_error EXCEPT ![p] = e]
      BY <1>6, <1>7
    <3> QED BY <1>1, <3>1 DEF TypeOK
  <2> QED BY <2>1, <2>2, <2>3
<1>12. UNCHANGED Links /\ Wired(p)' /\ (\A q \in Protos, e \in Events : Message(q, e)' = Message(q, e))
  BY <1>1, <1>6 DEF Links, Wired, Live, Message
<1>13. \A q \in Protos \ {p} : Same(q) /\ (Wired(q) => SameMessages(q))
  <2> SUFFICES ASSUME NEW q \in Protos \ {p} PROVE Same(q) /\ (Wired(q) => SameMessages(q))
    OBVIOUS
  <2>1. Same(q)
    BY <1>6, <1>9, <1>11 DEF Same
  <2>2. ASSUME Wired(q) PROVE SameMessages(q)
    <3>1. m_files[q] # m_files[p] /\ m_files[q] \in Fds
      BY <1>1, <2>2, HandlesDiffer, OfProto
    <3>2. \A e \in Events : Has(queue', Message(q, e)) <=> Has(queue, Message(q, e))
      BY <1>9, <3>1 DEF Message, Msg
    <3>3. "READ" \in Events /\ "CLOSE" \in Events
      BY DEF Events
    <3> QED BY <1>9, <1>12, <3>1, <3>2, <3>3 DEF SameMessages
  <2> QED BY <2>1, <2>2
<1>14. frame' \in [s : Streams \cup {Null}, pos : Nat, len : Nat]
  BY <1>1, <1>3, <1>4, <1>10 DEF TypeOK, NoFrame
<1>15. pc' \in PluginTurn
  BY <1>10 DEF PluginTurn
<1>16. TypeOK'
  BY <1>1, <1>6, <1>9, <1>11, <1>14, <1>15 DEF TypeOK, Messages
<1>17. QueueOK'
  <2>1. p # Null
    BY NullAssumption
  <2> QED BY <1>1, <1>6, <1>9, <2>1 DEF QueueOK
<1>18. FrameOK'
  BY <1>1, <1>6, <1>10 DEF FrameOK
<1>19. ProtoOK(p)'
  BY <1>1, <1>2, <1>6, <1>11, <1>12 DEF ProtoOK
<1>20. /\ Has(queue', Message(p, "CLOSE")) <=> Has(queue, Message(p, "CLOSE"))
       /\ "CLOSE" \in Events
  BY <1>1, <1>9 DEF Message, Msg, Events
<1>21. MessageOK(p)'
  <2>1. Message(p, "CLOSE")' = Message(p, "CLOSE")
    BY <1>12, <1>20
  <2> QED BY <1>1, <1>2, <1>6, <1>9, <1>12, <1>20, <2>1 DEF MessageOK
<1>22. OpenOK(s, p)'
  BY <1>1, <1>2, <1>6 DEF OpenOK
<1>23. Position(p) = rd[p] /\ Position(p)' = rd'[p] /\ rd[p] = resp[p].hdr + m_offset[s]
       /\ m_chunk[p].len <= rd[p]
  <2>1. ~(m_chunk[p].off < m_chunk[p].len)
    BY <1>3
  <2>2. Handed(s) = 0 /\ ~Leaving(s)
    BY <1>1 DEF Handed, Leaving
  <2>3. Position(p) = rd[p] /\ Position(p)' = rd'[p]
    BY <1>6, <2>1 DEF Position
  <2>4. Position(p) = resp[p].hdr + m_offset[s] + 0 /\ m_chunk[p].len <= rd[p]
    BY <1>1, <1>2, <2>2 DEF DeliveredOK
  <2> QED BY <1>3, <2>3, <2>4
<1>24. HandlerOK(s, p)'
  <2>1. Connected(p)'
    BY <1>2, <1>6 DEF Connected
  <2> QED BY <1>2, <1>4, <1>6, <1>10, <1>23, <2>1 DEF HandlerOK
<1>25. LastOK(s, p)'
  <2>1. CASE conn[p] = "open"
    <3>1. "CLOSE" \in armed[p]
      BY <1>1, <2>1 DEF MessageOK
    <3> QED BY <1>2, <1>6, <1>9, <3>1 DEF LastOK, Ended
  <2>2. CASE pc' # "idle" /\ frame'.s = s
    BY <1>2, <1>6, <2>2 DEF LastOK, Serving
  <2> QED BY <1>1, <1>10, <2>1, <2>2
<1>26. DeliveredOK(s, p)'
  <2>1. CASE n > 0 /\ pc' = "write" /\ frame' = [s |-> s, pos |-> rd[p], len |-> n]
    <3>1. Handed(s)' = n
      BY <2>1 DEF Handed, Serving
    <3>2. Position(p)' = resp[p].hdr + m_offset[s] + n /\ m_chunk[p].len <= rd'[p]
      BY <1>3, <1>4, <1>11, <1>23
    <3> QED BY <1>2, <1>3, <1>6, <3>1, <3>2 DEF DeliveredOK
  <2>2. CASE n = 0 /\ pc' # "write"
    <3>1. Handed(s)' = 0 /\ rd'[p] = rd[p]
      BY <1>3, <1>11, <2>2 DEF Handed
    <3>2. Position(p)' = resp[p].hdr + m_offset[s] + 0 /\ m_chunk[p].len <= rd'[p]
      BY <1>3, <1>23, <3>1
    <3> QED BY <1>2, <1>3, <1>6, <3>1, <3>2 DEF DeliveredOK
  <2> QED BY <1>10, <2>1, <2>2
<1>27. \A r \in Streams \ {s} : /\ created'[r] = created[r] /\ m_offset'[r] = m_offset[r]
                                /\ r \in notReady' <=> r \in notReady
                                /\ UNCHANGED handlerVars \/ (~Serving(r) /\ ~Serving(r)')
  <2>1. \A r \in Streams \ {s} : ~Serving(r) /\ ~Serving(r)'
    BY <1>1, <1>10 DEF Serving
  <2> QED BY <1>6, <2>1
<1> QED BY <1>1, <1>12, <1>13, <1>16, <1>17, <1>18, <1>19, <1>21, <1>22, <1>24, <1>25, <1>26, <1>27,
           OneStep

\* The data left in m_chunk.
LEMMA WriteReadyChunk ==
  ASSUME IndInv, NEW c \in 0..MaxReady, c # 0, WriteReady(c),
         NEW s \in Streams, NEW p \in Protos, s = frame.s, p = Source(m_protop[s]),
         "ERROR" \notin m_flags[p], m_chunk[p].off # m_chunk[p].len
  PROVE  IndInv'
<1> DEFINE n == MinOf(c, m_chunk[p].len - m_chunk[p].off)
<1>1. /\ pc = "writeready" /\ TypeOK /\ LinksOK /\ QueueOK
      /\ Wired(p) /\ ProtoOK(p) /\ MessageOK(p) /\ m_protop[s] # Null
      /\ OpenOK(s, p) /\ HandlerOK(s, p) /\ DeliveredOK(s, p) /\ Serving(s)
  BY Served DEF WriteReady, IndInv
<1>2. /\ created[s] /\ frame.len = 0 /\ "CREATED" \in m_flags[p] /\ resp[p] # Null
      /\ Connected(p)
  <2>1. created[s] /\ frame.len = 0
    BY <1>1 DEF HandlerOK
  <2>2. "CREATED" \in m_flags[p] /\ resp[p] # Null
    BY <1>1, <2>1 DEF OpenOK
  <2>3. m_flags[p] \subseteq (Broken \cup {"VIDEO"})
    BY <1>1 DEF TypeOK
  <2> QED BY <2>1, <2>2, <2>3 DEF Connected, Broken
<1>3. /\ c \in Nat /\ c > 0
      /\ m_chunk[p].off \in Nat /\ m_chunk[p].len \in Nat /\ m_chunk[p].off <= m_chunk[p].len
      /\ rd[p] \in Nat /\ resp[p].hdr \in Nat /\ m_offset[s] \in Nat
  <2>1. resp[p] \in Responses
    BY <1>1, <1>2 DEF TypeOK
  <2>2. c \in Nat /\ c > 0
    BY SizeAssumption
  <2>3. resp[p].hdr \in Nat
    BY <2>1, ResponseAssumption DEF ResponseSpace
  <2> QED BY <1>1, <2>2, <2>3 DEF TypeOK, ProtoOK
<1>4. m_chunk[p].off < m_chunk[p].len
  BY <1>3
<1>5. n \in Nat /\ n > 0 /\ m_chunk[p].off + n <= m_chunk[p].len
  BY <1>3, <1>4 DEF MinOf
<1>6. /\ pc' = "write" /\ frame' = [frame EXCEPT !.pos = m_chunk[p].off, !.len = n]
      /\ m_chunk' = [m_chunk EXCEPT ![p].off = @ + n]
      /\ notReady' = notReady \ {s}
      /\ UNCHANGED <<rd, last_error, winVars, m_files, stream_list, m_ref, m_flags, m_waitp, m_header,
                     inner, m_protop, created, m_offset, conn, rx, resp>>
  BY <1>1, <1>5 DEF WriteReady, RecvData
<1> HIDE DEF n
<1>7. /\ m_chunk'[p].off = m_chunk[p].off + n /\ m_chunk'[p].len = m_chunk[p].len
      /\ m_chunk' \in [Protos -> [off : Nat, len : Nat]]
      /\ \A q \in Protos \ {p} : m_chunk'[q] = m_chunk[q]
  <2>0. m_chunk \in [Protos -> [off : Nat, len : Nat]]
    BY <1>1 DEF TypeOK
  <2>1. m_chunk[p].off + n \in Nat
    BY <1>3, <1>5
  <2>2. m_chunk'[p] = [off |-> m_chunk[p].off + n, len |-> m_chunk[p].len]
    BY <1>6, <2>0
  <2> QED BY <1>3, <1>6, <2>0, <2>1, <2>2
<1>8. frame' = [s |-> s, pos |-> m_chunk[p].off, len |-> n]
  BY <1>1, <1>6 DEF TypeOK
<1> USE DEF winVars
<1>9. UNCHANGED Links /\ Wired(p)' /\ UNCHANGED <<queue, armed, m_files>>
  BY <1>1, <1>6 DEF Links, Wired, Live
<1>10. \A q \in Protos \ {p} : Same(q) /\ SameMessages(q)
  BY <1>6, <1>7, <1>9, QueueUnchanged DEF Same
<1>11. TypeOK'
  <2>1. frame' \in [s : Streams \cup {Null}, pos : Nat, len : Nat]
    BY <1>3, <1>5, <1>8
  <2> QED BY <1>1, <1>6, <1>7, <2>1 DEF TypeOK, PluginTurn
<1>12. QueueOK' /\ FrameOK'
  BY <1>1, <1>6, <1>8 DEF QueueOK, FrameOK
<1>13. ProtoOK(p)'
  BY <1>1, <1>2, <1>5, <1>6, <1>7, <1>9 DEF ProtoOK
<1>14. MessageOK(p)'
  BY <1>1, <1>2, <1>6, <1>9 DEF MessageOK, Message
<1>15. OpenOK(s, p)'
  BY <1>1, <1>2, <1>6 DEF OpenOK
<1>16. m_chunk[p].off = resp[p].hdr + m_offset[s] /\ rd[p] = m_chunk[p].len
  <2>1. Handed(s) = 0 /\ ~Leaving(s)
    BY <1>1 DEF Handed, Leaving
  <2>2. Position(p) = m_chunk[p].off
    BY <1>4 DEF Position
  <2>3. Position(p) = resp[p].hdr + m_offset[s] + 0 /\ rd[p] = m_chunk[p].len
    BY <1>1, <1>2, <1>4, <2>1 DEF DeliveredOK
  <2> QED BY <1>3, <2>2, <2>3
<1>17. HandlerOK(s, p)'
  BY <1>2, <1>5, <1>6, <1>8, <1>16 DEF HandlerOK, Connected
<1>18. LastOK(s, p)'
  BY <1>2, <1>6, <1>8 DEF LastOK, Serving
<1>19. DeliveredOK(s, p)'
  <2>1. Handed(s)' = n
    BY <1>6, <1>8 DEF Handed, Serving
  <2>2. Position(p)' = m_chunk[p].off + n
    BY <1>3, <1>5, <1>6, <1>7, <1>16 DEF Position
  <2>3. m_chunk[p].off + n = resp[p].hdr + m_offset[s] + n
    BY <1>3, <1>5, <1>16
  <2>4. m_chunk'[p].len <= rd[p]
    BY <1>3, <1>7, <1>16
  <2> QED BY <1>2, <1>6, <1>7, <1>16, <2>1, <2>2, <2>3, <2>4 DEF DeliveredOK
<1>20. \A r \in Streams \ {s} : /\ created'[r] = created[r] /\ m_offset'[r] = m_offset[r]
                                /\ r \in notReady' <=> r \in notReady
                                /\ UNCHANGED handlerVars \/ (~Serving(r) /\ ~Serving(r)')
  <2>1. \A r \in Streams \ {s} : ~Serving(r) /\ ~Serving(r)'
    BY <1>1, <1>8 DEF Serving
  <2> QED BY <1>6, <2>1
<1> QED BY <1>1, <1>9, <1>10, <1>11, <1>12, <1>13, <1>14, <1>15, <1>17, <1>18, <1>19, <1>20, OneStep

LEMMA WriteReadyInv == ASSUME IndInv, NEW c \in 0..MaxReady, WriteReady(c) PROVE IndInv'
<1>1. PICK s \in Streams, p \in Protos :
        /\ s = frame.s /\ p = Source(m_protop[s]) /\ m_protop[s] # Null /\ Serving(s)
        /\ OpenOK(s, p) /\ HandlerOK(s, p) /\ LastOK(s, p) /\ DeliveredOK(s, p)
  BY Served DEF WriteReady
<1>2. /\ pc = "writeready" /\ TypeOK /\ created[s] /\ frame.len = 0
      /\ notReady' = IF c = 0 THEN notReady \cup {s} ELSE notReady \ {s}
      /\ UNCHANGED <<m_files, stream_list, m_ref, m_flags, m_waitp, m_header, inner,
                     m_protop, created, m_offset, conn, rx, resp>>
  BY <1>1 DEF WriteReady, IndInv, HandlerOK
<1> USE DEF sockVars, protoVars, streamVars, winVars, netVars
<1>3. \A r \in Streams \ {s} : /\ created'[r] = created[r] /\ m_offset'[r] = m_offset[r]
                               /\ r \in notReady' <=> r \in notReady
  BY <1>2
<1>4. notReady' \subseteq Streams
  BY <1>2 DEF TypeOK
<1>5. CASE c = 0
  <2>1. EndEvent /\ UNCHANGED <<m_chunk, rd, last_error, winVars>>
    BY <1>2, <1>5 DEF WriteReady
  <2>2. pc' = "idle" /\ pc' \in PluginTurn
        /\ frame' \in [s : Streams \cup {Null}, pos : Nat, len : Nat] /\ \A r : ~Serving(r)'
    BY <1>2, <2>1, EndTypes DEF EndEvent, PluginTurn
  <2>3. TypeOK'
    BY <1>2, <1>4, <2>1, <2>2 DEF TypeOK
  <2>4. OpenOK(s, p)' /\ HandlerOK(s, p)'
    BY <1>1, <1>2, <2>1, <2>2 DEF OpenOK, HandlerOK
  <2>5. LastOK(s, p)'
    BY <1>2, <1>5 DEF LastOK, Waits
  <2>6. DeliveredOK(s, p)'
    BY <1>1, <1>2, <2>1, <2>2 DEF DeliveredOK, Connected, Position, Leaving, Handed
  <2> QED BY <1>1, <1>2, <1>3, <2>1, <2>2, <2>3, <2>4, <2>5, <2>6, InnerStep
<1>6. CASE c # 0 /\ "ERROR" \in m_flags[p]
  <2>1. Return(Block(last_error[p])) /\ UNCHANGED <<m_chunk, rd, last_error, winVars>>
    BY <1>1, <1>2, <1>6 DEF WriteReady, RecvData
  <2>2. last_error[p] = "fatal" /\ conn[p] = "rst"
    BY <1>1, <1>2, <1>6 DEF OpenOK
  <2>3. pc' = "destroystream" /\ frame' = frame
    BY <1>1, <1>2, <2>1, <2>2 DEF Return, Block, Teardown
  <2>4. TypeOK'
    BY <1>2, <1>4, <2>1, <2>3 DEF TypeOK, PluginTurn
  <2>5. OpenOK(s, p)'
    BY <1>1, <1>2, <2>1 DEF OpenOK
  <2>6. HandlerOK(s, p)'
    BY <1>2, <1>6, <2>2, <2>3 DEF HandlerOK
  <2>7. LastOK(s, p)'
    BY <1>1, <1>2, <2>3 DEF LastOK, Serving
  <2>8. DeliveredOK(s, p)'
    BY <1>2, <1>6 DEF DeliveredOK, Connected, Broken
  <2> QED BY <1>1, <1>2, <1>3, <2>1, <2>3, <2>4, <2>5, <2>6, <2>7, <2>8, InnerStep
<1>7. CASE c # 0 /\ "ERROR" \notin m_flags[p]
  BY <1>1, <1>7, WriteReadySocket, WriteReadyChunk
<1> QED BY <1>5, <1>6, <1>7

-----------------------------------------------------------------------------
(* The messages a handler starts with.                                     *)

\* The socket a message is handed to, and its stream.
LEMMA Received ==
  ASSUME IndInv, pc = "idle", queue # <<>>, Receiver # Null
  PROVE  LET p == Receiver
             s == m_waitp[p]
         IN /\ Head(queue) \in Messages /\ queue \in Seq(Messages) /\ Tail(queue) \in Seq(Messages)
            /\ p \in Protos /\ Wired(p) /\ m_files[p] = Head(queue).fd /\ m_files[p] \in Fds
            /\ s \in Streams /\ m_protop[s] # Null /\ Source(m_protop[s]) = p
            /\ ProtoOK(p) /\ MessageOK(p)
            /\ OpenOK(s, p) /\ LastOK(s, p) /\ DeliveredOK(s, p)
<1>1. TypeOK /\ LinksOK
  BY DEF IndInv
<1>2. queue \in Seq(Messages)
  BY <1>1 DEF TypeOK, Messages
<1>3. Head(queue) \in Messages /\ Tail(queue) \in Seq(Messages)
  BY <1>2
<1>4. Head(queue).fd \in Fds
  BY <1>3 DEF Messages
<1>5. Receiver \in Protos /\ Wired(Receiver) /\ m_files[Receiver] = Head(queue).fd
  BY <1>1, <1>4, OfHandle DEF Receiver
<1>6. /\ m_waitp[Receiver] \in Streams /\ m_protop[m_waitp[Receiver]] # Null
      /\ Source(m_protop[m_waitp[Receiver]]) = Receiver
  BY <1>1, <1>5, OfProto
<1> QED BY <1>2, <1>3, <1>4, <1>5, <1>6 DEF IndInv, StreamOK

\* Of the messages taken from the queue none is another socket's.
LEMMA OthersUntaken ==
  ASSUME IndInv, queue # <<>>, NEW p \in Protos, Wired(p), m_files[p] = Head(queue).fd,
         UNCHANGED m_files, NEW q \in Protos \ {p}, Wired(q)
  PROVE  /\ m_files[q] # m_files[p] /\ m_files[q] \in Fds
         /\ queue' = Tail(queue) => SameMessages(q)
         /\ \A m : m.fd = m_files[q] => (Has(queue, m) <=> Has(Tail(queue), m))
         /\ Before(queue, Message(q, "READ"), Message(q, "CLOSE"))
              => Before(Tail(queue), Message(q, "READ"), Message(q, "CLOSE"))
<1>1. TypeOK /\ LinksOK /\ queue \in Seq(Messages)
  BY DEF IndInv, TypeOK, Messages
<1>2. m_files[q] # m_files[p] /\ m_files[q] \in Fds
  BY <1>1, HandlesDiffer, OfProto
<1>3. queue' = Tail(queue) => SameMessages(q)
  BY <1>1, <1>2, TakenMessage
<1>4. ASSUME NEW m, m.fd = m_files[q] PROVE Has(queue, m) <=> Has(Tail(queue), m)
  BY <1>1, <1>2, <1>4, TailMessage
<1>5. Head(queue) # Message(q, "READ")
  BY <1>2 DEF Message
<1>6. Before(queue, Message(q, "READ"), Message(q, "CLOSE"))
        => Before(Tail(queue), Message(q, "READ"), Message(q, "CLOSE"))
  BY <1>1, <1>5, TailBefore
<1> QED BY <1>2, <1>3, <1>4, <1>6

\* What is left of the queue is still of registered sockets.
LEMMA TailQueueOK ==
  ASSUME TypeOK, QueueOK, queue # <<>>
  PROVE  \A f \in Fds, e \in Events : Has(Tail(queue), Msg(f, e)) => stream_list[f] # Null
<1>1. queue \in Seq(Messages)
  BY DEF TypeOK, Messages
<1>2. \A m : Has(Tail(queue), m) => Has(queue, m)
  BY <1>1, TailMessage
<1> QED BY <1>2 DEF QueueOK

LEMMA OnUnknownInv == ASSUME IndInv, OnUnknown PROVE IndInv'
<1> USE DEF sockVars, protoVars, streamVars, handlerVars, netVars
<1>1. /\ queue # <<>> /\ stream_list[Head(queue).fd] = Null /\ queue' = Tail(queue)
      /\ UNCHANGED <<sockVars, protoVars, streamVars, handlerVars, armed, netVars>>
      /\ TypeOK /\ LinksOK /\ QueueOK /\ FrameOK
  BY DEF OnUnknown, Arrives, Receiver, IndInv
<1>2. queue' \in Seq(Messages)
  BY <1>1 DEF TypeOK, Messages
<1>3. TypeOK'
  BY <1>1, <1>2 DEF TypeOK, Messages
<1>4. LinksOK' /\ FrameOK'
  BY <1>1 DEF LinksOK, FrameOK, Wired, Live, Source
<1>5. QueueOK'
  BY <1>1, TailQueueOK DEF QueueOK
<1>6. ASSUME NEW q \in Protos
      PROVE  Same(q) /\ SameLinks(q) /\ (Wired(q) => SameMessages(q))
  <2>1. Same(q) /\ SameLinks(q)
    BY <1>1 DEF Same, SameLinks, Wired, Live
  <2>2. ASSUME Wired(q) PROVE SameMessages(q)
    <3>1. stream_list[m_files[q]] = q
      BY <1>1, <2>2, OfProto
    <3>2. m_files[q] # Head(queue).fd
      BY <1>1, <3>1, NullAssumption
    <3> QED BY <1>1, <3>2, TakenMessage
  <2> QED BY <2>1, <2>2
<1>7. ASSUME NEW q \in Protos PROVE ProtoOK(q)' /\ MessageOK(q)'
  BY <1>6, ProtoUnaffected DEF IndInv
<1>8. ASSUME NEW s \in Streams PROVE StreamOK(s)'
  <2>1. CASE m_protop[s] = Null
    BY <1>1, <2>1 DEF StreamOK
  <2>2. CASE m_protop[s] # Null
    <3>1. PICK p \in Protos : p = Source(m_protop[s]) /\ Wired(p)
      BY <1>1, <2>2, OfStream
    <3>2. Same(p) /\ SameLinks(p) /\ SameMessages(p) /\ StreamOK(s)
      BY <1>6, <3>1 DEF IndInv
    <3>3. /\ m_protop'[s] = m_protop[s] /\ inner'[m_protop[s]] = inner[m_protop[s]]
          /\ created'[s] = created[s] /\ m_offset'[s] = m_offset[s]
          /\ s \in notReady' <=> s \in notReady
          /\ UNCHANGED handlerVars
      BY <1>1
    <3> QED BY <3>1, <3>2, <3>3, StreamUnaffected
  <2> QED BY <2>1, <2>2
<1> QED BY <1>3, <1>4, <1>5, <1>7, <1>8 DEF IndInv

LEMMA OnWriteInv == ASSUME IndInv, OnWrite PROVE IndInv'
<1>0. pc = "idle" /\ queue # <<>> /\ Head(queue).ev = "WRITE" /\ Receiver # Null
  BY DEF OnWrite, Arrives
<1>1. PICK p \in Protos, s \in Streams :
        /\ p = Receiver /\ s = m_waitp[p] /\ Wired(p)
        /\ m_files[p] = Head(queue).fd /\ m_files[p] \in Fds
        /\ m_protop[s] # Null /\ p = Source(m_protop[s]) /\ ProtoOK(p) /\ MessageOK(p)
        /\ OpenOK(s, p) /\ LastOK(s, p) /\ DeliveredOK(s, p)
  BY <1>0, Received
<1>2. /\ queue' = Tail(queue) /\ TypeOK /\ QueueOK /\ queue \in Seq(Messages)
      /\ Tail(queue) \in Seq(Messages)
      /\ UNCHANGED <<m_files, stream_list, m_ref, m_waitp, m_chunk, inner, streamVars, netVars>>
  BY <1>0, Received DEF OnWrite, IndInv
<1> USE DEF streamVars, netVars
<1>3. /\ m_header \in [Protos -> 0..ReqLen] /\ m_flags \in [Protos -> SUBSET (Broken \cup {"VIDEO"})]
      /\ last_error \in [Protos -> {"none", "WSAEWOULDBLOCK", "fatal"}]
      /\ armed \in [Protos -> SUBSET Events] /\ ReqLen \in Nat /\ "WRITE" \in Events
  BY <1>2, SizeAssumption DEF TypeOK, Events
\* What the three outcomes have in common.
<1>4. /\ \A q \in Protos \ {p} : /\ m_flags'[q] = m_flags[q] /\ last_error'[q] = last_error[q]
                                 /\ armed'[q] = armed[q]
      /\ m_header' \in [Protos -> 0..ReqLen] /\ m_flags' \in [Protos -> SUBSET (Broken \cup {"VIDEO"})]
      /\ last_error' \in [Protos -> {"none", "WSAEWOULDBLOCK", "fatal"}]
      /\ armed' \in [Protos -> SUBSET Events] /\ armed'[p] \ {"WRITE"} = armed[p] \ {"WRITE"}
      /\ \/ EndEvent /\ UNCHANGED <<last_error, m_flags>>
         \/ EndEvent /\ m_flags' = m_flags /\ conn[p] \in {"open", "eof"}
         \/ /\ conn[p] \notin {"open", "eof"} /\ Wake(p) /\ last_error'[p] = "fatal"
            /\ m_flags' = [m_flags EXCEPT ![p] = @ \cup Broken]
  <2>1. CASE m_header[p] = ReqLen
    BY <1>1, <1>3, <2>1 DEF OnWrite
  <2>2. CASE m_header[p] # ReqLen /\ SendFails(p)
    <3>1. /\ last_error' = [last_error EXCEPT ![p] = "fatal"]
          /\ m_flags' = [m_flags EXCEPT ![p] = @ \cup Broken] /\ Wake(p)
          /\ UNCHANGED <<m_header, armed>>
      BY <1>1, <2>2 DEF OnWrite
    <3> QED BY <1>3, <2>2, <3>1 DEF SendFails, Broken
  <2>3. CASE m_header[p] # ReqLen /\ ~SendFails(p)
    <3>1. PICK n \in SendCounts(p) :
            /\ m_header' = [m_header EXCEPT ![p] = @ + n]
            /\ last_error' = [last_error EXCEPT
                                ![p] = IF m_header[p] + n < ReqLen THEN "WSAEWOULDBLOCK" ELSE "none"]
            /\ armed' = IF m_header[p] + n < ReqLen THEN [armed EXCEPT ![p] = @ \cup {"WRITE"}] ELSE armed
            /\ EndEvent /\ UNCHANGED m_flags
      BY <1>1, <2>3 DEF OnWrite
    <3>2. m_header[p] + n \in 0..ReqLen
      <4>1. m_header[p] \in 0..ReqLen /\ n \in 1..(ReqLen - m_header[p])
        BY <1>3, <3>1 DEF SendCounts
      <4> QED BY <1>3, <4>1
    <3>3. m_header' \in [Protos -> 0..ReqLen]
      BY <1>3, <3>1, <3>2
    <3>4. PICK e \in {"none", "WSAEWOULDBLOCK", "fatal"} : last_error' = [last_error EXCEPT ![p] = e]
      BY <3>1
    <3>5. armed' = armed \/ armed' = [armed EXCEPT ![p] = @ \cup {"WRITE"}]
      BY <3>1
    <3>6. /\ armed' \in [Protos -> SUBSET Events] /\ armed'[p] \ {"WRITE"} = armed[p] \ {"WRITE"}
          /\ \A q \in Protos \ {p} : armed'[q] = armed[q]
      BY <1>3, <3>5
    <3> QED BY <1>3, <2>3, <3>1, <3>3, <3>4, <3>6 DEF SendFails
  <2> QED BY <2>1, <2>2, <2>3
<1>5. \/ /\ pc' = "idle" /\ frame' = NoFrame /\ m_flags' = m_flags
         /\ last_error' = last_error \/ conn[p] \in {"open", "eof"}
      \/ /\ pc' = "onread" /\ frame' = [NoFrame EXCEPT !.s = s]
         /\ conn[p] \notin {"open", "eof"} /\ last_error'[p] = "fatal"
         /\ m_flags' = [m_flags EXCEPT ![p] = @ \cup Broken]
  <2>1. m_waitp[p] # Null
    BY <1>1, NullAssumption
  <2> QED BY <1>1, <1>4, <2>1 DEF Wake, EndEvent
<1>6. TypeOK'
  <2>1. frame' \in [s : Streams \cup {Null}, pos : Nat, len : Nat] /\ pc' \in PluginTurn \cup {"onread"}
    BY <1>5 DEF NoFrame, PluginTurn
  <2> QED BY <1>2, <1>4, <2>1 DEF TypeOK, Messages
<1>7. QueueOK'
  BY <1>0, <1>2, TailQueueOK DEF QueueOK
<1>8. FrameOK'
  BY <1>1, <1>2, <1>5 DEF FrameOK, NoFrame
<1>9. UNCHANGED Links /\ Wired(p)' /\ (\A e : Message(p, e)' = Message(p, e))
  BY <1>1, <1>2 DEF Links, Wired, Live, Message
<1>10. \A q \in Protos \ {p} : Same(q) /\ (Wired(q) => SameMessages(q))
  BY <1>0, <1>1, <1>2, <1>4, OthersUntaken DEF Same
<1>11. /\ Has(queue', Message(p, "READ")) <=> Has(queue, Message(p, "READ"))
       /\ Has(queue', Message(p, "CLOSE")) <=> Has(queue, Message(p, "CLOSE"))
       /\ \A e : Has(queue', Message(p, e)) => Has(queue, Message(p, e))
       /\ Before(queue, Message(p, "READ"), Message(p, "CLOSE"))
            => Before(queue', Message(p, "READ"), Message(p, "CLOSE"))
  <2>1. Head(queue) # Message(p, "READ") /\ Head(queue) # Message(p, "CLOSE")
    BY <1>0 DEF Message
  <2>2. \A m : Has(queue, m) <=> Head(queue) = m \/ Has(queue', m)
    BY <1>0, <1>2, TailMessage
  <2>3. Before(queue, Message(p, "READ"), Message(p, "CLOSE"))
            => Before(queue', Message(p, "READ"), Message(p, "CLOSE"))
    BY <1>0, <1>2, <2>1, TailBefore
  <2> QED BY <2>1, <2>2, <2>3
<1>12. /\ "CLOSE" \in armed'[p] <=> "CLOSE" \in armed[p]
       /\ "READ" \in armed'[p] <=> "READ" \in armed[p]
       /\ "CREATED" \in m_flags[p] => "CREATED" \in m_flags'[p]
  <2>1. "CREATED" \in m_flags[p] => "CREATED" \in m_flags'[p]
    BY <1>3, <1>5
  <2> QED BY <1>4, <2>1
<1>13. ProtoOK(p)'
  <2>1. "CREATED" \notin m_flags'[p] => m_flags' = m_flags
    BY <1>3, <1>5 DEF Broken
  <2> QED BY <1>1, <1>2, <1>9, <2>1 DEF ProtoOK
<1>14. MessageOK(p)'
  BY <1>1, <1>2, <1>9, <1>11, <1>12 DEF MessageOK
<1>15. CASE /\ pc' = "idle" /\ frame' = NoFrame /\ m_flags' = m_flags
            /\ last_error' = last_error \/ conn[p] \in {"open", "eof"}
  <2>1. ~Serving(s)' /\ ~Serving(s)
    BY <1>0, <1>15 DEF Serving
  <2>2. created[s] /\ "ERROR" \in m_flags[p] => last_error' = last_error
    <3>1. created[s] /\ "ERROR" \in m_flags[p] => conn[p] = "rst"
      BY <1>1 DEF OpenOK
    <3> QED BY <1>15, <3>1
  <2>3. OpenOK(s, p)'
    BY <1>1, <1>2, <1>15, <2>1, <2>2 DEF OpenOK
  <2>4. HandlerOK(s, p)'
    BY <2>1 DEF HandlerOK
  <2>5. Ended(p)' => Ended(p)
    BY <1>9, <1>11, <1>12 DEF Ended
  <2>6. Waits(s) => Waits(s)'
    BY <1>1, <1>2, <1>15 DEF Waits, Fresh, Connected, Source, Overrun
  <2>7. LastOK(s, p)'
    BY <1>1, <1>2, <1>15, <2>1, <2>5, <2>6 DEF LastOK
  <2>8. DeliveredOK(s, p)'
    BY <1>1, <1>2, <1>15, <2>1 DEF DeliveredOK, Connected, Position, Leaving, Handed
  <2>9. \A r \in Streams \ {s} : /\ created'[r] = created[r] /\ m_offset'[r] = m_offset[r]
                                 /\ r \in notReady' <=> r \in notReady
                                 /\ UNCHANGED handlerVars \/ (~Serving(r) /\ ~Serving(r)')
    BY <1>0, <1>2, <1>15 DEF Serving
  <2> QED BY <1>1, <1>6, <1>7, <1>8, <1>9, <1>10, <1>13, <1>14, <2>3, <2>4, <2>7, <2>8, <2>9, OneStep
<1>16. CASE /\ pc' = "onread" /\ frame' = [NoFrame EXCEPT !.s = s]
            /\ conn[p] \notin {"open", "eof"} /\ last_error'[p] = "fatal"
            /\ m_flags' = [m_flags EXCEPT ![p] = @ \cup Broken]
  <2>1. Serving(s)' /\ frame'.len = 0 /\ frame'.s = s
    BY <1>16 DEF Serving, NoFrame
  <2>2. "CREATED" \in m_flags'[p] /\ "ERROR" \in m_flags'[p]
    BY <1>3, <1>16 DEF Broken
  <2>3. created[s] => conn[p] = "rst"
    BY <1>1, <1>16 DEF OpenOK, ProtoOK, Met
  <2>4. OpenOK(s, p)'
    <3>1. inner[m_protop[s]] # Null => created[s]
      BY <1>0, <1>1 DEF OpenOK
    <3> QED BY <1>1, <1>2, <1>16, <2>2, <2>3, <3>1 DEF OpenOK
  <2>5. HandlerOK(s, p)' /\ LastOK(s, p)'
    BY <1>16, <2>1, <2>2 DEF HandlerOK, LastOK
  <2>6. DeliveredOK(s, p)'
    BY <2>2 DEF DeliveredOK, Connected, Broken
  <2>7. \A r \in Streams \ {s} : /\ created'[r] = created[r] /\ m_offset'[r] = m_offset[r]
                                 /\ r \in notReady' <=> r \in notReady
                                 /\ UNCHANGED handlerVars \/ (~Serving(r) /\ ~Serving(r)')
    BY <1>0, <1>2, <2>1 DEF Serving
  <2> QED BY <1>1, <1>6, <1>7, <1>8, <1>9, <1>10, <1>13, <1>14, <2>4, <2>5, <2>6, <2>7, OneStep
<1> QED BY <1>5, <1>15, <1>16

\* What recv_chunk and on_read do with a response that is not complete: broken, complete, or
\* more is to come.
LEMMA ReadOutcome ==
  ASSUME TypeOK, NEW p \in Protos, ProtoOK(p), "CREATED" \notin m_flags[p], ReadResponse(p),
         NEW s \in Streams, m_waitp[p] = s
  PROVE  \E off \in Nat, e \in {"none", "WSAEWOULDBLOCK", "fatal"} :
           /\ m_chunk[p].off <= off /\ off <= ChunkLen /\ off <= rx[p]
           /\ rd' = [rd EXCEPT ![p] = off] /\ last_error' = [last_error EXCEPT ![p] = e]
           /\ \/ m_chunk[p].off = ChunkLen /\ queue' = Tail(queue) /\ UNCHANGED armed
              \/ m_chunk[p].off < ChunkLen /\ Rearm(p, Tail(queue), rx[p] > off)
           /\ \/ /\ m_flags' = [m_flags EXCEPT ![p] = @ \cup Broken]
                 /\ m_chunk' = [m_chunk EXCEPT ![p] = [off |-> off, len |-> ChunkLen]]
                 /\ pc' = "onread" /\ frame' = [NoFrame EXCEPT !.s = s]
                 /\ e # "WSAEWOULDBLOCK" \/ off = ChunkLen
                 /\ \/ conn[p] \notin {"open", "eof"}
                    \/ /\ ~HeaderDone(p, off)
                       /\ off = ChunkLen \/ (conn[p] = "eof" /\ off = rx[p])
              \/ /\ HeaderDone(p, off)
                 /\ m_flags' = [m_flags EXCEPT ![p] = @ \cup HeaderFlags(p)]
                 /\ m_chunk' = [m_chunk EXCEPT ![p] = [off |-> resp[p].hdr, len |-> off]]
                 /\ pc' = "onread" /\ frame' = [NoFrame EXCEPT !.s = s]
              \/ /\ m_flags' = m_flags
                 /\ m_chunk' = [m_chunk EXCEPT ![p] = [off |-> off, len |-> ChunkLen]]
                 /\ pc' = "idle" /\ frame' = NoFrame
                 /\ \/ off = ChunkLen /\ m_chunk[p].off < off
                    \/ conn[p] = "open" /\ off = rx[p]
<1> DEFINE room == ChunkLen - m_chunk[p].off
           m == MinOf(room, rx[p] - rd[p])
           got == RecvChunk(p)
<1>1. /\ m_chunk \in [Protos -> [off : Nat, len : Nat]] /\ rd \in [Protos -> Nat] /\ rx \in [Protos -> Nat]
      /\ last_error[p] \in {"none", "WSAEWOULDBLOCK", "fatal"}
      /\ m_chunk[p].off \in Nat /\ m_chunk[p].len = ChunkLen /\ rd[p] \in Nat /\ rx[p] \in Nat
      /\ ChunkLen \in Nat /\ m_chunk[p].off <= ChunkLen /\ m_chunk[p].off = rd[p] /\ rd[p] <= rx[p]
      /\ s # Null
  BY SizeAssumption, NullAssumption DEF TypeOK, ProtoOK
<1>2. Errno(p) \in {"none", "WSAEWOULDBLOCK", "fatal"}
      /\ (Errno(p) = "WSAEWOULDBLOCK" <=> conn[p] = "open") /\ (Errno(p) = "none" <=> conn[p] = "eof")
  BY DEF Errno
\* What recv_chunk returns.
<1>3. PICK n \in Nat, ret \in Int, e \in {"none", "WSAEWOULDBLOCK", "fatal"} :
        /\ got.n = n /\ got.ret = ret /\ got.errno = e
        /\ m_chunk[p].off + n <= ChunkLen /\ m_chunk[p].off + n <= rx[p]
        /\ \/ n = 0 /\ ret = 0 /\ m_chunk[p].off = ChunkLen
           \/ n > 0 /\ ret = n /\ e = "none" /\ m_chunk[p].off + n = ChunkLen
           \/ /\ m_chunk[p].off < ChunkLen
              /\ m_chunk[p].off + n = rx[p]
              /\ e = Errno(p) /\ ret = IF conn[p] = "eof" THEN 0 ELSE -1
  <2>1. m \in Nat /\ m <= room /\ m <= rx[p] - rd[p] /\ room \in Nat /\ (m # room => m = rx[p] - rd[p])
    BY <1>1 DEF MinOf
  <2>2. CASE room = 0
    <3>1. got = [n |-> 0, ret |-> 0, errno |-> last_error[p]]
      BY <2>2 DEF RecvChunk
    <3>2. m_chunk[p].off = ChunkLen /\ m_chunk[p].off + 0 <= ChunkLen /\ m_chunk[p].off + 0 <= rx[p]
      BY <1>1, <2>2
    <3>3. 0 \in Nat /\ 0 \in Int
      OBVIOUS
    <3> HIDE DEF m, room, got
    <3> QED BY <1>1, <3>1, <3>2, <3>3
  <2>3. CASE room # 0 /\ m = room
    <3>1. got = [n |-> m, ret |-> m, errno |-> "none"]
      BY <2>3 DEF RecvChunk
    <3>2. m_chunk[p].off + m = ChunkLen /\ m_chunk[p].off + m <= rx[p] /\ m > 0
      <4> HIDE DEF m
      <4> QED BY <1>1, <2>1, <2>3
    <3>3. m \in Nat /\ m \in Int
      BY <2>1
    <3> HIDE DEF m, room, got
    <3> QED BY <1>1, <3>1, <3>2, <3>3
  <2>4. CASE room # 0 /\ m # room
    <3>1. got = [n |-> m, ret |-> IF conn[p] = "eof" THEN 0 ELSE -1, errno |-> Errno(p)]
      BY <2>4 DEF RecvChunk
    <3>2. m_chunk[p].off < ChunkLen /\ m_chunk[p].off + m = rx[p] /\ m_chunk[p].off + m <= ChunkLen
      BY <1>1, <2>1, <2>4
    <3>3. m \in Nat /\ (IF conn[p] = "eof" THEN 0 ELSE -1) \in Int
      BY <2>1
    <3> HIDE DEF m, room, got
    <3> QED BY <1>1, <1>2, <3>1, <3>2, <3>3
  <2> QED BY <2>2, <2>3, <2>4
<1>4. PICK off \in Nat : off = m_chunk[p].off + n
  BY <1>1, <1>3
<1>5. /\ m_chunk[p].off <= off /\ off <= ChunkLen /\ off <= rx[p] /\ rd[p] + n = off
      /\ m_chunk[p].off < ChunkLen <=> m_chunk[p].off # ChunkLen
  BY <1>1, <1>3, <1>4
<1> HIDE DEF m, room
<1>6. /\ rd' = [rd EXCEPT ![p] = @ + n]
      /\ last_error' = [last_error EXCEPT ![p] = e]
      /\ IF m_chunk[p].off = ChunkLen THEN queue' = Tail(queue) /\ UNCHANGED armed
         ELSE Rearm(p, Tail(queue), rx[p] > rd[p] + n)
      /\ IF ret = -1 /\ e # "WSAEWOULDBLOCK"
         THEN /\ m_flags' = [m_flags EXCEPT ![p] = @ \cup Broken]
              /\ m_chunk' = [m_chunk EXCEPT ![p].off = off]
              /\ Wake(p)
         ELSE IF HeaderDone(p, off)
         THEN /\ m_flags' = [m_flags EXCEPT ![p] = @ \cup HeaderFlags(p)]
              /\ m_chunk' = [m_chunk EXCEPT ![p] = [off |-> BodyStart(p), len |-> off]]
              /\ Wake(p)
         ELSE /\ m_chunk' = [m_chunk EXCEPT ![p].off = off]
              /\ IF ret = 0
                 THEN m_flags' = [m_flags EXCEPT ![p] = @ \cup Broken] /\ Wake(p)
                 ELSE m_flags' = m_flags /\ EndEvent
  BY <1>3, <1>4 DEF ReadResponse, EndOfResponse
<1> HIDE DEF got
<1>7. /\ rd' = [rd EXCEPT ![p] = off]
      /\ \/ m_chunk[p].off = ChunkLen /\ queue' = Tail(queue) /\ UNCHANGED armed
         \/ m_chunk[p].off < ChunkLen /\ Rearm(p, Tail(queue), rx[p] > off)
  BY <1>5, <1>6
<1>8. /\ Wake(p) => pc' = "onread" /\ frame' = [NoFrame EXCEPT !.s = s]
      /\ EndEvent => pc' = "idle" /\ frame' = NoFrame
  BY <1>1 DEF Wake, EndEvent
<1>9. [m_chunk EXCEPT ![p].off = off] = [m_chunk EXCEPT ![p] = [off |-> off, len |-> ChunkLen]]
  <2>1. [m_chunk[p] EXCEPT !.off = off] = [off |-> off, len |-> ChunkLen]
    BY <1>1
  <2> QED BY <2>1
<1>10. CASE ret = -1 /\ e # "WSAEWOULDBLOCK"
  <2>1. conn[p] \notin {"open", "eof"}
    BY <1>2, <1>3, <1>10
  <2> WITNESS off \in Nat, e \in {"none", "WSAEWOULDBLOCK", "fatal"}
  <2> QED BY <1>5, <1>6, <1>7, <1>8, <1>9, <1>10, <2>1
<1>11. CASE ~(ret = -1 /\ e # "WSAEWOULDBLOCK") /\ HeaderDone(p, off)
  <2> WITNESS off \in Nat, e \in {"none", "WSAEWOULDBLOCK", "fatal"}
  <2> QED BY <1>5, <1>6, <1>7, <1>8, <1>11 DEF BodyStart
<1>12. CASE ~HeaderDone(p, off) /\ ret = 0
  <2>1. \/ off = ChunkLen
        \/ conn[p] = "eof" /\ off = rx[p] /\ e = "none"
    BY <1>1, <1>2, <1>3, <1>4, <1>12
  <2> WITNESS off \in Nat, e \in {"none", "WSAEWOULDBLOCK", "fatal"}
  <2> QED BY <1>5, <1>6, <1>7, <1>8, <1>9, <1>12, <2>1
<1>13. CASE ~(ret = -1 /\ e # "WSAEWOULDBLOCK") /\ ~HeaderDone(p, off) /\ ret # 0
  <2>1. \/ off = ChunkLen /\ m_chunk[p].off < off
        \/ conn[p] = "open" /\ off = rx[p]
    BY <1>1, <1>2, <1>3, <1>4, <1>13
  <2> WITNESS off \in Nat, e \in {"none", "WSAEWOULDBLOCK", "fatal"}
  <2> QED BY <1>5, <1>6, <1>7, <1>8, <1>9, <1>13, <2>1
<1>14. ret = 0 => ~(ret = -1 /\ e # "WSAEWOULDBLOCK")
  OBVIOUS
<1> QED BY <1>10, <1>11, <1>12, <1>13, <1>14

\* The messages after a recv that reads p up to off.
LEMMA ReadMessages ==
  ASSUME IndInv, queue # <<>>, NEW p \in Protos, Wired(p), m_files[p] = Head(queue).fd,
         m_files[p] \in Fds, UNCHANGED m_files, NEW off \in Nat,
         \/ m_chunk[p].off = ChunkLen /\ queue' = Tail(queue) /\ UNCHANGED armed
         \/ m_chunk[p].off < ChunkLen /\ Rearm(p, Tail(queue), rx[p] > off)
  PROVE  /\ queue' \in Seq(Messages) /\ armed' \in [Protos -> SUBSET Events]
         /\ \A f \in Fds, e \in Events :
              Has(queue', Msg(f, e)) => Has(Tail(queue), Msg(f, e)) \/ (rx[p] > off /\ f = m_files[p])
         /\ Has(queue', Message(p, "CLOSE")) <=> Has(Tail(queue), Message(p, "CLOSE"))
         /\ m_chunk[p].off < ChunkLen => ("READ" \notin armed'[p] <=> rx[p] > off)
         /\ "CLOSE" \in armed'[p] <=> "CLOSE" \in armed[p]
         /\ \A q \in Protos \ {p} : armed'[q] = armed[q] /\ (Wired(q) => SameMessages(q))
<1>0. TypeOK /\ LinksOK /\ queue \in Seq(Messages)
  BY DEF IndInv, TypeOK, Messages
<1>1. /\ TypeOK /\ LinksOK /\ Tail(queue) \in Seq(Messages)
      /\ armed \in [Protos -> SUBSET Events] /\ "READ" \in Events /\ "CLOSE" \in Events
      /\ m_chunk[p].off \in Nat /\ ChunkLen \in Nat /\ rx[p] \in Nat
  <2>1. Tail(queue) \in Seq(Messages)
    BY <1>0
  <2> QED BY <1>0, <2>1, SizeAssumption DEF TypeOK, Events
<1>2. CASE m_chunk[p].off = ChunkLen /\ queue' = Tail(queue) /\ UNCHANGED armed
  <2>1. ~(m_chunk[p].off < ChunkLen)
    BY <1>1, <1>2
  <2>2. queue' \in Seq(Messages) /\ armed' \in [Protos -> SUBSET Events] /\ armed' = armed
    BY <1>1, <1>2
  <2>3. \A q \in Protos \ {p} : Wired(q) => SameMessages(q)
    BY <1>1, <1>2, OthersUntaken
  <2> QED BY <1>2, <2>1, <2>2, <2>3
<1>3. CASE m_chunk[p].off < ChunkLen /\ Rearm(p, Tail(queue), rx[p] > off)
  <2> DEFINE unread == rx[p] > off
  <2>1. unread \in BOOLEAN /\ Rearm(p, Tail(queue), unread)
    BY <1>1, <1>3
  <2> HIDE DEF unread
  <2>2. /\ queue' \in Seq(Messages) /\ armed' \in [Protos -> SUBSET Events]
        /\ \A f \in Fds, e \in Events :
             Has(queue', Msg(f, e))
               <=> Has(Tail(queue), Msg(f, e)) \/ (unread /\ f = m_files[p] /\ e = "READ")
        /\ "READ" \notin armed'[p] <=> unread
        /\ "CLOSE" \in armed'[p] <=> "CLOSE" \in armed[p]
        /\ \A r \in Protos \ {p} : armed'[r] = armed[r]
        /\ \A r : m_files[r] # m_files[p]
                    /\ Before(Tail(queue), Message(r, "READ"), Message(r, "CLOSE"))
                    => Before(queue', Message(r, "READ"), Message(r, "CLOSE"))
    BY <1>1, <1>3, <2>1, RearmMessages
  <2>3. Has(queue', Message(p, "CLOSE")) <=> Has(Tail(queue), Message(p, "CLOSE"))
    BY <1>1, <2>2 DEF Message, Msg
  <2>4. ASSUME NEW q \in Protos \ {p}, Wired(q) PROVE SameMessages(q)
    <3>1. /\ m_files[q] # m_files[p] /\ m_files[q] \in Fds
          /\ \A m : m.fd = m_files[q] => (Has(queue, m) <=> Has(Tail(queue), m))
          /\ Before(queue, Message(q, "READ"), Message(q, "CLOSE"))
               => Before(Tail(queue), Message(q, "READ"), Message(q, "CLOSE"))
      BY <2>4, OthersUntaken
    <3>2. \A e : Message(q, e)' = Message(q, e) /\ Message(q, e) = Msg(m_files[q], e)
                 /\ Msg(m_files[q], e).fd = m_files[q]
      BY DEF Message, Msg
    <3>3. \A e \in Events : Has(queue', Msg(m_files[q], e)) <=> Has(queue, Msg(m_files[q], e))
      BY <2>2, <3>1, <3>2
    <3>4. \A e \in Events : Has(queue', Message(q, e)) <=> Has(queue, Message(q, e))
      BY <3>2, <3>3
    <3> QED BY <1>1, <2>2, <3>1, <3>2, <3>4 DEF SameMessages
  <2> QED BY <2>2, <2>3, <2>4 DEF unread
<1> QED BY <1>2, <1>3

\* FD_READ or FD_CLOSE for a stream that was announced, or is about to be: the waiter is woken.
LEMMA OnReadWakes ==
  ASSUME IndInv, OnRead, "CREATED" \in m_flags[Receiver]
  PROVE  IndInv'
<1>0. pc = "idle" /\ queue # <<>> /\ Receiver # Null
  BY DEF OnRead, Arrives
<1>1. PICK p \in Protos, s \in Streams :
        /\ p = Receiver /\ s = m_waitp[p] /\ Wired(p)
        /\ m_files[p] = Head(queue).fd /\ m_files[p] \in Fds
        /\ m_protop[s] # Null /\ p = Source(m_protop[s]) /\ ProtoOK(p) /\ MessageOK(p)
        /\ OpenOK(s, p) /\ LastOK(s, p) /\ DeliveredOK(s, p)
  BY <1>0, Received
<1>2. /\ TypeOK /\ QueueOK /\ queue \in Seq(Messages) /\ Tail(queue) \in Seq(Messages)
      /\ Wake(p) /\ queue' = Tail(queue) /\ "CREATED" \in m_flags[p]
      /\ UNCHANGED <<m_flags, m_chunk, last_error, rd, armed>>
      /\ UNCHANGED <<m_files, stream_list, m_ref, m_waitp, m_header, inner, streamVars, conn, rx, resp>>
  BY <1>0, <1>1, Received DEF OnRead, IndInv
<1>3. pc' = "onread" /\ frame' = [NoFrame EXCEPT !.s = s]
  BY <1>1, <1>2, NullAssumption DEF Wake
<1> USE DEF streamVars
<1>4. Serving(s)' /\ frame'.len = 0 /\ frame'.s = s
  BY <1>3 DEF Serving, NoFrame
<1>5. TypeOK'
  <2>1. frame' \in [s : Streams \cup {Null}, pos : Nat, len : Nat] /\ pc' \in PluginTurn \cup {"onread"}
    BY <1>3 DEF NoFrame
  <2> QED BY <1>2, <2>1 DEF TypeOK, Messages
<1>6. QueueOK'
  BY <1>0, <1>2, TailQueueOK DEF QueueOK
<1>7. FrameOK'
  BY <1>1, <1>2, <1>4 DEF FrameOK
<1>8. UNCHANGED Links /\ Wired(p)' /\ (\A e : Message(p, e)' = Message(p, e))
  BY <1>1, <1>2 DEF Links, Wired, Live, Message
<1>9. \A q \in Protos \ {p} : Same(q) /\ (Wired(q) => SameMessages(q))
  BY <1>0, <1>1, <1>2, OthersUntaken DEF Same
<1>10. \A m : Has(queue', m) => Has(queue, m)
  BY <1>0, <1>2, TailMessage
<1>11. ProtoOK(p)' /\ MessageOK(p)'
  BY <1>1, <1>2, <1>8, <1>10 DEF ProtoOK, MessageOK
<1>12. OpenOK(s, p)'
  <2>1. inner[m_protop[s]] # Null => created[s]
    BY <1>0, <1>1 DEF OpenOK, Serving
  <2> QED BY <1>1, <1>2, <2>1 DEF OpenOK
<1>13. HandlerOK(s, p)'
  BY <1>2, <1>3, <1>4 DEF HandlerOK
<1>14. LastOK(s, p)'
  <2>1. ~created[s] /\ "ERROR" \in m_flags[p] => m_chunk[p].off = ChunkLen
    BY <1>0, <1>1 DEF LastOK, Serving
  <2> QED BY <1>2, <1>4, <2>1 DEF LastOK
<1>15. DeliveredOK(s, p)'
  BY <1>0, <1>1, <1>2, <1>3 DEF DeliveredOK, Connected, Position, Leaving, Handed, Serving
<1>16. \A r \in Streams \ {s} : /\ created'[r] = created[r] /\ m_offset'[r] = m_offset[r]
                                /\ r \in notReady' <=> r \in notReady
                                /\ UNCHANGED handlerVars \/ (~Serving(r) /\ ~Serving(r)')
  BY <1>0, <1>2, <1>4 DEF Serving
<1> QED BY <1>1, <1>5, <1>6, <1>7, <1>8, <1>9, <1>11, <1>12, <1>13, <1>14, <1>15, <1>16, OneStep

\* FD_READ or FD_CLOSE for a stream whose response is not complete.
LEMMA OnReadReads ==
  ASSUME IndInv, OnRead, "CREATED" \notin m_flags[Receiver]
  PROVE  IndInv'
<1>0. pc = "idle" /\ queue # <<>> /\ Receiver # Null
  BY DEF OnRead, Arrives
<1>1. PICK p \in Protos, s \in Streams :
        /\ p = Receiver /\ s = m_waitp[p] /\ Wired(p)
        /\ m_files[p] = Head(queue).fd /\ m_files[p] \in Fds
        /\ m_protop[s] # Null /\ p = Source(m_protop[s]) /\ ProtoOK(p) /\ MessageOK(p)
        /\ OpenOK(s, p) /\ LastOK(s, p) /\ DeliveredOK(s, p)
  BY <1>0, Received
<1>2. /\ TypeOK /\ QueueOK /\ queue \in Seq(Messages)
      /\ ReadResponse(p) /\ "CREATED" \notin m_flags[p]
      /\ UNCHANGED <<m_files, stream_list, m_ref, m_waitp, m_header, inner, streamVars, conn, rx, resp>>
  BY <1>0, <1>1, Received DEF OnRead, IndInv
<1> USE DEF streamVars
<1>3. PICK off \in Nat, e \in {"none", "WSAEWOULDBLOCK", "fatal"} :
        /\ m_chunk[p].off <= off /\ off <= ChunkLen /\ off <= rx[p]
        /\ rd' = [rd EXCEPT ![p] = off] /\ last_error' = [last_error EXCEPT ![p] = e]
        /\ \/ m_chunk[p].off = ChunkLen /\ queue' = Tail(queue) /\ UNCHANGED armed
           \/ m_chunk[p].off < ChunkLen /\ Rearm(p, Tail(queue), rx[p] > off)
        /\ \/ /\ m_flags' = [m_flags EXCEPT ![p] = @ \cup Broken]
              /\ m_chunk' = [m_chunk EXCEPT ![p] = [off |-> off, len |-> ChunkLen]]
              /\ pc' = "onread" /\ frame' = [NoFrame EXCEPT !.s = s]
              /\ e # "WSAEWOULDBLOCK" \/ off = ChunkLen
              /\ \/ conn[p] \notin {"open", "eof"}
                 \/ /\ ~HeaderDone(p, off)
                    /\ off = ChunkLen \/ (conn[p] = "eof" /\ off = rx[p])
           \/ /\ HeaderDone(p, off)
              /\ m_flags' = [m_flags EXCEPT ![p] = @ \cup HeaderFlags(p)]
              /\ m_chunk' = [m_chunk EXCEPT ![p] = [off |-> resp[p].hdr, len |-> off]]
              /\ pc' = "onread" /\ frame' = [NoFrame EXCEPT !.s = s]
           \/ /\ m_flags' = m_flags
              /\ m_chunk' = [m_chunk EXCEPT ![p] = [off |-> off, len |-> ChunkLen]]
              /\ pc' = "idle" /\ frame' = NoFrame
              /\ \/ off = ChunkLen /\ m_chunk[p].off < off
                 \/ conn[p] = "open" /\ off = rx[p]
  <2>1. /\ TypeOK /\ ProtoOK(p) /\ "CREATED" \notin m_flags[p] /\ ReadResponse(p)
        /\ m_waitp[p] = s
    BY <1>1, <1>2
  <2> QED BY <2>1, ReadOutcome, Zenon
<1>4. /\ queue' \in Seq(Messages) /\ armed' \in [Protos -> SUBSET Events]
      /\ \A f \in Fds, ev \in Events :
           Has(queue', Msg(f, ev)) => Has(Tail(queue), Msg(f, ev)) \/ (rx[p] > off /\ f = m_files[p])
      /\ Has(queue', Message(p, "CLOSE")) <=> Has(Tail(queue), Message(p, "CLOSE"))
      /\ m_chunk[p].off < ChunkLen => ("READ" \notin armed'[p] <=> rx[p] > off)
      /\ "CLOSE" \in armed'[p] <=> "CLOSE" \in armed[p]
      /\ \A q \in Protos \ {p} : armed'[q] = armed[q] /\ (Wired(q) => SameMessages(q))
  BY <1>0, <1>1, <1>2, <1>3, ReadMessages
<1>5. /\ ChunkLen \in Nat /\ rx[p] \in Nat /\ m_chunk[p].off \in Nat /\ rd[p] \in Nat
      /\ ~created[s] /\ m_offset[s] = 0 /\ "ERROR" \notin m_flags[p]
      /\ m_chunk[p].off = rd[p] /\ m_chunk[p].len = ChunkLen
      /\ rx[p] > 0 => resp[p] # Null
      /\ resp[p] # Null => conn[p] \in Met
  BY <1>1, <1>2, SizeAssumption DEF TypeOK, OpenOK, ProtoOK
<1>6. resp[p] # Null => resp[p].hdr \in Nat
  BY <1>2, ResponseAssumption DEF TypeOK, ResponseSpace
<1>7. HeaderDone(p, off) => resp[p] # Null /\ resp[p].hdr \in Nat /\ resp[p].hdr <= off
  BY <1>6 DEF HeaderDone
\* What the three outcomes have in common.
<1>8. /\ rd'[p] = off /\ rd' \in [Protos -> Nat] /\ last_error'[p] = e
      /\ last_error' \in [Protos -> {"none", "WSAEWOULDBLOCK", "fatal"}]
      /\ \A q \in Protos \ {p} : rd'[q] = rd[q] /\ last_error'[q] = last_error[q]
  BY <1>2, <1>3 DEF TypeOK
<1>9. PICK c \in [off : Nat, len : Nat] :
        /\ m_chunk' = [m_chunk EXCEPT ![p] = c] /\ c.off <= c.len
        /\ c = [off |-> off, len |-> ChunkLen] \/ c = [off |-> resp[p].hdr, len |-> off]
  BY <1>3, <1>5, <1>7
<1>10. /\ m_chunk'[p] = c /\ m_chunk' \in [Protos -> [off : Nat, len : Nat]]
       /\ \A q \in Protos \ {p} : m_chunk'[q] = m_chunk[q]
  BY <1>2, <1>9 DEF TypeOK
<1>11. PICK fl \in SUBSET (Broken \cup {"VIDEO"}) :
         m_flags' = [m_flags EXCEPT ![p] = m_flags[p] \cup fl]
  <2>1. HeaderFlags(p) \in SUBSET (Broken \cup {"VIDEO"}) /\ Broken \in SUBSET (Broken \cup {"VIDEO"})
    BY DEF HeaderFlags, Broken
  <2>2. m_flags = [m_flags EXCEPT ![p] = m_flags[p] \cup {}]
    BY <1>2 DEF TypeOK
  <2> QED BY <1>3, <2>1, <2>2
<1>12. /\ m_flags'[p] = m_flags[p] \cup fl /\ m_flags' \in [Protos -> SUBSET (Broken \cup {"VIDEO"})]
       /\ \A q \in Protos \ {p} : m_flags'[q] = m_flags[q]
  <2>1. m_flags \in [Protos -> SUBSET (Broken \cup {"VIDEO"})]
    BY <1>2 DEF TypeOK
  <2> QED BY <1>11, <2>1
<1>13. \/ pc' = "idle" /\ frame' = NoFrame
       \/ pc' = "onread" /\ frame' = [NoFrame EXCEPT !.s = s]
  BY <1>3
<1>14. TypeOK'
  <2>1. frame' \in [s : Streams \cup {Null}, pos : Nat, len : Nat] /\ pc' \in PluginTurn \cup {"onread"}
    BY <1>13 DEF NoFrame, PluginTurn
  <2> QED BY <1>2, <1>4, <1>8, <1>10, <1>12, <2>1 DEF TypeOK, Messages
<1>15. QueueOK'
  <2>1. stream_list[m_files[p]] # Null
    BY <1>1, <1>2, NullAssumption DEF Receiver
  <2>2. \A f \in Fds, ev \in Events : Has(Tail(queue), Msg(f, ev)) => stream_list[f] # Null
    BY <1>0, <1>2, TailQueueOK
  <2> QED BY <1>2, <1>4, <2>1, <2>2 DEF QueueOK
<1>16. FrameOK'
  BY <1>1, <1>2, <1>13 DEF FrameOK, NoFrame
<1>17. UNCHANGED Links /\ Wired(p)' /\ (\A ev : Message(p, ev)' = Message(p, ev))
       /\ (\A ev : Message(p, ev) = Msg(m_files[p], ev)) /\ Source(m_protop[s])' = p
  BY <1>1, <1>2 DEF Links, Wired, Live, Message, Msg, Source
<1>18. \A q \in Protos \ {p} : Same(q) /\ (Wired(q) => SameMessages(q))
  BY <1>2, <1>4, <1>8, <1>10, <1>12 DEF Same
<1>19. \A m : Has(Tail(queue), m) => Has(queue, m)
  BY <1>0, <1>2, TailMessage
<1>20. \A r \in Streams \ {s} : /\ created'[r] = created[r] /\ m_offset'[r] = m_offset[r]
                                /\ r \in notReady' <=> r \in notReady
                                /\ UNCHANGED handlerVars \/ (~Serving(r) /\ ~Serving(r)')
  BY <1>0, <1>2, <1>13 DEF Serving, NoFrame
<1>21. inner[m_protop[s]] = Null
  BY <1>0, <1>1, <1>5 DEF OpenOK, Serving
<1>22. OpenOK(s, p)'
  BY <1>2, <1>5, <1>21 DEF OpenOK
\* The messages, but for the order of FD_READ and FD_CLOSE.
<1>23. /\ \A ev \in Events : Has(queue', Message(p, ev)) => conn[p] \in Met
       /\ Has(queue', Message(p, "CLOSE")) => "CLOSE" \notin armed'[p]
       /\ "CLOSE" \notin armed'[p] => conn[p] \in {"eof", "rst"}
  <2>1. ASSUME NEW ev \in Events, Has(queue', Message(p, ev)) PROVE conn[p] \in Met
    <3>1. CASE rx[p] > off
      BY <1>5, <3>1
    <3>2. CASE Has(Tail(queue), Message(p, ev))
      BY <1>1, <1>19, <3>2 DEF MessageOK
    <3> QED BY <1>1, <1>4, <1>17, <2>1, <3>1, <3>2
  <2> QED BY <1>1, <1>4, <1>19, <2>1 DEF MessageOK
<1>24. CASE pc' = "onread" /\ frame' = [NoFrame EXCEPT !.s = s]
  <2>1. Serving(s)' /\ frame'.len = 0
    BY <1>24 DEF Serving, NoFrame
  <2>2. "CREATED" \in m_flags'[p]
    BY <1>2, <1>3, <1>12, <1>24 DEF Broken, HeaderFlags, TypeOK
  <2>3. ProtoOK(p)'
    BY <1>1, <1>2, <1>3, <1>5, <1>8, <1>9, <1>10, <1>17, <2>2 DEF ProtoOK
  <2>4. MessageOK(p)'
    BY <1>2, <1>17, <1>23, <2>2 DEF MessageOK
  <2>5. HandlerOK(s, p)'
    BY <1>24, <2>1, <2>2 DEF HandlerOK
  <2>6. LastOK(s, p)'
    <3>1. "ERROR" \in m_flags'[p] => m_chunk'[p].off = ChunkLen \/ last_error'[p] # "WSAEWOULDBLOCK"
      <4>1. CASE m_flags' = [m_flags EXCEPT ![p] = @ \cup HeaderFlags(p)]
        BY <1>2, <1>5, <4>1 DEF HeaderFlags, TypeOK
      <4>2. CASE /\ m_chunk' = [m_chunk EXCEPT ![p] = [off |-> off, len |-> ChunkLen]]
                 /\ e # "WSAEWOULDBLOCK" \/ off = ChunkLen
        BY <1>2, <1>8, <4>2 DEF TypeOK
      <4> QED BY <1>3, <1>24, <4>1, <4>2
    <3> QED BY <2>1, <3>1 DEF LastOK
  <2>7. DeliveredOK(s, p)'
    <3>1. CASE m_flags' = [m_flags EXCEPT ![p] = @ \cup Broken]
      <4>1. "ERROR" \in m_flags'[p]
        BY <1>2, <3>1 DEF Broken, TypeOK
      <4>2. ~Connected(p)'
        BY <4>1 DEF Connected, Broken
      <4> QED BY <4>2 DEF DeliveredOK
    <3>2. CASE /\ HeaderDone(p, off)
               /\ m_chunk' = [m_chunk EXCEPT ![p] = [off |-> resp[p].hdr, len |-> off]]
      <4>1. m_chunk'[p].off = resp[p].hdr /\ m_chunk'[p].len = off
        BY <1>2, <3>2 DEF TypeOK
      <4>2. Position(p)' = resp[p].hdr
        BY <1>2, <1>7, <1>8, <3>2, <4>1 DEF Position
      <4>3. Handed(s)' = 0 /\ resp[p].hdr = resp[p].hdr + 0 + 0
        BY <1>7, <1>24, <3>2 DEF Handed
      <4> QED BY <1>2, <1>5, <1>7, <1>8, <3>2, <4>1, <4>2, <4>3 DEF DeliveredOK
    <3> QED BY <1>3, <1>24, <3>1, <3>2
  <2> QED BY <1>1, <1>14, <1>15, <1>16, <1>17, <1>18, <1>20, <1>22, <2>3, <2>4, <2>5, <2>6, <2>7, OneStep
<1>25. CASE pc' = "idle" /\ frame' = NoFrame
  <2>1. ~Serving(s)'
    BY <1>25 DEF Serving
  <2>2. /\ m_flags' = m_flags /\ m_chunk'[p] = [off |-> off, len |-> ChunkLen]
        /\ \/ off = ChunkLen /\ m_chunk[p].off < off
           \/ conn[p] = "open" /\ off = rx[p]
    BY <1>2, <1>3, <1>25 DEF TypeOK
  <2>3. ProtoOK(p)'
    BY <1>1, <1>2, <1>3, <1>5, <1>8, <1>17, <2>2 DEF ProtoOK
  \* FD_CLOSE is not the message that was handled.
  <2>4. "CLOSE" \in armed'[p] \/ Has(queue', Message(p, "CLOSE"))
    <3>1. ASSUME "CLOSE" \notin armed[p] PROVE Has(Tail(queue), Message(p, "CLOSE"))
      <4>1. conn[p] # "open" /\ Has(queue, Message(p, "CLOSE"))
        BY <1>1, <1>2, <3>1 DEF MessageOK
      <4>2. m_chunk[p].off < ChunkLen /\ rx[p] > rd[p]
        BY <1>3, <1>5, <2>2, <4>1
      <4>3. Before(queue, Message(p, "READ"), Message(p, "CLOSE"))
        BY <1>1, <1>2, <4>2 DEF MessageOK
      <4>4. Head(queue) # Message(p, "CLOSE")
        BY <1>0, <1>2, <4>3, HeadBefore
      <4> QED BY <1>0, <1>2, <4>1, <4>4, TailMessage
    <3> QED BY <1>4, <3>1
  <2>5. MessageOK(p)'
    <3>1. m_chunk'[p].off < ChunkLen => m_chunk[p].off < ChunkLen /\ off = rx[p]
      BY <1>3, <1>5, <2>2
    <3>2. m_chunk'[p].off < ChunkLen => "READ" \in armed'[p] /\ ~(rx[p] > rd'[p])
      BY <1>4, <1>5, <1>8, <3>1
    <3> QED BY <1>2, <1>17, <1>23, <2>4, <3>2 DEF MessageOK
  <2>6. HandlerOK(s, p)'
    BY <2>1 DEF HandlerOK
  <2>7. LastOK(s, p)'
    BY <1>5, <1>17, <2>2, <2>4 DEF LastOK, Ended
  <2>8. DeliveredOK(s, p)'
    BY <1>2, <2>2 DEF DeliveredOK, Connected
  <2> QED BY <1>1, <1>14, <1>15, <1>16, <1>17, <1>18, <1>20, <1>22, <2>3, <2>5, <2>6, <2>7, <2>8, OneStep
<1> QED BY <1>13, <1>24, <1>25

LEMMA OnReadInv == ASSUME IndInv, OnRead PROVE IndInv'
BY OnReadWakes, OnReadReads

-----------------------------------------------------------------------------
(* Objects come and go.                                                    *)

\* The messages of the sockets that are closed become stale, the others stay as they are.
LEMMA OrphanedMessages ==
  ASSUME TypeOK, NEW gone, queue' = Orphaned(queue, gone)
  PROVE  /\ queue' \in Seq(Messages)
         /\ \A f, e : Has(queue', Msg(f, e)) => Has(queue, Msg(f, e)) /\ \A p \in gone : m_files[p] # f
         /\ \A q \in Protos : m_files'[q] = m_files[q] /\ (\A p \in gone : m_files[p] # m_files[q])
                              => SameMessages(q)
<1>1. queue \in Seq(Messages)
  BY DEF TypeOK, Messages
<1>2. PICK n \in Nat : DOMAIN queue = 1..n /\ queue \in [1..n -> Messages]
  BY <1>1
<1>3. /\ DOMAIN queue' = 1..n
      /\ \A i \in 1..n : queue'[i] = IF \E p \in gone : m_files[p] = queue[i].fd
                                     THEN [queue[i] EXCEPT !.stale = TRUE] ELSE queue[i]
  <2>1. queue' = [i \in DOMAIN queue |-> IF \E p \in gone : m_files[p] = queue[i].fd
                                         THEN [queue[i] EXCEPT !.stale = TRUE] ELSE queue[i]]
    BY Zenon DEF Orphaned
  <2> QED BY <1>2, <2>1, Zenon
<1>4. ASSUME NEW i \in 1..n
      PROVE  /\ queue'[i] \in Messages
             /\ (\A p \in gone : m_files[p] # queue[i].fd) => queue'[i] = queue[i]
             /\ (\E p \in gone : m_files[p] = queue[i].fd) => queue'[i].stale
             /\ queue'[i].fd = queue[i].fd
  <2>1. queue[i] \in Messages
    BY <1>2
  <2>2. queue'[i] = IF \E p \in gone : m_files[p] = queue[i].fd
                    THEN [queue[i] EXCEPT !.stale = TRUE] ELSE queue[i]
    BY <1>3, Zenon
  <2>3. PICK m \in Messages : m = queue[i]
    BY <2>1
  <2>4. /\ [m EXCEPT !.stale = TRUE] \in Messages
        /\ [m EXCEPT !.stale = TRUE].fd = m.fd
        /\ [m EXCEPT !.stale = TRUE].stale
    <3>1. [m EXCEPT !.stale = TRUE].fd = m.fd
      BY DEF Messages
    <3>2. [m EXCEPT !.stale = TRUE].stale = TRUE
      BY DEF Messages
    <3>3. [m EXCEPT !.stale = TRUE] \in Messages
      BY DEF Messages
    <3> QED BY <3>1, <3>2, <3>3
  <2>5. CASE \E p \in gone : m_files[p] = queue[i].fd
    <3>1. queue'[i] = [m EXCEPT !.stale = TRUE]
      BY <2>2, <2>3, <2>5
    <3> QED BY <2>3, <2>4, <2>5, <3>1
  <2>6. CASE \A p \in gone : m_files[p] # queue[i].fd
    BY <2>1, <2>2, <2>6
  <2> QED BY <2>5, <2>6
<1>5. queue' \in Seq(Messages)
  <2>1. queue' = [i \in 1..n |-> queue'[i]]
    BY <1>2 DEF Orphaned
  <2>2. queue' \in [1..n -> Messages]
    BY <1>4, <2>1
  <2> QED BY <2>2
<1>6. ASSUME NEW f, NEW e, Has(queue', Msg(f, e))
      PROVE  Has(queue, Msg(f, e)) /\ \A p \in gone : m_files[p] # f
  <2>1. PICK i \in 1..n : queue'[i] = Msg(f, e)
    BY <1>3, <1>6 DEF Has
  <2>2. ~queue'[i].stale /\ queue'[i].fd = f
    BY <2>1 DEF Msg
  <2>3. queue'[i] = queue[i] /\ queue[i].fd = f /\ \A p \in gone : m_files[p] # f
    BY <1>4, <2>2
  <2> QED BY <1>2, <2>1, <2>3 DEF Has
<1>7. ASSUME NEW q \in Protos, m_files'[q] = m_files[q], \A p \in gone : m_files[p] # m_files[q]
      PROVE  SameMessages(q)
  <2>1. \A e : Message(q, e)' = Message(q, e) /\ Message(q, e).fd = m_files[q]
    BY <1>7 DEF Message
  <2>2. ASSUME NEW i \in 1..n, NEW e PROVE queue'[i] = Message(q, e) <=> queue[i] = Message(q, e)
    <3>1. CASE queue[i].fd = m_files[q]
      BY <1>4, <1>7, <3>1
    <3>2. CASE queue[i].fd # m_files[q]
      BY <1>4, <2>1, <3>2
    <3> QED BY <3>1, <3>2
  <2>3. \A e : Has(queue', Message(q, e)) <=> Has(queue, Message(q, e))
    BY <1>2, <1>3, <2>2 DEF Has
  <2>4. ASSUME Before(queue, Message(q, "READ"), Message(q, "CLOSE"))
        PROVE  Before(queue', Message(q, "READ"), Message(q, "CLOSE"))
    <3> SUFFICES ASSUME NEW j \in 1..n, queue'[j] = Message(q, "CLOSE")
                 PROVE  \E i \in 1..(j - 1) : queue'[i] = Message(q, "READ")
      BY <1>3 DEF Before
    <3>1. PICK i \in 1..(j - 1) : queue[i] = Message(q, "READ")
      BY <1>2, <2>2, <2>4 DEF Before
    <3>2. i \in 1..n
      BY <1>2
    <3> QED BY <2>2, <3>1, <3>2
  <2> QED BY <2>1, <2>3, <2>4 DEF SameMessages
<1> QED BY <1>5, <1>6, <1>7

\* The values a new object starts with (start is its conn), those of an object that is deleted, and the others.
TurnedOver(new, f, start, gone) ==
  /\ m_files' \in [Protos -> Fds \cup {Null}] /\ stream_list' \in [Fds -> Protos \cup {Null}]
  /\ last_error' \in [Protos -> {"none", "WSAEWOULDBLOCK", "fatal"}]
  /\ m_flags' \in [Protos -> SUBSET (Broken \cup {"VIDEO"})]
  /\ m_header' \in [Protos -> 0..ReqLen] /\ m_chunk' \in [Protos -> [off : Nat, len : Nat]]
  /\ armed' \in [Protos -> SUBSET Events]
  /\ conn' \in [Protos -> {"none", "connecting", "refused", "open", "eof", "rst"}]
  /\ rx' \in [Protos -> Nat] /\ rd' \in [Protos -> Nat]
  /\ resp' \in [Protos -> Responses \cup {Null}]
  /\ \A q \in Protos \ gone : q # new => m_files'[q] = m_files[q] /\ Same(q)
  /\ \A q \in Protos : q = new \/ q \in gone =>
       /\ m_files'[q] = IF q = new THEN f ELSE Null
       /\ armed'[q] = IF q = new /\ start = "connecting" THEN Events ELSE {}
       /\ conn'[q] = IF q = new THEN start ELSE "none"
       /\ m_flags'[q] = {} /\ m_chunk'[q] = NoChunk /\ rx'[q] = 0 /\ rd'[q] = 0 /\ resp'[q] = Null
  /\ \A g \in Fds : stream_list'[g] = IF new # Null /\ start = "connecting" /\ g = f THEN new
                                      ELSE IF \E p \in gone : m_files[p] = g THEN Null
                                      ELSE stream_list[g]
  /\ queue' = Orphaned(queue, gone)

LEMMA TurnoverValues ==
  ASSUME TypeOK, NEW new \in Protos \cup {Null}, NEW f \in Fds \cup {Null}, NEW start \in {"connecting", "none"},
         NEW gone \in SUBSET Protos, new \notin gone,
         \/ start = "connecting" /\ Turnover(new, f, TRUE, gone)
         \/ start = "none" /\ Turnover(new, f, FALSE, gone)
  PROVE  TurnedOver(new, f, start, gone)
<1>1. /\ m_files \in [Protos -> Fds \cup {Null}] /\ stream_list \in [Fds -> Protos \cup {Null}]
      /\ last_error \in [Protos -> {"none", "WSAEWOULDBLOCK", "fatal"}]
      /\ m_flags \in [Protos -> SUBSET (Broken \cup {"VIDEO"})]
      /\ m_header \in [Protos -> 0..ReqLen] /\ m_chunk \in [Protos -> [off : Nat, len : Nat]]
      /\ armed \in [Protos -> SUBSET Events]
      /\ conn \in [Protos -> {"none", "connecting", "refused", "open", "eof", "rst"}]
      /\ rx \in [Protos -> Nat] /\ rd \in [Protos -> Nat] /\ resp \in [Protos -> Responses \cup {Null}]
  BY DEF TypeOK
<1>2. NoChunk \in [off : Nat, len : Nat] /\ 0 \in 0..ReqLen
  BY SizeAssumption DEF NoChunk
<1>3. m_files' = [p \in Protos |-> IF p = new THEN f ELSE IF p \in gone THEN Null ELSE m_files[p]]
  BY DEF Turnover
<1>4. last_error' = [p \in Protos |-> IF p = new THEN "none" ELSE IF p \in gone THEN "none"
                                      ELSE last_error[p]]
  BY DEF Turnover
<1>5. m_flags' = [p \in Protos |-> IF p = new THEN {} ELSE IF p \in gone THEN {} ELSE m_flags[p]]
  BY DEF Turnover
<1>6. m_header' = [p \in Protos |-> IF p = new THEN 0 ELSE IF p \in gone THEN 0 ELSE m_header[p]]
  BY DEF Turnover
<1>7. m_chunk' = [p \in Protos |-> IF p = new THEN NoChunk ELSE IF p \in gone THEN NoChunk ELSE m_chunk[p]]
  BY DEF Turnover
<1>8. armed' = [p \in Protos |-> IF p = new THEN (IF start = "connecting" THEN Events ELSE {})
                                 ELSE IF p \in gone THEN {} ELSE armed[p]]
  BY DEF Turnover
<1>9. conn' = [p \in Protos |-> IF p = new THEN start
                                ELSE IF p \in gone THEN "none" ELSE conn[p]]
  BY DEF Turnover
<1>10. /\ rx' = [p \in Protos |-> IF p = new THEN 0 ELSE IF p \in gone THEN 0 ELSE rx[p]]
       /\ rd' = [p \in Protos |-> IF p = new THEN 0 ELSE IF p \in gone THEN 0 ELSE rd[p]]
  BY DEF Turnover
<1>11. resp' = [p \in Protos |-> IF p = new THEN Null ELSE IF p \in gone THEN Null ELSE resp[p]]
  BY DEF Turnover
<1>12. stream_list' = [g \in Fds |-> IF (IF start = "connecting" THEN new ELSE Null) # Null /\ g = f
                                     THEN (IF start = "connecting" THEN new ELSE Null)
                                     ELSE IF \E p \in gone : m_files[p] = g THEN Null ELSE stream_list[g]]
  BY DEF Turnover, Registered
<1>13. queue' = Orphaned(queue, gone)
  BY DEF Turnover
<1>14. m_files' \in [Protos -> Fds \cup {Null}] /\ resp' \in [Protos -> Responses \cup {Null}]
  BY <1>1, <1>3, <1>11
<1>15. /\ last_error' \in [Protos -> {"none", "WSAEWOULDBLOCK", "fatal"}]
       /\ m_flags' \in [Protos -> SUBSET (Broken \cup {"VIDEO"})]
  BY <1>1, <1>4, <1>5
<1>16. m_header' \in [Protos -> 0..ReqLen] /\ m_chunk' \in [Protos -> [off : Nat, len : Nat]]
  BY <1>1, <1>2, <1>6, <1>7
<1>17. armed' \in [Protos -> SUBSET Events]
  BY <1>1, <1>8
<1>18. conn' \in [Protos -> {"none", "connecting", "refused", "open", "eof", "rst"}]
  BY <1>1, <1>9
<1>19. rx' \in [Protos -> Nat] /\ rd' \in [Protos -> Nat]
  BY <1>1, <1>10
<1>20. /\ stream_list' \in [Fds -> Protos \cup {Null}]
       /\ \A g \in Fds : stream_list'[g] = IF new # Null /\ start = "connecting" /\ g = f THEN new
                                           ELSE IF \E p \in gone : m_files[p] = g THEN Null
                                           ELSE stream_list[g]
  <2>1. CASE start = "connecting"
    BY <1>1, <1>12, <2>1
  <2>2. CASE start = "none"
    BY <1>1, <1>12, <2>2
  <2> QED BY <2>1, <2>2
<1>21. \A q \in Protos \ gone : q # new => m_files'[q] = m_files[q] /\ Same(q)
  BY <1>3, <1>4, <1>5, <1>7, <1>8, <1>9, <1>10, <1>11 DEF Same
<1>22. \A q \in Protos : q = new \/ q \in gone =>
         /\ m_files'[q] = IF q = new THEN f ELSE Null
         /\ m_flags'[q] = {} /\ m_chunk'[q] = NoChunk /\ rx'[q] = 0 /\ rd'[q] = 0 /\ resp'[q] = Null
  BY <1>3, <1>5, <1>7, <1>10, <1>11
<1>23. \A q \in Protos : q = new \/ q \in gone =>
         /\ armed'[q] = IF q = new /\ start = "connecting" THEN Events ELSE {}
         /\ conn'[q] = IF q = new THEN start ELSE "none"
  BY <1>8, <1>9
<1> QED BY <1>13, <1>14, <1>15, <1>16, <1>17, <1>18, <1>19, <1>20, <1>21, <1>22, <1>23 DEF TurnedOver

\* A stream whose proto_stream was constructed in this step.
LEMMA FreshStream ==
  ASSUME NEW s \in Streams, NEW new \in Protos, m_protop'[s] = new, inner'[new] = Null,
         m_flags'[new] = {}, armed'[new] = Events, m_offset'[s] = 0, ~created'[s], ~Serving(s)'
  PROVE  StreamOK(s)'
<1>1. Source(m_protop[s])' = new
  BY DEF Source
<1>2. ~Connected(new)' /\ ~Ended(new)'
  BY DEF Connected, Ended, Events
<1>3. OpenOK(s, new)'
  BY DEF OpenOK
<1>4. HandlerOK(s, new)' /\ LastOK(s, new)' /\ DeliveredOK(s, new)'
  BY <1>2 DEF HandlerOK, LastOK, DeliveredOK
<1> QED BY <1>1, <1>3, <1>4 DEF StreamOK

\* A step that constructs new, deletes the objects of gone, and links s anew.
LEMMA TurnoverInv ==
  ASSUME IndInv, NEW new \in Protos \cup {Null}, NEW f \in Fds \cup {Null}, NEW start \in {"connecting", "none"},
         NEW gone \in SUBSET Protos, TurnedOver(new, f, start, gone), NEW s \in Streams,
         \A q \in gone : Live(q),
         new \in Protos => ~Live(new) /\ f \in Fds /\ f \notin OpenFds /\ (Wired(new)' <=> start = "connecting"),
         \A q \in Protos \ gone : q # new => (Wired(q)' <=> Wired(q)),
         \A q \in gone : ~Wired(q)',
         \A r \in Streams \ {s} :
           /\ m_protop'[r] = m_protop[r]
           /\ m_protop[r] # Null =>
                inner'[m_protop[r]] = inner[m_protop[r]] /\ Source(m_protop[r]) \notin gone
           /\ created'[r] = created[r] /\ m_offset'[r] = m_offset[r] /\ (r \in notReady' <=> r \in notReady)
           /\ UNCHANGED handlerVars \/ (~Serving(r) /\ ~Serving(r)'),
         m_ref' \in [Protos -> Nat], m_waitp' \in [Protos -> Streams \cup {Null}],
         inner' \in [Protos -> Protos \cup {Null}], m_protop' \in [Streams -> Protos \cup {Null}],
         created' \in [Streams -> BOOLEAN], m_offset' \in [Streams -> Nat], notReady' \subseteq Streams,
         pc' \in PluginTurn \cup {"onread"}, frame' \in [s : Streams \cup {Null}, pos : Nat, len : Nat],
         LinksOK', FrameOK', StreamOK(s)'
  PROVE  IndInv'
<1>1. TypeOK /\ LinksOK /\ QueueOK
  BY DEF IndInv
<1>2. new \notin gone
  BY NullAssumption
<1>3. /\ m_files' \in [Protos -> Fds \cup {Null}] /\ stream_list' \in [Fds -> Protos \cup {Null}]
      /\ last_error' \in [Protos -> {"none", "WSAEWOULDBLOCK", "fatal"}]
      /\ m_flags' \in [Protos -> SUBSET (Broken \cup {"VIDEO"})]
      /\ m_header' \in [Protos -> 0..ReqLen] /\ m_chunk' \in [Protos -> [off : Nat, len : Nat]]
      /\ armed' \in [Protos -> SUBSET Events]
      /\ conn' \in [Protos -> {"none", "connecting", "refused", "open", "eof", "rst"}]
      /\ rx' \in [Protos -> Nat] /\ rd' \in [Protos -> Nat]
      /\ resp' \in [Protos -> Responses \cup {Null}]
      /\ \A q \in Protos \ gone : q # new => m_files'[q] = m_files[q] /\ Same(q)
      /\ \A q \in Protos : q = new \/ q \in gone =>
           /\ m_files'[q] = IF q = new THEN f ELSE Null
           /\ armed'[q] = IF q = new /\ start = "connecting" THEN Events ELSE {}
           /\ conn'[q] = IF q = new THEN start ELSE "none"
           /\ m_flags'[q] = {} /\ m_chunk'[q] = NoChunk /\ rx'[q] = 0 /\ rd'[q] = 0 /\ resp'[q] = Null
      /\ \A g \in Fds : stream_list'[g] = IF new # Null /\ start = "connecting" /\ g = f THEN new
                                          ELSE IF \E p \in gone : m_files[p] = g THEN Null
                                          ELSE stream_list[g]
      /\ queue' = Orphaned(queue, gone)
  BY Zenon DEF TurnedOver
<1>4. /\ queue' \in Seq(Messages)
      /\ \A g, e : Has(queue', Msg(g, e)) => Has(queue, Msg(g, e)) /\ \A p \in gone : m_files[p] # g
      /\ \A q \in Protos : m_files'[q] = m_files[q] /\ (\A p \in gone : m_files[p] # m_files[q])
                           => SameMessages(q)
  <2>1. TypeOK /\ queue' = Orphaned(queue, gone)
    BY <1>1, <1>3
  <2> QED BY <2>1, OrphanedMessages, Zenon
<1>5. TypeOK'
  BY <1>3, <1>4 DEF TypeOK, Messages
<1>6. QueueOK'
  <2> SUFFICES ASSUME NEW g \in Fds, NEW e \in Events, Has(queue', Msg(g, e)) PROVE stream_list'[g] # Null
    BY DEF QueueOK
  <2>1. Has(queue, Msg(g, e)) /\ \A p \in gone : m_files[p] # g
    BY <1>4
  <2>2. stream_list[g] # Null
    BY <1>1, <2>1 DEF QueueOK
  <2>3. ~(\E p \in gone : m_files[p] = g)
    BY <2>1
  <2>4. stream_list'[g] = IF new # Null /\ start = "connecting" /\ g = f THEN new ELSE stream_list[g]
    BY <1>3, <2>3, Zenon
  <2> QED BY <2>2, <2>4
\* The sockets that stay have handles and messages of their own.
<1>7. ASSUME NEW q \in Protos \ gone, q # new PROVE ProtoOK(q)' /\ MessageOK(q)' /\ Same(q) /\ SameLinks(q)
                                                  /\ (Wired(q) => SameMessages(q))
  <2>1. Same(q) /\ SameLinks(q)
    BY <1>3, <1>7 DEF SameLinks
  <2>2. ASSUME Wired(q) PROVE SameMessages(q)
    <3>1. \A p \in gone : m_files[p] # m_files[q]
      BY <1>1, <2>2 DEF LinksOK, Wired
    <3> QED BY <1>3, <1>4, <1>7, <3>1
  <2> QED BY <2>1, <2>2, ProtoUnaffected DEF IndInv
<1>8. ASSUME NEW q \in gone PROVE ProtoOK(q)' /\ MessageOK(q)'
  <2>1. /\ conn'[q] = "none" /\ m_flags'[q] = {} /\ m_chunk'[q] = NoChunk /\ rx'[q] = 0 /\ rd'[q] = 0
        /\ resp'[q] = Null /\ ~Wired(q)'
    BY <1>2, <1>3
  <2> QED BY <2>1, SizeAssumption DEF ProtoOK, MessageOK, NoChunk
<1>9. ASSUME new \in Protos PROVE ProtoOK(new)' /\ MessageOK(new)'
  <2>1. /\ m_flags'[new] = {} /\ m_chunk'[new] = NoChunk /\ rx'[new] = 0 /\ rd'[new] = 0
        /\ resp'[new] = Null /\ m_files'[new] = f /\ (Wired(new)' <=> start = "connecting")
        /\ conn'[new] = start
        /\ start = "connecting" => armed'[new] = Events
    BY <1>3, <1>9
  <2>2. ASSUME NEW e \in Events, Has(queue', Msg(f, e)) PROVE FALSE
    <3>1. Has(queue, Msg(f, e)) /\ f \in Fds
      BY <1>4, <1>9, <2>2
    <3>2. stream_list[f] # Null
      BY <1>1, <3>1 DEF QueueOK
    <3>3. stream_list[f] \in Protos /\ Live(stream_list[f]) /\ m_files[stream_list[f]] = f
      BY <1>1, <3>1, <3>2, OfHandle DEF Wired
    <3> QED BY <1>9, <3>3 DEF OpenFds
  <2>3. \A e \in Events : ~Has(queue, Message(new, e))'
    BY <2>1, <2>2 DEF Message, Msg
  <2>4. ProtoOK(new)'
    BY <2>1, SizeAssumption DEF ProtoOK, NoChunk
  <2>5. MessageOK(new)'
    BY <2>1, <2>3 DEF MessageOK, Events
  <2> QED BY <2>4, <2>5
<1>10. ASSUME NEW r \in Streams PROVE StreamOK(r)'
  <2>1. CASE r = s
    BY <2>1
  <2>2. CASE r # s /\ m_protop[r] = Null
    BY <2>2 DEF StreamOK
  <2>3. CASE r # s /\ m_protop[r] # Null
    <3>1. PICK p \in Protos : p = Source(m_protop[r]) /\ Wired(p)
      BY <1>1, <2>3, OfStream
    <3>2. p \notin gone /\ p # new
      BY <2>3, <3>1 DEF Wired
    <3>3. Same(p) /\ SameLinks(p) /\ SameMessages(p) /\ StreamOK(r)
      BY <1>7, <3>1, <3>2 DEF IndInv
    <3>4. /\ m_protop'[r] = m_protop[r] /\ inner'[m_protop[r]] = inner[m_protop[r]]
          /\ created'[r] = created[r] /\ m_offset'[r] = m_offset[r]
          /\ r \in notReady' <=> r \in notReady
          /\ UNCHANGED handlerVars \/ (~Serving(r) /\ ~Serving(r)')
      BY <2>3
    <3> QED BY <3>1, <3>3, <3>4, StreamUnaffected
  <2> QED BY <2>1, <2>2, <2>3
<1> QED BY <1>5, <1>6, <1>7, <1>8, <1>9, <1>10 DEF IndInv

\* The proto_streams that belong to s: the one it uses, and the one that wraps.
Owned(s) == {x \in Protos : m_protop[s] # Null /\ (x = m_protop[s] \/ x = Source(m_protop[s]))}

\* Who else refers to them: nobody.
LEMMA OwnedAlone ==
  ASSUME TypeOK, LinksOK, NEW s \in Streams
  PROVE  /\ \A x \in Owned(s) : Live(x)
         /\ \A x \in Protos \ Owned(s) : Wired(x) => m_waitp[x] # s
         /\ \A w \in Protos \ Owned(s) : inner[w] \notin Owned(s)
         /\ \A r \in Streams \ {s} : m_protop[r] # Null =>
              m_protop[r] \notin Owned(s) /\ Source(m_protop[r]) \notin Owned(s)
<1>1. ASSUME NEW x \in Owned(s)
      PROVE  /\ m_protop[s] # Null /\ Live(x) /\ (x = m_protop[s] \/ x = Source(m_protop[s]))
             /\ Wired(x) => x = Source(m_protop[s]) /\ m_waitp[x] = s
             /\ m_waitp[Source(m_protop[s])] = s /\ Wired(Source(m_protop[s]))
             /\ Live(x) /\ m_protop[s] # Null
  <2>1. m_protop[s] # Null /\ (x = m_protop[s] \/ x = Source(m_protop[s]))
    BY DEF Owned
  <2>2. /\ Wired(Source(m_protop[s])) /\ m_waitp[Source(m_protop[s])] = s
        /\ m_protop[s] \in Protos /\ m_ref[m_protop[s]] = 1
    BY <2>1, OfStream
  <2>3. Wired(m_protop[s]) => Source(m_protop[s]) = m_protop[s]
    BY DEF Wired, Source
  <2> QED BY <2>1, <2>2, <2>3 DEF Wired, Live
<1>2. ASSUME NEW x \in Protos \ Owned(s), Wired(x) PROVE m_waitp[x] # s
  BY <1>2, OfProto DEF Owned
<1>3. ASSUME NEW w \in Protos \ Owned(s), inner[w] \in Owned(s) PROVE FALSE
  <2>1. inner[w] # Null
    BY <1>3, NullAssumption DEF Owned
  <2>2. Wired(inner[w]) /\ m_protop[m_waitp[inner[w]]] = w
    BY <2>1 DEF LinksOK
  <2>3. m_waitp[inner[w]] = s /\ m_protop[s] # Null
    BY <1>1, <1>3, <2>2
  <2> QED BY <2>2, <2>3 DEF Owned
<1>4. ASSUME NEW r \in Streams \ {s}, m_protop[r] # Null
      PROVE  m_protop[r] \notin Owned(s) /\ Source(m_protop[r]) \notin Owned(s)
  <2>1. Wired(Source(m_protop[r])) /\ m_waitp[Source(m_protop[r])] = r
    BY <1>4, OfStream
  <2>2. Source(m_protop[r]) \notin Owned(s)
    BY <1>1, <2>1
  <2>3. ASSUME m_protop[r] \in Owned(s) PROVE FALSE
    <3>1. CASE m_protop[r] = m_protop[s]
      <4>1. m_waitp[Source(m_protop[s])] = s
        BY <1>1, <2>3
      <4> QED BY <2>1, <3>1, <4>1
    <3>2. CASE m_protop[r] = Source(m_protop[s])
      <4>1. Wired(m_protop[r])
        BY <1>1, <2>3, <3>2
      <4>2. Source(m_protop[r]) = m_protop[r]
        BY <4>1 DEF Wired, Source
      <4> QED BY <2>2, <2>3, <4>2
    <3> QED BY <2>3, <3>1, <3>2 DEF Owned
  <2> QED BY <2>2, <2>3
<1> QED BY <1>1, <1>2, <1>3, <1>4

\* s gives up what belongs to it, and uses new, if anything, from then on.
LEMMA RelinkOK ==
  ASSUME TypeOK, LinksOK, NEW s \in Streams, NEW new \in Protos \cup {Null}, NEW f \in Fds \cup {Null},
         NEW start \in {"connecting", "none"}, TurnedOver(new, f, start, Owned(s)),
         new \in Protos => start = "connecting" /\ ~Live(new) /\ f \in Fds /\ f \notin OpenFds,
         \A x \in Protos : m_ref'[x] = IF x = new THEN 1 ELSE IF x \in Owned(s) THEN 0 ELSE m_ref[x],
         \A x \in Protos : inner'[x] = IF x \in Owned(s) THEN Null ELSE inner[x],
         \A x \in Protos \ Owned(s) : x # new => m_waitp'[x] = m_waitp[x],
         new \in Protos => m_waitp'[new] = s,
         m_protop'[s] = new, \A r \in Streams \ {s} : m_protop'[r] = m_protop[r],
         m_protop' \in [Streams -> Protos \cup {Null}]
  PROVE  /\ LinksOK'
         /\ new \in Protos => (Wired(new)' <=> start = "connecting") /\ inner'[new] = Null
         /\ \A q \in Protos \ Owned(s) : q # new => (Wired(q)' <=> Wired(q))
         /\ \A q \in Owned(s) : ~Wired(q)'
<1> DEFINE gone == Owned(s)
<1>1. /\ \A x \in gone : Live(x)
      /\ \A x \in Protos \ gone : Wired(x) => m_waitp[x] # s
      /\ \A w \in Protos \ gone : inner[w] \notin gone
      /\ \A r \in Streams \ {s} : m_protop[r] # Null =>
           m_protop[r] \notin gone /\ Source(m_protop[r]) \notin gone
  BY OwnedAlone
<1>2. gone \subseteq Protos /\ new \notin gone /\ Null \notin Protos
  BY <1>1, NullAssumption DEF Owned
<1> HIDE DEF gone
<1>3. /\ \A x \in Protos : m_ref'[x] = IF x = new THEN 1 ELSE IF x \in gone THEN 0 ELSE m_ref[x]
      /\ \A x \in Protos : inner'[x] = IF x \in gone THEN Null ELSE inner[x]
      /\ \A x \in Protos \ gone : x # new => m_waitp'[x] = m_waitp[x]
  BY DEF gone
<1>4. /\ \A q \in Protos \ gone : q # new => m_files'[q] = m_files[q]
      /\ \A q \in Protos : q = new \/ q \in gone => m_files'[q] = IF q = new THEN f ELSE Null
      /\ \A g \in Fds : stream_list'[g] = IF new # Null /\ start = "connecting" /\ g = f THEN new
                                          ELSE IF \E p \in gone : m_files[p] = g THEN Null
                                          ELSE stream_list[g]
  <2>1. TurnedOver(new, f, start, gone)
    BY DEF gone
  <2> QED BY <2>1, Zenon DEF TurnedOver
\* What was not alive is not referred to.
<1>5. /\ new \in Protos => inner[new] = Null
      /\ \A w \in Protos : inner[w] # Null => inner[w] # new
      /\ \A r \in Streams : m_protop[r] # Null => m_protop[r] # new /\ Source(m_protop[r]) # new
      /\ \A g \in Fds : stream_list[g] # Null => stream_list[g] # new
  <2>1. new \in Protos => inner[new] = Null
    BY DEF LinksOK
  <2>2. \A w \in Protos : inner[w] # Null => inner[w] # new
    BY <1>2 DEF LinksOK, Wired, TypeOK
  <2>3. \A r \in Streams : m_protop[r] # Null => m_protop[r] # new /\ Source(m_protop[r]) # new
    <3> SUFFICES ASSUME NEW r \in Streams, m_protop[r] # Null
                 PROVE  m_protop[r] # new /\ Source(m_protop[r]) # new
      OBVIOUS
    <3>1. /\ Wired(Source(m_protop[r])) /\ Source(m_protop[r]) \in Protos
          /\ m_protop[r] \in Protos /\ m_ref[m_protop[r]] = 1
      BY OfStream
    <3> QED BY <3>1 DEF Wired, Live
  <2>4. \A g \in Fds : stream_list[g] # Null => stream_list[g] # new
    BY <1>2, OfHandle DEF Wired
  <2> QED BY <2>1, <2>2, <2>3, <2>4
<1>6. /\ \A q \in Protos \ gone : q # new => (Live(q)' <=> Live(q))
      /\ \A q \in gone : ~Live(q)'
      /\ new \in Protos => Live(new)'
  BY <1>2, <1>3 DEF Live
<1>7. /\ \A q \in Protos \ gone : q # new => (Wired(q)' <=> Wired(q))
      /\ \A q \in gone : ~Wired(q)'
      /\ new \in Protos => Wired(new)' /\ inner'[new] = Null
  BY <1>2, <1>3, <1>5, <1>6 DEF Wired
<1>8. \A x \in Protos \ gone : x # new => Source(x)' = Source(x)
  BY <1>3 DEF Source
\* The handles of the sockets that stay.
<1>9. ASSUME NEW q \in Protos \ gone, q # new, Live(q)
      PROVE  m_files'[q] = m_files[q] /\ m_files[q] \in Fds /\ (new \in Protos => m_files[q] # f)
             /\ ~(\E p \in gone : m_files[p] = m_files[q])
  <2>1. m_files'[q] = m_files[q] /\ m_files[q] \in Fds /\ m_files[q] \in OpenFds
    BY <1>4, <1>9 DEF LinksOK, OpenFds
  <2>2. ~(\E p \in gone : m_files[p] = m_files[q])
    BY <1>1, <1>2, <1>9 DEF LinksOK
  <2>3. new \in Protos => m_files[q] # f
    BY <2>1
  <2> QED BY <2>1, <2>2, <2>3
<1>10. LinksOK'
  <2>1. ASSUME NEW p \in Protos, ~Live(p)' PROVE inner'[p] = Null
    BY <1>2, <1>3, <1>6, <2>1 DEF LinksOK
  <2>2. ASSUME NEW p \in Protos, Live(p)' PROVE m_ref'[p] = 1 /\ m_files'[p] \in Fds
    BY <1>2, <1>3, <1>4, <1>6, <2>2 DEF LinksOK
  <2>3. ASSUME NEW p \in Protos, NEW q \in Protos, Live(p)', Live(q)', m_files'[p] = m_files'[q]
        PROVE  p = q
    <3>1. p \notin gone /\ q \notin gone
      BY <1>6, <2>3
    <3>2. CASE p # new /\ q # new
      BY <1>4, <1>6, <2>3, <3>1, <3>2 DEF LinksOK
    <3>3. CASE p = new /\ q # new
      BY <1>4, <1>6, <1>9, <2>3, <3>1, <3>3
    <3>4. CASE p # new /\ q = new
      BY <1>4, <1>6, <1>9, <2>3, <3>1, <3>4
    <3> QED BY <3>2, <3>3, <3>4
  <2>4. ASSUME NEW p \in Protos, Wired(p)'
        PROVE  /\ m_waitp'[p] \in Streams /\ m_protop'[m_waitp'[p]] # Null
               /\ Source(m_protop[m_waitp[p]])' = p /\ stream_list'[m_files'[p]] = p
    <3>1. CASE p = new
      <4>1. m_waitp'[p] = s /\ m_protop'[s] = p /\ inner'[p] = Null /\ m_files'[p] = f
        BY <1>2, <1>4, <1>7, <3>1
      <4>2. stream_list'[f] = p
        BY <1>2, <1>4, <3>1
      <4>3. Source(m_protop[m_waitp[p]])' = p
        BY <4>1 DEF Source
      <4> QED BY <1>2, <4>1, <4>2, <4>3
    <3>2. CASE p # new
      <4>1. p \notin gone /\ Wired(p) /\ Live(p)
        BY <1>7, <2>4, <3>2 DEF Wired
      <4>2. /\ m_waitp[p] \in Streams \ {s} /\ m_protop[m_waitp[p]] # Null
            /\ Source(m_protop[m_waitp[p]]) = p /\ stream_list[m_files[p]] = p
        BY <1>1, <4>1, OfProto
      <4>3. PICK r \in Streams \ {s} : r = m_waitp[p] /\ r = m_waitp'[p]
        BY <1>3, <3>2, <4>1, <4>2
      <4>4. m_protop'[r] = m_protop[r] /\ m_protop[r] \in Protos \ gone /\ m_protop[r] # new
        BY <1>1, <1>5, <4>2, <4>3 DEF TypeOK
      <4>5. Source(m_protop[r])' = Source(m_protop[r])
        BY <1>8, <4>4
      <4>6. stream_list'[m_files'[p]] = p
        BY <1>4, <1>9, <3>2, <4>1, <4>2
      <4>7. Source(m_protop[m_waitp[p]])' = Source(m_protop[r])'
        BY <4>3
      <4> QED BY <4>2, <4>3, <4>4, <4>5, <4>6, <4>7
    <3> QED BY <3>1, <3>2
  <2>5. ASSUME NEW w \in Protos, inner'[w] # Null
        PROVE  Wired(inner[w])' /\ m_protop'[m_waitp'[inner'[w]]] = w
    <3>1. w \notin gone /\ inner'[w] = inner[w] /\ inner[w] # Null
      BY <1>3, <2>5
    <3>2. PICK p \in Protos : p = inner[w] /\ p = inner'[w] /\ Wired(p) /\ m_protop[m_waitp[p]] = w
      BY <3>1 DEF LinksOK, TypeOK
    <3>3. p \notin gone /\ p # new
      BY <1>1, <1>5, <3>1, <3>2
    <3>4. Wired(p)' /\ m_waitp'[p] = m_waitp[p] /\ m_waitp[p] \in Streams \ {s}
      BY <1>1, <1>3, <1>7, <3>2, <3>3, OfProto
    <3> QED BY <3>2, <3>4
  <2>6. ASSUME NEW r \in Streams, m_protop'[r] # Null
        PROVE  Live(m_protop[r])' /\ m_waitp'[Source(m_protop[r])'] = r
    <3>1. CASE r = s
      <4>1. m_protop'[r] = new /\ new \in Protos
        BY <2>6, <3>1
      <4>2. Source(m_protop[r])' = new
        BY <1>7, <4>1 DEF Source
      <4> QED BY <1>6, <3>1, <4>1, <4>2
    <3>2. CASE r # s
      <4>1. PICK m \in Protos : m = m_protop[r] /\ m = m_protop'[r]
        BY <2>6, <3>2 DEF TypeOK
      <4>2. m # Null /\ Live(m) /\ m_waitp[Source(m)] = r /\ Source(m) \in Protos
        <5>1. m_protop[r] # Null
          BY <1>2, <4>1
        <5>2. /\ Source(m_protop[r]) \in Protos /\ m_waitp[Source(m_protop[r])] = r
              /\ m_ref[m_protop[r]] = 1
          BY <5>1, OfStream
        <5> QED BY <4>1, <5>1, <5>2 DEF Live
      <4>3. m \notin gone /\ Source(m) \notin gone /\ m # new /\ Source(m) # new
        BY <1>1, <1>5, <3>2, <4>1, <4>2
      <4>4. Source(m_protop[r])' = Source(m)' /\ Source(m)' = Source(m)
        BY <1>8, <4>1, <4>3
      <4>5. m_waitp'[Source(m)] = r
        BY <1>3, <4>2, <4>3
      <4> QED BY <1>6, <4>1, <4>2, <4>3, <4>4, <4>5
    <3> QED BY <3>1, <3>2
  <2>7. ASSUME NEW g \in Fds, stream_list'[g] # Null
        PROVE  Wired(stream_list[g])' /\ m_files'[stream_list'[g]] = g
    <3>1. CASE new # Null /\ start = "connecting" /\ g = f
      <4>1. stream_list'[g] = new /\ new \in Protos
        BY <1>4, <3>1
      <4> QED BY <1>4, <1>7, <3>1, <4>1
    <3>2. CASE ~(new # Null /\ start = "connecting" /\ g = f)
      <4>1. stream_list'[g] = stream_list[g] /\ stream_list[g] # Null /\ ~(\E p \in gone : m_files[p] = g)
        BY <1>4, <2>7, <3>2
      <4>2. PICK p \in Protos : p = stream_list[g] /\ p = stream_list'[g] /\ Wired(p) /\ m_files[p] = g
        BY <4>1, OfHandle
      <4>3. p \notin gone /\ p # new
        BY <1>5, <4>1, <4>2
      <4> QED BY <1>4, <1>7, <4>2, <4>3
    <3> QED BY <3>1, <3>2
  <2> QED BY <2>1, <2>2, <2>3, <2>4, <2>5, <2>6, <2>7 DEF LinksOK
<1> QED BY <1>7, <1>10 DEF gone

LEMMA GetURLInv ==
  ASSUME IndInv, NEW s \in Streams, NEW p \in Protos, NEW f \in Fds, GetURL(s, p, f)
  PROVE  IndInv'
<1>1. /\ TypeOK /\ LinksOK /\ FrameOK /\ m_protop[s] = Null /\ ~Live(p) /\ f \notin OpenFds
      /\ Turnover(p, f, TRUE, {})
      /\ m_ref' = [m_ref EXCEPT ![p] = 1] /\ m_waitp' = [m_waitp EXCEPT ![p] = s]
      /\ m_protop' = [m_protop EXCEPT ![s] = p] /\ created' = [created EXCEPT ![s] = FALSE]
      /\ m_offset' = [m_offset EXCEPT ![s] = 0]
      /\ UNCHANGED <<inner, notReady, handlerVars>>
  <2>1. GetURLRef = 1
    BY DEF GetURLRef
  <2> QED BY <2>1 DEF GetURL, IndInv
<1>2. PICK gone \in SUBSET Protos : gone = {} /\ gone = Owned(s)
  BY <1>1 DEF Owned
<1>3. TurnedOver(p, f, "connecting", gone)
  BY <1>1, <1>2, TurnoverValues
<1>4. /\ m_ref' \in [Protos -> Nat] /\ m_waitp' \in [Protos -> Streams \cup {Null}]
      /\ inner' \in [Protos -> Protos \cup {Null}] /\ m_protop' \in [Streams -> Protos \cup {Null}]
      /\ created' \in [Streams -> BOOLEAN] /\ m_offset' \in [Streams -> Nat] /\ notReady' \subseteq Streams
      /\ pc' \in PluginTurn \cup {"onread"} /\ frame' \in [s : Streams \cup {Null}, pos : Nat, len : Nat]
  BY <1>1 DEF TypeOK, handlerVars
<1>5. /\ LinksOK' /\ (Wired(p)' <=> "connecting" = "connecting") /\ inner'[p] = Null
      /\ \A q \in Protos \ gone : q # p => (Wired(q)' <=> Wired(q))
  <2>1. /\ \A x \in Protos : m_ref'[x] = IF x = p THEN 1 ELSE IF x \in Owned(s) THEN 0 ELSE m_ref[x]
        /\ \A x \in Protos : inner'[x] = IF x \in Owned(s) THEN Null ELSE inner[x]
        /\ \A x \in Protos \ Owned(s) : x # p => m_waitp'[x] = m_waitp[x]
        /\ m_waitp'[p] = s /\ m_protop'[s] = p /\ \A r \in Streams \ {s} : m_protop'[r] = m_protop[r]
    BY <1>1, <1>2 DEF TypeOK
  <2>2. TurnedOver(p, f, "connecting", Owned(s))
    BY <1>2, <1>3
  <2>3. "connecting" \in {"connecting", "none"} /\ p \in Protos \cup {Null} /\ f \in Fds \cup {Null}
    OBVIOUS
  <2>4. /\ LinksOK'
        /\ p \in Protos => (Wired(p)' <=> "connecting" = "connecting") /\ inner'[p] = Null
        /\ \A q \in Protos \ Owned(s) : q # p => (Wired(q)' <=> Wired(q))
    BY <1>1, <1>4, <2>1, <2>2, <2>3, RelinkOK
  <2> QED BY <1>2, <2>4
<1>6. ~Serving(s) /\ ~Serving(s)'
  BY <1>1 DEF FrameOK, Serving, handlerVars
<1>7. FrameOK'
  <2>1. pc # "idle" => frame.s # s
    BY <1>1 DEF FrameOK
  <2> QED BY <1>1, <2>1 DEF FrameOK, handlerVars
<1>8. StreamOK(s)'
  <2>1. m_flags'[p] = {} /\ armed'[p] = Events
    BY <1>3 DEF TurnedOver
  <2>2. m_protop'[s] = p /\ m_offset'[s] = 0 /\ ~created'[s]
    BY <1>1 DEF TypeOK
  <2> QED BY <1>5, <1>6, <2>1, <2>2, FreshStream
<1>9. \A r \in Streams \ {s} :
        /\ m_protop'[r] = m_protop[r]
        /\ m_protop[r] # Null =>
             inner'[m_protop[r]] = inner[m_protop[r]] /\ Source(m_protop[r]) \notin gone
        /\ created'[r] = created[r] /\ m_offset'[r] = m_offset[r] /\ (r \in notReady' <=> r \in notReady)
        /\ UNCHANGED handlerVars \/ (~Serving(r) /\ ~Serving(r)')
  BY <1>1, <1>2 DEF TypeOK
<1>10. /\ \A q \in gone : Live(q)
       /\ \A q \in gone : ~Wired(q)'
       /\ gone \in SUBSET Protos /\ "connecting" \in {"connecting", "none"}
       /\ p \in Protos \cup {Null} /\ f \in Fds \cup {Null}
  BY <1>2
<1> QED BY <1>1, <1>3, <1>4, <1>5, <1>7, <1>8, <1>9, <1>10, TurnoverInv

LEMMA RedirectInv ==
  ASSUME IndInv, NEW q \in Protos, NEW f \in Fds, Redirect(q, f)
  PROVE  IndInv'
<1>0. pc = "onread" /\ Fresh(frame.s) /\ TypeOK /\ LinksOK
  BY DEF Redirect, IndInv
<1>1. PICK s \in Streams, p \in Protos :
        /\ s = frame.s /\ m_protop[s] # Null /\ p = Source(m_protop[s]) /\ Serving(s) /\ Wired(p)
        /\ OpenOK(s, p) /\ m_ref[p] = 1
  BY <1>0, Served, OfStream
<1>2. ~created[s] /\ m_offset[s] = 0 /\ m_protop[s] = p /\ inner[p] = Null
  BY <1>0, <1>1 DEF Fresh, OpenOK, Source
<1>3. /\ ~Live(q) /\ f \notin OpenFds /\ Turnover(q, f, TRUE, {p})
      /\ m_ref' = [m_ref EXCEPT ![p] = @ - 1, ![q] = 1]
      /\ m_waitp' = [m_waitp EXCEPT ![p] = Null, ![q] = s]
      /\ m_protop' = [m_protop EXCEPT ![s] = q]
      /\ EndEvent /\ UNCHANGED <<inner, created, m_offset, notReady>>
  <2>1. Deleted(p) = {p}
    BY <1>1, <1>2, NullAssumption DEF Deleted
  <2> QED BY <1>1, <1>2, <2>1 DEF Redirect
<1>4. q # p /\ Owned(s) = {p}
  BY <1>1, <1>2, <1>3 DEF Owned, Wired
<1>5. TurnedOver(q, f, "connecting", {p})
  BY <1>0, <1>3, <1>4, TurnoverValues
<1>6. /\ \A x \in Protos : m_ref'[x] = IF x = q THEN 1 ELSE IF x \in Owned(s) THEN 0 ELSE m_ref[x]
      /\ \A x \in Protos : inner'[x] = IF x \in Owned(s) THEN Null ELSE inner[x]
      /\ \A x \in Protos \ Owned(s) : x # q => m_waitp'[x] = m_waitp[x]
      /\ m_waitp'[q] = s /\ m_protop'[s] = q /\ \A r \in Streams \ {s} : m_protop'[r] = m_protop[r]
  <2>1. \A x \in Protos : m_ref'[x] = IF x = q THEN 1 ELSE IF x = p THEN 0 ELSE m_ref[x]
    <3>1. m_ref' = [m_ref EXCEPT ![p] = 0, ![q] = 1]
      BY <1>1, <1>3
    <3> QED BY <1>0, <1>4, <3>1 DEF TypeOK
  <2>2. \A x \in Protos : m_waitp'[x] = IF x = q THEN s ELSE IF x = p THEN Null ELSE m_waitp[x]
    BY <1>0, <1>3, <1>4 DEF TypeOK
  <2> QED BY <1>0, <1>2, <1>3, <1>4, <2>1, <2>2 DEF TypeOK
<1>7. /\ m_waitp' \in [Protos -> Streams \cup {Null}] /\ m_protop' \in [Streams -> Protos \cup {Null}]
      /\ inner' \in [Protos -> Protos \cup {Null}]
      /\ created' \in [Streams -> BOOLEAN] /\ m_offset' \in [Streams -> Nat] /\ notReady' \subseteq Streams
  BY <1>0, <1>3 DEF TypeOK
<1>8. m_ref' \in [Protos -> Nat]
  <2>1. m_ref' = [m_ref EXCEPT ![p] = 0, ![q] = 1]
    BY <1>1, <1>3
  <2> QED BY <1>0, <2>1 DEF TypeOK
<1>9. /\ pc' \in PluginTurn \cup {"onread"} /\ frame' \in [s : Streams \cup {Null}, pos : Nat, len : Nat]
      /\ \A r : ~Serving(r)'
  BY <1>0, <1>3, EndTypes
<1>10. /\ LinksOK' /\ (Wired(q)' <=> "connecting" = "connecting") /\ inner'[q] = Null
       /\ \A x \in Protos \ {p} : x # q => (Wired(x)' <=> Wired(x))
       /\ \A x \in {p} : ~Wired(x)'
  <2>1. TurnedOver(q, f, "connecting", Owned(s))
    BY <1>4, <1>5
  <2>2. "connecting" \in {"connecting", "none"} /\ q \in Protos \cup {Null} /\ f \in Fds \cup {Null}
    OBVIOUS
  <2>3. /\ LinksOK'
        /\ q \in Protos => (Wired(q)' <=> "connecting" = "connecting") /\ inner'[q] = Null
        /\ \A x \in Protos \ Owned(s) : x # q => (Wired(x)' <=> Wired(x))
        /\ \A x \in Owned(s) : ~Wired(x)'
    BY <1>0, <1>3, <1>6, <1>7, <2>1, <2>2, RelinkOK
  <2> QED BY <1>4, <2>3
<1>11. FrameOK'
  BY <1>3 DEF FrameOK, EndEvent
<1>12. StreamOK(s)'
  <2>1. m_flags'[q] = {} /\ armed'[q] = Events
    BY <1>5 DEF TurnedOver
  <2> QED BY <1>2, <1>3, <1>6, <1>9, <1>10, <2>1, FreshStream
<1>13. \A r \in Streams \ {s} :
         /\ m_protop'[r] = m_protop[r]
         /\ m_protop[r] # Null =>
              inner'[m_protop[r]] = inner[m_protop[r]] /\ Source(m_protop[r]) \notin {p}
         /\ created'[r] = created[r] /\ m_offset'[r] = m_offset[r] /\ (r \in notReady' <=> r \in notReady)
         /\ UNCHANGED handlerVars \/ (~Serving(r) /\ ~Serving(r)')
  <2>1. \A r \in Streams \ {s} : ~Serving(r)
    BY <1>1 DEF Serving
  <2> QED BY <1>0, <1>3, <1>4, <1>6, <1>9, <2>1, OwnedAlone
<1>14. /\ \A x \in {p} : Live(x)
       /\ {p} \in SUBSET Protos /\ "connecting" \in {"connecting", "none"}
       /\ q \in Protos \cup {Null} /\ f \in Fds \cup {Null}
  BY <1>1 DEF Wired
<1> QED BY <1>3, <1>5, <1>7, <1>8, <1>9, <1>10, <1>11, <1>12, <1>13, <1>14, TurnoverInv

LEMMA URLNotifyInv == ASSUME IndInv, URLNotify PROVE IndInv'
<1>0. pc = "urlnotify" /\ TypeOK /\ LinksOK
  BY DEF URLNotify, IndInv
<1>1. PICK s \in Streams, p \in Protos, src \in Protos :
        /\ s = frame.s /\ m_protop[s] = p /\ src = Source(p) /\ Serving(s)
        /\ m_ref[p] = 1 /\ m_ref[src] = 1 /\ p # Null
  BY <1>0, Served, OfStream
<1>2. PICK gone \in SUBSET Protos : gone = {p, src} /\ gone = Deleted(p) /\ gone = Owned(s)
  <2>1. Owned(s) = {p, src}
    BY <1>1 DEF Owned
  <2>2. Deleted(p) = {p} \cup {x \in {inner[p]} \ {Null} : m_ref[x] = 1}
    BY <1>1 DEF Deleted
  <2>3. {x \in {inner[p]} \ {Null} : m_ref[x] = 1} \cup {p} = {p, src}
    <3>1. CASE inner[p] = Null
      BY <1>1, <3>1 DEF Source
    <3>2. CASE inner[p] # Null
      BY <1>1, <3>2 DEF Source
    <3> QED BY <3>1, <3>2
  <2> QED BY <2>1, <2>2, <2>3
<1>3. /\ Turnover(Null, Null, FALSE, gone)
      /\ m_ref' = [q \in Protos |-> IF q = p \/ (p \in gone /\ q = inner[p])
                                    THEN m_ref[q] - 1 ELSE m_ref[q]]
      /\ m_waitp' = [q \in Protos |-> IF q \in gone THEN Null ELSE m_waitp[q]]
      /\ inner' = [q \in Protos |-> IF q \in gone THEN Null ELSE inner[q]]
      /\ m_protop' = [m_protop EXCEPT ![s] = Null]
      /\ created' = [created EXCEPT ![s] = FALSE]
      /\ m_offset' = [m_offset EXCEPT ![s] = 0]
      /\ notReady' = notReady \ {s}
      /\ EndEvent
  BY <1>1, <1>2 DEF URLNotify
<1>4. TurnedOver(Null, Null, "none", gone) /\ Null \notin Protos
  BY <1>0, <1>2, <1>3, TurnoverValues, NullAssumption
<1>5. \A x \in Protos : m_ref'[x] = IF x \in gone THEN 0 ELSE m_ref[x]
  <2> SUFFICES ASSUME NEW x \in Protos PROVE m_ref'[x] = IF x \in gone THEN 0 ELSE m_ref[x]
    OBVIOUS
  <2>1. x = p \/ x = inner[p] <=> x \in gone
    BY <1>1, <1>2, <1>4 DEF Source
  <2>2. m_ref'[x] = IF x \in gone THEN m_ref[x] - 1 ELSE m_ref[x]
    BY <1>2, <1>3, <2>1
  <2>3. x \in gone => m_ref[x] = 1
    BY <1>1, <1>2
  <2> QED BY <2>2, <2>3
<1>6. /\ m_waitp' \in [Protos -> Streams \cup {Null}] /\ m_protop' \in [Streams -> Protos \cup {Null}]
      /\ inner' \in [Protos -> Protos \cup {Null}]
      /\ created' \in [Streams -> BOOLEAN] /\ m_offset' \in [Streams -> Nat] /\ notReady' \subseteq Streams
  BY <1>0, <1>3 DEF TypeOK
<1>7. m_ref' \in [Protos -> Nat]
  <2>0. m_ref \in [Protos -> Nat]
    BY <1>0 DEF TypeOK
  <2>1. \A x \in Protos : m_ref'[x] \in Nat
    BY <1>5, <2>0
  <2> QED BY <1>3, <2>1
<1>8. /\ pc' \in PluginTurn \cup {"onread"} /\ frame' \in [s : Streams \cup {Null}, pos : Nat, len : Nat]
      /\ \A r : ~Serving(r)'
  BY <1>0, <1>3, EndTypes
<1>9. /\ LinksOK'
      /\ \A x \in Protos \ gone : x # Null => (Wired(x)' <=> Wired(x))
      /\ \A x \in gone : ~Wired(x)'
  <2>1. /\ \A x \in Protos : m_ref'[x] = IF x = Null THEN 1 ELSE IF x \in Owned(s) THEN 0 ELSE m_ref[x]
        /\ \A x \in Protos : inner'[x] = IF x \in Owned(s) THEN Null ELSE inner[x]
        /\ \A x \in Protos \ Owned(s) : x # Null => m_waitp'[x] = m_waitp[x]
        /\ m_protop'[s] = Null /\ \A r \in Streams \ {s} : m_protop'[r] = m_protop[r]
    BY <1>0, <1>2, <1>3, <1>4, <1>5 DEF TypeOK
  <2>2. TurnedOver(Null, Null, "none", Owned(s))
    BY <1>2, <1>4
  <2>3. "none" \in {"connecting", "none"} /\ Null \in Protos \cup {Null} /\ Null \in Fds \cup {Null}
    OBVIOUS
  <2>4. /\ LinksOK'
        /\ \A x \in Protos \ Owned(s) : x # Null => (Wired(x)' <=> Wired(x))
        /\ \A x \in Owned(s) : ~Wired(x)'
    BY <1>0, <1>4, <1>6, <2>1, <2>2, <2>3, RelinkOK
  <2> QED BY <1>2, <2>4
<1>10. FrameOK' /\ StreamOK(s)'
  BY <1>0, <1>3 DEF FrameOK, EndEvent, StreamOK, TypeOK
<1>11. /\ \A x \in gone : Live(x)
       /\ \A r \in Streams \ {s} : m_protop[r] # Null =>
            m_protop[r] \notin gone /\ Source(m_protop[r]) \notin gone
  BY <1>0, <1>2, OwnedAlone
<1>12. \A r \in Streams \ {s} :
         /\ m_protop'[r] = m_protop[r]
         /\ m_protop[r] # Null => inner'[m_protop[r]] = inner[m_protop[r]]
  BY <1>0, <1>3, <1>11 DEF TypeOK
<1>13. \A r \in Streams \ {s} :
         /\ m_protop'[r] = m_protop[r]
         /\ m_protop[r] # Null =>
              inner'[m_protop[r]] = inner[m_protop[r]] /\ Source(m_protop[r]) \notin gone
         /\ created'[r] = created[r] /\ m_offset'[r] = m_offset[r] /\ (r \in notReady' <=> r \in notReady)
         /\ UNCHANGED handlerVars \/ (~Serving(r) /\ ~Serving(r)')
  <2>1. \A r \in Streams \ {s} : ~Serving(r)
    BY <1>1 DEF Serving
  <2> QED BY <1>0, <1>3, <1>8, <1>11, <1>12, <2>1 DEF TypeOK
<1> QED BY <1>2, <1>4, <1>6, <1>7, <1>8, <1>9, <1>10, <1>11, <1>13, TurnoverInv

LEMMA WrapInv ==
  ASSUME IndInv, NEW w \in Protos, NEW f \in Fds, Wrap(w, f)
  PROVE  IndInv'
<1>0. pc = "onread" /\ Fresh(frame.s) /\ TypeOK /\ LinksOK
  BY DEF Wrap, IndInv
<1>1. PICK s \in Streams, p \in Protos :
        /\ s = frame.s /\ m_protop[s] # Null /\ p = Source(m_protop[s]) /\ Serving(s) /\ Wired(p)
        /\ OpenOK(s, p) /\ HandlerOK(s, p) /\ LastOK(s, p) /\ DeliveredOK(s, p)
        /\ m_ref[p] = 1 /\ m_waitp[p] = s
  BY <1>0, Served, OfStream
<1>2. /\ ~created[s] /\ m_offset[s] = 0 /\ m_protop[s] = p /\ inner[p] = Null /\ Connected(p)
      /\ frame.len = 0 /\ "CREATED" \in m_flags[p]
  BY <1>0, <1>1 DEF Fresh, OpenOK, HandlerOK, Source
<1>3. PICK gone \in SUBSET Protos : gone = {}
  OBVIOUS
<1>4. /\ ~Live(w) /\ f \notin OpenFds /\ Turnover(w, f, FALSE, gone)
      /\ m_ref' = [m_ref EXCEPT ![p] = 1, ![w] = 1]
      /\ inner' = [inner EXCEPT ![w] = p]
      /\ m_protop' = [m_protop EXCEPT ![s] = w]
      /\ pc' = "newstream" /\ UNCHANGED <<m_waitp, created, m_offset, notReady, frame>>
  <2>1. WrappedRef(p) = 1
    BY <1>1 DEF WrappedRef
  <2> QED BY <1>1, <1>2, <1>3, <2>1 DEF Wrap
<1>5. TurnedOver(w, f, "none", gone)
  BY <1>0, <1>3, <1>4, TurnoverValues
<1>6. /\ \A x \in Protos : x # w => m_files'[x] = m_files[x] /\ Same(x)
      /\ m_files'[w] = f /\ \A g \in Fds : stream_list'[g] = stream_list[g]
  <2>1. /\ \A x \in Protos \ gone : x # w => m_files'[x] = m_files[x] /\ Same(x)
        /\ \A x \in Protos : x = w \/ x \in gone => m_files'[x] = IF x = w THEN f ELSE Null
        /\ \A g \in Fds : stream_list'[g] = IF w # Null /\ "none" = "connecting" /\ g = f THEN w
                                            ELSE IF \E x \in gone : m_files[x] = g THEN Null
                                            ELSE stream_list[g]
    BY <1>5, Zenon DEF TurnedOver
  <2> QED BY <1>3, <2>1
<1>7. /\ m_ref' \in [Protos -> Nat] /\ m_waitp' \in [Protos -> Streams \cup {Null}]
      /\ inner' \in [Protos -> Protos \cup {Null}] /\ m_protop' \in [Streams -> Protos \cup {Null}]
      /\ created' \in [Streams -> BOOLEAN] /\ m_offset' \in [Streams -> Nat] /\ notReady' \subseteq Streams
      /\ pc' \in PluginTurn \cup {"onread"} /\ frame' \in [s : Streams \cup {Null}, pos : Nat, len : Nat]
  BY <1>0, <1>4 DEF TypeOK, PluginTurn
<1>8. /\ p # w /\ p # Null /\ w # Null
      /\ \A x \in Protos : m_ref'[x] = IF x = w THEN 1 ELSE m_ref[x]
      /\ \A x \in Protos : inner'[x] = IF x = w THEN p ELSE inner[x]
      /\ m_protop'[s] = w /\ \A r \in Streams \ {s} : m_protop'[r] = m_protop[r]
  <2>1. p # w
    BY <1>1, <1>4 DEF Wired
  <2> QED BY <1>0, <1>1, <1>4, <2>1, NullAssumption DEF TypeOK
<1>9. \A x \in Protos : x # w => (Live(x)' <=> Live(x)) /\ (Wired(x)' <=> Wired(x)) /\ Source(x)' = Source(x)
  BY <1>8 DEF Live, Wired, Source
<1>10. Live(w)' /\ ~Wired(w)' /\ Source(w)' = p
  BY <1>8 DEF Live, Wired, Source
<1>11. /\ \A x \in Protos : inner[x] # Null => inner[x] # w
       /\ \A r \in Streams : m_protop[r] # Null => m_protop[r] # w /\ Source(m_protop[r]) # w
       /\ \A g \in Fds : stream_list[g] # Null => stream_list[g] # w
  <2>1. \A x \in Protos : inner[x] # Null => inner[x] # w
    BY <1>0, <1>4 DEF LinksOK, Wired
  <2>2. \A r \in Streams : m_protop[r] # Null => m_protop[r] # w /\ Source(m_protop[r]) # w
    <3> SUFFICES ASSUME NEW r \in Streams, m_protop[r] # Null
                 PROVE  m_protop[r] # w /\ Source(m_protop[r]) # w
      OBVIOUS
    <3>1. Wired(Source(m_protop[r])) /\ m_ref[m_protop[r]] = 1
      BY <1>0, OfStream
    <3> QED BY <1>4, <3>1 DEF Wired, Live
  <2>3. \A g \in Fds : stream_list[g] # Null => stream_list[g] # w
    BY <1>0, <1>4, OfHandle DEF Wired
  <2> QED BY <2>1, <2>2, <2>3
<1>12. LinksOK'
  <2>1. ASSUME NEW x \in Protos, ~Live(x)' PROVE inner'[x] = Null
    BY <1>0, <1>8, <1>9, <1>10, <2>1 DEF LinksOK
  <2>2. ASSUME NEW x \in Protos, Live(x)' PROVE m_ref'[x] = 1 /\ m_files'[x] \in Fds
    BY <1>0, <1>6, <1>8, <1>9, <2>2 DEF LinksOK
  <2>3. ASSUME NEW x \in Protos, NEW y \in Protos, Live(x)', Live(y)', m_files'[x] = m_files'[y]
        PROVE  x = y
    <3>1. \A z \in Protos : Live(z) => m_files[z] # f
      BY <1>4 DEF OpenFds
    <3>2. CASE x # w /\ y # w
      BY <1>0, <1>6, <1>9, <2>3, <3>2 DEF LinksOK
    <3>3. CASE x = w /\ y # w
      BY <1>6, <1>9, <2>3, <3>1, <3>3
    <3>4. CASE x # w /\ y = w
      BY <1>6, <1>9, <2>3, <3>1, <3>4
    <3> QED BY <3>2, <3>3, <3>4
  <2>4. ASSUME NEW x \in Protos, Wired(x)'
        PROVE  /\ m_waitp'[x] \in Streams /\ m_protop'[m_waitp'[x]] # Null
               /\ Source(m_protop[m_waitp[x]])' = x /\ stream_list'[m_files'[x]] = x
    <3>1. x # w /\ Wired(x)
      BY <1>9, <1>10, <2>4
    <3>2. PICK r \in Streams :
            /\ r = m_waitp[x] /\ r = m_waitp'[x] /\ m_protop[r] # Null /\ Source(m_protop[r]) = x
            /\ m_files[x] \in Fds /\ stream_list[m_files[x]] = x
      BY <1>0, <1>4, <3>1, OfProto
    <3>3. stream_list'[m_files'[x]] = x
      BY <1>6, <3>1, <3>2
    <3>4. m_protop'[r] # Null /\ Source(m_protop[r])' = x
      <4>1. CASE r = s
        <5>1. x = p
          BY <1>1, <3>2, <4>1
        <5>2. Source(m_protop[r])' = Source(w)'
          BY <1>8, <4>1 DEF Source
        <5> QED BY <1>8, <1>10, <4>1, <5>1, <5>2
      <4>2. CASE r # s
        <5>1. PICK m \in Protos : m = m_protop[r] /\ m = m_protop'[r] /\ m # w
          <6>1. m_protop'[r] = m_protop[r]
            BY <1>8, <4>2
          <6>2. m_protop[r] \in Protos
            BY <1>0, <3>2 DEF TypeOK
          <6> QED BY <1>11, <3>2, <6>1, <6>2
        <5>2. Source(m_protop[r])' = Source(m)' /\ Source(m)' = Source(m)
          BY <1>9, <5>1 DEF Source
        <5> QED BY <3>2, <5>1, <5>2, NullAssumption
      <4> QED BY <4>1, <4>2
    <3>5. Source(m_protop[m_waitp[x]])' = Source(m_protop[r])'
      BY <3>2
    <3> QED BY <3>2, <3>3, <3>4, <3>5
  <2>5. ASSUME NEW x \in Protos, inner'[x] # Null
        PROVE  Wired(inner[x])' /\ m_protop'[m_waitp'[inner'[x]]] = x
    <3>1. CASE x = w
      BY <1>1, <1>4, <1>8, <1>9, <3>1
    <3>2. CASE x # w
      <4>1. inner'[x] = inner[x] /\ inner[x] # Null
        BY <1>8, <2>5, <3>2
      <4>2. PICK y \in Protos : y = inner[x] /\ y = inner'[x] /\ Wired(y) /\ m_protop[m_waitp[y]] = x
        BY <1>0, <4>1 DEF LinksOK, TypeOK
      <4>3. m_waitp[y] \in Streams \ {s}
        <5>1. m_waitp[y] \in Streams
          BY <1>0, <4>2, OfProto
        <5>2. m_waitp[y] # s
          BY <1>2, <4>1, <4>2
        <5> QED BY <5>1, <5>2
      <4>4. y # w
        BY <1>11, <4>1, <4>2
      <4> QED BY <1>4, <1>8, <1>9, <4>2, <4>3, <4>4
    <3> QED BY <3>1, <3>2
  <2>6. ASSUME NEW r \in Streams, m_protop'[r] # Null
        PROVE  Live(m_protop[r])' /\ m_waitp'[Source(m_protop[r])'] = r
    <3>1. CASE r = s
      <4>1. Source(m_protop[r])' = Source(w)' /\ Live(m_protop[r])'
        BY <1>8, <1>10, <3>1 DEF Source
      <4> QED BY <1>1, <1>4, <1>10, <3>1, <4>1
    <3>2. CASE r # s
      <4>1. PICK m \in Protos : m = m_protop[r] /\ m = m_protop'[r] /\ m # w /\ m # Null
        <5>1. m_protop'[r] = m_protop[r]
          BY <1>8, <3>2
        <5>2. m_protop[r] \in Protos
          BY <1>0, <2>6, <5>1 DEF TypeOK
        <5> QED BY <1>11, <2>6, <5>1, <5>2
      <4>2. Live(m) /\ m_waitp[Source(m)] = r
        <5>1. m_waitp[Source(m_protop[r])] = r /\ m_ref[m_protop[r]] = 1
          BY <1>0, <4>1, OfStream
        <5> QED BY <4>1, <5>1 DEF Live
      <4>3. Source(m_protop[r])' = Source(m)' /\ Source(m)' = Source(m)
        BY <1>9, <4>1 DEF Source
      <4> QED BY <1>4, <1>9, <4>1, <4>2, <4>3
    <3> QED BY <3>1, <3>2
  <2>7. ASSUME NEW g \in Fds, stream_list'[g] # Null
        PROVE  Wired(stream_list[g])' /\ m_files'[stream_list'[g]] = g
    <3>1. stream_list'[g] = stream_list[g] /\ stream_list[g] # Null
      BY <1>6, <2>7
    <3>2. PICK x \in Protos : x = stream_list[g] /\ x = stream_list'[g] /\ Wired(x) /\ m_files[x] = g
      BY <1>0, <3>1, OfHandle
    <3>3. x # w
      BY <1>11, <3>1, <3>2
    <3> QED BY <1>6, <1>9, <3>2, <3>3
  <2> QED BY <2>1, <2>2, <2>3, <2>4, <2>5, <2>6, <2>7 DEF LinksOK
<1>13. FrameOK'
  BY <1>1, <1>4, <1>8 DEF FrameOK
\* s reads from p as before.
<1>14. StreamOK(s)'
  <2>1. Same(p) /\ Source(m_protop[s])' = p /\ Serving(s)'
    BY <1>1, <1>4, <1>6, <1>8, <1>10 DEF Serving, Source
  <2>2. OpenOK(s, p)'
    BY <1>2, <1>4, <2>1 DEF OpenOK
  <2>3. "ERROR" \notin m_flags[p] /\ (Connected(p)' <=> Connected(p)) /\ m_flags'[p] = m_flags[p]
    BY <1>2, <2>1 DEF Connected, Broken, Same
  <2>4. HandlerOK(s, p)'
    BY <1>2, <1>4, <2>1, <2>3 DEF HandlerOK
  <2>5. LastOK(s, p)'
    BY <2>1, <2>3 DEF LastOK
  <2>6. DeliveredOK(s, p)'
    <3>1. Position(p)' = Position(p)
      BY <2>1 DEF Position, Same
    <3>2. Handed(s) = 0 /\ Handed(s)' = 0 /\ ~Leaving(s)
      BY <1>0, <1>4 DEF Handed, Leaving
    <3> QED BY <1>1, <1>2, <1>4, <2>1, <3>1, <3>2 DEF DeliveredOK, Same
  <2> QED BY <2>1, <2>2, <2>4, <2>5, <2>6 DEF StreamOK
<1>15. \A r \in Streams \ {s} :
         /\ m_protop'[r] = m_protop[r]
         /\ m_protop[r] # Null =>
              inner'[m_protop[r]] = inner[m_protop[r]] /\ Source(m_protop[r]) \notin gone
         /\ created'[r] = created[r] /\ m_offset'[r] = m_offset[r] /\ (r \in notReady' <=> r \in notReady)
         /\ UNCHANGED handlerVars \/ (~Serving(r) /\ ~Serving(r)')
  <2>1. \A r \in Streams \ {s} : ~Serving(r) /\ ~Serving(r)'
    BY <1>1, <1>4 DEF Serving
  <2> QED BY <1>0, <1>3, <1>4, <1>8, <1>11, <2>1 DEF TypeOK
<1>16. /\ w \in Protos => ~Live(w) /\ f \in Fds /\ f \notin OpenFds /\ (Wired(w)' <=> "none" = "connecting")
       /\ \A x \in Protos \ gone : x # w => (Wired(x)' <=> Wired(x))
       /\ \A x \in gone : ~Wired(x)'
       /\ \A x \in gone : Live(x)
       /\ "none" \in {"connecting", "none"} /\ w \in Protos \cup {Null} /\ f \in Fds \cup {Null}
  BY <1>3, <1>4, <1>9, <1>10
<1> QED BY <1>5, <1>7, <1>12, <1>13, <1>14, <1>15, <1>16, TurnoverInv

-----------------------------------------------------------------------------
(* The invariant.                                                          *)

LEMMA NextInv == IndInv /\ [Next]_vars => IndInv'
<1> SUFFICES ASSUME IndInv, [Next]_vars PROVE IndInv'
  OBVIOUS
<1>1. CASE Requests
  BY <1>1, GetURLInv DEF Requests
<1>2. CASE Dispatch
  BY <1>2, OnReadInv, OnWriteInv, OnUnknownInv DEF Dispatch
<1>3. CASE Handler
  <2>1. CASE \E q \in Protos, f \in Fds : Redirect(q, f)
    BY <2>1, RedirectInv
  <2>2. CASE \E w \in Protos, f \in Fds : Wrap(w, f)
    BY <2>2, WrapInv
  <2>3. CASE \E ok \in BOOLEAN : NewStream(ok)
    BY <2>3, NewStreamInv
  <2>4. CASE \E c \in 0..MaxReady : WriteReady(c)
    BY <2>4, WriteReadyInv
  <2>5. CASE \E ok \in BOOLEAN : Write(ok)
    BY <2>5, WriteInv
  <2> QED BY <1>3, <2>1, <2>2, <2>3, <2>4, <2>5,
             RedirectFailsInv, ProceedInv, DestroyStreamInv, URLNotifyInv DEF Handler
<1>4. CASE Network
  BY <1>4, NetworkStepInv
<1>5. CASE UNCHANGED vars
  <2> USE <1>5 DEF vars, sockVars, protoVars, streamVars, handlerVars, winVars, netVars
  <2>1. TypeOK /\ LinksOK /\ QueueOK /\ FrameOK
    BY DEF IndInv
  <2>2. TypeOK'
    BY <2>1 DEF TypeOK
  <2>3. LinksOK' /\ FrameOK'
    BY <2>1 DEF LinksOK, FrameOK, Wired, Live, Source
  <2>4. QueueOK'
    BY <2>1 DEF QueueOK
  <2>5. \A q \in Protos : Same(q) /\ SameLinks(q) /\ SameMessages(q)
    BY QueueUnchanged DEF Same, SameLinks, Wired, Live
  <2>6. \A q \in Protos : ProtoOK(q)' /\ MessageOK(q)'
    BY <2>5, ProtoUnaffected DEF IndInv
  <2>7. ASSUME NEW s \in Streams PROVE StreamOK(s)'
    <3>1. CASE m_protop[s] = Null
      BY <3>1 DEF StreamOK
    <3>2. CASE m_protop[s] # Null
      <4>1. PICK p \in Protos : p = Source(m_protop[s])
        BY <2>1, <3>2, OfStream
      <4> QED BY <2>5, <4>1, StreamUnaffected DEF IndInv
    <3> QED BY <3>1, <3>2
  <2> QED BY <2>2, <2>3, <2>4, <2>6, <2>7 DEF IndInv
<1> QED BY <1>1, <1>2, <1>3, <1>4, <1>5 DEF Next

THEOREM Invariant == Spec => []IndInv
<1>1. Init => IndInv
  BY InitIndInv
<1>2. IndInv /\ [Next]_vars => IndInv'
  BY NextInv
<1> QED BY <1>1, <1>2, PTL DEF Spec


-----------------------------------------------------------------------------
(* What is allocated, open and referred to is one.                         *)

\* Whoever refers to a live proto_stream: its stream, or the wrapper around it.
LEMMA OneReference ==
  ASSUME TypeOK, LinksOK, NEW p \in Protos, Live(p)
  PROVE  Cardinality({s \in Streams : m_protop[s] = p})
           + Cardinality({w \in Protos : Live(w) /\ inner[w] = p}) = 1
<1> USE NullAssumption
<1> DEFINE users == {s \in Streams : m_protop[s] = p}
           wrappers == {w \in Protos : Live(w) /\ inner[w] = p}
<1> SUFFICES Cardinality(users) + Cardinality(wrappers) = 1
  OBVIOUS
<1>1. /\ \A s \in users : s \in Streams /\ m_protop[s] = p /\ m_waitp[Source(p)] = s
      /\ \A w \in wrappers : w \in Protos /\ inner[w] = p /\ Wired(p) /\ m_protop[m_waitp[p]] = w
  BY DEF LinksOK
<1>4. (\A x : Cardinality({x}) = 1) /\ Cardinality({}) = 0
  BY FS_Singleton, FS_EmptySet
<1>2. CASE inner[p] # Null
  <2>1. PICK x \in Protos : x = inner[p] /\ Wired(x) /\ m_protop[m_waitp[x]] = p /\ Source(p) = x
    BY <1>2 DEF TypeOK, LinksOK, Source
  <2>2. m_waitp[x] \in users
    BY <2>1, OfProto
  <2>3. users = {m_waitp[x]}
    BY <1>1, <2>1, <2>2
  <2>4. wrappers = {}
    BY <1>1, <1>2 DEF Wired
  <2> HIDE DEF users, wrappers
  <2>5. Cardinality(users) = 1
    BY <1>4, <2>3
  <2>6. Cardinality(wrappers) = 0
    BY <1>4, <2>4
  <2> QED BY <2>5, <2>6
<1>3. CASE inner[p] = Null
  <2>1. Wired(p) /\ Source(p) = p
    BY <1>3 DEF Wired, Source
  <2>2. PICK s \in Streams : s = m_waitp[p] /\ m_protop[s] # Null /\ Source(m_protop[s]) = p
    BY <2>1, OfProto
  <2>3. CASE m_protop[s] = p
    <3>1. users = {s}
      BY <1>1, <2>1, <2>2, <2>3
    <3>2. wrappers = {}
      BY <1>1, <1>3, <2>2, <2>3
    <3> HIDE DEF users, wrappers
    <3>3. Cardinality(users) = 1
      BY <1>4, <3>1
    <3>4. Cardinality(wrappers) = 0
      BY <1>4, <3>2
    <3> QED BY <3>3, <3>4
  <2>4. CASE m_protop[s] # p
    <3>1. PICK w \in Protos : w = m_protop[s] /\ inner[w] = p /\ Live(w)
      BY <2>2, <2>4, OfStream DEF Live
    <3>2. wrappers = {w}
      BY <1>1, <2>2, <3>1
    <3>3. users = {}
      BY <1>1, <2>1, <2>2, <2>4
    <3> HIDE DEF users, wrappers
    <3>4. Cardinality(users) = 0
      BY <1>4, <3>3
    <3>5. Cardinality(wrappers) = 1
      BY <1>4, <3>2
    <3> QED BY <3>4, <3>5
  <2> QED BY <2>3, <2>4
<1> QED BY <1>2, <1>3

LEMMA InvStreamsSound == IndInv => StreamsSound
<1> SUFFICES ASSUME IndInv PROVE StreamsSound
  OBVIOUS
<1>1. TypeOK /\ LinksOK /\ FrameOK
  BY DEF IndInv
<1>2. ASSUME NEW p \in Protos, Live(p)
      PROVE  /\ m_ref[p] = 1
             /\ Cardinality({s \in Streams : m_protop[s] = p})
                  + Cardinality({w \in Protos : Live(w) /\ inner[w] = p}) = 1
             /\ inner[p] = Null => m_waitp[p] \in Streams /\ Source(m_protop[m_waitp[p]]) = p
  BY <1>1, <1>2, OneReference DEF LinksOK, Wired
<1>3. ASSUME NEW s \in Streams, m_protop[s] # Null
      PROVE  /\ Live(m_protop[s]) /\ Live(Source(m_protop[s]))
             /\ m_waitp[Source(m_protop[s])] = s
  BY <1>1, <1>3, OfStream DEF Live
<1>4. Ownership
  BY <1>1, <1>2, <1>3 DEF Ownership, FrameOK
<1>5. SocketTable
  BY <1>1 DEF SocketTable, LinksOK, Wired
<1> QED BY <1>1, <1>4, <1>5 DEF StreamsSound

\* No dangling pointer and no leak: every live proto_stream has one reference, from the
\* NPNetStream that uses it or from the wrapper around it, its waiter is the stream that reads
\* from it, and __stream_list holds exactly the connected sockets (npnetstream.cpp).
THEOREM StreamsAreSound == Spec => []StreamsSound
BY Invariant, InvStreamsSound, PTL

-----------------------------------------------------------------------------
(* What arrives is delivered.                                              *)

LEMMA InvDeliverySound == IndInv => DeliverySound
<1> SUFFICES ASSUME IndInv PROVE DeliverySound
  OBVIOUS
<1>1. DeliveryInOrder
  BY Served DEF DeliveryInOrder, HandlerOK
<1>2. DestroyedWhenDelivered
  BY Served DEF DestroyedWhenDelivered, HandlerOK
<1>3. ASSUME NEW s \in Streams, Silent(s) PROVE Waits(s)
  <2>1. PICK p : p = Source(m_protop[s])
    OBVIOUS
  <2>2. ~Serving(s) /\ m_protop[s] # Null
    BY <1>3 DEF Silent, Serving
  <2>3. \A i \in DOMAIN queue : queue[i].fd # m_files[p]
    BY <1>3, <2>1 DEF Silent
  <2>4. ~Has(queue, Message(p, "CLOSE"))
    BY <2>3 DEF Has, Message
  <2>5. "CLOSE" \notin armed[p]
    BY <1>3, <2>1 DEF Silent
  <2>6. LastOK(s, p)
    BY <2>1, <2>2 DEF IndInv, StreamOK
  <2> QED BY <2>2, <2>4, <2>5, <2>6 DEF LastOK, Ended
<1> QED BY <1>1, <1>2, <1>3 DEF DeliverySound, LastEventUsed

\* The plugin is given the body in order and without holes, a stream is destroyed only once all
\* of it has been written, and the last event of a connection is not wasted but for the reasons
\* of Waits (NPNetStream::OnRead, proto_stream::recv_data).
THEOREM DeliveryIsSound == Spec => []DeliverySound
BY Invariant, InvDeliverySound, PTL

-----------------------------------------------------------------------------
(* Why a proto_stream is declared broken.                                  *)

\* A message that arrives before the connection is made is one of an earlier socket.
LEMMA EarlyMessage ==
  ASSUME IndInv, pc = "idle", queue # <<>>, Receiver # Null,
         conn[Receiver] \in {"connecting", "refused"}
  PROVE  Head(queue).stale
<1>1. PICK p \in Protos, h \in Messages :
        /\ p = Receiver /\ h = Head(queue) /\ queue \in Seq(Messages)
        /\ Wired(p) /\ m_files[p] = h.fd /\ MessageOK(p)
  BY Received
<1> SUFFICES ASSUME ~h.stale PROVE FALSE
  BY <1>1
<1>2. h = Message(p, h.ev) /\ h.ev \in Events
  BY <1>1 DEF Messages, Message
<1>3. Has(queue, h)
  BY <1>1, TailMessage
<1>4. conn[p] \in Met
  <2>1. PICK ev \in Events : ev = h.ev
    BY <1>2
  <2>2. Has(queue, Message(p, ev))
    BY <1>2, <1>3, <2>1
  <2> QED BY <1>1, <2>2 DEF MessageOK
<1> QED BY <1>1, <1>4 DEF Met

\* A send that fails, or a recv that finds no data, on a socket that is not connected or was
\* reset.
LEMMA LostConnection ==
  ASSUME IndInv, pc = "idle", queue # <<>>, Receiver # Null, conn[Receiver] \notin {"open", "eof"}
  PROVE  BreakCause(Receiver)
<1>1. Wired(Receiver) /\ ProtoOK(Receiver)
  BY Received
<1>2. conn[Receiver] # "none"
  BY <1>1 DEF ProtoOK
<1> QED BY <1>2, EarlyMessage DEF BreakCause

\* A response that ends, or fills m_chunk, before the header is complete.
LEMMA ShortResponse ==
  ASSUME TypeOK, NEW p \in Protos, ProtoOK(p), conn[p] \in {"open", "eof"},
         NEW off \in Nat, off <= rx[p], ~HeaderDone(p, off),
         off = ChunkLen \/ (conn[p] = "eof" /\ off = rx[p])
  PROVE  BreakCause(p)
<1>1. rx[p] \in Nat /\ ChunkLen \in Nat \ {0} /\ Look \in Nat
  BY SizeAssumption DEF TypeOK
<1>2. CASE resp[p] = Null
  <2>1. ~(rx[p] > 0)
    BY <1>2 DEF ProtoOK
  <2>2. conn[p] = "eof"
    BY <1>1, <2>1
  <2> QED BY <1>2, <2>2 DEF BreakCause
<1>3. CASE resp[p] # Null
  <2>1. PICK r \in Responses : r = resp[p]
    BY <1>3 DEF TypeOK
  <2>2. r.hdr \in Nat /\ r.long \in BOOLEAN
    BY <2>1, ResponseAssumption DEF ResponseSpace
  <2>3. off < r.hdr + (IF r.long THEN Look ELSE 0)
    BY <1>1, <1>3, <2>1, <2>2 DEF HeaderDone
  <2>4. \/ conn[p] = "eof" /\ rx[p] < r.hdr + (IF r.long THEN Look ELSE 0)
        \/ ChunkLen < r.hdr + (IF r.long THEN Look ELSE 0) /\ rx[p] >= ChunkLen
    BY <1>1, <2>3
  <2> QED BY <1>3, <2>1, <2>4 DEF BreakCause
<1> QED BY <1>2, <1>3

\* No other step than on_read and on_write sets a flag.
LEMMA FlagsKept ==
  ASSUME [Next]_vars, ~OnRead, ~OnWrite, NEW p \in Protos
  PROVE  m_flags' = m_flags \/ m_flags'[p] = {} \/ m_flags'[p] = m_flags[p]
<1> USE DEF protoVars
<1>1. ASSUME NEW new, NEW f, NEW connects, NEW gone, Turnover(new, f, connects, gone)
      PROVE  m_flags'[p] = {} \/ m_flags'[p] = m_flags[p]
  <2>1. m_flags' = [q \in Protos |-> IF q = new THEN {} ELSE IF q \in gone THEN {} ELSE m_flags[q]]
    BY <1>1 DEF Turnover
  <2> QED BY <2>1
<1>2. CASE Requests
  BY <1>1, <1>2 DEF Requests, GetURL
<1>3. CASE OnUnknown \/ RedirectFails \/ Proceed \/ DestroyStream
  BY <1>3 DEF OnUnknown, RedirectFails, Proceed, DestroyStream
<1>4. CASE \E q \in Protos, f \in Fds : Redirect(q, f)
  BY <1>1, <1>4 DEF Redirect
<1>5. CASE \E w \in Protos, f \in Fds : Wrap(w, f)
  BY <1>1, <1>5 DEF Wrap
<1>6. CASE \/ \E ok \in BOOLEAN : NewStream(ok) \/ Write(ok)
           \/ \E c \in 0..MaxReady : WriteReady(c)
  BY <1>6 DEF NewStream, Write, WriteReady
<1>7. CASE URLNotify
  BY <1>1, <1>7 DEF URLNotify
<1>8. CASE Network
  BY <1>8 DEF Network, NetworkStep, Accept, Refuse, PostWrite, Answer, Arrive, Close, PostClose
<1>9. CASE UNCHANGED vars
  BY <1>9 DEF vars
<1> QED BY <1>2, <1>3, <1>4, <1>5, <1>6, <1>7, <1>8, <1>9 DEF Next, Dispatch, Handler

LEMMA OnReadCause ==
  ASSUME IndInv, OnRead, NEW q \in Protos, "ERROR" \notin m_flags[q], "ERROR" \in m_flags'[q]
  PROVE  BreakCause(q)
<1>1. pc = "idle" /\ queue # <<>> /\ Receiver # Null
  BY DEF OnRead, Arrives
<1>2. PICK p \in Protos, s \in Streams :
        p = Receiver /\ s = m_waitp[p] /\ ProtoOK(p) /\ TypeOK
  BY <1>1, Received DEF IndInv
<1>3. "CREATED" \notin m_flags[p] /\ ReadResponse(p)
  BY <1>2 DEF OnRead
<1>4. PICK off \in Nat, e \in {"none", "WSAEWOULDBLOCK", "fatal"} :
        /\ m_chunk[p].off <= off /\ off <= ChunkLen /\ off <= rx[p]
        /\ rd' = [rd EXCEPT ![p] = off] /\ last_error' = [last_error EXCEPT ![p] = e]
        /\ \/ m_chunk[p].off = ChunkLen /\ queue' = Tail(queue) /\ UNCHANGED armed
           \/ m_chunk[p].off < ChunkLen /\ Rearm(p, Tail(queue), rx[p] > off)
        /\ \/ /\ m_flags' = [m_flags EXCEPT ![p] = @ \cup Broken]
              /\ m_chunk' = [m_chunk EXCEPT ![p] = [off |-> off, len |-> ChunkLen]]
              /\ pc' = "onread" /\ frame' = [NoFrame EXCEPT !.s = s]
              /\ e # "WSAEWOULDBLOCK" \/ off = ChunkLen
              /\ \/ conn[p] \notin {"open", "eof"}
                 \/ /\ ~HeaderDone(p, off)
                    /\ off = ChunkLen \/ (conn[p] = "eof" /\ off = rx[p])
           \/ /\ HeaderDone(p, off)
              /\ m_flags' = [m_flags EXCEPT ![p] = @ \cup HeaderFlags(p)]
              /\ m_chunk' = [m_chunk EXCEPT ![p] = [off |-> resp[p].hdr, len |-> off]]
              /\ pc' = "onread" /\ frame' = [NoFrame EXCEPT !.s = s]
           \/ /\ m_flags' = m_flags
              /\ m_chunk' = [m_chunk EXCEPT ![p] = [off |-> off, len |-> ChunkLen]]
              /\ pc' = "idle" /\ frame' = NoFrame
              /\ \/ off = ChunkLen /\ m_chunk[p].off < off
                 \/ conn[p] = "open" /\ off = rx[p]
  <2>1. TypeOK /\ ProtoOK(p) /\ "CREATED" \notin m_flags[p] /\ ReadResponse(p) /\ m_waitp[p] = s
    BY <1>2, <1>3
  <2> QED BY <2>1, ReadOutcome, Zenon
<1>5. "ERROR" \notin HeaderFlags(p) /\ p \in DOMAIN m_flags
  BY <1>2 DEF HeaderFlags, TypeOK
<1>6. /\ q = p
      /\ \/ conn[p] \notin {"open", "eof"}
         \/ ~HeaderDone(p, off) /\ (off = ChunkLen \/ (conn[p] = "eof" /\ off = rx[p]))
  <2>1. m_flags' # m_flags
    OBVIOUS
  <2>2. m_flags' # [m_flags EXCEPT ![p] = @ \cup HeaderFlags(p)]
    <3>1. PICK added : added = m_flags[p] \cup HeaderFlags(p)
      OBVIOUS
    <3>2. q = p => "ERROR" \notin added
      BY <1>5, <3>1
    <3>3. m_flags' = [m_flags EXCEPT ![p] = added] => m_flags'[q] = m_flags[q] \/ (q = p /\ m_flags'[q] = added)
      BY <1>5
    <3> QED BY <3>1, <3>2, <3>3
  <2>3. m_flags' = [m_flags EXCEPT ![p] = @ \cup Broken] => q = p
    OBVIOUS
  <2> QED BY <1>4, <2>1, <2>2, <2>3
<1>7. CASE conn[p] \notin {"open", "eof"}
  BY <1>1, <1>2, <1>6, <1>7, LostConnection
<1>8. CASE conn[p] \in {"open", "eof"}
  BY <1>2, <1>4, <1>6, <1>8, ShortResponse
<1> QED BY <1>7, <1>8

LEMMA OnWriteCause ==
  ASSUME IndInv, OnWrite, NEW q \in Protos, "ERROR" \notin m_flags[q], "ERROR" \in m_flags'[q]
  PROVE  BreakCause(q)
<1>1. pc = "idle" /\ queue # <<>> /\ Receiver # Null
  BY DEF OnWrite, Arrives
<1>2. PICK p \in Protos : p = Receiver /\ TypeOK
  BY <1>1, Received DEF IndInv
<1>3. m_header[p] # ReqLen /\ SendFails(p) /\ m_flags' = [m_flags EXCEPT ![p] = @ \cup Broken]
  BY <1>2 DEF OnWrite
<1>4. q = p
  BY <1>3
<1> QED BY <1>1, <1>2, <1>3, <1>4, LostConnection DEF SendFails

\* A proto_stream is declared broken only when its connection or its response is, or by a
\* message of an earlier socket before it is connected (recv_chunk, send_chunk, on_read,
\* on_write in npnetstream.cpp).
THEOREM ErrorsHaveCause == Spec => ErrorHasCause
<1>1. IndInv /\ [Next]_vars =>
        \A p \in Protos : "ERROR" \notin m_flags[p] /\ "ERROR" \in m_flags'[p] => BreakCause(p)
  BY OnReadCause, OnWriteCause, FlagsKept
<1> QED BY <1>1, Invariant, PTL DEF Spec, ErrorHasCause

-----------------------------------------------------------------------------
(* The mapping of steps to NPStreamAPI.                                    *)

\* The phase of a stream the handler is in (Here), and of every stream.
Here(call, open) == IF call \in Calls THEN call ELSE IF open THEN "open" ELSE "pending"
PhaseMap == [s \in Streams |->
               IF m_protop[s] = Null THEN "none"
               ELSE IF pc \in Calls /\ frame.s = s THEN pc
               ELSE IF created[s] THEN "open" ELSE "pending"]

MappedMove(s, from, to, n) ==
  /\ PhaseMap[s] = from
  /\ PhaseMap' = [PhaseMap EXCEPT ![s] = to]
  /\ m_offset' = [m_offset EXCEPT ![s] = n]

\* Each call the plugin sees, and its return.
MappedCall(s) ==
  \/ MappedMove(s, "none", "pending", 0)
  \/ MappedMove(s, "pending", "newstream", 0)
  \/ MappedMove(s, "newstream", "open", 0)
  \/ MappedMove(s, "newstream", "urlnotify", 0)
  \/ MappedMove(s, "open", "write", m_offset[s])
  \/ \E n \in Nat : n > m_offset[s] /\ MappedMove(s, "write", "open", n)
  \/ MappedMove(s, "write", "destroystream", m_offset[s])
  \/ MappedMove(s, "open", "destroystream", m_offset[s])
  \/ MappedMove(s, "destroystream", "urlnotify", m_offset[s])
  \/ MappedMove(s, "pending", "urlnotify", 0)
  \/ MappedMove(s, "urlnotify", "none", 0)

\* A step, seen through the mapping.
MappedStep == API!APINext \/ UNCHANGED API!apiVars

\* PhaseMap and MappedCall are what NPStreamAPI becomes under the mapping.
LEMMA MappedNext ==
  ASSUME m_offset \in [Streams -> Nat],
         UNCHANGED <<PhaseMap, m_offset>> \/ \E s \in Streams : MappedCall(s)
  PROVE  MappedStep
<1>1. CASE UNCHANGED <<PhaseMap, m_offset>>
  BY <1>1 DEF API!apiVars, PhaseMap, MappedStep
<1>2. ASSUME NEW s \in Streams, MappedCall(s)
      PROVE  API!APINext
  <2>1. CASE \E n \in Nat : n > m_offset[s] /\ MappedMove(s, "write", "open", n)
    <3>1. PICK n \in Nat : n > m_offset[s] /\ MappedMove(s, "write", "open", n)
      BY <2>1
    <3>2. n = m_offset'[s]
      BY <3>1 DEF MappedMove
    <3>3. API!Move(s, "write", "open", n)
      BY <3>1 DEF API!Move, MappedMove, PhaseMap
    <3>4. API!WriteReturn(s)
      BY <3>1, <3>2, <3>3 DEF API!WriteReturn, API!Move
    <3> QED BY <3>4 DEF API!APINext
  <2>2. CASE \/ MappedMove(s, "none", "pending", 0)
             \/ MappedMove(s, "pending", "newstream", 0)
             \/ MappedMove(s, "newstream", "open", 0)
             \/ MappedMove(s, "newstream", "urlnotify", 0)
             \/ MappedMove(s, "pending", "urlnotify", 0)
             \/ MappedMove(s, "urlnotify", "none", 0)
    <3>1. \/ API!Move(s, "none", "pending", 0)
          \/ API!Move(s, "pending", "newstream", 0)
          \/ API!Move(s, "newstream", "open", 0)
          \/ API!Move(s, "newstream", "urlnotify", 0)
          \/ API!Move(s, "pending", "urlnotify", 0)
          \/ API!Move(s, "urlnotify", "none", 0)
      BY <2>2 DEF API!Move, MappedMove, PhaseMap
    <3> QED BY <3>1 DEF API!APINext, API!GetURLCall, API!NewStreamCall, API!NewStreamReturn,
                        API!URLNotifyCall, API!URLNotifyReturn
  <2>3. CASE \/ MappedMove(s, "open", "write", m_offset[s])
             \/ MappedMove(s, "write", "destroystream", m_offset[s])
             \/ MappedMove(s, "open", "destroystream", m_offset[s])
             \/ MappedMove(s, "destroystream", "urlnotify", m_offset[s])
    <3>1. \/ API!Move(s, "open", "write", m_offset[s])
          \/ API!Move(s, "write", "destroystream", m_offset[s])
          \/ API!Move(s, "open", "destroystream", m_offset[s])
          \/ API!Move(s, "destroystream", "urlnotify", m_offset[s])
      BY <2>3 DEF API!Move, MappedMove, PhaseMap
    <3> QED BY <3>1 DEF API!APINext, API!WriteCall, API!WriteReturn,
                        API!DestroyStreamCall, API!DestroyStreamReturn
  <2> QED BY <1>2, <2>1, <2>2, <2>3 DEF MappedCall
<1> QED BY <1>1, <1>2 DEF MappedStep

\* Outside the calls, a step that starts, opens and ends no stream is a stutter.
LEMMA NoCall ==
  ASSUME pc \notin Calls, pc' \notin Calls, UNCHANGED <<created, m_offset>>,
         \A s \in Streams : m_protop'[s] = Null <=> m_protop[s] = Null
  PROVE  UNCHANGED <<PhaseMap, m_offset>>
<1>1. PhaseMap' = [s \in Streams |-> IF m_protop'[s] = Null THEN "none"
                                     ELSE IF created'[s] THEN "open" ELSE "pending"]
  BY DEF PhaseMap
<1>2. PhaseMap = [s \in Streams |-> IF m_protop[s] = Null THEN "none"
                                    ELSE IF created[s] THEN "open" ELSE "pending"]
  BY DEF PhaseMap
<1>3. \A s \in Streams : (IF m_protop'[s] = Null THEN "none"
                          ELSE IF created'[s] THEN "open" ELSE "pending")
                         = (IF m_protop[s] = Null THEN "none"
                            ELSE IF created[s] THEN "open" ELSE "pending")
  OBVIOUS
<1> QED BY <1>1, <1>2, <1>3

\* A step of the handler moves the stream it works on and no other; a wrapper may take the
\* place of the proto_stream.
LEMMA OneCall ==
  ASSUME NEW s \in Streams, frame.s = s, m_protop[s] # Null,
         \A r \in Streams : m_protop'[r] = Null <=> m_protop[r] = Null,
         frame'.s = s \/ pc' \notin Calls,
         \A r \in Streams \ {s} : created'[r] = created[r]
  PROVE  /\ PhaseMap[s] = Here(pc, created[s])
         /\ PhaseMap' = [PhaseMap EXCEPT ![s] = Here(pc', created'[s])]
<1>1. PhaseMap[s] = Here(pc, created[s])
  BY DEF PhaseMap, Here
<1>2. PhaseMap' = [r \in Streams |->
                     IF m_protop'[r] = Null THEN "none"
                     ELSE IF pc' \in Calls /\ frame'.s = r THEN pc'
                     ELSE IF created'[r] THEN "open" ELSE "pending"]
  BY DEF PhaseMap
<1>3. \A r \in Streams \ {s} : PhaseMap'[r] = PhaseMap[r]
  <2> SUFFICES ASSUME NEW r \in Streams \ {s} PROVE PhaseMap'[r] = PhaseMap[r]
    OBVIOUS
  <2>1. PhaseMap'[r] = IF m_protop[r] = Null THEN "none"
                       ELSE IF created[r] THEN "open" ELSE "pending"
    BY <1>2
  <2>2. PhaseMap[r] = IF m_protop[r] = Null THEN "none"
                      ELSE IF created[r] THEN "open" ELSE "pending"
    BY DEF PhaseMap
  <2> QED BY <2>1, <2>2
<1>4. PhaseMap'[s] = Here(pc', created'[s])
  BY <1>2 DEF Here
<1>5. PhaseMap = [r \in Streams |-> PhaseMap[r]]
  BY DEF PhaseMap
<1>6. PhaseMap' = [r \in Streams |-> PhaseMap'[r]]
  BY <1>2
<1> QED BY <1>1, <1>3, <1>4, <1>5, <1>6

\* The steps of a handler for the stream s.
LEMMA HandlerCalls == IndInv /\ Handler => MappedStep
<1> SUFFICES ASSUME IndInv, Handler PROVE MappedStep
  OBVIOUS
<1> USE NullAssumption
<1>1. pc # "idle"
  BY DEF Handler, Redirect, RedirectFails, Wrap, Proceed, NewStream, WriteReady, Write,
         DestroyStream, URLNotify
<1>2. PICK s \in Streams : /\ s = frame.s /\ m_protop[s] # Null
                           /\ ~created[s] => m_offset[s] = 0
                           /\ pc = "newstream" => ~created[s]
                           /\ pc \in {"writeready", "write", "destroystream"} => created[s]
                           /\ pc = "write" => frame.len > 0
  BY <1>1, Served DEF OpenOK, HandlerOK
<1>3. /\ created \in [Streams -> BOOLEAN] /\ m_offset \in [Streams -> Nat]
      /\ m_protop \in [Streams -> Protos \cup {Null}]
      /\ frame \in [s : Streams \cup {Null}, pos : Nat, len : Nat]
      /\ m_offset' = m_offset => m_offset' = [m_offset EXCEPT ![s] = m_offset[s]]
  BY DEF IndInv, TypeOK
<1>4. ASSUME UNCHANGED <<created, m_offset>>, pc \notin Calls, pc' \notin Calls,
             \A r \in Streams : m_protop'[r] = Null <=> m_protop[r] = Null
      PROVE  MappedStep
  BY <1>3, <1>4, NoCall, MappedNext
<1>5. CASE \E q \in Protos, f \in Fds : Redirect(q, f)
  <2>1. PICK q \in Protos, f \in Fds : Redirect(q, f)
    BY <1>5
  <2>2. /\ pc = "onread" /\ pc' = "idle" /\ UNCHANGED <<created, m_offset>>
        /\ m_protop' = [m_protop EXCEPT ![s] = q]
    BY <1>2, <2>1 DEF Redirect, EndEvent
  <2>3. \A r \in Streams : m_protop'[r] = Null <=> m_protop[r] = Null
    BY <1>2, <1>3, <2>2
  <2> QED BY <1>4, <2>2, <2>3 DEF Calls
<1>6. CASE RedirectFails
  BY <1>4, <1>6 DEF RedirectFails, EndEvent, streamVars, Calls
<1>7. CASE \E w \in Protos, f \in Fds : Wrap(w, f)
  <2>1. PICK w \in Protos, f \in Fds : Wrap(w, f)
    BY <1>7
  <2>2. /\ pc = "onread" /\ pc' = "newstream" /\ UNCHANGED <<created, m_offset, frame>>
        /\ m_protop' = [m_protop EXCEPT ![s] = w] /\ ~created[s]
    BY <1>2, <2>1 DEF Wrap, Fresh
  <2>3. \A r \in Streams : m_protop'[r] = Null <=> m_protop[r] = Null
    BY <1>2, <1>3, <2>2
  <2>4. PhaseMap[s] = Here(pc, created[s]) /\ PhaseMap' = [PhaseMap EXCEPT ![s] = Here(pc', created'[s])]
    BY <1>2, <2>2, <2>3, OneCall
  <2>5. MappedMove(s, "pending", "newstream", 0)
    BY <1>2, <1>3, <2>2, <2>4 DEF Here, Calls, MappedMove
  <2> QED BY <1>3, <2>5, MappedNext DEF MappedCall
<1>8. CASE Proceed
  <2>1. pc = "onread" /\ UNCHANGED <<m_protop, created, m_offset>>
    BY <1>8 DEF Proceed, streamVars
  <2>2. \/ pc' \in {"writeready", "idle"}
        \/ ~created[s] /\ frame' = frame /\ pc' \in {"newstream", "urlnotify"}
    BY <1>2, <1>8 DEF Proceed, Return, Teardown, Fresh, EndEvent
  <2>3. CASE pc' \in {"writeready", "idle"}
    BY <1>4, <2>1, <2>3 DEF Calls
  <2>4. CASE ~created[s] /\ frame' = frame /\ pc' \in {"newstream", "urlnotify"}
    <3>1. PhaseMap[s] = Here(pc, created[s]) /\ PhaseMap' = [PhaseMap EXCEPT ![s] = Here(pc', created'[s])]
      BY <1>2, <2>1, <2>4, OneCall
    <3>2. MappedMove(s, "pending", pc', 0)
      BY <1>2, <1>3, <2>1, <2>4, <3>1 DEF Here, Calls, MappedMove
    <3> QED BY <1>3, <2>4, <3>2, MappedNext DEF MappedCall
  <2> QED BY <2>2, <2>3, <2>4
<1>9. ASSUME NEW ok \in BOOLEAN, NewStream(ok) PROVE MappedStep
  <2>1. /\ pc = "newstream" /\ ~created[s] /\ UNCHANGED m_protop
        /\ m_offset' = [m_offset EXCEPT ![s] = 0] /\ created' = [created EXCEPT ![s] = ok]
    BY <1>2, <1>9 DEF NewStream
  <2>2. frame' = frame /\ ((ok /\ pc' = "writeready") \/ (~ok /\ pc' = "urlnotify"))
    BY <1>2, <1>9, <2>1 DEF NewStream, Return, Teardown
  <2>3. PhaseMap[s] = Here(pc, created[s]) /\ PhaseMap' = [PhaseMap EXCEPT ![s] = Here(pc', created'[s])]
    BY <1>2, <1>3, <2>1, <2>2, OneCall
  <2>4. MappedMove(s, "newstream", "open", 0) \/ MappedMove(s, "newstream", "urlnotify", 0)
    BY <1>3, <2>1, <2>2, <2>3 DEF Here, Calls, MappedMove
  <2> QED BY <1>3, <2>4, MappedNext DEF MappedCall
<1>10. ASSUME NEW c \in 0..MaxReady, WriteReady(c) PROVE MappedStep
  <2>1. pc = "writeready" /\ created[s] /\ UNCHANGED <<m_protop, created, m_offset>>
    BY <1>2, <1>10 DEF WriteReady
  <2>2. \/ pc' = "idle"
        \/ pc' = "destroystream" /\ frame' = frame
        \/ pc' = "write" /\ frame'.s = s
    BY <1>2, <1>3, <1>10, <2>1 DEF WriteReady, RecvData, Return, Teardown, EndEvent
  <2>3. CASE pc' = "idle"
    BY <1>4, <2>1, <2>3 DEF Calls
  <2>4. CASE pc' \in {"destroystream", "write"} /\ frame'.s = s
    <3>1. PhaseMap[s] = Here(pc, created[s]) /\ PhaseMap' = [PhaseMap EXCEPT ![s] = Here(pc', created'[s])]
      BY <1>2, <2>1, <2>4, OneCall
    <3>2. MappedMove(s, "open", pc', m_offset[s])
      BY <1>3, <2>1, <2>4, <3>1 DEF Here, Calls, MappedMove
    <3> QED BY <1>3, <2>4, <3>2, MappedNext DEF MappedCall
  <2> QED BY <1>2, <2>2, <2>3, <2>4
<1>11. ASSUME NEW ok \in BOOLEAN, Write(ok) PROVE MappedStep
  <2>1. /\ pc = "write" /\ created[s] /\ frame.len > 0 /\ frame.len \in Nat
        /\ UNCHANGED <<m_protop, created>>
    BY <1>2, <1>3, <1>11 DEF Write
  <2>2. /\ frame'.s = s
        /\ \/ pc' = "destroystream" /\ m_offset' = m_offset
           \/ pc' = "writeready" /\ m_offset' = [m_offset EXCEPT ![s] = @ + frame.len]
    BY <1>2, <1>3, <1>11, <2>1 DEF Write, Return, Teardown
  <2>3. PhaseMap[s] = Here(pc, created[s]) /\ PhaseMap' = [PhaseMap EXCEPT ![s] = Here(pc', created'[s])]
    BY <1>2, <2>1, <2>2, OneCall
  <2>4. CASE pc' = "destroystream" /\ m_offset' = m_offset
    <3>1. MappedMove(s, "write", "destroystream", m_offset[s])
      BY <1>3, <2>1, <2>3, <2>4 DEF Here, Calls, MappedMove
    <3> QED BY <1>3, <3>1, MappedNext DEF MappedCall
  <2>5. CASE pc' = "writeready" /\ m_offset' = [m_offset EXCEPT ![s] = @ + frame.len]
    <3>1. PICK n \in Nat : n = m_offset[s] + frame.len
      BY <1>3, <2>1
    <3>2. n > m_offset[s]
      BY <1>3, <2>1, <3>1
    <3>3. MappedMove(s, "write", "open", n)
      BY <2>1, <2>3, <2>5, <3>1 DEF Here, Calls, MappedMove
    <3> QED BY <1>3, <3>2, <3>3, MappedNext DEF MappedCall
  <2> QED BY <2>2, <2>4, <2>5
<1>12. CASE DestroyStream
  <2>1. /\ pc = "destroystream" /\ pc' = "urlnotify"
        /\ UNCHANGED <<m_protop, created, m_offset, frame>>
    BY <1>12 DEF DestroyStream, streamVars
  <2>2. PhaseMap[s] = Here(pc, created[s]) /\ PhaseMap' = [PhaseMap EXCEPT ![s] = Here(pc', created'[s])]
    BY <1>2, <2>1, OneCall
  <2>3. MappedMove(s, "destroystream", "urlnotify", m_offset[s])
    BY <1>3, <2>1, <2>2 DEF Here, Calls, MappedMove
  <2> QED BY <1>3, <2>3, MappedNext DEF MappedCall
<1>13. CASE URLNotify
  <2>1. /\ pc = "urlnotify" /\ pc' = "idle"
        /\ m_protop' = [m_protop EXCEPT ![s] = Null]
        /\ created' = [created EXCEPT ![s] = FALSE]
        /\ m_offset' = [m_offset EXCEPT ![s] = 0]
    BY <1>2, <1>13 DEF URLNotify, EndEvent
  <2>2. PhaseMap[s] = "urlnotify"
    BY <1>2, <2>1 DEF PhaseMap, Calls
  <2>3. PhaseMap' = [r \in Streams |-> IF m_protop'[r] = Null THEN "none"
                                       ELSE IF created'[r] THEN "open" ELSE "pending"]
    BY <2>1 DEF PhaseMap, Calls
  <2>4. PhaseMap' = [PhaseMap EXCEPT ![s] = "none"]
    BY <1>2, <1>3, <2>1, <2>3 DEF PhaseMap
  <2>5. MappedMove(s, "urlnotify", "none", 0)
    BY <2>1, <2>2, <2>4 DEF MappedMove
  <2> QED BY <1>3, <2>5, MappedNext DEF MappedCall
<1> QED BY <1>5, <1>6, <1>7, <1>8, <1>9, <1>10, <1>11, <1>12, <1>13 DEF Handler

\* Every step of WinStream is a step of NPStreamAPI, or a stutter.
LEMMA NextImplementsAPI == IndInv /\ [Next]_vars => MappedStep
<1> SUFFICES ASSUME IndInv, [Next]_vars PROVE MappedStep
  OBVIOUS
<1>1. /\ created \in [Streams -> BOOLEAN] /\ m_offset \in [Streams -> Nat]
      /\ m_protop \in [Streams -> Protos \cup {Null}] /\ FrameOK
  BY DEF IndInv, TypeOK
<1>2. CASE Requests
  <2>1. PICK s \in Streams, p \in Protos, f \in Fds : GetURL(s, p, f)
    BY <1>2 DEF Requests
  <2>2. /\ m_protop[s] = Null /\ p # Null /\ UNCHANGED <<pc, frame>>
        /\ m_protop' = [m_protop EXCEPT ![s] = p]
        /\ created' = [created EXCEPT ![s] = FALSE]
        /\ m_offset' = [m_offset EXCEPT ![s] = 0]
    BY <2>1, NullAssumption DEF GetURL, handlerVars
  <2>3. pc \in Calls => frame.s # s
    BY <1>1, <2>2 DEF FrameOK, Calls
  <2>4. PhaseMap[s] = "none"
    BY <2>2 DEF PhaseMap
  <2>5. PhaseMap' = [r \in Streams |->
                       IF m_protop'[r] = Null THEN "none"
                       ELSE IF pc \in Calls /\ frame.s = r THEN pc
                       ELSE IF created'[r] THEN "open" ELSE "pending"]
    BY <2>2 DEF PhaseMap
  <2>6. PhaseMap' = [PhaseMap EXCEPT ![s] = "pending"]
    BY <1>1, <2>2, <2>3, <2>5 DEF PhaseMap
  <2>7. MappedCall(s)
    BY <2>2, <2>4, <2>6 DEF MappedMove, MappedCall
  <2> QED BY <1>1, <2>7, MappedNext
<1>3. CASE Dispatch
  <2>1. UNCHANGED <<m_protop, created, m_offset>> /\ pc = "idle" /\ pc' \in {"idle", "onread"}
    <3>1. CASE OnRead
      <4>1. UNCHANGED <<m_protop, created, m_offset>> /\ pc = "idle"
        BY <3>1 DEF OnRead, Arrives, streamVars
      <4>2. pc' \in {"idle", "onread"}
        BY <3>1 DEF OnRead, ReadResponse, Wake, EndEvent
      <4> QED BY <4>1, <4>2
    <3>2. CASE OnWrite
      BY <3>2 DEF OnWrite, Arrives, streamVars, Wake, EndEvent
    <3>3. CASE OnUnknown
      BY <3>3 DEF OnUnknown, Arrives, streamVars, handlerVars
    <3> QED BY <1>3, <3>1, <3>2, <3>3 DEF Dispatch
  <2> QED BY <1>1, <2>1, NoCall, MappedNext DEF Calls
<1>4. CASE Network \/ UNCHANGED vars
  <2>1. UNCHANGED <<m_protop, created, m_offset, pc, frame>>
    BY <1>4 DEF Network, NetworkStep, Accept, Refuse, PostWrite, Answer, Arrive, Close, PostClose,
                streamVars, handlerVars, vars
  <2>2. UNCHANGED PhaseMap
    BY <2>1 DEF PhaseMap
  <2> QED BY <1>1, <2>1, <2>2, MappedNext
<1>5. CASE Handler
  BY <1>5, HandlerCalls
<1> QED BY <1>2, <1>3, <1>4, <1>5 DEF Next

\* The plugin sees newstream, write, destroystream and urlnotify in the order of NPStreamAPI,
\* once each but for write, at contiguous offsets, redirected or wrapped or not.
THEOREM StreamsImplementAPI == Spec => ImplementsAPI
<1>1. Init => API!APIInit
  BY NullAssumption DEF Init, API!APIInit
<1>2. IndInv /\ [Next]_vars => [API!APINext]_(API!apiVars)
  BY NextImplementsAPI DEF MappedStep
<1> QED BY <1>1, <1>2, Invariant, PTL DEF Spec, ImplementsAPI, API!APISpec
=============================================================================
