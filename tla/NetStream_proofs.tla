-------------------------- MODULE NetStream_proofs --------------------------
(***************************************************************************)
(* Proofs about NetStream, for every number of addresses, descriptors and  *)
(* responses.  IndInv is inductive: the pieces a handler touches are each  *)
(* preserved by a lemma, and the actions are then taken one by one.        *)
(***************************************************************************)
EXTENDS NetStream, TLAPS

\* recv_chunk stays inside m_chunk and takes only what has arrived.
LEMMA RecvChunkLemma ==
  ASSUME IndInv, NEW p \in Protos, "CREATED" \notin m_flags[p]
  PROVE  LET got == RecvChunk(p)
         IN /\ got.n \in Nat
            /\ got.n <= rx[p] - rd[p]
            /\ m_chunk[p].off + got.n <= ChunkLen
            /\ got.errno \in Errno
<1> DEFINE room == ChunkLen - m_chunk[p].off
           n == MinOf(room, rx[p] - rd[p])
<1>1. /\ ChunkLen \in Nat /\ m_chunk[p] \in [off : Nat, len : Nat]
      /\ m_chunk[p].off <= ChunkLen /\ rx[p] \in Nat /\ rd[p] \in Nat /\ rd[p] <= rx[p]
      /\ last_error[p] \in Errno
  BY SizeAssumption DEF IndInv, TypeOK, Bounds
<1>2. room \in Nat /\ rx[p] - rd[p] \in Nat
  BY <1>1
<1>3. n \in Nat /\ n <= room /\ n <= rx[p] - rd[p]
  BY <1>2 DEF MinOf
<1>4. RecvErrno(p) \in Errno
  BY DEF RecvErrno, Errno
<1>5. "none" \in Errno
  BY DEF Errno
<1>6. CASE room = 0
  BY <1>1, <1>2, <1>6 DEF RecvChunk
<1>7. CASE room # 0 /\ n = room
  <2>1. RecvChunk(p) = [n |-> n, ret |-> n, errno |-> "none"]
    BY <1>7 DEF RecvChunk
  <2> HIDE DEF n, room
  <2>2. m_chunk[p].off + n <= ChunkLen
    BY <1>1, <1>3 DEF room
  <2> QED BY <2>1, <2>2, <1>3, <1>5
<1>8. CASE room # 0 /\ n # room
  <2>1. RecvChunk(p) = [n |-> n, ret |-> IF conn[p] = "eof" THEN 0 ELSE -1,
                        errno |-> RecvErrno(p)]
    BY <1>8 DEF RecvChunk
  <2> HIDE DEF n, room
  <2>2. m_chunk[p].off + n <= ChunkLen
    BY <1>1, <1>3 DEF room
  <2> QED BY <2>1, <2>2, <1>3, <1>4
<1> QED BY <1>6, <1>7, <1>8

LEMMA InitIndInv == Init => IndInv
<1> SUFFICES ASSUME Init PROVE IndInv
  OBVIOUS
<1> USE NullAssumption, SizeAssumption DEF Init, Live
<1>1. TypeOK
  BY DEF TypeOK, NoChunk, NoFrame, Frames, PcValues, PluginTurn, Errno, Broken
<1>2. Ownership
  BY DEF Ownership, OnStream
<1>3. SocketTable
  BY DEF SocketTable
<1>4. Bounds
  <2> SUFFICES ASSUME NEW p \in Protos
               PROVE  rd[p] <= rx[p] /\ m_chunk[p].off <= m_chunk[p].len
                      /\ m_chunk[p].len = ChunkLen
    BY DEF Bounds
  <2>1. m_chunk[p] = [off |-> 0, len |-> ChunkLen] /\ rd[p] = 0 /\ rx[p] = 0
    BY DEF NoChunk
  <2> QED BY <2>1
<1>5. FrameOK
  BY DEF FrameOK, OnStream
<1> QED BY <1>1, <1>2, <1>3, <1>4, <1>5 DEF IndInv

\* Ownership of a stream outside a handler, and the descriptor table, read only these
\* variables; the steps that leave them alone have only the handler's own facts to restore.
Links == <<m_ref, m_files, m_waitp, stream_list, m_protop>>

LEMMA LinksUnchanged ==
  ASSUME IndInv, UNCHANGED Links,
         (pc \in OnStream => frame.s \in Streams /\ m_protop[frame.s] # Null)'
  PROVE  Ownership' /\ SocketTable'
BY DEF IndInv, Links, Ownership, SocketTable, Live

\* Leaving a half of a handler.
LEMMA EndHalfLemma ==
  ASSUME IndInv, EndHalf, pc # "idle"
  PROVE  /\ (pc \in PcValues)'
         /\ (frame \in Frames)'
         /\ pc' \notin OnStream /\ pc' # "read"
         /\ pc' # "idle" => frame'.fd = frame.fd /\ frame'.p = frame.p
<1> USE NullAssumption DEF NoFrame, Frames, PcValues, PluginTurn, OnStream
<1>1. frame \in Frames /\ frame.fd \in Fds /\ frame.p \in Protos
  BY DEF IndInv, TypeOK, FrameOK
<1>2. CASE frame.more
  <2>1. pc' = "send" /\ frame' = [NoFrame EXCEPT !.fd = frame.fd, !.p = frame.p]
    BY <1>2 DEF EndHalf
  <2> QED BY <1>1, <2>1
<1>3. CASE ~frame.more
  <2>1. pc' = "idle" /\ frame' = NoFrame
    BY <1>3 DEF EndHalf
  <2>2. NoFrame \in Frames
    OBVIOUS
  <2> QED BY <2>1, <2>2
<1> QED BY <1>2, <1>3

\* Waking the waiter of the proto_stream the handler was entered for.
LEMMA WakeLemma ==
  ASSUME IndInv, pc \in {"read", "send"}, stream_list[frame.fd] = frame.p, Wake(frame.p)
  PROVE  /\ (pc \in PcValues)'
         /\ (frame \in Frames)'
         /\ pc' \in OnStream => /\ frame'.s \in Streams
                                /\ m_protop[frame'.s] = frame.p
         /\ pc' # "read"
         /\ pc' # "idle" => frame'.fd = frame.fd /\ frame'.p = frame.p
<1>1. frame.p \in Protos /\ frame.fd \in Fds
  BY DEF IndInv, FrameOK
<1>2. Live(frame.p)
  BY <1>1, NullAssumption DEF IndInv, SocketTable
<1>3. m_waitp[frame.p] \in Streams /\ m_protop[m_waitp[frame.p]] = frame.p
  BY <1>1, <1>2 DEF IndInv, Ownership
<1>4. m_waitp[frame.p] # Null
  BY <1>3, NullAssumption
<1>5. pc' = "onread" /\ frame' = [frame EXCEPT !.s = m_waitp[frame.p]]
  BY <1>4 DEF Wake
<1> QED BY <1>1, <1>3, <1>5 DEF IndInv, TypeOK, Frames, PcValues, OnStream

\* OnRead returning from inside a handler.
LEMMA ReturnLemma ==
  ASSUME IndInv, pc \in OnStream, NEW keep \in BOOLEAN, Return(keep)
  PROVE  /\ (pc \in PcValues)'
         /\ (frame \in Frames)'
         /\ pc' \in OnStream => frame' = frame
         /\ pc' # "read"
         /\ pc' # "idle" => frame'.fd = frame.fd /\ frame'.p = frame.p
<1>1. pc # "idle"
  BY DEF OnStream
<1>2. CASE keep
  BY <1>1, <1>2, EndHalfLemma DEF Return
<1>3. CASE ~keep
  BY <1>3 DEF Return, Teardown, IndInv, TypeOK, PcValues, PluginTurn, OnStream
<1> QED BY <1>2, <1>3

\* A step of a handler that constructs and deletes nothing.
LEMMA HandlerLemma ==
  ASSUME IndInv, UNCHANGED Links, pc # "idle", stream_list[frame.fd] = frame.p,
         pc' # "read",
         pc' # "idle" => frame'.fd = frame.fd /\ frame'.p = frame.p,
         pc' \in OnStream => frame'.s \in Streams /\ m_protop[frame'.s] = frame.p
  PROVE  Ownership' /\ SocketTable' /\ FrameOK'
<1>1. frame.fd \in Fds /\ frame.p \in Protos
  BY DEF IndInv, FrameOK
<1>2. UNCHANGED <<m_protop, stream_list>>
  BY DEF Links
<1>3. (pc \in OnStream => frame.s \in Streams /\ m_protop[frame.s] # Null)'
  BY <1>1, <1>2, NullAssumption
<1>4. FrameOK'
  <2>1. CASE pc' = "idle"
    BY <2>1 DEF FrameOK, OnStream
  <2>2. CASE pc' # "idle"
    <3>1. stream_list'[frame'.fd] = frame.p
      BY <1>2, <2>2
    <3> QED BY <1>1, <1>2, <2>2, <3>1 DEF FrameOK
  <2> QED BY <2>1, <2>2
<1> QED BY <1>3, <1>4, LinksUnchanged

\* A handler inside OnRead works on the proto_stream it was entered for.
LEMMA InOnRead ==
  ASSUME IndInv, pc \in OnStream
  PROVE  /\ pc # "idle"
         /\ frame \in Frames /\ frame.s \in Streams
         /\ m_protop[frame.s] = frame.p /\ frame.p \in Protos /\ frame.fd \in Fds
         /\ stream_list[frame.fd] = frame.p /\ m_files[frame.p] = frame.fd
         /\ Live(frame.p)
<1>1. /\ pc # "idle" /\ frame \in Frames /\ frame.s \in Streams
      /\ m_protop[frame.s] = frame.p /\ frame.p \in Protos /\ frame.fd \in Fds
      /\ stream_list[frame.fd] = frame.p
  BY DEF IndInv, TypeOK, FrameOK, OnStream
<1>2. m_files[frame.p] = frame.fd /\ Live(frame.p)
  BY <1>1, NullAssumption DEF IndInv, SocketTable
<1> QED BY <1>1, <1>2

LEMMA NotifyStep ==
  ASSUME IndInv, NEW p \in Protos, NEW cond \in SUBSET {"READ", "WRITE"}, Notify(p, cond)
  PROVE  IndInv'
<1>1. /\ UNCHANGED <<sockVars, protoVars, streamVars, netVars>>
      /\ pc' = IF "READ" \in cond THEN "read" ELSE "send"
      /\ frame' = [NoFrame EXCEPT !.fd = m_files[p], !.p = p, !.more = (cond = {"READ", "WRITE"})]
  BY DEF Notify
<1>2. m_files[p] \in Fds /\ stream_list[m_files[p]] = p
  BY DEF Notify, IndInv, SocketTable
<1>3. pc' \in {"read", "send"} /\ pc' \notin OnStream
  BY <1>1 DEF OnStream
<1>4. frame' \in Frames /\ frame'.fd = m_files[p] /\ frame'.p = p
  BY <1>1, <1>2 DEF NoFrame, Frames
<1>5. TypeOK'
  BY <1>1, <1>3, <1>4
  DEF IndInv, TypeOK, PcValues, sockVars, protoVars, streamVars, netVars
<1>6. Ownership' /\ SocketTable'
  BY <1>1, <1>3, LinksUnchanged DEF Links, sockVars, protoVars, streamVars
<1>7. Bounds'
  BY <1>1 DEF IndInv, Bounds, protoVars, netVars
<1>8. FrameOK'
  BY <1>1, <1>2, <1>3, <1>4 DEF FrameOK, sockVars
<1> QED BY <1>5, <1>6, <1>7, <1>8 DEF IndInv

LEMMA NetworkStep ==
  ASSUME IndInv, Network
  PROVE  IndInv'
<1>1. PICK p \in Protos : \/ Accept(p) \/ Arrive(p) \/ Close(p) \/ Reset(p)
                          \/ \E r \in Responses : Answer(p, r)
  BY DEF Network
<1>2. /\ UNCHANGED <<sockVars, protoVars, streamVars, pc, frame, rd>>
      /\ Live(p)
  BY <1>1 DEF Accept, Arrive, Close, Reset, Answer, ServerStep
<1>3. /\ conn' \in [Protos -> {"none", "connecting", "open", "eof", "rst"}]
      /\ resp' \in [Protos -> Responses \cup {Null}]
      /\ rx' \in [Protos -> Nat]
      /\ \A q \in Protos : rx[q] <= rx'[q]
  <2> USE DEF IndInv, TypeOK
  <2>1. ASSUME NEW q \in Protos PROVE rx[q] \in Nat /\ rx[q] <= rx[q] /\ rx[q] <= rx[q] + 1
    OBVIOUS
  <2>2. CASE Arrive(p)
    BY <2>1, <2>2 DEF Arrive
  <2>3. CASE \E r \in Responses : Answer(p, r)
    BY <2>1, <2>3 DEF Answer
  <2>4. CASE Accept(p) \/ Close(p) \/ Reset(p)
    BY <2>1, <2>4 DEF Accept, Close, Reset
  <2> QED BY <1>1, <2>2, <2>3, <2>4
<1>4. TypeOK'
  BY <1>2, <1>3 DEF IndInv, TypeOK, sockVars, protoVars, streamVars
<1>5. Ownership' /\ SocketTable'
  BY <1>2, LinksUnchanged DEF Links, sockVars, protoVars, streamVars, IndInv, Ownership
<1>6. Bounds'
  <2>1. ASSUME NEW q \in Protos
        PROVE  rd[q] \in Nat /\ rx[q] \in Nat /\ rx'[q] \in Nat /\ rx[q] <= rx'[q]
               /\ rd[q] <= rx[q]
    BY <1>3 DEF IndInv, TypeOK, Bounds
  <2>2. \A q \in Protos : rd[q] <= rx'[q]
    BY <2>1
  <2> QED BY <1>2, <2>2 DEF IndInv, Bounds, protoVars
<1>7. FrameOK'
  BY <1>2 DEF IndInv, FrameOK, sockVars, streamVars
<1> QED BY <1>4, <1>5, <1>6, <1>7 DEF IndInv

LEMMA ReadHalfStep ==
  ASSUME IndInv, ReadHalf
  PROVE  IndInv'
<1> DEFINE p == frame.p
<1>1. /\ pc = "read" /\ p \in Protos /\ frame.fd \in Fds /\ stream_list[frame.fd] = p
      /\ pc # "idle"
  BY DEF ReadHalf, IndInv, FrameOK
<1>2. /\ UNCHANGED <<m_files, interest, stream_list, m_ref, m_waitp, m_header, streamVars,
                     conn, rx, resp>>
      /\ connected' = [connected EXCEPT ![p] = TRUE]
      /\ IF "CREATED" \in m_flags[p]
         THEN Wake(p) /\ UNCHANGED <<m_flags, m_chunk, last_error, rd>>
         ELSE ReadResponse(p)
  BY <1>1 DEF ReadHalf
<1> HIDE DEF p
<1>3. Wake(p) \/ EndHalf
  BY <1>2 DEF ReadResponse
<1>4. /\ (pc \in PcValues)' /\ (frame \in Frames)'
      /\ pc' # "read"
      /\ pc' # "idle" => frame'.fd = frame.fd /\ frame'.p = frame.p
      /\ pc' \in OnStream => frame'.s \in Streams /\ m_protop[frame'.s] = frame.p
  BY <1>1, <1>3, WakeLemma, EndHalfLemma DEF p
<1>5. UNCHANGED Links
  BY <1>2 DEF Links, streamVars
<1>6. Ownership' /\ SocketTable' /\ FrameOK'
  BY <1>1, <1>4, <1>5, HandlerLemma DEF p
<1>7. connected' \in [Protos -> BOOLEAN]
  BY <1>2 DEF IndInv, TypeOK
<1>8. CASE "CREATED" \in m_flags[p]
  <2>1. UNCHANGED <<m_flags, m_chunk, last_error, rd>>
    BY <1>2, <1>8
  <2>2. TypeOK'
    BY <2>1, <1>2, <1>4, <1>7 DEF IndInv, TypeOK, streamVars
  <2>3. Bounds'
    BY <2>1, <1>2 DEF IndInv, Bounds
  <2> QED BY <2>2, <2>3, <1>6 DEF IndInv
<1>9. CASE "CREATED" \notin m_flags[p]
  <2> DEFINE got == RecvChunk(p)
             off == m_chunk[p].off + got.n
  <2>1. /\ got.n \in Nat /\ got.n <= rx[p] - rd[p] /\ off <= ChunkLen /\ got.errno \in Errno
    BY <1>1, <1>9, RecvChunkLemma DEF p
  <2>2. /\ rd' = [rd EXCEPT ![p] = @ + got.n]
        /\ last_error' = [last_error EXCEPT ![p] = got.errno]
        /\ \/ /\ m_flags' = [m_flags EXCEPT ![p] = @ \cup Broken]
              /\ m_chunk' = [m_chunk EXCEPT ![p].off = off]
           \/ /\ HeaderDone(p, off)
              /\ m_flags' = [m_flags EXCEPT ![p] = @ \cup {"CREATED"}]
              /\ m_chunk' = [m_chunk EXCEPT ![p] = [off |-> BodyStart(p), len |-> off]]
           \/ /\ m_flags' = m_flags
              /\ m_chunk' = [m_chunk EXCEPT ![p].off = off]
    BY <1>2, <1>9 DEF ReadResponse
  <2> HIDE DEF got
  <2>3. /\ rd \in [Protos -> Nat] /\ rx \in [Protos -> Nat]
        /\ m_chunk \in [Protos -> [off : Nat, len : Nat]]
        /\ m_flags \in [Protos -> SUBSET Broken]
        /\ \A q \in Protos : rd[q] <= rx[q] /\ m_chunk[q].off <= m_chunk[q].len
        /\ \A q \in Protos : "CREATED" \notin m_flags[q] => m_chunk[q].len = ChunkLen
        /\ ChunkLen \in Nat
    BY SizeAssumption DEF IndInv, TypeOK, Bounds
  <2>4. off \in Nat /\ m_chunk[p].len = ChunkLen
    BY <2>1, <2>3, <1>1, <1>9 DEF p
  <2>5. rd' \in [Protos -> Nat] /\ \A q \in Protos : rd'[q] <= rx'[q]
    <3>1. rx' = rx
      BY <1>2
    <3>2. rd[p] + got.n \in Nat /\ rd[p] + got.n <= rx[p]
      BY <1>1, <2>1, <2>3 DEF p
    <3> QED BY <3>1, <3>2, <2>2, <2>3
  <2>6. last_error' \in [Protos -> Errno]
    BY <2>1, <2>2 DEF IndInv, TypeOK
  <2>7. m_flags' \in [Protos -> SUBSET Broken]
    BY <2>2, <2>3 DEF Broken
  <2>8. /\ m_chunk' \in [Protos -> [off : Nat, len : Nat]]
        /\ \A q \in Protos : m_chunk'[q].off <= m_chunk'[q].len
        /\ \A q \in Protos : "CREATED" \notin m_flags'[q] => m_chunk'[q].len = ChunkLen
    <3> HIDE DEF off
    <3>1. CASE m_chunk' = [m_chunk EXCEPT ![p].off = off]
      <4>1. \A q \in Protos : "CREATED" \notin m_flags'[q] => "CREATED" \notin m_flags[q]
        BY <2>2, <2>3
      <4> QED BY <3>1, <4>1, <2>1, <2>3, <2>4 DEF off
    <3>2. CASE /\ HeaderDone(p, off)
               /\ m_flags' = [m_flags EXCEPT ![p] = @ \cup {"CREATED"}]
               /\ m_chunk' = [m_chunk EXCEPT ![p] = [off |-> BodyStart(p), len |-> off]]
      <4>1. BodyStart(p) \in Nat /\ BodyStart(p) <= off
        <5>1. resp[p] \in Responses /\ off >= resp[p].hdr
          BY <3>2, <1>1 DEF HeaderDone, IndInv, TypeOK, p
        <5>2. resp[p].hdr \in Nat
          BY <5>1, ResponseAssumption DEF ResponseSpace
        <5> QED BY <5>1, <5>2, <2>4 DEF BodyStart
      <4>2. "CREATED" \in m_flags'[p]
        BY <3>2, <2>3, <1>1 DEF p
      <4> QED BY <3>2, <4>1, <4>2, <2>3, <2>4
    <3> QED BY <3>1, <3>2, <2>2
  <2>9. TypeOK'
    BY <2>5, <2>6, <2>7, <2>8, <1>2, <1>4, <1>7 DEF IndInv, TypeOK, streamVars
  <2>10. Bounds'
    BY <2>5, <2>8 DEF Bounds
  <2> QED BY <2>9, <2>10, <1>6 DEF IndInv
<1> QED BY <1>8, <1>9

LEMMA WriteHalfStep ==
  ASSUME IndInv, WriteHalf
  PROVE  IndInv'
<1>1. /\ pc = "send" /\ frame.fd \in Fds /\ frame.p \in Protos
      /\ stream_list[frame.fd] \in {Null, frame.p}
      /\ pc # "idle" /\ frame.p # Null
  BY NullAssumption DEF WriteHalf, IndInv, FrameOK
<1>2. UNCHANGED <<m_files, stream_list, m_ref, m_waitp, m_chunk, streamVars, netVars>>
  BY DEF WriteHalf
<1>3. UNCHANGED Links
  BY <1>2 DEF Links, streamVars
<1>4. CASE stream_list[frame.fd] = Null
  <2>1. /\ pc' = "idle" /\ frame' = NoFrame
        /\ UNCHANGED <<connected, interest, m_header, last_error, m_flags>>
    BY <1>1, <1>4 DEF WriteHalf
  <2>2. frame' \in Frames
    BY <2>1 DEF NoFrame, Frames
  <2>3. TypeOK'
    BY <2>1, <2>2, <1>2 DEF IndInv, TypeOK, PcValues, PluginTurn, streamVars, netVars
  <2>4. Ownership' /\ SocketTable'
    BY <2>1, <1>3, LinksUnchanged DEF OnStream
  <2>5. Bounds' /\ FrameOK'
    BY <2>1, <1>2 DEF IndInv, Bounds, FrameOK, OnStream, netVars
  <2> QED BY <2>3, <2>4, <2>5 DEF IndInv
<1>5. CASE stream_list[frame.fd] = frame.p
  <2> DEFINE p == frame.p
  <2>1. /\ interest' = [interest EXCEPT ![p] = AfterConnect(p)]
        /\ connected' = [connected EXCEPT ![p] = TRUE]
        /\ SendRequest(p)
    BY <1>1, <1>5 DEF WriteHalf
  <2>2. p \in Protos
    BY <1>1
  <2> HIDE DEF p
  <2>3. /\ interest' \in [Protos -> SUBSET {"READ", "WRITE"}]
        /\ connected' \in [Protos -> BOOLEAN]
    BY <2>1, <2>2 DEF AfterConnect, IndInv, TypeOK
  <2>4. /\ Wake(p) \/ EndHalf
        /\ m_flags' = m_flags \/ m_flags' = [m_flags EXCEPT ![p] = @ \cup Broken]
        /\ last_error' = last_error \/ \E e \in Errno : last_error' = [last_error EXCEPT ![p] = e]
        /\ m_header' = m_header
           \/ \E n \in SendCounts(p) : m_header' = [m_header EXCEPT ![p] = @ + n]
    BY <2>1 DEF SendRequest, Errno
  <2>5. /\ (pc \in PcValues)' /\ (frame \in Frames)'
        /\ pc' # "read"
        /\ pc' # "idle" => frame'.fd = frame.fd /\ frame'.p = frame.p
        /\ pc' \in OnStream => frame'.s \in Streams /\ m_protop[frame'.s] = frame.p
    BY <1>1, <1>5, <2>4, WakeLemma, EndHalfLemma DEF p
  <2>6. Ownership' /\ SocketTable' /\ FrameOK'
    BY <1>1, <1>3, <1>5, <2>5, HandlerLemma
  <2>7. m_flags' \in [Protos -> SUBSET Broken] /\ last_error' \in [Protos -> Errno]
    <3>1. m_flags \in [Protos -> SUBSET Broken] /\ last_error \in [Protos -> Errno]
      BY DEF IndInv, TypeOK
    <3>2. m_flags' \in [Protos -> SUBSET Broken]
      BY <2>2, <2>4, <3>1
    <3>3. last_error' \in [Protos -> Errno]
      BY <2>2, <2>4, <3>1
    <3> QED BY <3>2, <3>3
  <2>8. m_header' \in [Protos -> 0..ReqLen]
    <3>1. m_header \in [Protos -> 0..ReqLen] /\ ReqLen \in Nat
      BY SizeAssumption DEF IndInv, TypeOK
    <3>2. ASSUME NEW n \in SendCounts(p) PROVE m_header[p] + n \in 0..ReqLen
      BY <2>2, <3>1 DEF SendCounts
    <3> QED BY <2>2, <2>4, <3>1, <3>2
  <2>9. TypeOK'
    BY <2>3, <2>5, <2>7, <2>8, <1>2 DEF IndInv, TypeOK, streamVars, netVars
  <2>10. Bounds'
    <3>1. \A q \in Protos : "CREATED" \notin m_flags'[q] => "CREATED" \notin m_flags[q]
      <4>1. m_flags \in [Protos -> SUBSET Broken]
        BY DEF IndInv, TypeOK
      <4>2. CASE m_flags' = m_flags
        BY <4>2
      <4>3. CASE m_flags' = [m_flags EXCEPT ![p] = @ \cup Broken]
        BY <2>2, <4>1, <4>3
      <4> QED BY <2>4, <4>2, <4>3
    <3> QED BY <3>1, <1>2 DEF IndInv, Bounds, netVars
  <2> QED BY <2>6, <2>9, <2>10 DEF IndInv
<1> QED BY <1>1, <1>4, <1>5

LEMMA RedirectFailsStep ==
  ASSUME IndInv, RedirectFails
  PROVE  IndInv'
<1>1. pc \in OnStream /\ EndHalf /\ UNCHANGED <<sockVars, protoVars, streamVars, netVars>>
  BY DEF RedirectFails, OnStream
<1>2. pc # "idle" /\ stream_list[frame.fd] = frame.p
  BY <1>1, InOnRead
<1>3. /\ (pc \in PcValues)' /\ (frame \in Frames)'
      /\ pc' \notin OnStream /\ pc' # "read"
      /\ pc' # "idle" => frame'.fd = frame.fd /\ frame'.p = frame.p
  BY <1>1, <1>2, EndHalfLemma
<1>4. TypeOK' /\ Bounds'
  BY <1>1, <1>3
  DEF IndInv, TypeOK, Bounds, sockVars, protoVars, streamVars, netVars
<1>5. Ownership' /\ SocketTable' /\ FrameOK'
  BY <1>1, <1>2, <1>3, HandlerLemma DEF Links, sockVars, protoVars, streamVars
<1> QED BY <1>4, <1>5 DEF IndInv

LEMMA ProceedStep ==
  ASSUME IndInv, Proceed
  PROVE  IndInv'
<1>1. pc \in OnStream /\ UNCHANGED <<sockVars, protoVars, streamVars, netVars>>
  BY DEF Proceed, OnStream
<1>2. /\ pc # "idle" /\ stream_list[frame.fd] = frame.p /\ frame.s \in Streams
      /\ m_protop[frame.s] = frame.p /\ frame \in Frames
  BY <1>1, InOnRead
<1>3. \/ pc' \in {"newstream", "writeready"} /\ UNCHANGED frame
      \/ \E keep \in BOOLEAN : Return(keep)
  BY DEF Proceed, Block
<1>4. /\ (pc \in PcValues)' /\ (frame \in Frames)'
      /\ pc' # "read"
      /\ pc' # "idle" => frame'.fd = frame.fd /\ frame'.p = frame.p
      /\ pc' \in OnStream => frame' = frame
  <2>1. CASE pc' \in {"newstream", "writeready"} /\ UNCHANGED frame
    BY <2>1, <1>2 DEF PcValues, PluginTurn
  <2>2. CASE \E keep \in BOOLEAN : Return(keep)
    BY <2>2, <1>1, ReturnLemma
  <2> QED BY <1>3, <2>1, <2>2
<1>5. TypeOK' /\ Bounds'
  BY <1>1, <1>4
  DEF IndInv, TypeOK, Bounds, sockVars, protoVars, streamVars, netVars
<1>6. Ownership' /\ SocketTable' /\ FrameOK'
  BY <1>1, <1>2, <1>4, HandlerLemma DEF Links, sockVars, protoVars, streamVars
<1> QED BY <1>5, <1>6 DEF IndInv

LEMMA NewStreamStep ==
  ASSUME IndInv, NEW ok \in BOOLEAN, NewStream(ok)
  PROVE  IndInv'
<1>1. pc \in OnStream /\ UNCHANGED <<sockVars, protoVars, m_protop, netVars>>
  BY DEF NewStream, OnStream
<1>2. /\ pc # "idle" /\ stream_list[frame.fd] = frame.p /\ frame.s \in Streams
      /\ m_protop[frame.s] = frame.p /\ frame \in Frames
  BY <1>1, InOnRead
<1>3. (pc' = "writeready" /\ UNCHANGED frame) \/ Return(FALSE)
  BY DEF NewStream
<1>4. /\ (pc \in PcValues)' /\ (frame \in Frames)'
      /\ pc' # "read"
      /\ pc' # "idle" => frame'.fd = frame.fd /\ frame'.p = frame.p
      /\ pc' \in OnStream => frame' = frame
  <2>1. CASE pc' = "writeready" /\ UNCHANGED frame
    BY <2>1, <1>2 DEF PcValues, PluginTurn
  <2>2. CASE Return(FALSE)
    BY <2>2, <1>1, ReturnLemma
  <2> QED BY <1>3, <2>1, <2>2
<1>5. m_offset' \in [Streams -> Nat] /\ created' \in [Streams -> BOOLEAN]
  BY <1>2 DEF NewStream, IndInv, TypeOK
<1>6. TypeOK' /\ Bounds'
  BY <1>1, <1>4, <1>5 DEF IndInv, TypeOK, Bounds, sockVars, protoVars, netVars
<1>7. Ownership' /\ SocketTable' /\ FrameOK'
  BY <1>1, <1>2, <1>4, HandlerLemma DEF Links, sockVars, protoVars
<1> QED BY <1>6, <1>7 DEF IndInv

LEMMA WriteStep ==
  ASSUME IndInv, NEW ok \in BOOLEAN, Write(ok)
  PROVE  IndInv'
<1>1. pc \in OnStream /\ UNCHANGED <<sockVars, protoVars, m_protop, created, netVars>>
  BY DEF Write, OnStream
<1>2. /\ pc # "idle" /\ stream_list[frame.fd] = frame.p /\ frame.s \in Streams
      /\ m_protop[frame.s] = frame.p /\ frame \in Frames
  BY <1>1, InOnRead
<1>3. \/ /\ pc' = "writeready" /\ frame' = [frame EXCEPT !.pos = 0, !.len = 0]
         /\ m_offset' = [m_offset EXCEPT ![frame.s] = @ + frame.len]
      \/ Return(FALSE) /\ UNCHANGED m_offset
  BY DEF Write
<1>4. /\ (pc \in PcValues)' /\ (frame \in Frames)'
      /\ pc' # "read"
      /\ pc' # "idle" => frame'.fd = frame.fd /\ frame'.p = frame.p
      /\ pc' \in OnStream => frame'.s = frame.s
  <2>1. CASE pc' = "writeready" /\ frame' = [frame EXCEPT !.pos = 0, !.len = 0]
    BY <2>1, <1>2 DEF PcValues, PluginTurn, Frames
  <2>2. CASE Return(FALSE)
    BY <2>2, <1>1, ReturnLemma
  <2> QED BY <1>3, <2>1, <2>2
<1>5. m_offset' \in [Streams -> Nat]
  <2>1. frame.len \in Nat /\ m_offset \in [Streams -> Nat]
    BY <1>2 DEF Frames, IndInv, TypeOK
  <2>2. m_offset[frame.s] + frame.len \in Nat
    BY <1>2, <2>1
  <2> QED BY <1>2, <1>3, <2>1, <2>2
<1>6. TypeOK' /\ Bounds'
  BY <1>1, <1>4, <1>5 DEF IndInv, TypeOK, Bounds, sockVars, protoVars, netVars
<1>7. Ownership' /\ SocketTable' /\ FrameOK'
  BY <1>1, <1>2, <1>4, HandlerLemma DEF Links, sockVars, protoVars
<1> QED BY <1>6, <1>7 DEF IndInv

LEMMA DestroyStreamStep ==
  ASSUME IndInv, DestroyStream
  PROVE  IndInv'
<1>1. /\ pc \in OnStream /\ pc' = "urlnotify"
      /\ UNCHANGED <<sockVars, protoVars, streamVars, frame, netVars>>
  BY DEF DestroyStream, OnStream
<1>2. /\ pc # "idle" /\ stream_list[frame.fd] = frame.p /\ frame.s \in Streams
      /\ m_protop[frame.s] = frame.p
  BY <1>1, InOnRead
<1>3. TypeOK' /\ Bounds'
  BY <1>1 DEF IndInv, TypeOK, Bounds, PcValues, PluginTurn,
              sockVars, protoVars, streamVars, netVars
<1>4. Ownership' /\ SocketTable' /\ FrameOK'
  BY <1>1, <1>2, HandlerLemma DEF Links, sockVars, protoVars, streamVars
<1> QED BY <1>3, <1>4 DEF IndInv

LEMMA WriteReadyStep ==
  ASSUME IndInv, NEW c \in 0..MaxReady, WriteReady(c)
  PROVE  IndInv'
<1> DEFINE p == frame.p
<1>1. /\ pc \in OnStream
      /\ UNCHANGED <<m_files, connected, interest, stream_list, m_ref, m_flags, m_waitp,
                     m_header, streamVars, conn, rx, resp>>
  BY DEF WriteReady, OnStream
<1>2. /\ pc # "idle" /\ stream_list[frame.fd] = p /\ frame.s \in Streams
      /\ m_protop[frame.s] = p /\ frame \in Frames /\ p \in Protos
  BY <1>1, InOnRead
<1>3. /\ m_chunk \in [Protos -> [off : Nat, len : Nat]] /\ rd \in [Protos -> Nat]
      /\ rx \in [Protos -> Nat] /\ last_error \in [Protos -> Errno]
      /\ \A q \in Protos : m_chunk[q].off <= m_chunk[q].len /\ rd[q] <= rx[q]
      /\ \A q \in Protos : "CREATED" \notin m_flags[q] => m_chunk[q].len = ChunkLen
      /\ c \in Nat
  BY SizeAssumption DEF IndInv, TypeOK, Bounds
<1> DEFINE fromChunk == MinOf(c, m_chunk[p].len - m_chunk[p].off)
           fromSocket == MinOf(c, rx[p] - rd[p])
           Deliver(pos, n) == pc' = "write" /\ frame' = [frame EXCEPT !.pos = pos, !.len = n]
<1>4. \/ EndHalf /\ UNCHANGED <<m_chunk, rd, last_error>>
      \/ /\ \E keep \in BOOLEAN : Return(keep)
         /\ UNCHANGED <<m_chunk, rd>>
         /\ \/ UNCHANGED last_error
            \/ last_error' = [last_error EXCEPT ![p] = RecvErrno(p)]
      \/ /\ Deliver(m_chunk[p].off, fromChunk)
         /\ fromChunk > 0
         /\ m_chunk' = [m_chunk EXCEPT ![p].off = @ + fromChunk]
         /\ UNCHANGED <<rd, last_error>>
      \/ /\ Deliver(rd[p], fromSocket)
         /\ fromSocket > 0
         /\ rd' = [rd EXCEPT ![p] = @ + fromSocket]
         /\ last_error' = [last_error EXCEPT ![p] = "none"]
         /\ UNCHANGED m_chunk
  BY <1>2 DEF WriteReady, RecvData, Block
<1>5. /\ fromChunk \in Int /\ m_chunk[p].off \in Nat /\ m_chunk[p].len \in Nat
      /\ fromChunk <= m_chunk[p].len - m_chunk[p].off
      /\ fromSocket \in Int /\ rd[p] \in Nat /\ rx[p] \in Nat
      /\ fromSocket <= rx[p] - rd[p]
  BY <1>2, <1>3 DEF MinOf
<1> HIDE DEF p, fromChunk, fromSocket
<1>6. /\ (pc \in PcValues)' /\ (frame \in Frames)'
      /\ pc' # "read"
      /\ pc' # "idle" => frame'.fd = frame.fd /\ frame'.p = frame.p
      /\ pc' \in OnStream => frame'.s = frame.s
  <2>1. CASE EndHalf
    BY <2>1, <1>2, EndHalfLemma
  <2>2. CASE \E keep \in BOOLEAN : Return(keep)
    BY <2>2, <1>1, ReturnLemma
  <2>3. ASSUME NEW pos \in Nat, NEW n \in Nat, Deliver(pos, n)
        PROVE  /\ (pc \in PcValues)' /\ (frame \in Frames)'
               /\ pc' # "read"
               /\ pc' # "idle" => frame'.fd = frame.fd /\ frame'.p = frame.p
               /\ pc' \in OnStream => frame'.s = frame.s
    BY <2>3, <1>2 DEF PcValues, PluginTurn, Frames
  <2> HIDE DEF Deliver
  <2>4. CASE Deliver(m_chunk[p].off, fromChunk) /\ fromChunk > 0
    BY <2>3, <2>4, <1>5
  <2>5. CASE Deliver(rd[p], fromSocket) /\ fromSocket > 0
    BY <2>3, <2>5, <1>5
  <2> QED BY <1>4, <2>1, <2>2, <2>4, <2>5
<1> HIDE DEF Deliver
<1>7. last_error' \in [Protos -> Errno]
  <2>1. RecvErrno(p) \in Errno /\ "none" \in Errno
    BY DEF RecvErrno, Errno
  <2> QED BY <1>3, <1>4, <2>1
<1>8. rd' \in [Protos -> Nat] /\ \A q \in Protos : rd'[q] <= rx[q]
  <2>1. CASE UNCHANGED rd
    BY <2>1, <1>3
  <2>2. CASE fromSocket > 0 /\ rd' = [rd EXCEPT ![p] = @ + fromSocket]
    <3>1. rd[p] + fromSocket \in Nat /\ rd[p] + fromSocket <= rx[p]
      BY <2>2, <1>5
    <3> QED BY <3>1, <2>2, <1>2, <1>3
  <2> QED BY <1>4, <2>1, <2>2
<1>9. /\ m_chunk' \in [Protos -> [off : Nat, len : Nat]]
      /\ \A q \in Protos : m_chunk'[q].off <= m_chunk'[q].len /\ m_chunk'[q].len = m_chunk[q].len
  <2>1. CASE UNCHANGED m_chunk
    BY <2>1, <1>3
  <2>2. CASE fromChunk > 0 /\ m_chunk' = [m_chunk EXCEPT ![p].off = @ + fromChunk]
    <3>1. m_chunk[p].off + fromChunk \in Nat /\ m_chunk[p].off + fromChunk <= m_chunk[p].len
      BY <2>2, <1>5
    <3> QED BY <3>1, <2>2, <1>2, <1>3
  <2> QED BY <1>4, <2>1, <2>2
<1>10. TypeOK'
  BY <1>1, <1>6, <1>7, <1>8, <1>9 DEF IndInv, TypeOK, streamVars
<1>11. Bounds'
  BY <1>1, <1>3, <1>8, <1>9 DEF Bounds
<1>12. Ownership' /\ SocketTable' /\ FrameOK'
  BY <1>1, <1>2, <1>6, HandlerLemma DEF Links, streamVars, p
<1> QED BY <1>10, <1>11, <1>12 DEF IndInv

\* What Turnover makes of each field of a proto_stream.
LEMMA TurnoverFields ==
  ASSUME IndInv, NEW new \in Protos \cup {Null}, NEW f \in Fds \cup {Null}, NEW ref \in Nat,
         NEW old \in Protos \cup {Null}, new # Null => f \in Fds,
         old # Null => Live(old),
         Turnover(new, f, ref, old)
  PROVE  /\ m_files' \in [Protos -> Fds \cup {Null}]
         /\ connected' \in [Protos -> BOOLEAN]
         /\ interest' \in [Protos -> SUBSET {"READ", "WRITE"}]
         /\ last_error' \in [Protos -> Errno]
         /\ stream_list' \in [Fds -> Protos \cup {Null}]
         /\ m_ref' \in [Protos -> Nat]
         /\ m_flags' \in [Protos -> SUBSET Broken]
         /\ m_header' \in [Protos -> 0..ReqLen]
         /\ m_chunk' \in [Protos -> [off : Nat, len : Nat]]
         /\ conn' \in [Protos -> {"none", "connecting", "open", "eof", "rst"}]
         /\ rx' \in [Protos -> Nat]
         /\ rd' \in [Protos -> Nat]
         /\ resp' \in [Protos -> Responses \cup {Null}]
         /\ Bounds'
<1> USE SizeAssumption, NullAssumption
<1>1. /\ m_files' \in [Protos -> Fds \cup {Null}]
      /\ connected' \in [Protos -> BOOLEAN]
      /\ interest' \in [Protos -> SUBSET {"READ", "WRITE"}]
  <2>1. /\ m_files \in [Protos -> Fds \cup {Null}]
        /\ connected \in [Protos -> BOOLEAN]
        /\ interest \in [Protos -> SUBSET {"READ", "WRITE"}]
    BY DEF IndInv, TypeOK
  <2>2. new \in Protos => f \in Fds
    OBVIOUS
  <2> QED BY <2>1, <2>2 DEF Turnover
<1>2. /\ last_error' \in [Protos -> Errno]
      /\ m_flags' \in [Protos -> SUBSET Broken]
      /\ m_header' \in [Protos -> 0..ReqLen]
  BY DEF Turnover, IndInv, TypeOK, Errno
<1>3. stream_list' \in [Fds -> Protos \cup {Null}]
  BY DEF Turnover, Registered, IndInv, TypeOK
<1>4. m_ref' \in [Protos -> Nat]
  BY DEF Turnover, IndInv, TypeOK, Live
<1>5. /\ conn' \in [Protos -> {"none", "connecting", "open", "eof", "rst"}]
      /\ resp' \in [Protos -> Responses \cup {Null}]
  BY DEF Turnover, IndInv, TypeOK
<1>6. /\ m_chunk' \in [Protos -> [off : Nat, len : Nat]]
      /\ rx' \in [Protos -> Nat]
      /\ rd' \in [Protos -> Nat]
      /\ Bounds'
  <2>1. ASSUME NEW p \in Protos
        PROVE  \/ /\ m_chunk'[p] = NoChunk /\ rx'[p] = 0 /\ rd'[p] = 0 /\ m_flags'[p] = {}
               \/ /\ m_chunk'[p] = m_chunk[p] /\ rx'[p] = rx[p] /\ rd'[p] = rd[p]
                  /\ m_flags'[p] = m_flags[p]
    BY DEF Turnover
  <2>2. ASSUME NEW p \in Protos
        PROVE  /\ m_chunk'[p] \in [off : Nat, len : Nat]
               /\ rx'[p] \in Nat /\ rd'[p] \in Nat
               /\ rd'[p] <= rx'[p] /\ m_chunk'[p].off <= m_chunk'[p].len
               /\ "CREATED" \notin m_flags'[p] => m_chunk'[p].len = ChunkLen
    <3>1. /\ m_chunk[p] \in [off : Nat, len : Nat] /\ rx[p] \in Nat /\ rd[p] \in Nat
          /\ rd[p] <= rx[p] /\ m_chunk[p].off <= m_chunk[p].len
          /\ "CREATED" \notin m_flags[p] => m_chunk[p].len = ChunkLen
      BY DEF IndInv, TypeOK, Bounds
    <3>2. /\ NoChunk \in [off : Nat, len : Nat] /\ NoChunk.off <= NoChunk.len
          /\ NoChunk.len = ChunkLen
      BY DEF NoChunk
    <3> QED BY <2>1, <3>1, <3>2
  <2>3. /\ m_chunk' = [p \in Protos |-> m_chunk'[p]]
        /\ rx' = [p \in Protos |-> rx'[p]]
        /\ rd' = [p \in Protos |-> rd'[p]]
    BY DEF Turnover
  <2>4. Bounds'
    BY <2>2 DEF Bounds
  <2> QED BY <2>2, <2>3, <2>4
<1> QED BY <1>1, <1>2, <1>3, <1>4, <1>5, <1>6

LEMMA GetURLStep ==
  ASSUME IndInv, NEW s \in Streams, NEW p \in Protos, NEW f \in Fds, GetURL(s, p, f)
  PROVE  IndInv'
<1> USE NullAssumption
<1>1. /\ pc \in PluginTurn /\ m_protop[s] = Null /\ ~Live(p) /\ f \notin OpenFds
      /\ Turnover(p, f, 1, Null)
      /\ m_waitp' = [m_waitp EXCEPT ![p] = s]
      /\ m_protop' = [m_protop EXCEPT ![s] = p]
      /\ created' = [created EXCEPT ![s] = FALSE]
      /\ m_offset' = [m_offset EXCEPT ![s] = 0]
      /\ UNCHANGED <<pc, frame>>
  BY DEF GetURL, GetURLRef
<1>2. /\ m_ref' = [q \in Protos |-> IF q = p THEN 1 ELSE m_ref[q]]
      /\ m_files' = [q \in Protos |-> IF q = p THEN f ELSE m_files[q]]
      /\ stream_list' = [g \in Fds |-> IF g = f THEN p ELSE stream_list[g]]
  BY <1>1 DEF Turnover, Registered, Rel
<1>3. TypeOK' /\ Bounds'
  <2>1. /\ m_waitp' \in [Protos -> Streams \cup {Null}]
        /\ m_protop' \in [Streams -> Protos \cup {Null}]
        /\ created' \in [Streams -> BOOLEAN]
        /\ m_offset' \in [Streams -> Nat]
        /\ (pc \in PcValues)' /\ (frame \in Frames)'
    BY <1>1 DEF IndInv, TypeOK
  <2> QED BY <1>1, <2>1, TurnoverFields DEF TypeOK
<1>4. stream_list[f] = Null
  <2>1. ASSUME stream_list[f] # Null PROVE FALSE
    <3>1. stream_list[f] \in Protos /\ Live(stream_list[f]) /\ m_files[stream_list[f]] = f
      BY <2>1 DEF IndInv, SocketTable
    <3> QED BY <3>1, <1>1 DEF OpenFds
  <2> QED BY <2>1
<1>5. SocketTable'
  <2>1. ASSUME NEW q \in Protos, Live(q)'
        PROVE  m_files'[q] \in Fds /\ stream_list'[m_files'[q]] = q
    BY <2>1, <1>1, <1>2, <1>4 DEF IndInv, SocketTable, Live
  <2>2. ASSUME NEW g \in Fds, stream_list'[g] # Null
        PROVE  (/\ stream_list[g] \in Protos
                /\ Live(stream_list[g])
                /\ m_files[stream_list[g]] = g)'
    BY <2>2, <1>1, <1>2, <1>4 DEF IndInv, SocketTable, Live
  <2> QED BY <2>1, <2>2 DEF SocketTable
<1>6. m_protop \in [Streams -> Protos \cup {Null}] /\ m_waitp \in [Protos -> Streams \cup {Null}]
  BY DEF IndInv, TypeOK
<1>7. Ownership'
  <2>1. ASSUME NEW q \in Protos, Live(q)'
        PROVE  m_ref'[q] = 1 /\ m_waitp'[q] \in Streams /\ m_protop'[m_waitp'[q]] = q
    BY <2>1, <1>1, <1>2, <1>6 DEF IndInv, Ownership, Live
  <2>2. ASSUME NEW r \in Streams, m_protop'[r] # Null
        PROVE  (m_protop[r] \in Protos /\ Live(m_protop[r]) /\ m_waitp[m_protop[r]] = r)'
    BY <2>2, <1>1, <1>2, <1>6 DEF IndInv, Ownership, Live
  <2>3. (pc \in OnStream => frame.s \in Streams /\ m_protop[frame.s] # Null)'
    BY <1>1, <1>6 DEF IndInv, Ownership
  <2> QED BY <2>1, <2>2, <2>3 DEF Ownership
<1>8. FrameOK'
  <2>1. pc # "read" /\ pc # "send"
    BY <1>1 DEF PluginTurn
  <2>2. pc \in OnStream => /\ frame.s \in Streams /\ m_protop[frame.s] = frame.p
                           /\ frame.p \in Protos /\ stream_list[frame.fd] = frame.p
                           /\ frame.fd \in Fds
    BY InOnRead
  <2>3. pc \in OnStream => m_protop'[frame.s] = frame.p /\ stream_list'[frame.fd] = frame.p
    BY <2>2, <1>1, <1>2, <1>4, <1>6
  <2> QED BY <2>1, <2>2, <2>3, <1>1 DEF IndInv, FrameOK
<1> QED BY <1>3, <1>5, <1>7, <1>8 DEF IndInv

LEMMA RedirectStep ==
  ASSUME IndInv, NEW q \in Protos, NEW f \in Fds, Redirect(q, f)
  PROVE  IndInv'
<1> USE NullAssumption
<1> DEFINE s == frame.s
           p == frame.p
<1>1. pc \in OnStream
  BY DEF Redirect, OnStream
<1>2. /\ pc # "idle" /\ s \in Streams /\ m_protop[s] = p /\ p \in Protos /\ frame.fd \in Fds
      /\ stream_list[frame.fd] = p /\ m_files[p] = frame.fd /\ Live(p)
  BY <1>1, InOnRead
<1>3. /\ ~Live(q) /\ f \notin OpenFds
      /\ Turnover(q, f, 1, p)
      /\ m_waitp' = [m_waitp EXCEPT ![p] = Null, ![q] = s]
      /\ m_protop' = [m_protop EXCEPT ![s] = q]
      /\ EndHalf
      /\ UNCHANGED <<created, m_offset>>
  BY <1>2 DEF Redirect, RedirectFds
<1> HIDE DEF s, p
<1>4. q # p /\ m_ref[p] = 1 /\ Rel(p) = {p} /\ f # frame.fd
  <2>1. m_ref[p] = 1
    BY <1>2 DEF IndInv, Ownership
  <2>2. frame.fd \in OpenFds
    BY <1>2 DEF OpenFds
  <2> QED BY <2>1, <2>2, <1>2, <1>3 DEF Rel
<1>5. /\ m_ref' = [r \in Protos |-> IF r = q THEN 1 ELSE IF r = p THEN m_ref[r] - 1 ELSE m_ref[r]]
      /\ m_files' = [r \in Protos |-> IF r = q THEN f ELSE IF r = p THEN Null ELSE m_files[r]]
      /\ stream_list' = [g \in Fds |-> IF g = f THEN q
                                       ELSE IF g = frame.fd THEN Null ELSE stream_list[g]]
  BY <1>2, <1>3, <1>4 DEF Turnover, Registered
<1>6. /\ (pc \in PcValues)' /\ (frame \in Frames)'
      /\ pc' \notin OnStream /\ pc' # "read"
      /\ pc' # "idle" => frame'.fd = frame.fd /\ frame'.p = frame.p
  BY <1>2, <1>3, EndHalfLemma
<1>7. /\ m_protop \in [Streams -> Protos \cup {Null}]
      /\ m_waitp \in [Protos -> Streams \cup {Null}]
      /\ m_ref \in [Protos -> Nat]
  BY DEF IndInv, TypeOK
<1>8. TypeOK' /\ Bounds'
  <2>1. /\ m_waitp' \in [Protos -> Streams \cup {Null}]
        /\ m_protop' \in [Streams -> Protos \cup {Null}]
        /\ created' \in [Streams -> BOOLEAN]
        /\ m_offset' \in [Streams -> Nat]
    BY <1>2, <1>3, <1>7 DEF IndInv, TypeOK
  <2> QED BY <1>2, <1>3, <1>6, <2>1, TurnoverFields DEF TypeOK
<1>9. \A r \in Protos : Live(r)' => r = q \/ (r # p /\ Live(r))
  BY <1>4, <1>5, <1>7 DEF Live
<1>10. SocketTable'
  <2>1. \A r \in Protos : Live(r) /\ r # p => m_files[r] # f /\ m_files[r] # frame.fd
    BY <1>2, <1>3 DEF IndInv, SocketTable, OpenFds
  <2>2. ASSUME NEW r \in Protos, Live(r)'
        PROVE  (m_files[r] \in Fds /\ stream_list[m_files[r]] = r)'
    BY <2>1, <2>2, <1>4, <1>5, <1>9 DEF IndInv, SocketTable
  <2>3. ASSUME NEW g \in Fds, stream_list'[g] # Null
        PROVE  (/\ stream_list[g] \in Protos
                /\ Live(stream_list[g])
                /\ m_files[stream_list[g]] = g)'
    <3>1. CASE g = f
      BY <3>1, <1>5 DEF Live
    <3>2. CASE g # f
      <4>1. g # frame.fd /\ stream_list'[g] = stream_list[g]
        BY <2>3, <3>2, <1>5
      <4>2. /\ stream_list[g] \in Protos /\ Live(stream_list[g])
            /\ m_files[stream_list[g]] = g
        BY <2>3, <4>1 DEF IndInv, SocketTable
      <4>3. stream_list[g] # p /\ stream_list[g] # q
        BY <4>1, <4>2, <1>2, <1>3
      <4> QED BY <4>1, <4>2, <4>3, <1>5 DEF Live
    <3> QED BY <3>1, <3>2
  <2> QED BY <2>2, <2>3 DEF SocketTable
<1>11. Ownership'
  <2>1. \A r \in Protos : Live(r) /\ r # p => m_waitp[r] # s
    BY <1>2 DEF IndInv, Ownership
  <2>2. ASSUME NEW r \in Protos, Live(r)'
        PROVE  (m_ref[r] = 1 /\ m_waitp[r] \in Streams /\ m_protop[m_waitp[r]] = r)'
    <3>1. CASE r = q
      BY <3>1, <1>2, <1>3, <1>5, <1>7
    <3>2. CASE r # q
      <4>1. r # p /\ Live(r)
        BY <3>2, <2>2, <1>9
      <4>2. m_ref[r] = 1 /\ m_waitp[r] \in Streams /\ m_protop[m_waitp[r]] = r /\ m_waitp[r] # s
        BY <4>1, <2>1 DEF IndInv, Ownership
      <4> QED BY <4>1, <4>2, <3>2, <1>3, <1>5, <1>7
    <3> QED BY <3>1, <3>2
  <2>3. ASSUME NEW r \in Streams, m_protop'[r] # Null
        PROVE  (m_protop[r] \in Protos /\ Live(m_protop[r]) /\ m_waitp[m_protop[r]] = r)'
    <3>1. CASE r = s
      BY <3>1, <1>2, <1>3, <1>5, <1>7 DEF Live
    <3>2. CASE r # s
      <4>1. m_protop'[r] = m_protop[r]
        BY <3>2, <1>3, <1>7
      <4>2. m_protop[r] \in Protos /\ Live(m_protop[r]) /\ m_waitp[m_protop[r]] = r
        BY <4>1, <2>3 DEF IndInv, Ownership
      <4>3. m_protop[r] # p /\ m_protop[r] # q
        BY <4>2, <3>2, <1>2, <1>3 DEF IndInv, Ownership
      <4> QED BY <4>1, <4>2, <4>3, <1>3, <1>5, <1>7 DEF Live
    <3> QED BY <3>1, <3>2
  <2> QED BY <2>2, <2>3, <1>6 DEF Ownership
<1>12. FrameOK'
  <2>1. stream_list'[frame.fd] = Null
    BY <1>2, <1>4, <1>5
  <2> QED BY <2>1, <1>2, <1>6 DEF FrameOK, p
<1> QED BY <1>8, <1>10, <1>11, <1>12 DEF IndInv

LEMMA URLNotifyStep ==
  ASSUME IndInv, URLNotify
  PROVE  IndInv'
<1> USE NullAssumption
<1> DEFINE s == frame.s
           p == frame.p
<1>1. pc \in OnStream
  BY DEF URLNotify, OnStream
<1>2. /\ pc # "idle" /\ s \in Streams /\ m_protop[s] = p /\ p \in Protos /\ frame.fd \in Fds
      /\ stream_list[frame.fd] = p /\ m_files[p] = frame.fd /\ Live(p)
  BY <1>1, InOnRead
<1>3. /\ Turnover(Null, Null, 0, p)
      /\ m_waitp' = [r \in Protos |-> IF r \in Rel(p) THEN Null ELSE m_waitp[r]]
      /\ m_protop' = [m_protop EXCEPT ![s] = Null]
      /\ created' = [created EXCEPT ![s] = FALSE]
      /\ m_offset' = [m_offset EXCEPT ![s] = 0]
      /\ EndHalf
  BY <1>2 DEF URLNotify
<1> HIDE DEF s, p
<1>4. m_ref[p] = 1 /\ Rel(p) = {p}
  BY <1>2 DEF Rel, IndInv, Ownership
<1>5. /\ m_ref' = [r \in Protos |-> IF r = p THEN m_ref[r] - 1 ELSE m_ref[r]]
      /\ m_files' = [r \in Protos |-> IF r = p THEN Null ELSE m_files[r]]
      /\ stream_list' = [g \in Fds |-> IF g = frame.fd THEN Null ELSE stream_list[g]]
  BY <1>2, <1>3, <1>4 DEF Turnover, Registered
<1>6. /\ (pc \in PcValues)' /\ (frame \in Frames)'
      /\ pc' \notin OnStream /\ pc' # "read"
      /\ pc' # "idle" => frame'.fd = frame.fd /\ frame'.p = frame.p
  BY <1>2, <1>3, EndHalfLemma
<1>7. /\ m_protop \in [Streams -> Protos \cup {Null}]
      /\ m_waitp \in [Protos -> Streams \cup {Null}]
      /\ m_ref \in [Protos -> Nat]
  BY DEF IndInv, TypeOK
<1>8. TypeOK' /\ Bounds'
  <2>1. /\ m_waitp' \in [Protos -> Streams \cup {Null}]
        /\ m_protop' \in [Streams -> Protos \cup {Null}]
        /\ created' \in [Streams -> BOOLEAN]
        /\ m_offset' \in [Streams -> Nat]
    BY <1>2, <1>3, <1>7 DEF IndInv, TypeOK
  <2> QED BY <1>2, <1>3, <1>6, <2>1, TurnoverFields DEF TypeOK
<1>9. \A r \in Protos : Live(r)' => r # p /\ Live(r)
  BY <1>4, <1>5, <1>7 DEF Live
<1>10. SocketTable'
  <2>1. \A r \in Protos : Live(r) /\ r # p => m_files[r] # frame.fd
    BY <1>2 DEF IndInv, SocketTable
  <2>2. ASSUME NEW r \in Protos, Live(r)'
        PROVE  (m_files[r] \in Fds /\ stream_list[m_files[r]] = r)'
    BY <2>1, <2>2, <1>4, <1>5, <1>9 DEF IndInv, SocketTable
  <2>3. ASSUME NEW g \in Fds, stream_list'[g] # Null
        PROVE  (/\ stream_list[g] \in Protos
                /\ Live(stream_list[g])
                /\ m_files[stream_list[g]] = g)'
    <3>1. g # frame.fd /\ stream_list'[g] = stream_list[g]
      BY <2>3, <1>5
    <3>2. /\ stream_list[g] \in Protos /\ Live(stream_list[g])
          /\ m_files[stream_list[g]] = g
      BY <2>3, <3>1 DEF IndInv, SocketTable
    <3>3. stream_list[g] # p
      BY <3>1, <3>2, <1>2
    <3> QED BY <3>1, <3>2, <3>3, <1>5 DEF Live
  <2> QED BY <2>2, <2>3 DEF SocketTable
<1>11. Ownership'
  <2>1. \A r \in Protos : Live(r) /\ r # p => m_waitp[r] # s
    BY <1>2 DEF IndInv, Ownership
  <2>2. ASSUME NEW r \in Protos, Live(r)'
        PROVE  (m_ref[r] = 1 /\ m_waitp[r] \in Streams /\ m_protop[m_waitp[r]] = r)'
    <3>1. r # p /\ Live(r)
      BY <2>2, <1>9
    <3>2. m_ref[r] = 1 /\ m_waitp[r] \in Streams /\ m_protop[m_waitp[r]] = r /\ m_waitp[r] # s
      BY <3>1, <2>1 DEF IndInv, Ownership
    <3> QED BY <3>1, <3>2, <1>3, <1>4, <1>5, <1>7
  <2>3. ASSUME NEW r \in Streams, m_protop'[r] # Null
        PROVE  (m_protop[r] \in Protos /\ Live(m_protop[r]) /\ m_waitp[m_protop[r]] = r)'
    <3>1. r # s /\ m_protop'[r] = m_protop[r]
      BY <2>3, <1>2, <1>3, <1>7
    <3>2. m_protop[r] \in Protos /\ Live(m_protop[r]) /\ m_waitp[m_protop[r]] = r
      BY <3>1, <2>3 DEF IndInv, Ownership
    <3>3. m_protop[r] # p
      BY <3>1, <3>2, <1>2 DEF IndInv, Ownership
    <3> QED BY <3>1, <3>2, <3>3, <1>3, <1>4, <1>5, <1>7 DEF Live
  <2> QED BY <2>2, <2>3, <1>6 DEF Ownership
<1>12. FrameOK'
  <2>1. stream_list'[frame.fd] = Null
    BY <1>2, <1>5
  <2> QED BY <2>1, <1>2, <1>6 DEF FrameOK, p
<1> QED BY <1>8, <1>10, <1>11, <1>12 DEF IndInv

LEMMA StutterStep ==
  ASSUME IndInv, UNCHANGED vars
  PROVE  IndInv'
BY DEF vars, sockVars, protoVars, streamVars, netVars, IndInv, TypeOK, Ownership, SocketTable,
       Bounds, FrameOK, Live

\* Every step preserves the inductive invariant.
LEMMA NextIndInv == IndInv /\ [Next]_vars => IndInv'
<1> SUFFICES ASSUME IndInv, [Next]_vars PROVE IndInv'
  OBVIOUS
<1>1. CASE Requests
  BY <1>1, GetURLStep DEF Requests
<1>2. CASE Dispatch
  BY <1>2, NotifyStep DEF Dispatch
<1>3. CASE Handler
  <2>1. CASE ReadHalf \/ WriteHalf
    BY <2>1, ReadHalfStep, WriteHalfStep
  <2>2. CASE \E q \in Protos, f \in Fds : Redirect(q, f)
    BY <2>2, RedirectStep
  <2>3. CASE RedirectFails \/ Proceed \/ \E ok \in BOOLEAN : NewStream(ok)
    BY <2>3, RedirectFailsStep, ProceedStep, NewStreamStep
  <2>4. CASE \E c \in 0..MaxReady : WriteReady(c)
    BY <2>4, WriteReadyStep
  <2>5. CASE (\E ok \in BOOLEAN : Write(ok)) \/ DestroyStream \/ URLNotify
    BY <2>5, WriteStep, DestroyStreamStep, URLNotifyStep
  <2> QED BY <1>3, <2>1, <2>2, <2>3, <2>4, <2>5 DEF Handler
<1>4. CASE Network
  BY <1>4, NetworkStep
<1>5. CASE UNCHANGED vars
  BY <1>5, StutterStep
<1> QED BY <1>1, <1>2, <1>3, <1>4, <1>5 DEF Next

\* The inductive invariant holds throughout.
THEOREM SpecIndInv == Spec => []IndInv
BY InitIndInv, NextIndInv, PTL DEF Spec

\* The state stays within its types.
THEOREM SpecTypeOK == Spec => []TypeOK
<1>1. IndInv => TypeOK
  BY DEF IndInv
<1> QED BY <1>1, SpecIndInv, PTL

\* No event ever reaches a deleted proto_stream or NPNetStream, and none of them leaks
\* (NOTIFY, proto_stream::rel, the NPNetStream destructor).
THEOREM SpecOwnership == Spec => []Ownership
<1>1. IndInv => Ownership
  BY DEF IndInv
<1> QED BY <1>1, SpecIndInv, PTL

\* __stream_list is exact: every open socket is found under its descriptor, and nothing else.
THEOREM SpecSocketTable == Spec => []SocketTable
<1>1. IndInv => SocketTable
  BY DEF IndInv
<1> QED BY <1>1, SpecIndInv, PTL

\* The write half of plugin_NetworkNotify never runs on a socket other than the one the event
\* was for, though the read half may have closed it and opened others.
THEOREM SpecWriteHalfSameSocket == Spec => []WriteHalfSameSocket
<1>1. IndInv => WriteHalfSameSocket
  BY DEF IndInv, FrameOK, WriteHalfSameSocket
<1> QED BY <1>1, SpecIndInv, PTL

\* Streams, proto_streams and descriptors are allocated, open and known to each other, or not, as one.
THEOREM SpecStreamsSound == Spec => []StreamsSound
BY SpecTypeOK, SpecOwnership, SpecSocketTable, PTL DEF StreamsSound

-----------------------------------------------------------------------------
(***************************************************************************)
(* NetStream implements NPStreamAPI: whatever the network does, the plugin *)
(* sees newstream, write, destroystream and urlnotify in the promised      *)
(* order.  CallOrder is inductive relative to IndInv.                      *)
(***************************************************************************)

Inv == IndInv /\ CallOrder

\* Where OnRead returns to.
LEMMA ReturnOrder ==
  ASSUME Inv, pc \in OnStream, NEW keep \in BOOLEAN, Return(keep)
  PROVE  /\ pc' \in {"idle", "send", "destroystream", "urlnotify"}
         /\ pc' \in {"destroystream", "urlnotify"} => frame' = frame
         /\ pc' = "destroystream" => created[frame.s]
         /\ pc' = "urlnotify" => ~created[frame.s]
BY DEF Return, EndHalf, Teardown

\* The half that ends leaves the stream.
LEMMA EndHalfOrder ==
  ASSUME EndHalf
  PROVE  pc' \in {"idle", "send"}
BY DEF EndHalf

\* CallOrder holds of the initial state.
LEMMA InitCallOrder == Init => CallOrder
BY DEF Init, CallOrder

\* CallOrder is preserved.
LEMMA NextCallOrder == Inv /\ [Next]_vars => CallOrder'
<1> SUFFICES ASSUME Inv, [Next]_vars PROVE CallOrder'
  OBVIOUS
<1>1. /\ created \in [Streams -> BOOLEAN] /\ m_offset \in [Streams -> Nat]
      /\ frame \in Frames /\ CallOrder /\ IndInv
  BY DEF Inv, IndInv, TypeOK
<1>2. CASE UNCHANGED <<pc, frame, created, m_offset>>
  BY <1>1, <1>2 DEF CallOrder
<1>3. CASE UNCHANGED <<created, m_offset>> /\ pc' \in {"idle", "read", "send", "onread", "urlnotify"}
  BY <1>1, <1>3 DEF CallOrder
<1>4. CASE Requests
  <2>1. PICK s \in Streams, p \in Protos, f \in Fds : GetURL(s, p, f)
    BY <1>4 DEF Requests
  <2>2. /\ m_protop[s] = Null /\ UNCHANGED <<pc, frame>>
        /\ created' = [created EXCEPT ![s] = FALSE]
        /\ m_offset' = [m_offset EXCEPT ![s] = 0]
    BY <2>1 DEF GetURL
  <2>3. pc \in OnStream => frame.s # s
    BY <1>1, <2>2 DEF IndInv, Ownership
  <2> QED BY <1>1, <2>2, <2>3 DEF CallOrder, OnStream
<1>5. CASE Dispatch
  BY <1>5, <1>3 DEF Dispatch, Notify, streamVars
<1>6. CASE Network
  BY <1>6, <1>2 DEF Network, Accept, Answer, Arrive, Close, Reset, ServerStep, streamVars
<1>7. CASE UNCHANGED vars
  BY <1>7, <1>2 DEF vars, streamVars
<1>8. CASE Handler
  <2>1. CASE ReadHalf \/ WriteHalf
    <3>1. UNCHANGED <<created, m_offset>>
      BY <2>1 DEF ReadHalf, WriteHalf, streamVars
    <3>2. pc' \in {"idle", "send", "onread"}
      BY <2>1 DEF ReadHalf, WriteHalf, ReadResponse, SendRequest, Wake, EndHalf
    <3> QED BY <3>1, <3>2, <1>3
  <2>2. CASE \E q \in Protos, f \in Fds : Redirect(q, f)
    BY <2>2, <1>3, EndHalfOrder DEF Redirect
  <2>3. CASE RedirectFails
    BY <2>3, <1>3, EndHalfOrder DEF RedirectFails, streamVars
  <2>4. CASE Proceed
    <3>1. pc \in OnStream /\ UNCHANGED <<created, m_offset>>
      BY <2>4 DEF Proceed, OnStream, streamVars
    <3>2. \/ Fresh(frame.s) /\ pc' = "newstream" /\ UNCHANGED frame
          \/ created[frame.s] /\ pc' = "writeready" /\ UNCHANGED frame
          \/ \E keep \in BOOLEAN : Return(keep)
      BY <2>4 DEF Proceed, Block
    <3>3. CASE \E keep \in BOOLEAN : Return(keep)
      BY <3>1, <3>3, <1>1, ReturnOrder DEF CallOrder
    <3> QED BY <3>1, <3>2, <3>3, <1>1 DEF CallOrder, Fresh
  <2>5. ASSUME NEW ok \in BOOLEAN, NewStream(ok) PROVE CallOrder'
    <3>1. pc \in OnStream /\ frame.s \in Streams /\ ~created[frame.s]
      BY <2>5, <1>1, InOnRead DEF NewStream, OnStream, CallOrder
    <3>2. /\ m_offset' = [m_offset EXCEPT ![frame.s] = 0]
          /\ created' = [created EXCEPT ![frame.s] = ok]
          /\ \/ ok /\ pc' = "writeready" /\ UNCHANGED frame
             \/ ~ok /\ Return(FALSE)
      BY <2>5 DEF NewStream
    <3>3. CASE ok /\ pc' = "writeready" /\ UNCHANGED frame
      BY <3>1, <3>2, <3>3, <1>1 DEF CallOrder
    <3>4. CASE ~ok /\ Return(FALSE)
      <4>1. pc' = "urlnotify"
        BY <3>1, <3>4 DEF Return, Teardown
      <4> QED BY <4>1, <3>1, <3>2, <1>1 DEF CallOrder
    <3> QED BY <3>2, <3>3, <3>4
  <2>6. ASSUME NEW c \in 0..MaxReady, WriteReady(c) PROVE CallOrder'
    <3>1. /\ pc \in OnStream /\ UNCHANGED <<created, m_offset>>
          /\ pc = "writeready" /\ created[frame.s]
      BY <2>6, <1>1 DEF WriteReady, OnStream, streamVars, CallOrder
    <3>2. \/ EndHalf
          \/ \E keep \in BOOLEAN : Return(keep)
          \/ pc' = "write" /\ \E pos \in Nat, n \in Nat :
                                n > 0 /\ frame' = [frame EXCEPT !.pos = pos, !.len = n]
      <4> DEFINE p == m_protop[frame.s]
                 fromChunk == MinOf(c, m_chunk[p].len - m_chunk[p].off)
                 fromSocket == MinOf(c, rx[p] - rd[p])
      <4>1. p \in Protos
        BY <3>1, <1>1, InOnRead
      <4>2. /\ m_chunk[p].off \in Nat /\ rd[p] \in Nat
            /\ fromChunk \in Int /\ fromSocket \in Int
        BY <4>1, <1>1, SizeAssumption DEF IndInv, TypeOK, MinOf
      <4>3. \/ EndHalf
            \/ \E keep \in BOOLEAN : Return(keep)
            \/ /\ pc' = "write" /\ fromChunk > 0
               /\ frame' = [frame EXCEPT !.pos = m_chunk[p].off, !.len = fromChunk]
            \/ /\ pc' = "write" /\ fromSocket > 0
               /\ frame' = [frame EXCEPT !.pos = rd[p], !.len = fromSocket]
        BY <2>6 DEF WriteReady, RecvData, Block
      <4> HIDE DEF p, fromChunk, fromSocket
      <4>4. CASE /\ pc' = "write" /\ fromChunk > 0
                 /\ frame' = [frame EXCEPT !.pos = m_chunk[p].off, !.len = fromChunk]
        <5>1. fromChunk \in Nat
          BY <4>2, <4>4
        <5> QED BY <5>1, <4>2, <4>4
      <4>5. CASE /\ pc' = "write" /\ fromSocket > 0
                 /\ frame' = [frame EXCEPT !.pos = rd[p], !.len = fromSocket]
        <5>1. fromSocket \in Nat
          BY <4>2, <4>5
        <5> QED BY <5>1, <4>2, <4>5
      <4> QED BY <4>3, <4>4, <4>5
    <3>3. CASE \E keep \in BOOLEAN : Return(keep)
      BY <3>1, <3>3, <1>1, ReturnOrder DEF CallOrder
    <3>4. CASE EndHalf
      BY <3>1, <3>4, <1>3, EndHalfOrder
    <3>5. CASE pc' = "write" /\ \E pos \in Nat, n \in Nat :
                                  n > 0 /\ frame' = [frame EXCEPT !.pos = pos, !.len = n]
      <4>1. frame'.s = frame.s /\ frame'.len > 0
        BY <3>5, <1>1 DEF Frames
      <4> QED BY <4>1, <3>1, <3>5, <1>1 DEF CallOrder
    <3> QED BY <3>2, <3>3, <3>4, <3>5
  <2>7. ASSUME NEW ok \in BOOLEAN, Write(ok) PROVE CallOrder'
    <3>1. /\ pc \in OnStream /\ UNCHANGED created /\ created[frame.s]
          /\ frame.s \in Streams
      BY <2>7, <1>1, InOnRead DEF Write, OnStream, CallOrder
    <3>2. \/ /\ pc' = "writeready" /\ frame' = [frame EXCEPT !.pos = 0, !.len = 0]
             /\ m_offset' = [m_offset EXCEPT ![frame.s] = @ + frame.len]
          \/ Return(FALSE) /\ UNCHANGED m_offset
      BY <2>7 DEF Write
    <3>3. CASE Return(FALSE) /\ UNCHANGED m_offset
      BY <3>1, <3>3, <1>1, ReturnOrder DEF CallOrder
    <3>4. CASE /\ pc' = "writeready" /\ frame' = [frame EXCEPT !.pos = 0, !.len = 0]
               /\ m_offset' = [m_offset EXCEPT ![frame.s] = @ + frame.len]
      <4>1. frame'.s = frame.s
        BY <3>4, <1>1 DEF Frames
      <4> QED BY <4>1, <3>1, <3>4, <1>1 DEF CallOrder
    <3> QED BY <3>2, <3>3, <3>4
  <2>8. CASE DestroyStream
    BY <2>8, <1>3 DEF DestroyStream, streamVars
  <2>9. CASE URLNotify
    <3>1. /\ pc' \in {"idle", "send"}
          /\ created' = [created EXCEPT ![frame.s] = FALSE]
          /\ m_offset' = [m_offset EXCEPT ![frame.s] = 0]
      BY <2>9, EndHalfOrder DEF URLNotify
    <3> QED BY <3>1, <1>1 DEF CallOrder
  <2> QED BY <1>8, <2>1, <2>2, <2>3, <2>4, <2>5, <2>6, <2>7, <2>8, <2>9 DEF Handler
<1> QED BY <1>4, <1>5, <1>6, <1>7, <1>8 DEF Next

\* Both invariants hold of every behaviour.
LEMMA SpecInv == Spec => []Inv
<1>1. Init => Inv
  BY InitIndInv, InitCallOrder DEF Inv
<1>2. Inv /\ [Next]_vars => Inv'
  BY NextIndInv, NextCallOrder DEF Inv
<1> QED BY <1>1, <1>2, PTL DEF Spec

-----------------------------------------------------------------------------
(* The mapping of steps.                                                   *)

\* The phase of a stream the handler is in (Here) or not (Away), and of every stream.
Here(call, open) == IF call \in Calls THEN call ELSE IF open THEN "open" ELSE "pending"
PhaseMap == [s \in Streams |->
               IF m_protop[s] = Null THEN "none"
               ELSE IF pc \in Calls /\ frame.s = s THEN pc
               ELSE IF created[s] THEN "open" ELSE "pending"]

MappedMove(s, from, to, n) ==
  /\ PhaseMap[s] = from
  /\ PhaseMap' = [PhaseMap EXCEPT ![s] = to]
  /\ m_offset' = [m_offset EXCEPT ![s] = n]

\* Each call the plugin sees, and its return.
MappedCall(s) ==
  \/ MappedMove(s, "none", "pending", 0)
  \/ MappedMove(s, "pending", "newstream", 0)
  \/ MappedMove(s, "newstream", "open", 0)
  \/ MappedMove(s, "newstream", "urlnotify", 0)
  \/ MappedMove(s, "open", "write", m_offset[s])
  \/ \E n \in Nat : n > m_offset[s] /\ MappedMove(s, "write", "open", n)
  \/ MappedMove(s, "write", "destroystream", m_offset[s])
  \/ MappedMove(s, "open", "destroystream", m_offset[s])
  \/ MappedMove(s, "destroystream", "urlnotify", m_offset[s])
  \/ MappedMove(s, "pending", "urlnotify", 0)
  \/ MappedMove(s, "urlnotify", "none", 0)

\* A step, seen through the mapping.
MappedStep == API!APINext \/ UNCHANGED API!apiVars

\* PhaseMap and MappedCall are what NPStreamAPI becomes under the mapping.
LEMMA MappedNext ==
  ASSUME m_offset \in [Streams -> Nat],
         UNCHANGED <<PhaseMap, m_offset>> \/ \E s \in Streams : MappedCall(s)
  PROVE  MappedStep
<1>1. CASE UNCHANGED <<PhaseMap, m_offset>>
  BY <1>1 DEF API!apiVars, PhaseMap, MappedStep
<1>2. ASSUME NEW s \in Streams, MappedCall(s)
      PROVE  API!APINext
  <2>1. CASE \E n \in Nat : n > m_offset[s] /\ MappedMove(s, "write", "open", n)
    <3>1. PICK n \in Nat : n > m_offset[s] /\ MappedMove(s, "write", "open", n)
      BY <2>1
    <3>2. n = m_offset'[s]
      BY <3>1 DEF MappedMove
    <3>3. API!Move(s, "write", "open", n)
      BY <3>1 DEF API!Move, MappedMove, PhaseMap
    <3>4. API!WriteReturn(s)
      BY <3>1, <3>2, <3>3 DEF API!WriteReturn, API!Move
    <3> QED BY <3>4 DEF API!APINext
  <2>2. CASE \/ MappedMove(s, "none", "pending", 0)
             \/ MappedMove(s, "pending", "newstream", 0)
             \/ MappedMove(s, "newstream", "open", 0)
             \/ MappedMove(s, "newstream", "urlnotify", 0)
             \/ MappedMove(s, "pending", "urlnotify", 0)
             \/ MappedMove(s, "urlnotify", "none", 0)
    <3>1. \/ API!Move(s, "none", "pending", 0)
          \/ API!Move(s, "pending", "newstream", 0)
          \/ API!Move(s, "newstream", "open", 0)
          \/ API!Move(s, "newstream", "urlnotify", 0)
          \/ API!Move(s, "pending", "urlnotify", 0)
          \/ API!Move(s, "urlnotify", "none", 0)
      BY <2>2 DEF API!Move, MappedMove, PhaseMap
    <3> QED BY <3>1 DEF API!APINext, API!GetURLCall, API!NewStreamCall, API!NewStreamReturn,
                        API!URLNotifyCall, API!URLNotifyReturn
  <2>3. CASE \/ MappedMove(s, "open", "write", m_offset[s])
             \/ MappedMove(s, "write", "destroystream", m_offset[s])
             \/ MappedMove(s, "open", "destroystream", m_offset[s])
             \/ MappedMove(s, "destroystream", "urlnotify", m_offset[s])
    <3>1. \/ API!Move(s, "open", "write", m_offset[s])
          \/ API!Move(s, "write", "destroystream", m_offset[s])
          \/ API!Move(s, "open", "destroystream", m_offset[s])
          \/ API!Move(s, "destroystream", "urlnotify", m_offset[s])
      BY <2>3 DEF API!Move, MappedMove, PhaseMap
    <3> QED BY <3>1 DEF API!APINext, API!WriteCall, API!WriteReturn,
                        API!DestroyStreamCall, API!DestroyStreamReturn
  <2> QED BY <1>2, <2>1, <2>2, <2>3 DEF MappedCall
<1> QED BY <1>1, <1>2 DEF MappedStep

\* Outside the calls, a step that starts, opens and ends no stream is a stutter.
LEMMA NoCall ==
  ASSUME pc \notin Calls, pc' \notin Calls, UNCHANGED <<created, m_offset>>,
         \A s \in Streams : m_protop'[s] = Null <=> m_protop[s] = Null
  PROVE  UNCHANGED <<PhaseMap, m_offset>>
<1>1. PhaseMap' = [s \in Streams |-> IF m_protop'[s] = Null THEN "none"
                                     ELSE IF created'[s] THEN "open" ELSE "pending"]
  BY DEF PhaseMap
<1>2. PhaseMap = [s \in Streams |-> IF m_protop[s] = Null THEN "none"
                                    ELSE IF created[s] THEN "open" ELSE "pending"]
  BY DEF PhaseMap
<1>3. \A s \in Streams : (IF m_protop'[s] = Null THEN "none"
                          ELSE IF created'[s] THEN "open" ELSE "pending")
                         = (IF m_protop[s] = Null THEN "none"
                            ELSE IF created[s] THEN "open" ELSE "pending")
  OBVIOUS
<1> QED BY <1>1, <1>2, <1>3

\* A step of the handler inside OnRead moves the stream it works on and no other.
LEMMA OneStream ==
  ASSUME NEW s \in Streams, frame.s = s, m_protop[s] # Null, UNCHANGED m_protop,
         frame'.s = s \/ pc' \notin Calls,
         \A r \in Streams \ {s} : created'[r] = created[r]
  PROVE  /\ PhaseMap[s] = Here(pc, created[s])
         /\ PhaseMap' = [PhaseMap EXCEPT ![s] = Here(pc', created'[s])]
<1>1. PhaseMap[s] = Here(pc, created[s])
  BY DEF PhaseMap, Here
<1>2. PhaseMap' = [r \in Streams |->
                     IF m_protop[r] = Null THEN "none"
                     ELSE IF pc' \in Calls /\ frame'.s = r THEN pc'
                     ELSE IF created'[r] THEN "open" ELSE "pending"]
  BY DEF PhaseMap
<1>3. \A r \in Streams \ {s} : PhaseMap'[r] = PhaseMap[r]
  <2> SUFFICES ASSUME NEW r \in Streams \ {s} PROVE PhaseMap'[r] = PhaseMap[r]
    OBVIOUS
  <2>1. PhaseMap'[r] = IF m_protop[r] = Null THEN "none"
                       ELSE IF created[r] THEN "open" ELSE "pending"
    BY <1>2
  <2>2. PhaseMap[r] = IF m_protop[r] = Null THEN "none"
                      ELSE IF created[r] THEN "open" ELSE "pending"
    BY DEF PhaseMap
  <2> QED BY <2>1, <2>2
<1>4. PhaseMap'[s] = Here(pc', created'[s])
  BY <1>2 DEF Here
<1>5. PhaseMap = [r \in Streams |-> PhaseMap[r]]
  BY DEF PhaseMap
<1>6. PhaseMap' = [r \in Streams |-> PhaseMap'[r]]
  BY <1>2
<1> QED BY <1>1, <1>3, <1>4, <1>5, <1>6

\* Every step of NetStream is a step of NPStreamAPI, or a stutter.
LEMMA NextImplementsAPI == Inv /\ [Next]_vars => MappedStep
<1> SUFFICES ASSUME Inv, [Next]_vars PROVE MappedStep
  OBVIOUS
<1> USE NullAssumption
<1>1. /\ created \in [Streams -> BOOLEAN] /\ m_offset \in [Streams -> Nat]
      /\ m_protop \in [Streams -> Protos \cup {Null}]
      /\ frame \in Frames /\ CallOrder /\ IndInv
  BY DEF Inv, IndInv, TypeOK
<1>2. CASE UNCHANGED <<m_protop, created, m_offset>> /\ pc \notin Calls /\ pc' \notin Calls
  BY <1>1, <1>2, NoCall, MappedNext
<1>3. CASE Requests
  <2>1. PICK s \in Streams, p \in Protos, f \in Fds : GetURL(s, p, f)
    BY <1>3 DEF Requests
  <2>2. /\ m_protop[s] = Null /\ p # Null /\ UNCHANGED <<pc, frame>>
        /\ m_protop' = [m_protop EXCEPT ![s] = p]
        /\ created' = [created EXCEPT ![s] = FALSE]
        /\ m_offset' = [m_offset EXCEPT ![s] = 0]
    BY <2>1 DEF GetURL
  <2>3. pc \in Calls => frame.s # s
    BY <1>1, <2>2 DEF IndInv, Ownership, Calls, OnStream
  <2>4. PhaseMap[s] = "none"
    BY <2>2 DEF PhaseMap
  <2>5. PhaseMap' = [r \in Streams |->
                       IF m_protop'[r] = Null THEN "none"
                       ELSE IF pc \in Calls /\ frame.s = r THEN pc
                       ELSE IF created'[r] THEN "open" ELSE "pending"]
    BY <2>2 DEF PhaseMap
  <2>6. PhaseMap' = [PhaseMap EXCEPT ![s] = "pending"]
    BY <2>2, <2>3, <2>5, <1>1 DEF PhaseMap
  <2>7. MappedCall(s)
    BY <2>2, <2>4, <2>6 DEF MappedMove, MappedCall
  <2> QED BY <2>7, <1>1, MappedNext
<1>4. CASE Dispatch
  BY <1>4, <1>2 DEF Dispatch, Notify, streamVars, Calls
<1>5. CASE Network \/ UNCHANGED vars
  <2>1. UNCHANGED <<m_protop, created, m_offset, pc, frame>>
    BY <1>5 DEF Network, Accept, Answer, Arrive, Close, Reset, ServerStep, streamVars, vars
  <2>2. UNCHANGED PhaseMap
    BY <2>1 DEF PhaseMap
  <2> QED BY <1>1, <2>1, <2>2, MappedNext
<1>6. CASE Handler
  <2>1. CASE ReadHalf \/ WriteHalf
    <3>1. UNCHANGED <<m_protop, created, m_offset>> /\ pc \notin Calls
      BY <2>1 DEF ReadHalf, WriteHalf, streamVars, Calls
    <3>2. pc' \in {"idle", "send", "onread"}
      BY <2>1 DEF ReadHalf, WriteHalf, ReadResponse, SendRequest, Wake, EndHalf
    <3> QED BY <3>1, <3>2, <1>2 DEF Calls
  <2>2. CASE \E q \in Protos, f \in Fds : Redirect(q, f)
    <3>1. PICK q \in Protos, f \in Fds : Redirect(q, f)
      BY <2>2
    <3>2. /\ pc = "onread" /\ m_protop[frame.s] # Null /\ q # Null
          /\ m_protop' = [m_protop EXCEPT ![frame.s] = q]
          /\ UNCHANGED <<created, m_offset>>
          /\ pc' \in {"idle", "send"}
      BY <3>1, <1>1, InOnRead, EndHalfOrder DEF Redirect, OnStream
    <3>3. \A s \in Streams : m_protop'[s] = Null <=> m_protop[s] = Null
      BY <3>2, <1>1
    <3> QED BY <3>2, <3>3, <1>1, NoCall, MappedNext DEF Calls
  <2>3. CASE RedirectFails
    BY <2>3, <1>2, EndHalfOrder DEF RedirectFails, streamVars, Calls
  <2> SUFFICES ASSUME pc \in OnStream, NEW s \in Streams, s = frame.s, m_protop[s] # Null
               PROVE  MappedStep
    BY <1>1, <1>6, <2>1, <2>2, <2>3, InOnRead
       DEF Handler, Proceed, NewStream, WriteReady, Write, DestroyStream, URLNotify, OnStream
  <2>4. /\ m_offset' = m_offset => m_offset' = [m_offset EXCEPT ![s] = m_offset[s]]
        /\ ~created[s] => m_offset[s] = 0
    BY <1>1 DEF CallOrder
  <2>5. CASE Proceed
    <3>1. pc = "onread" /\ UNCHANGED <<m_protop, created, m_offset>>
      BY <2>5 DEF Proceed, streamVars
    <3>2. \/ pc' \in {"writeready", "idle", "send"}
          \/ /\ ~created[s] /\ frame' = frame
             /\ pc' \in {"newstream", "urlnotify"}
      BY <2>5, EndHalfOrder DEF Proceed, Return, Teardown, Fresh
    <3>3. CASE pc' \in {"writeready", "idle", "send"}
      BY <3>1, <3>3, <1>2 DEF Calls
    <3>4. CASE ~created[s] /\ frame' = frame /\ pc' \in {"newstream", "urlnotify"}
      <4>1. PhaseMap[s] = Here(pc, created[s])
            /\ PhaseMap' = [PhaseMap EXCEPT ![s] = Here(pc', created'[s])]
        BY <3>1, <3>4, OneStream
      <4>2. MappedMove(s, "pending", pc', 0)
        BY <4>1, <3>1, <3>4, <2>4 DEF Here, Calls, MappedMove
      <4> QED BY <4>2, <3>4, <1>1, MappedNext DEF MappedCall
    <3> QED BY <3>2, <3>3, <3>4
  <2>6. ASSUME NEW ok \in BOOLEAN, NewStream(ok) PROVE MappedStep
    <3>1. /\ pc = "newstream" /\ ~created[s] /\ UNCHANGED m_protop
          /\ m_offset' = [m_offset EXCEPT ![s] = 0]
          /\ created' = [created EXCEPT ![s] = ok]
      BY <2>6, <1>1 DEF NewStream, CallOrder
    <3>2. /\ frame' = frame
          /\ \/ ok /\ pc' = "writeready"
             \/ ~ok /\ pc' = "urlnotify"
      BY <2>6, <3>1 DEF NewStream, Return, Teardown
    <3>3. PhaseMap[s] = Here(pc, created[s])
          /\ PhaseMap' = [PhaseMap EXCEPT ![s] = Here(pc', created'[s])]
      BY <3>1, <3>2, <1>1, OneStream
    <3>4. MappedMove(s, "newstream", "open", 0) \/ MappedMove(s, "newstream", "urlnotify", 0)
      BY <3>1, <3>2, <3>3, <1>1 DEF Here, Calls, MappedMove
    <3> QED BY <3>4, <1>1, MappedNext DEF MappedCall
  <2>7. ASSUME NEW c \in 0..MaxReady, WriteReady(c) PROVE MappedStep
    <3>1. pc = "writeready" /\ created[s] /\ UNCHANGED <<m_protop, created, m_offset>>
      BY <2>7, <1>1 DEF WriteReady, streamVars, CallOrder
    <3>2. \/ pc' \in {"idle", "send"}
          \/ pc' = "destroystream" /\ frame' = frame
          \/ pc' = "write" /\ frame'.s = s
      BY <2>7, <3>1, <1>1, EndHalfOrder
         DEF WriteReady, RecvData, Return, Teardown, Frames
    <3>3. CASE pc' \in {"idle", "send"}
      BY <3>1, <3>3, <1>2 DEF Calls
    <3>4. CASE pc' \in {"destroystream", "write"} /\ frame'.s = s
      <4>1. PhaseMap[s] = Here(pc, created[s])
            /\ PhaseMap' = [PhaseMap EXCEPT ![s] = Here(pc', created'[s])]
        BY <3>1, <3>4, OneStream
      <4>2. MappedMove(s, "open", pc', m_offset[s])
        BY <4>1, <3>1, <3>4, <2>4 DEF Here, Calls, MappedMove
      <4> QED BY <4>2, <3>4, <1>1, MappedNext DEF MappedCall
    <3> QED BY <3>2, <3>3, <3>4
  <2>8. ASSUME NEW ok \in BOOLEAN, Write(ok) PROVE MappedStep
    <3>1. /\ pc = "write" /\ created[s] /\ frame.len > 0 /\ frame.len \in Nat
          /\ UNCHANGED <<m_protop, created>>
      BY <2>8, <1>1 DEF Write, CallOrder, Frames
    <3>2. /\ frame'.s = s
          /\ \/ pc' = "destroystream" /\ m_offset' = m_offset
             \/ pc' = "writeready" /\ m_offset' = [m_offset EXCEPT ![s] = @ + frame.len]
      BY <2>8, <3>1, <1>1 DEF Write, Return, Teardown, Frames
    <3>3. PhaseMap[s] = Here(pc, created[s])
          /\ PhaseMap' = [PhaseMap EXCEPT ![s] = Here(pc', created'[s])]
      BY <3>1, <3>2, OneStream
    <3>4. CASE pc' = "destroystream" /\ m_offset' = m_offset
      <4>1. MappedMove(s, "write", "destroystream", m_offset[s])
        BY <3>1, <3>3, <3>4, <2>4 DEF Here, Calls, MappedMove
      <4> QED BY <4>1, <1>1, MappedNext DEF MappedCall
    <3>5. CASE pc' = "writeready" /\ m_offset' = [m_offset EXCEPT ![s] = @ + frame.len]
      <4>1. PICK n \in Nat : n = m_offset[s] + frame.len
        BY <3>1, <1>1
      <4>2. n > m_offset[s]
        BY <4>1, <3>1, <1>1
      <4>3. MappedMove(s, "write", "open", n)
        BY <3>1, <3>3, <3>5, <4>1 DEF Here, Calls, MappedMove
      <4> QED BY <4>2, <4>3, <1>1, MappedNext DEF MappedCall
    <3> QED BY <3>2, <3>4, <3>5
  <2>9. CASE DestroyStream
    <3>1. /\ pc = "destroystream" /\ pc' = "urlnotify"
          /\ UNCHANGED <<m_protop, created, m_offset, frame>>
      BY <2>9 DEF DestroyStream, streamVars
    <3>2. PhaseMap[s] = Here(pc, created[s])
          /\ PhaseMap' = [PhaseMap EXCEPT ![s] = Here(pc', created'[s])]
      BY <3>1, OneStream
    <3>3. MappedMove(s, "destroystream", "urlnotify", m_offset[s])
      BY <3>1, <3>2, <2>4 DEF Here, Calls, MappedMove
    <3> QED BY <3>3, <1>1, MappedNext DEF MappedCall
  <2>10. CASE URLNotify
    <3>1. /\ pc = "urlnotify" /\ pc' \in {"idle", "send"}
          /\ m_protop' = [m_protop EXCEPT ![s] = Null]
          /\ created' = [created EXCEPT ![s] = FALSE]
          /\ m_offset' = [m_offset EXCEPT ![s] = 0]
      BY <2>10, EndHalfOrder DEF URLNotify
    <3>2. PhaseMap[s] = "urlnotify"
      BY <3>1 DEF PhaseMap, Calls
    <3>3. PhaseMap' = [r \in Streams |->
                         IF m_protop'[r] = Null THEN "none"
                         ELSE IF created'[r] THEN "open" ELSE "pending"]
      BY <3>1 DEF PhaseMap, Calls
    <3>4. PhaseMap' = [PhaseMap EXCEPT ![s] = "none"]
      BY <3>1, <3>3, <1>1 DEF PhaseMap
    <3>5. MappedMove(s, "urlnotify", "none", 0)
      BY <3>1, <3>2, <3>4 DEF MappedMove
    <3> QED BY <3>5, <1>1, MappedNext DEF MappedCall
  <2> QED BY <1>6, <2>1, <2>2, <2>3, <2>5, <2>6, <2>7, <2>8, <2>9, <2>10 DEF Handler
<1> QED BY <1>3, <1>4, <1>5, <1>6 DEF Next

\* The plugin sees the calls of every URL in the order of NPStreamAPI, at contiguous offsets.
THEOREM SpecImplementsAPI == Spec => ImplementsAPI
<1>1. Init => API!APIInit
  BY NullAssumption DEF Init, API!APIInit
<1>2. Inv /\ [Next]_vars => [API!APINext]_(API!apiVars)
  BY NextImplementsAPI DEF MappedStep
<1> QED BY <1>1, <1>2, SpecInv, PTL DEF Spec, ImplementsAPI, API!APISpec

-----------------------------------------------------------------------------
(***************************************************************************)
(* The data of NetStream: what the plugin is given is the body, in order   *)
(* and whole; a connection is declared broken for a reason, and the stream *)
(* that finds it broken ends.  DataInv is inductive relative to IndInv and *)
(* CallOrder; each of its parts speaks of one proto_stream, one stream or  *)
(* the handler, and is carried over separately.                            *)
(***************************************************************************)

\* A step leaves the proto_stream p alone, as far as DataInv reads it.
Same(p) == /\ m_ref'[p] = m_ref[p] /\ m_flags'[p] = m_flags[p] /\ m_chunk'[p] = m_chunk[p]
           /\ interest'[p] = interest[p] /\ connected'[p] = connected[p]
           /\ last_error'[p] = last_error[p]
           /\ conn'[p] = conn[p] /\ rx'[p] = rx[p] /\ rd'[p] = rd[p] /\ resp'[p] = resp[p]

\* The parts of DataInv that speak of one proto_stream alone.
ProtoOK(p) == ReadingOK(p) /\ EventsOK(p) /\ ("ERROR" \in m_flags[p] => HasCause(p))

\* All values DataInv computes with, typed.
LEMMA Types ==
  ASSUME IndInv
  PROVE  /\ ChunkLen \in Nat \ {0} /\ Look \in Nat /\ ReqLen \in Nat \ {0}
         /\ frame \in Frames /\ frame.len \in Nat
         /\ \A p \in Protos : /\ rd[p] \in Nat /\ rx[p] \in Nat /\ rd[p] <= rx[p]
                              /\ m_chunk[p] \in [off : Nat, len : Nat]
                              /\ m_chunk[p].off <= m_chunk[p].len
                              /\ "CREATED" \notin m_flags[p] => m_chunk[p].len = ChunkLen
                              /\ m_flags[p] \subseteq Broken
                              /\ interest[p] \subseteq {"READ", "WRITE"}
                              /\ last_error[p] \in Errno
                              /\ resp[p] \in ResponseSpace \cup {Null}
         /\ \A s \in Streams : m_offset[s] \in Nat /\ created[s] \in BOOLEAN
<1>1. /\ rd \in [Protos -> Nat] /\ rx \in [Protos -> Nat]
      /\ m_chunk \in [Protos -> [off : Nat, len : Nat]]
      /\ m_flags \in [Protos -> SUBSET Broken]
      /\ interest \in [Protos -> SUBSET {"READ", "WRITE"}]
      /\ last_error \in [Protos -> Errno]
      /\ resp \in [Protos -> Responses \cup {Null}]
      /\ m_offset \in [Streams -> Nat] /\ created \in [Streams -> BOOLEAN]
      /\ frame \in Frames
  BY DEF IndInv, TypeOK
<1>2. frame.len \in Nat
  BY <1>1 DEF Frames
<1>3. Responses \subseteq ResponseSpace
  BY ResponseAssumption
<1> QED BY <1>1, <1>2, <1>3, SizeAssumption DEF IndInv, Bounds

\* What DataInv says of a proto_stream does not change while the proto_stream does not.
LEMMA SameProto ==
  ASSUME NEW p \in Protos, ProtoOK(p), Same(p)
  PROVE  ProtoOK(p)'
BY DEF ProtoOK, ReadingOK, EventsOK, HasCause, Live, Connected, Readable, Same

\* A live proto_stream other than the handler's wakes another stream than the handler's.
LEMMA OtherWaiter ==
  ASSUME IndInv, pc \in OnStream
  PROVE  /\ m_waitp[frame.p] = frame.s /\ m_ref[frame.p] = 1
         /\ \A q \in Protos : Live(q) /\ q # frame.p => m_waitp[q] # frame.s
         /\ \A r \in Streams : m_protop[r] = frame.p => r = frame.s
<1>1. /\ frame.s \in Streams /\ m_protop[frame.s] = frame.p /\ frame.p \in Protos /\ Live(frame.p)
  BY InOnRead
<1>2. /\ m_waitp[frame.p] = frame.s /\ m_ref[frame.p] = 1
      /\ \A q \in Protos : Live(q) => m_protop[m_waitp[q]] = q
      /\ \A r \in Streams : m_protop[r] # Null => m_waitp[m_protop[r]] = r
  BY <1>1, NullAssumption DEF IndInv, Ownership
<1> QED BY <1>1, <1>2, NullAssumption

\* The half that ends: what is left of the frame.
LEMMA EndHalfFrame ==
  ASSUME EndHalf
  PROVE  /\ pc' \in {"idle", "send"} /\ frame'.len = 0 /\ frame'.s = Null /\ ~frame'.more
         /\ pc' = "send" => frame.more /\ frame'.fd = frame.fd /\ frame'.p = frame.p
<1>1. CASE frame.more
  BY <1>1 DEF EndHalf, NoFrame
<1>2. CASE ~frame.more
  BY <1>2 DEF EndHalf, NoFrame
<1> QED BY <1>1, <1>2

\* Where the handler is next when the half ends, is left, or goes on.
LEMMA HandlerAfter ==
  ASSUME DataInv, IndInv, pc \in OnStream, UNCHANGED <<interest, stream_list>>,
         \/ EndHalf
         \/ /\ pc' \in {"writeready", "destroystream", "urlnotify"}
            /\ frame'.fd = frame.fd /\ frame'.p = frame.p /\ frame'.more = frame.more
            /\ pc' = "writeready" => frame'.len = 0
  PROVE  HandlerOK'
<1>1. CASE EndHalf
  BY <1>1, EndHalfFrame, InOnRead DEF DataInv, HandlerOK, OnStream
<1>2. CASE /\ pc' \in {"writeready", "destroystream", "urlnotify"}
           /\ frame'.fd = frame.fd /\ frame'.p = frame.p /\ frame'.more = frame.more
           /\ pc' = "writeready" => frame'.len = 0
  BY <1>2 DEF DataInv, HandlerOK, OnStream
<1> QED BY <1>1, <1>2

LEMMA InitDataInv == Init => DataInv
<1> SUFFICES ASSUME Init PROVE DataInv
  OBVIOUS
<1>1. ASSUME NEW p \in Protos PROVE ReadingOK(p) /\ EventsOK(p) /\ BlockOK(p)
  BY <1>1 DEF Init, ReadingOK, EventsOK, BlockOK, Connected, Live, NoChunk, Broken
<1>2. ASSUME NEW s \in Streams PROVE DeliveredOK(s)
  BY <1>2 DEF Init, DeliveredOK
<1>3. HandlerOK /\ ErrorHasCause /\ DestroyedWhenDelivered
  BY DEF Init, HandlerOK, ErrorHasCause, DestroyedWhenDelivered, NoFrame
<1> QED BY <1>1, <1>2, <1>3 DEF DataInv

-----------------------------------------------------------------------------
(* Steps inside OnRead that leave the sockets, proto_streams and network.  *)

LEMMA QuietProtos ==
  ASSUME DataInv, UNCHANGED <<sockVars, protoVars, netVars>>
  PROVE  \A p \in Protos : ProtoOK(p)'
<1> SUFFICES ASSUME NEW p \in Protos PROVE ProtoOK(p)'
  OBVIOUS
<1>1. ProtoOK(p)
  BY DEF DataInv, ProtoOK, ErrorHasCause
<1>2. Same(p)
  BY DEF Same, sockVars, protoVars, netVars
<1> QED BY <1>1, <1>2, SameProto

\* DataInv from its parts.
LEMMA Assemble ==
  ASSUME \A p \in Protos : ProtoOK(p)', \A p \in Protos : BlockOK(p)',
         \A s \in Streams : DeliveredOK(s)', HandlerOK', DestroyedWhenDelivered'
  PROVE  DataInv'
BY DEF DataInv, ProtoOK, ErrorHasCause

LEMMA RedirectFailsData ==
  ASSUME IndInv, DataInv, RedirectFails
  PROVE  DataInv'
<1>1. /\ pc = "onread" /\ pc \in OnStream /\ EndHalf /\ Fresh(frame.s)
      /\ UNCHANGED <<sockVars, protoVars, streamVars, netVars>>
  BY DEF RedirectFails, OnStream
<1>2. frame.len = 0 /\ frame'.len = 0 /\ pc' \in {"idle", "send"}
  BY <1>1, EndHalfFrame DEF DataInv, HandlerOK
<1>3. \A p \in Protos : ProtoOK(p)'
  BY <1>1, QuietProtos
<1>4. ASSUME NEW p \in Protos PROVE BlockOK(p)'
  <2>1. frame.p = p => "ERROR" \notin m_flags[p]
    BY <1>1, InOnRead DEF Fresh, Connected, Broken
  <2> QED BY <1>1, <2>1 DEF DataInv, BlockOK, Live, sockVars, protoVars, streamVars
<1>5. ASSUME NEW s \in Streams PROVE DeliveredOK(s)'
  <2>1. DeliveredOK(s) /\ Handed(s)' = 0 /\ Handed(s) = 0
    BY <1>2 DEF DataInv, Handed
  <2> QED BY <1>1, <2>1
      DEF DeliveredOK, Position, Connected, sockVars, protoVars, streamVars, netVars
<1>6. HandlerOK'
  BY <1>1, HandlerAfter DEF sockVars
<1>7. DestroyedWhenDelivered'
  BY <1>2 DEF DestroyedWhenDelivered
<1> QED BY <1>3, <1>4, <1>5, <1>6, <1>7, Assemble

LEMMA ProceedData ==
  ASSUME IndInv, DataInv, Proceed
  PROVE  DataInv'
<1> DEFINE s == frame.s
           p == frame.p
<1>1. /\ pc = "onread" /\ pc \in OnStream
      /\ UNCHANGED <<sockVars, protoVars, streamVars, netVars>>
  BY DEF Proceed, OnStream
<1>2. /\ s \in Streams /\ m_protop[s] = p /\ p \in Protos /\ m_waitp[p] = s /\ Live(p)
      /\ \A q \in Protos : Live(q) /\ q # p => m_waitp[q] # s
  BY <1>1, InOnRead, OtherWaiter
<1>3. \/ Fresh(s) /\ pc' = "newstream" /\ frame' = frame
      \/ created[s] /\ pc' = "writeready" /\ frame' = frame
      \/ ~created[s] /\ last_error[p] = "EWOULDBLOCK" /\ EndHalf
      \/ ~created[s] /\ last_error[p] # "EWOULDBLOCK" /\ pc' = "urlnotify" /\ frame' = frame
  BY <1>2 DEF Proceed, Return, Teardown, Block
<1>4. frame.len = 0 /\ frame'.len = 0 /\ pc' \notin {"read", "write", "destroystream"}
  BY <1>1, <1>3, EndHalfFrame DEF DataInv, HandlerOK
<1>5. \A q \in Protos : ProtoOK(q)'
  BY <1>1, QuietProtos
<1>6. ASSUME NEW q \in Protos PROVE BlockOK(q)'
  <2>1. BlockOK(q) /\ Fresh(s) = (Connected(p) /\ ~created[s])
    BY <1>2 DEF DataInv, Fresh
  <2>2. CASE Fresh(s) /\ pc' = "newstream" /\ frame' = frame
    BY <1>1, <1>2, <2>1, <2>2 DEF BlockOK, Live, Connected, Broken, sockVars, protoVars, streamVars
  <2>3. CASE created[s] /\ pc' = "writeready" /\ frame' = frame
    BY <1>1, <1>2, <2>1, <2>3 DEF BlockOK, Live, sockVars, protoVars, streamVars
  <2>4. CASE ~created[s] /\ last_error[p] = "EWOULDBLOCK" /\ EndHalf
    BY <1>1, <1>2, <2>1, <2>4 DEF BlockOK, Live, sockVars, protoVars, streamVars
  <2>5. CASE ~created[s] /\ last_error[p] # "EWOULDBLOCK" /\ pc' = "urlnotify" /\ frame' = frame
    BY <1>1, <1>2, <2>1, <2>5 DEF BlockOK, Live, sockVars, protoVars, streamVars
  <2> QED BY <1>3, <2>2, <2>3, <2>4, <2>5
<1>7. ASSUME NEW r \in Streams PROVE DeliveredOK(r)'
  <2>1. DeliveredOK(r) /\ Handed(r)' = 0 /\ Handed(r) = 0
    BY <1>4 DEF DataInv, Handed
  <2> QED BY <1>1, <2>1
      DEF DeliveredOK, Position, Connected, sockVars, protoVars, streamVars, netVars
<1>8. HandlerOK'
  <2>1. CASE EndHalf \/ (pc' \in {"writeready", "urlnotify"} /\ frame' = frame)
    BY <1>1, <1>4, <2>1, HandlerAfter DEF sockVars
  <2>2. CASE Fresh(s) /\ pc' = "newstream" /\ frame' = frame
    BY <1>1, <1>2, <1>4, <2>2
    DEF DataInv, HandlerOK, Fresh, Connected, sockVars, protoVars, streamVars
  <2> QED BY <1>3, <2>1, <2>2
<1>9. DestroyedWhenDelivered'
  BY <1>4 DEF DestroyedWhenDelivered
<1> QED BY <1>5, <1>6, <1>7, <1>8, <1>9, Assemble

LEMMA NewStreamData ==
  ASSUME IndInv, CallOrder, DataInv, NEW ok \in BOOLEAN, NewStream(ok)
  PROVE  DataInv'
<1> DEFINE s == frame.s
           p == frame.p
<1>1. /\ pc = "newstream" /\ pc \in OnStream
      /\ UNCHANGED <<sockVars, protoVars, m_protop, netVars>>
  BY DEF NewStream, OnStream
<1>2. /\ s \in Streams /\ m_protop[s] = p /\ p \in Protos /\ m_waitp[p] = s /\ Live(p)
      /\ \A q \in Protos : Live(q) /\ q # p => m_waitp[q] # s
  BY <1>1, InOnRead, OtherWaiter
<1>3. /\ ~created[s] /\ m_offset[s] = 0 /\ Connected(p) /\ frame.len = 0
  BY <1>1, <1>2 DEF CallOrder, DataInv, HandlerOK
<1>4. /\ frame' = frame /\ pc' \in {"writeready", "urlnotify"}
      /\ m_offset' = [m_offset EXCEPT ![s] = 0]
      /\ created' = [created EXCEPT ![s] = ok]
  BY <1>1, <1>3 DEF NewStream, Return, Teardown
<1>5. /\ m_offset' = m_offset
      /\ \A r \in Streams : r # s => created'[r] = created[r]
      /\ created'[s] = ok
  BY <1>2, <1>3, <1>4 DEF IndInv, TypeOK
<1>6. \A q \in Protos : ProtoOK(q)'
  BY <1>1, QuietProtos
<1>7. ASSUME NEW q \in Protos PROVE BlockOK(q)'
  <2>1. BlockOK(q)
    BY DEF DataInv
  <2>2. CASE q = p
    BY <2>2, <1>1, <1>3 DEF BlockOK, Connected, Broken, sockVars, protoVars
  <2>3. CASE q # p /\ Live(q)
    <3>1. m_waitp[q] \in Streams /\ m_waitp[q] # s
      BY <2>3, <1>2 DEF IndInv, Ownership
    <3> QED BY <3>1, <2>1, <2>3, <1>1, <1>5 DEF BlockOK, Live, sockVars, protoVars
  <2>4. CASE ~Live(q)
    BY <2>4, <1>1 DEF BlockOK, Live, protoVars
  <2> QED BY <2>2, <2>3, <2>4
<1>8. ASSUME NEW r \in Streams PROVE DeliveredOK(r)'
  <2>1. DeliveredOK(r) /\ Handed(r)' = Handed(r)
    BY <1>4 DEF DataInv, Handed
  <2>2. CASE r = s
    <3>1. "CREATED" \in m_flags[p] /\ "ERROR" \notin m_flags[p]
      BY <1>3 DEF Connected, Broken
    <3> QED BY <1>1, <1>2, <1>5, <2>1, <2>2, <3>1
        DEF DeliveredOK, Position, Connected, sockVars, protoVars, netVars
  <2>3. CASE r # s
    BY <1>1, <1>5, <2>1, <2>3
    DEF DeliveredOK, Position, Connected, sockVars, protoVars, netVars
  <2> QED BY <2>2, <2>3
<1>9. HandlerOK'
  BY <1>1, <1>3, <1>4, HandlerAfter DEF sockVars
<1>10. DestroyedWhenDelivered'
  BY <1>4 DEF DestroyedWhenDelivered
<1> QED BY <1>6, <1>7, <1>8, <1>9, <1>10, Assemble

LEMMA WriteData ==
  ASSUME IndInv, CallOrder, DataInv, NEW ok \in BOOLEAN, Write(ok)
  PROVE  DataInv'
<1> DEFINE s == frame.s
           p == frame.p
<1>1. /\ pc = "write" /\ pc \in OnStream
      /\ UNCHANGED <<sockVars, protoVars, m_protop, created, netVars>>
  BY DEF Write, OnStream
<1>2. /\ s \in Streams /\ m_protop[s] = p /\ p \in Protos /\ frame \in Frames
      /\ frame.len \in Nat /\ m_offset \in [Streams -> Nat]
  BY <1>1, InOnRead, Types DEF IndInv, TypeOK
<1>3. created[s] /\ frame.len > 0
  BY <1>1, <1>2 DEF CallOrder
<1>4. \/ /\ pc' = "writeready" /\ frame' = [frame EXCEPT !.pos = 0, !.len = 0]
         /\ m_offset' = [m_offset EXCEPT ![s] = @ + frame.len]
      \/ pc' = "destroystream" /\ frame' = frame /\ m_offset' = m_offset
  BY <1>3 DEF Write, Return, Teardown
<1>5. \A q \in Protos : ProtoOK(q)'
  BY <1>1, QuietProtos
<1>6. ASSUME NEW q \in Protos PROVE BlockOK(q)'
  BY <1>1 DEF DataInv, BlockOK, Live, sockVars, protoVars
<1>7. ASSUME NEW r \in Streams PROVE DeliveredOK(r)'
  <2>1. DeliveredOK(r) /\ m_offset'[r] + Handed(r)' = m_offset[r] + Handed(r)
    <3>1. DeliveredOK(r) /\ m_offset[r] \in Nat
      BY <1>2 DEF DataInv
    <3>2. CASE /\ pc' = "writeready" /\ frame' = [frame EXCEPT !.pos = 0, !.len = 0]
               /\ m_offset' = [m_offset EXCEPT ![s] = @ + frame.len]
      <4>1. frame'.s = s /\ frame'.len = 0
        BY <3>2, <1>2 DEF Frames
      <4> QED BY <4>1, <3>1, <3>2, <1>2 DEF Handed
    <3>3. CASE pc' = "destroystream" /\ frame' = frame /\ m_offset' = m_offset
      BY <3>1, <3>3 DEF Handed
    <3> QED BY <1>4, <3>1, <3>2, <3>3
  <2>2. ASSUME m_protop[r] # Null, Connected(m_protop[r])
        PROVE  Position(m_protop[r]) = resp[m_protop[r]].hdr + m_offset'[r] + Handed(r)'
    <3>1. /\ m_protop[r] \in Protos /\ m_protop[r] # Null
          /\ resp[m_protop[r]] # Null /\ resp[m_protop[r]] \in ResponseSpace \cup {Null}
      BY <2>2, Types DEF IndInv, Ownership, DataInv, ReadingOK
    <3>2. resp[m_protop[r]].hdr \in Nat
      BY <3>1 DEF ResponseSpace
    <3>3. /\ m_offset[r] \in Nat /\ m_offset'[r] \in Nat
          /\ Handed(r) \in Nat /\ Handed(r)' \in Nat
      <4>1. frame'.len \in {0, frame.len}
        BY <1>2, <1>4 DEF Frames
      <4>2. m_offset[s] \in Nat /\ m_offset[s] + frame.len \in Nat
        BY <1>2
      <4>3. m_offset' \in [Streams -> Nat]
        BY <4>2, <1>2, <1>4
      <4> QED BY <4>1, <4>3, <1>2 DEF Handed
    <3> QED BY <2>1, <2>2, <3>2, <3>3 DEF DeliveredOK
  <2> QED BY <1>1, <2>1, <2>2
      DEF DeliveredOK, Position, Connected, sockVars, protoVars, netVars
<1>8. HandlerOK'
  <2>1. /\ pc' \in {"writeready", "destroystream", "urlnotify"}
        /\ frame'.fd = frame.fd /\ frame'.p = frame.p /\ frame'.more = frame.more
        /\ pc' = "writeready" => frame'.len = 0
    BY <1>2, <1>4 DEF Frames
  <2> QED BY <1>1, <2>1, HandlerAfter DEF sockVars
<1>9. DestroyedWhenDelivered'
  BY <1>3, <1>4 DEF DestroyedWhenDelivered
<1> QED BY <1>5, <1>6, <1>7, <1>8, <1>9, Assemble

LEMMA DestroyStreamData ==
  ASSUME IndInv, DataInv, DestroyStream
  PROVE  DataInv'
<1>1. /\ pc = "destroystream" /\ pc' = "urlnotify" /\ pc \in OnStream
      /\ UNCHANGED <<sockVars, protoVars, streamVars, frame, netVars>>
  BY DEF DestroyStream, OnStream
<1>2. \A q \in Protos : ProtoOK(q)'
  BY <1>1, QuietProtos
<1>3. ASSUME NEW q \in Protos PROVE BlockOK(q)'
  BY <1>1 DEF DataInv, BlockOK, Live, sockVars, protoVars, streamVars
<1>4. ASSUME NEW r \in Streams PROVE DeliveredOK(r)'
  <2>1. DeliveredOK(r) /\ Handed(r)' = Handed(r)
    BY <1>1 DEF DataInv, Handed
  <2> QED BY <1>1, <2>1
      DEF DeliveredOK, Position, Connected, sockVars, protoVars, streamVars, netVars
<1>5. HandlerOK' /\ DestroyedWhenDelivered'
  BY <1>1, HandlerAfter DEF DestroyedWhenDelivered, sockVars
<1> QED BY <1>2, <1>3, <1>4, <1>5, Assemble

-----------------------------------------------------------------------------
(* writeready and recv_data.                                               *)

LEMMA WriteReadyData ==
  ASSUME IndInv, CallOrder, DataInv, NEW c \in 0..MaxReady, WriteReady(c)
  PROVE  DataInv'
<1>1. /\ pc = "writeready" /\ pc \in OnStream
      /\ UNCHANGED <<m_files, connected, interest, stream_list, m_ref, m_flags, m_waitp,
                     m_header, streamVars, conn, rx, resp>>
  BY DEF WriteReady, OnStream
<1> SUFFICES ASSUME NEW s \in Streams, s = frame.s, NEW p \in Protos, p = frame.p
             PROVE  DataInv'
  BY <1>1, InOnRead
<1> DEFINE fromChunk == MinOf(c, m_chunk[p].len - m_chunk[p].off)
           fromSocket == MinOf(c, rx[p] - rd[p])
           Deliver(pos, n) == pc' = "write" /\ frame' = [frame EXCEPT !.pos = pos, !.len = n]
<1>2. /\ s \in Streams /\ m_protop[s] = p /\ p \in Protos /\ m_waitp[p] = s /\ Live(p)
      /\ \A r \in Streams : m_protop[r] = p => r = s
      /\ p # Null
  BY <1>1, InOnRead, OtherWaiter, NullAssumption
<1>3. /\ created[s] /\ "CREATED" \in m_flags[p] /\ frame.len = 0
      /\ "ERROR" \in m_flags[p] => conn[p] = "rst"
      /\ Connected(p) <=> "ERROR" \notin m_flags[p]
  BY <1>1, <1>2 DEF CallOrder, DataInv, HandlerOK, DeliveredOK, Connected, Broken
<1>4. /\ m_chunk[p] \in [off : Nat, len : Nat] /\ rd[p] \in Nat /\ rx[p] \in Nat
      /\ rd[p] <= rx[p] /\ m_chunk[p].off <= m_chunk[p].len
      /\ c \in Nat
      /\ m_chunk \in [Protos -> [off : Nat, len : Nat]] /\ rd \in [Protos -> Nat]
      /\ last_error \in [Protos -> Errno] /\ frame \in Frames
      /\ m_offset[s] \in Nat
  BY <1>2, Types, SizeAssumption DEF IndInv, TypeOK
<1>5. fromChunk \in Int /\ fromSocket \in Int
      /\ fromChunk <= m_chunk[p].len - m_chunk[p].off /\ fromSocket <= rx[p] - rd[p]
      /\ (c > 0 /\ ~(fromChunk > 0) => m_chunk[p].off = m_chunk[p].len)
      /\ (c > 0 /\ ~(fromSocket > 0) => rd[p] = rx[p])
  <2>1. m_chunk[p].len \in Nat /\ m_chunk[p].off \in Nat
    BY <1>4
  <2> QED BY <2>1, <1>4 DEF MinOf
\* What the step may be.
<1> DEFINE Kept == /\ EndHalf /\ UNCHANGED <<m_chunk, rd>>
                   /\ UNCHANGED last_error \/ last_error' = [last_error EXCEPT ![p] = RecvErrno(p)]
           Ended == /\ pc' = "destroystream" /\ frame' = frame /\ UNCHANGED <<m_chunk, rd>>
                    /\ \/ UNCHANGED last_error /\ conn[p] = "rst" /\ "ERROR" \in m_flags[p]
                       \/ /\ last_error' = [last_error EXCEPT ![p] = RecvErrno(p)]
                          /\ "ERROR" \notin m_flags[p]
                          /\ conn[p] \in {"eof", "rst"}
                          /\ m_chunk[p].off = m_chunk[p].len /\ rd[p] = rx[p]
           Chunk == /\ Deliver(m_chunk[p].off, fromChunk) /\ fromChunk > 0
                    /\ "ERROR" \notin m_flags[p]
                    /\ m_chunk' = [m_chunk EXCEPT ![p].off = @ + fromChunk]
                    /\ UNCHANGED <<rd, last_error>>
           Socket == /\ Deliver(rd[p], fromSocket) /\ fromSocket > 0
                     /\ "ERROR" \notin m_flags[p] /\ m_chunk[p].off = m_chunk[p].len
                     /\ rd' = [rd EXCEPT ![p] = @ + fromSocket]
                     /\ last_error' = [last_error EXCEPT ![p] = "none"]
                     /\ UNCHANGED m_chunk
<1>6. Kept \/ Ended \/ Chunk \/ Socket
  <2> HIDE DEF fromChunk, fromSocket
  <2>1. CASE c = 0
    BY <2>1, <1>2 DEF WriteReady
  <2>2. CASE c # 0
    <3>1. RecvData(p, c) /\ c > 0
      BY <2>2, <1>2, <1>4 DEF WriteReady
    <3>2. CASE "ERROR" \in m_flags[p]
      <4>1. Return(Block(last_error[p])) /\ UNCHANGED <<m_chunk, rd, last_error>>
        BY <3>1, <3>2 DEF RecvData
      <4> QED BY <4>1, <1>3, <3>2 DEF Return, Teardown
    <3>3. CASE "ERROR" \notin m_flags[p] /\ fromChunk > 0
      BY <3>1, <3>3 DEF RecvData, fromChunk
    <3>4. CASE "ERROR" \notin m_flags[p] /\ ~(fromChunk > 0) /\ fromSocket > 0
      BY <3>1, <3>4, <1>5 DEF RecvData, fromChunk, fromSocket
    <3>5. CASE "ERROR" \notin m_flags[p] /\ ~(fromChunk > 0) /\ ~(fromSocket > 0)
      <4>1. /\ last_error' = [last_error EXCEPT ![p] = RecvErrno(p)]
            /\ Return(Block(RecvErrno(p))) /\ UNCHANGED <<m_chunk, rd>>
        BY <3>1, <3>5 DEF RecvData, fromChunk, fromSocket
      <4>2. CASE Block(RecvErrno(p))
        BY <4>1, <4>2 DEF Return
      <4>3. CASE ~Block(RecvErrno(p))
        <5>1. conn[p] \in {"eof", "rst"}
          BY <4>3 DEF Block, RecvErrno
        <5> QED BY <5>1, <4>1, <4>3, <3>1, <3>5, <1>3, <1>5 DEF Return, Teardown
      <4> QED BY <4>2, <4>3
    <3> QED BY <3>2, <3>3, <3>4, <3>5
  <2> QED BY <2>1, <2>2
<1> HIDE DEF fromChunk, fromSocket
<1>7. ASSUME NEW q \in Protos, q # p PROVE Same(q)
  BY <1>1, <1>4, <1>6, <1>7 DEF Same
<1>8. DeliveredOK(s) /\ ProtoOK(p)
  BY <1>2 DEF DataInv, ProtoOK, ErrorHasCause
<1>9. Handed(s) = 0 /\ m_protop[s] # Null
  BY <1>2, <1>3 DEF Handed
<1>10. /\ m_waitp' = m_waitp /\ created' = created /\ m_offset' = m_offset /\ m_protop' = m_protop
       /\ m_flags'[p] = m_flags[p] /\ conn'[p] = conn[p] /\ resp'[p] = resp[p] /\ rx'[p] = rx[p]
       /\ m_ref'[p] = m_ref[p] /\ interest'[p] = interest[p] /\ connected'[p] = connected[p]
  BY <1>1 DEF streamVars
<1>11. Connected(p) => /\ resp[p].hdr \in Nat
                       /\ Position(p) = resp[p].hdr + m_offset[s]
                       /\ resp[p].hdr <= m_chunk[p].off /\ m_chunk[p].len <= rd[p]
                       /\ m_chunk[p].off < m_chunk[p].len => rd[p] = m_chunk[p].len
  <2> SUFFICES ASSUME Connected(p)
               PROVE  /\ resp[p].hdr \in Nat
                      /\ Position(p) = resp[p].hdr + m_offset[s]
                      /\ resp[p].hdr <= m_chunk[p].off /\ m_chunk[p].len <= rd[p]
                      /\ m_chunk[p].off < m_chunk[p].len => rd[p] = m_chunk[p].len
    OBVIOUS
  <2>1. resp[p] \in ResponseSpace
    BY <1>2, <1>8, Types DEF ProtoOK, ReadingOK
  <2>2. resp[p].hdr \in Nat
    BY <2>1 DEF ResponseSpace
  <2> QED BY <2>2, <1>2, <1>4, <1>8, <1>9 DEF ProtoOK, ReadingOK, DeliveredOK
<1>12. ASSUME Kept \/ Ended
      PROVE  ProtoOK(p)' /\ DeliveredOK(s)' /\ HandlerOK' /\ DestroyedWhenDelivered'
  <2>1. /\ m_chunk'[p] = m_chunk[p] /\ rd'[p] = rd[p]
        /\ (frame' = frame \/ frame'.s = Null) /\ frame'.len = 0
    BY <1>3, <1>12, EndHalfFrame
  <2>2. ProtoOK(p)'
    BY <2>1, <1>8, <1>10 DEF ProtoOK, ReadingOK, EventsOK, HasCause, Live, Connected, Readable
  <2>3. DeliveredOK(s)' /\ Handed(s)' = 0
    BY <2>1, <1>1, <1>2, <1>8, <1>9, <1>10 DEF DeliveredOK, Handed, Position, Connected
  <2>4. HandlerOK'
    BY <1>1, <1>3, <1>12, HandlerAfter
  <2>5. DestroyedWhenDelivered'
    <3>1. CASE Kept
      BY <3>1, EndHalfFrame DEF DestroyedWhenDelivered
    <3>2. CASE Ended
      <4>1. CASE "ERROR" \in m_flags[p]
        BY <4>1, <3>2, <1>2, <1>10, <1>1 DEF DestroyedWhenDelivered
      <4>2. CASE "ERROR" \notin m_flags[p]
        <5>1. Position(p) = rx[p] /\ Position(p) = resp[p].hdr + m_offset[s]
              /\ conn[p] \in {"eof", "rst"}
          BY <4>2, <3>2, <1>3, <1>4, <1>11 DEF Position
        <5> QED BY <5>1, <3>2, <1>2, <1>10, <1>1 DEF DestroyedWhenDelivered
      <4> QED BY <4>1, <4>2
    <3> QED BY <1>12, <3>1, <3>2
  <2> QED BY <2>2, <2>3, <2>4, <2>5
<1>13. ASSUME Chunk \/ Socket
      PROVE  ProtoOK(p)' /\ DeliveredOK(s)' /\ HandlerOK' /\ DestroyedWhenDelivered'
  <2> DEFINE n == frame'.len
  <2>1. /\ frame' \in Frames /\ frame'.s = s /\ frame'.fd = frame.fd /\ frame'.p = frame.p
        /\ frame'.more = frame.more /\ pc' = "write"
        /\ Connected(p) /\ Connected(p)' /\ n \in Nat /\ n > 0
        /\ frame'.pos = Position(p)
        /\ m_flags[p] # {} /\ "ERROR" \notin m_flags[p]
        /\ Position(p)' = Position(p) + n
        /\ resp[p].hdr <= m_chunk'[p].off /\ m_chunk'[p].len <= rd'[p]
        /\ m_chunk'[p].off < m_chunk'[p].len => rd'[p] = m_chunk'[p].len
    <3>1. CASE Chunk
      <4>1. /\ fromChunk \in Nat
            /\ frame' = [frame EXCEPT !.pos = m_chunk[p].off, !.len = fromChunk]
            /\ m_chunk'[p] = [m_chunk[p] EXCEPT !.off = m_chunk[p].off + fromChunk]
            /\ rd' = rd
        BY <3>1, <1>2, <1>4, <1>5
      <4>2. /\ m_chunk'[p].off = m_chunk[p].off + fromChunk /\ m_chunk'[p].len = m_chunk[p].len
            /\ frame'.pos = m_chunk[p].off /\ frame'.len = fromChunk
            /\ frame' \in Frames /\ frame'.s = s /\ frame'.fd = frame.fd /\ frame'.p = frame.p
            /\ frame'.more = frame.more
        BY <4>1, <1>4 DEF Frames
      <4>3. Connected(p) /\ Connected(p)' /\ m_flags[p] # {}
        BY <3>1, <1>3, <1>10 DEF Connected
      <4>4. m_chunk[p].off < m_chunk[p].len /\ m_chunk[p].off + fromChunk <= m_chunk[p].len
        BY <3>1, <4>1, <1>4, <1>5
      <4>5. Position(p) = m_chunk[p].off /\ Position(p)' = m_chunk[p].off + fromChunk
        <5>1. m_chunk[p].off \in Nat /\ m_chunk[p].len \in Nat /\ rd[p] = m_chunk[p].len
          BY <4>3, <4>4, <1>4, <1>11
        <5> QED BY <5>1, <4>1, <4>2, <4>4 DEF Position
      <4>6. resp[p].hdr <= m_chunk[p].off + fromChunk
        BY <4>1, <4>3, <1>4, <1>11
      <4> QED BY <3>1, <4>1, <4>2, <4>3, <4>4, <4>5, <4>6, <1>11
    <3>2. CASE Socket
      <4>1. /\ fromSocket \in Nat
            /\ frame' = [frame EXCEPT !.pos = rd[p], !.len = fromSocket]
            /\ rd'[p] = rd[p] + fromSocket
            /\ m_chunk' = m_chunk
        BY <3>2, <1>2, <1>4, <1>5
      <4>2. /\ frame'.pos = rd[p] /\ frame'.len = fromSocket
            /\ frame' \in Frames /\ frame'.s = s /\ frame'.fd = frame.fd /\ frame'.p = frame.p
            /\ frame'.more = frame.more
        BY <4>1, <1>4 DEF Frames
      <4>3. Connected(p) /\ Connected(p)' /\ m_flags[p] # {}
        BY <3>2, <1>3, <1>10 DEF Connected
      <4>4. Position(p) = rd[p] /\ Position(p)' = rd[p] + fromSocket
        BY <3>2, <4>1, <1>4 DEF Position
      <4>5. m_chunk[p].len <= rd[p] + fromSocket
        BY <4>1, <4>3, <1>4, <1>11
      <4> QED BY <3>2, <4>1, <4>2, <4>3, <4>4, <4>5, <1>4, <1>11
    <3> QED BY <1>13, <3>1, <3>2
  <2> HIDE DEF n
  <2>2. ProtoOK(p)'
    <3>1. rd'[p] > 0 \/ m_flags'[p] # {} => connected'[p]
      BY <2>1, <1>8, <1>10 DEF ProtoOK, EventsOK
    <3>2. "ERROR" \notin m_flags'[p] /\ "CREATED" \in m_flags'[p]
      BY <2>1, <1>3, <1>10
    <3> QED BY <2>1, <3>1, <3>2, <1>8, <1>10 DEF ProtoOK, ReadingOK, EventsOK, Live
  <2>3. Handed(s)' = n /\ frame'.pos = resp[p].hdr + m_offset[s]
    BY <2>1, <1>11 DEF Handed, n
  <2>4. DeliveredOK(s)'
    BY <2>1, <2>3, <1>1, <1>2, <1>3, <1>4, <1>10, <1>11 DEF DeliveredOK, n
  <2>5. HandlerOK' /\ DestroyedWhenDelivered'
    BY <2>1, <2>3, <1>1, <1>2, <1>10 DEF HandlerOK, DestroyedWhenDelivered, DataInv
  <2> QED BY <2>2, <2>4, <2>5
<1>14. \A q \in Protos : ProtoOK(q)'
  <2>1. ASSUME NEW q \in Protos, q # p PROVE ProtoOK(q)'
    <3>1. ProtoOK(q) /\ Same(q)
      BY <2>1, <1>7 DEF DataInv, ProtoOK, ErrorHasCause
    <3> QED BY <3>1, SameProto
  <2> QED BY <2>1, <1>6, <1>12, <1>13
<1>15. ASSUME NEW q \in Protos PROVE BlockOK(q)'
  <2>1. BlockOK(q)
    BY DEF DataInv
  <2>2. CASE q = p
    BY <2>2, <1>2, <1>3, <1>10 DEF BlockOK
  <2>3. CASE q # p
    BY <2>1, <2>3, <1>1, <1>7, <1>10 DEF BlockOK, Live, Same
  <2> QED BY <2>2, <2>3
<1>16. ASSUME NEW r \in Streams PROVE DeliveredOK(r)'
  <2>1. CASE r = s
    BY <2>1, <1>6, <1>12, <1>13
  <2>2. CASE r # s
    <3>1. m_protop[r] # p /\ (m_protop[r] # Null => m_protop[r] \in Protos)
      BY <2>2, <1>2 DEF IndInv, Ownership
    <3>2. Handed(r) = 0 /\ Handed(r)' = 0
      <4>1. frame'.len = 0 \/ frame'.s = s
        BY <1>3, <1>4, <1>6, EndHalfFrame DEF Frames
      <4> QED BY <4>1, <2>2 DEF Handed
    <3>3. DeliveredOK(r) /\ m_protop'[r] = m_protop[r] /\ created'[r] = created[r]
          /\ m_offset'[r] = m_offset[r]
      BY <1>1 DEF DataInv, streamVars
    <3>4. m_protop[r] # Null => Same(m_protop[r])
      BY <3>1, <1>7
    <3> QED BY <3>1, <3>2, <3>3, <3>4 DEF DeliveredOK, Position, Connected, Same
  <2> QED BY <2>1, <2>2
<1>17. HandlerOK' /\ DestroyedWhenDelivered'
  BY <1>6, <1>12, <1>13
<1> QED BY <1>14, <1>15, <1>16, <1>17, Assemble

-----------------------------------------------------------------------------
(* Steps that construct or delete a proto_stream.                          *)

\* What Turnover makes of one proto_stream: it is new, gone, or as it was.
LEMMA TurnoverAt ==
  ASSUME IndInv, NEW new \in Protos \cup {Null}, NEW f, NEW ref,
         NEW old \in Protos \cup {Null}, old # Null => m_ref[old] = 1, new # Null => ref = 1,
         Turnover(new, f, ref, old), NEW p \in Protos
  PROVE  \/ /\ p \in {new, old}
            /\ m_flags'[p] = {} /\ m_chunk'[p] = NoChunk /\ last_error'[p] = "none"
            /\ rx'[p] = 0 /\ rd'[p] = 0
            /\ p = new => interest'[p] = {"READ", "WRITE"}
            /\ p # new => m_ref'[p] = 0
         \/ p \notin {new, old} /\ Same(p)
<1>1. Rel(old) = IF old = Null THEN {} ELSE {old}
  BY DEF Rel
<1>2. CASE p = new
  BY <1>2 DEF Turnover
<1>3. CASE p # new /\ p = old
  <2>1. p \in Rel(old) /\ m_ref[p] = 1
    BY <1>1, <1>3, NullAssumption
  <2> QED BY <2>1, <1>3 DEF Turnover
<1>4. CASE p # new /\ p # old
  <2>1. p \notin Rel(old)
    BY <1>1, <1>4
  <2> QED BY <2>1, <1>4 DEF Turnover, Same
<1> QED BY <1>2, <1>3, <1>4

\* What DataInv says of the proto_streams, carried over a Turnover.
LEMMA TurnoverProtos ==
  ASSUME IndInv, DataInv, NEW new \in Protos \cup {Null}, NEW f, NEW ref,
         NEW old \in Protos \cup {Null}, old # Null => m_ref[old] = 1, new # Null => ref = 1,
         Turnover(new, f, ref, old)
  PROVE  /\ \A p \in Protos : ProtoOK(p)'
         /\ \A p \in Protos : p \in {new, old} => BlockOK(p)'
<1> SUFFICES ASSUME NEW p \in Protos
             PROVE  ProtoOK(p)' /\ (p \in {new, old} => BlockOK(p)')
  OBVIOUS
<1>1. CASE p \in {new, old}
  <2>1. /\ m_flags'[p] = {} /\ m_chunk'[p] = NoChunk /\ last_error'[p] = "none"
        /\ rx'[p] = 0 /\ rd'[p] = 0
        /\ p = new => interest'[p] = {"READ", "WRITE"}
        /\ p # new => m_ref'[p] = 0
    BY <1>1, TurnoverAt
  <2>2. m_chunk'[p].off = 0
    BY <2>1 DEF NoChunk
  <2> QED BY <2>1, <2>2 DEF ProtoOK, ReadingOK, EventsOK, BlockOK, Connected, Live, Broken
<1>2. CASE p \notin {new, old}
  <2>1. Same(p) /\ ProtoOK(p)
    BY <1>2, TurnoverAt DEF DataInv, ProtoOK, ErrorHasCause
  <2> QED BY <2>1, <1>2, SameProto
<1> QED BY <1>1, <1>2

LEMMA GetURLData ==
  ASSUME IndInv, CallOrder, DataInv,
         NEW s \in Streams, NEW p \in Protos, NEW f \in Fds, GetURL(s, p, f)
  PROVE  DataInv'
<1> USE NullAssumption
<1>1. /\ pc \in PluginTurn /\ m_protop[s] = Null /\ ~Live(p) /\ f \notin OpenFds
      /\ Turnover(p, f, 1, Null)
      /\ m_waitp' = [m_waitp EXCEPT ![p] = s]
      /\ m_protop' = [m_protop EXCEPT ![s] = p]
      /\ created' = [created EXCEPT ![s] = FALSE]
      /\ m_offset' = [m_offset EXCEPT ![s] = 0]
      /\ UNCHANGED <<pc, frame>>
  BY DEF GetURL, GetURLRef
<1>2. /\ m_protop \in [Streams -> Protos \cup {Null}] /\ created \in [Streams -> BOOLEAN]
      /\ m_waitp \in [Protos -> Streams \cup {Null}] /\ m_offset \in [Streams -> Nat]
  BY DEF IndInv, TypeOK
<1>3. \A q \in Protos : q # p => Same(q)
  BY <1>1, TurnoverAt
<1>4. /\ \A q \in Protos : ProtoOK(q)'
      /\ BlockOK(p)'
  BY <1>1, TurnoverProtos
<1>5. \A r \in Streams : m_protop[r] # Null =>
        r # s /\ m_protop[r] # p /\ m_protop[r] \in Protos /\ m_protop'[r] = m_protop[r]
        /\ created'[r] = created[r] /\ m_offset'[r] = m_offset[r]
  BY <1>1, <1>2 DEF IndInv, Ownership
<1>6. pc \in OnStream => frame.s \in Streams /\ frame.s # s /\ m_protop[frame.s] # Null
                         /\ m_protop[frame.s] = frame.p /\ frame.p # p /\ frame.p \in Protos
                         /\ frame.fd # f
  <2> SUFFICES ASSUME pc \in OnStream
               PROVE  frame.s \in Streams /\ frame.s # s /\ m_protop[frame.s] # Null
                      /\ m_protop[frame.s] = frame.p /\ frame.p # p /\ frame.p \in Protos
                      /\ frame.fd # f
    OBVIOUS
  <2>1. /\ frame.s \in Streams /\ m_protop[frame.s] = frame.p /\ frame.p \in Protos
        /\ m_files[frame.p] = frame.fd /\ Live(frame.p)
    BY InOnRead
  <2> QED BY <2>1, <1>1 DEF OpenFds
<1>7. ASSUME NEW q \in Protos PROVE BlockOK(q)'
  <2>1. CASE q = p
    BY <2>1, <1>4
  <2>2. CASE q # p /\ ~Live(q)
    BY <2>2, <1>3 DEF BlockOK, Live, Same
  <2>3. CASE q # p /\ Live(q)
    <3>1. m_protop[m_waitp[q]] = q /\ m_waitp[q] \in Streams
      BY <2>3 DEF IndInv, Ownership
    <3>2. m_waitp'[q] = m_waitp[q] /\ created'[m_waitp[q]] = created[m_waitp[q]]
      BY <3>1, <2>3, <1>1, <1>2
    <3> QED BY <3>2, <2>3, <1>1, <1>3 DEF DataInv, BlockOK, Live, Same
  <2> QED BY <2>1, <2>2, <2>3
<1>8. ASSUME NEW r \in Streams PROVE DeliveredOK(r)'
  <2>1. CASE r = s
    <3>1. m_protop'[r] = p /\ ~created'[r] /\ m_flags'[p] = {}
      BY <2>1, <1>1, <1>2, TurnoverAt
    <3> QED BY <3>1 DEF DeliveredOK, Connected
  <2>2. CASE r # s /\ m_protop[r] = Null
    BY <2>2, <1>1, <1>2 DEF DeliveredOK
  <2>3. CASE r # s /\ m_protop[r] # Null
    <3>1. DeliveredOK(r) /\ Handed(r)' = Handed(r) /\ Same(m_protop[r])
      BY <2>3, <1>1, <1>3, <1>5 DEF DataInv, Handed
    <3> QED BY <3>1, <2>3, <1>5 DEF DeliveredOK, Position, Connected, Same
  <2> QED BY <2>1, <2>2, <2>3
<1>9. HandlerOK'
  <2>1. HandlerOK /\ pc # "read" /\ pc # "send"
    BY <1>1 DEF DataInv, PluginTurn
  <2>2. CASE pc = "idle"
    BY <2>1, <2>2, <1>1 DEF HandlerOK
  <2>3. CASE pc # "idle"
    <3>1. pc \in OnStream
      BY <2>3, <1>1 DEF PluginTurn, OnStream
    <3>2. /\ m_protop'[frame.s] = m_protop[frame.s] /\ m_offset'[frame.s] = m_offset[frame.s]
          /\ Same(frame.p) /\ stream_list'[frame.fd] = stream_list[frame.fd]
      <4>1. frame.fd \in Fds /\ frame.fd # f
        BY <3>1, <1>6, InOnRead
      <4>2. stream_list'[frame.fd] = stream_list[frame.fd]
        BY <4>1, <1>1 DEF Turnover, Registered, Rel
      <4> QED BY <4>2, <3>1, <1>3, <1>5, <1>6
    <3> QED BY <2>1, <3>1, <3>2, <1>1, <1>6 DEF HandlerOK, Connected, Same
  <2> QED BY <2>2, <2>3
<1>10. DestroyedWhenDelivered'
  <2> SUFFICES ASSUME pc = "destroystream" PROVE DestroyedWhenDelivered'
    BY <1>1 DEF DestroyedWhenDelivered
  <2>1. pc \in OnStream
    BY DEF OnStream
  <2>2. /\ m_protop'[frame.s] = m_protop[frame.s] /\ m_offset'[frame.s] = m_offset[frame.s]
        /\ Same(m_protop[frame.s])
    BY <2>1, <1>3, <1>5, <1>6
  <2> QED BY <2>2, <1>1 DEF DataInv, DestroyedWhenDelivered, Same
<1> QED BY <1>4, <1>7, <1>8, <1>9, <1>10, Assemble

LEMMA RedirectData ==
  ASSUME IndInv, CallOrder, DataInv, NEW q \in Protos, NEW f \in Fds, Redirect(q, f)
  PROVE  DataInv'
<1> USE NullAssumption
<1>1. pc = "onread" /\ pc \in OnStream
  BY DEF Redirect, OnStream
<1> SUFFICES ASSUME NEW s \in Streams, s = frame.s, NEW p \in Protos, p = frame.p
             PROVE  DataInv'
  BY <1>1, InOnRead
<1>2. /\ m_protop[s] = p /\ m_waitp[p] = s /\ m_ref[p] = 1 /\ Live(p)
      /\ m_files[p] = frame.fd /\ frame.fd \in Fds /\ stream_list[frame.fd] = p
      /\ \A r \in Protos : Live(r) /\ r # p => m_waitp[r] # s
      /\ \A r \in Streams : m_protop[r] = p => r = s
  BY <1>1, InOnRead, OtherWaiter
<1>3. /\ ~Live(q) /\ f \notin OpenFds /\ ~created[s]
      /\ Turnover(q, f, 1, p)
      /\ m_waitp' = [m_waitp EXCEPT ![p] = Null, ![q] = s]
      /\ m_protop' = [m_protop EXCEPT ![s] = q]
      /\ EndHalf
      /\ UNCHANGED <<created, m_offset>>
  BY <1>2 DEF Redirect, RedirectFds, Fresh
<1>4. /\ m_protop \in [Streams -> Protos \cup {Null}]
      /\ m_waitp \in [Protos -> Streams \cup {Null}]
      /\ q # p
  BY <1>2, <1>3 DEF IndInv, TypeOK
<1>5. \A r \in Protos : r \notin {q, p} => Same(r)
  BY <1>2, <1>3, TurnoverAt
<1>6. /\ \A r \in Protos : ProtoOK(r)'
      /\ BlockOK(q)' /\ BlockOK(p)'
  BY <1>2, <1>3, TurnoverProtos
<1>7. frame.len = 0 /\ frame'.len = 0 /\ pc' \in {"idle", "send"}
  BY <1>1, <1>3, EndHalfFrame DEF DataInv, HandlerOK
<1>8. ASSUME NEW r \in Protos PROVE BlockOK(r)'
  <2>1. CASE r \in {q, p}
    BY <2>1, <1>6
  <2>2. CASE r \notin {q, p} /\ ~Live(r)
    BY <2>2, <1>5 DEF BlockOK, Live, Same
  <2>3. CASE r \notin {q, p} /\ Live(r)
    <3>1. BlockOK(r) /\ Same(r) /\ m_waitp'[r] = m_waitp[r]
      BY <2>3, <1>3, <1>4, <1>5 DEF DataInv
    <3> QED BY <3>1, <2>3, <1>1, <1>3 DEF BlockOK, Live, Same
  <2> QED BY <2>1, <2>2, <2>3
<1>9. ASSUME NEW r \in Streams PROVE DeliveredOK(r)'
  <2>1. CASE r = s
    <3>1. m_protop'[r] = q /\ ~created'[r] /\ m_flags'[q] = {}
      BY <2>1, <1>2, <1>3, <1>4, TurnoverAt
    <3> QED BY <3>1 DEF DeliveredOK, Connected
  <2>2. CASE r # s /\ m_protop[r] = Null
    BY <2>2, <1>3, <1>4 DEF DeliveredOK
  <2>3. CASE r # s /\ m_protop[r] # Null
    <3>1. m_protop[r] \in Protos /\ m_protop[r] \notin {q, p} /\ m_protop'[r] = m_protop[r]
      BY <2>3, <1>2, <1>3, <1>4 DEF IndInv, Ownership
    <3>2. DeliveredOK(r) /\ Handed(r)' = Handed(r) /\ Same(m_protop[r])
      BY <3>1, <1>5, <1>7 DEF DataInv, Handed
    <3> QED BY <3>1, <3>2, <1>3 DEF DeliveredOK, Position, Connected, Same
  <2> QED BY <2>1, <2>2, <2>3
<1>10. HandlerOK'
  <2>1. stream_list'[frame.fd] = Null
    <3>1. Rel(p) = {p} /\ f # frame.fd
      BY <1>2, <1>3 DEF Rel, OpenFds
    <3> QED BY <3>1, <1>2, <1>3 DEF Turnover, Registered
  <2> QED BY <2>1, <1>3, <1>7, EndHalfFrame DEF HandlerOK
<1>11. DestroyedWhenDelivered'
  BY <1>7 DEF DestroyedWhenDelivered
<1> QED BY <1>6, <1>8, <1>9, <1>10, <1>11, Assemble

LEMMA URLNotifyData ==
  ASSUME IndInv, CallOrder, DataInv, URLNotify
  PROVE  DataInv'
<1> USE NullAssumption
<1>1. pc = "urlnotify" /\ pc \in OnStream
  BY DEF URLNotify, OnStream
<1> SUFFICES ASSUME NEW s \in Streams, s = frame.s, NEW p \in Protos, p = frame.p
             PROVE  DataInv'
  BY <1>1, InOnRead
<1>2. /\ m_protop[s] = p /\ m_waitp[p] = s /\ m_ref[p] = 1 /\ Live(p)
      /\ m_files[p] = frame.fd /\ frame.fd \in Fds /\ stream_list[frame.fd] = p
      /\ \A r \in Protos : Live(r) /\ r # p => m_waitp[r] # s
      /\ \A r \in Streams : m_protop[r] = p => r = s
  BY <1>1, InOnRead, OtherWaiter
<1>3. /\ Turnover(Null, Null, 0, p)
      /\ m_waitp' = [r \in Protos |-> IF r \in Rel(p) THEN Null ELSE m_waitp[r]]
      /\ m_protop' = [m_protop EXCEPT ![s] = Null]
      /\ created' = [created EXCEPT ![s] = FALSE]
      /\ m_offset' = [m_offset EXCEPT ![s] = 0]
      /\ EndHalf
  BY <1>2 DEF URLNotify
<1>4. /\ m_protop \in [Streams -> Protos \cup {Null}]
      /\ created \in [Streams -> BOOLEAN] /\ m_offset \in [Streams -> Nat]
      /\ Rel(p) = {p}
  BY <1>2 DEF IndInv, TypeOK, Rel
<1>5. \A r \in Protos : r # p => Same(r) /\ m_waitp'[r] = m_waitp[r]
  BY <1>2, <1>3, <1>4, TurnoverAt
<1>6. /\ \A r \in Protos : ProtoOK(r)'
      /\ BlockOK(p)'
  BY <1>2, <1>3, TurnoverProtos
<1>7. frame'.len = 0 /\ frame'.s = Null /\ pc' \in {"idle", "send"}
  BY <1>3, EndHalfFrame
<1>8. ASSUME NEW r \in Protos PROVE BlockOK(r)'
  <2>1. CASE r = p
    BY <2>1, <1>6
  <2>2. CASE r # p /\ ~Live(r)
    BY <2>2, <1>5 DEF BlockOK, Live, Same
  <2>3. CASE r # p /\ Live(r)
    <3>1. BlockOK(r) /\ Same(r) /\ m_waitp'[r] = m_waitp[r]
      BY <2>3, <1>5 DEF DataInv
    <3>2. m_waitp[r] \in Streams /\ m_waitp[r] # s
      BY <2>3, <1>2 DEF IndInv, Ownership
    <3>3. created'[m_waitp[r]] = created[m_waitp[r]]
      BY <3>2, <1>3, <1>4
    <3> QED BY <3>1, <3>2, <3>3, <2>3, <1>1, <1>2 DEF BlockOK, Live, Same
  <2> QED BY <2>1, <2>2, <2>3
<1>9. ASSUME NEW r \in Streams PROVE DeliveredOK(r)'
  <2>1. CASE r = s
    BY <2>1, <1>3, <1>4 DEF DeliveredOK
  <2>2. CASE r # s /\ m_protop[r] = Null
    BY <2>2, <1>3, <1>4 DEF DeliveredOK
  <2>3. CASE r # s /\ m_protop[r] # Null
    <3>1. m_protop[r] \in Protos /\ m_protop[r] # p /\ m_protop'[r] = m_protop[r]
          /\ created'[r] = created[r] /\ m_offset'[r] = m_offset[r]
      BY <2>3, <1>2, <1>3, <1>4 DEF IndInv, Ownership
    <3>2. DeliveredOK(r) /\ Handed(r)' = 0 /\ Handed(r) = 0 /\ Same(m_protop[r])
      BY <3>1, <2>3, <1>5, <1>7 DEF DataInv, Handed
    <3> QED BY <3>1, <3>2 DEF DeliveredOK, Position, Connected, Same
  <2> QED BY <2>1, <2>2, <2>3
<1>10. HandlerOK'
  <2>1. stream_list'[frame.fd] = Null
    BY <1>2, <1>3, <1>4 DEF Turnover, Registered
  <2> QED BY <2>1, <1>3, <1>7, EndHalfFrame DEF HandlerOK
<1>11. DestroyedWhenDelivered'
  BY <1>7 DEF DestroyedWhenDelivered
<1> QED BY <1>6, <1>8, <1>9, <1>10, <1>11, Assemble

-----------------------------------------------------------------------------
(* Events and the network.                                                 *)

LEMMA NotifyData ==
  ASSUME IndInv, DataInv, NEW p \in Protos, NEW cond \in SUBSET {"READ", "WRITE"},
         Notify(p, cond)
  PROVE  DataInv'
<1>1. /\ pc = "idle" /\ Live(p) /\ cond # {} /\ cond \subseteq interest[p] \cap Ready(p)
      /\ UNCHANGED <<sockVars, protoVars, streamVars, netVars>>
  BY DEF Notify
<1>2. /\ pc' = IF "READ" \in cond THEN "read" ELSE "send"
      /\ frame'.fd = m_files[p] /\ frame'.p = p /\ frame'.len = 0
      /\ frame'.more = (cond = {"READ", "WRITE"})
  BY DEF Notify, NoFrame
<1>3. frame.len = 0
  BY <1>1 DEF DataInv, HandlerOK
<1>4. \A q \in Protos : ProtoOK(q)'
  BY <1>1, QuietProtos
<1>5. ASSUME NEW q \in Protos PROVE BlockOK(q)'
  BY <1>1 DEF DataInv, BlockOK, Live, sockVars, protoVars, streamVars
<1>6. ASSUME NEW s \in Streams PROVE DeliveredOK(s)'
  <2>1. DeliveredOK(s) /\ Handed(s)' = 0 /\ Handed(s) = 0
    BY <1>2, <1>3 DEF DataInv, Handed
  <2> QED BY <1>1, <2>1
      DEF DeliveredOK, Position, Connected, sockVars, protoVars, streamVars, netVars
<1>7. HandlerOK'
  <2>1. CASE "READ" \in cond
    <3>1. pc' = "read" /\ Readable(p)
      BY <2>1, <1>1, <1>2 DEF Ready
    <3>2. frame'.more => "WRITE" \in interest'[p]
      BY <1>1, <1>2 DEF sockVars
    <3>3. Readable(p)'
      BY <3>1, <1>1 DEF Readable, netVars
    <3> QED BY <3>1, <3>2, <3>3, <1>2 DEF HandlerOK
  <2>2. CASE "READ" \notin cond
    <3>1. pc' = "send" /\ "WRITE" \in interest'[p] /\ cond # {"READ", "WRITE"}
      BY <2>2, <1>1, <1>2 DEF sockVars
    <3> QED BY <3>1, <1>2 DEF HandlerOK
  <2> QED BY <2>1, <2>2
<1>8. DestroyedWhenDelivered'
  BY <1>2 DEF DestroyedWhenDelivered
<1> QED BY <1>4, <1>5, <1>6, <1>7, <1>8, Assemble

\* The network only adds: units and an answer while the connection is open, then its end.
LEMMA NetworkAt ==
  ASSUME IndInv, Network, NEW q \in Protos
  PROVE  /\ rd'[q] = rd[q] /\ rx[q] \in Nat /\ rx'[q] \in Nat /\ rx[q] <= rx'[q]
         /\ resp[q] # Null => resp'[q] = resp[q]
         /\ resp'[q] = Null => rx'[q] = rx[q]
         /\ conn[q] = "eof" => conn'[q] \in {"eof", "rst"} /\ rx'[q] = rx[q] /\ resp'[q] = resp[q]
         /\ conn[q] = "rst" => conn'[q] = "rst" /\ rx'[q] = rx[q] /\ resp'[q] = resp[q]
<1>1. PICK p \in Protos : \/ Accept(p) \/ Arrive(p) \/ Close(p) \/ Reset(p)
                          \/ \E r \in Responses : Answer(p, r)
  BY DEF Network
<1>2. /\ rx \in [Protos -> Nat] /\ resp \in [Protos -> Responses \cup {Null}]
      /\ conn \in [Protos -> {"none", "connecting", "open", "eof", "rst"}]
      /\ rx[q] \in Nat /\ rx[q] + 1 \in Nat /\ rx[q] <= rx[q] + 1 /\ rx[q] <= rx[q]
  BY DEF IndInv, TypeOK
<1>3. Null \notin Responses
  BY ResponseAssumption
<1>4. rd' = rd
  BY <1>1 DEF Accept, Arrive, Close, Reset, Answer, ServerStep
<1>5. CASE Accept(p)
  BY <1>2, <1>4, <1>5 DEF Accept
<1>6. CASE Arrive(p)
  BY <1>2, <1>4, <1>6 DEF Arrive
<1>7. CASE Close(p)
  BY <1>2, <1>4, <1>7 DEF Close
<1>8. CASE Reset(p)
  BY <1>2, <1>4, <1>8 DEF Reset
<1>9. CASE \E r \in Responses : Answer(p, r)
  BY <1>2, <1>3, <1>4, <1>9 DEF Answer
<1> QED BY <1>1, <1>5, <1>6, <1>7, <1>8, <1>9

LEMMA NetworkData ==
  ASSUME IndInv, CallOrder, DataInv, Network
  PROVE  DataInv'
<1>1. UNCHANGED <<sockVars, protoVars, streamVars, pc, frame, rd>>
  BY DEF Network, Accept, Arrive, Close, Reset, Answer, ServerStep
<1>2. ASSUME NEW q \in Protos
      PROVE  /\ Readable(q) => Readable(q)'
             /\ HasCause(q) => HasCause(q)'
             /\ ReadingOK(q)'
             /\ Connected(q)' = Connected(q)
             /\ Connected(q) => resp'[q] = resp[q]
             /\ Position(q)' = Position(q)
  <2>1. Readable(q) => Readable(q)'
    <3>1. rd[q] \in Nat
      BY Types
    <3> QED BY <3>1, NetworkAt DEF Readable
  <2>2. HasCause(q) => HasCause(q)'
    <3>1. CASE conn[q] = "rst"
      BY <3>1, NetworkAt DEF HasCause
    <3>2. CASE conn[q] = "eof" /\ (resp[q] = Null \/ rx[q] < resp[q].hdr + IF resp[q].long THEN Look ELSE 0)
      <4>1. conn'[q] \in {"eof", "rst"} /\ rx'[q] = rx[q] /\ resp'[q] = resp[q]
        BY <3>2, NetworkAt
      <4> QED BY <3>2, <4>1 DEF HasCause
    <3>3. CASE /\ resp[q] # Null /\ ChunkLen < resp[q].hdr + (IF resp[q].long THEN Look ELSE 0)
               /\ rx[q] >= ChunkLen
      <4>1. resp'[q] = resp[q] /\ rx'[q] >= ChunkLen
        <5>1. ChunkLen \in Nat
          BY SizeAssumption
        <5> QED BY <5>1, <3>3, NetworkAt
      <4> QED BY <3>3, <4>1 DEF HasCause
    <3> QED BY <3>1, <3>2, <3>3 DEF HasCause
  <2>3. /\ ReadingOK(q) /\ m_ref'[q] = m_ref[q] /\ m_flags'[q] = m_flags[q]
        /\ m_chunk'[q] = m_chunk[q] /\ rd'[q] = rd[q]
    BY <1>1 DEF DataInv, protoVars
  <2>4. Connected(q) => resp'[q] = resp[q] /\ resp[q] # Null
    BY <2>3, NetworkAt DEF ReadingOK
  <2>5. resp'[q] = Null => rx'[q] = 0
    BY <2>3, NetworkAt DEF ReadingOK
  <2>6. ReadingOK(q)'
    BY <2>3, <2>4, <2>5 DEF ReadingOK, Live, Connected
  <2> QED BY <2>1, <2>2, <2>3, <2>4, <2>6 DEF Connected, Position
<1>3. ASSUME NEW q \in Protos PROVE ProtoOK(q)'
  <2>1. EventsOK(q) /\ ("ERROR" \in m_flags[q] => HasCause(q))
    BY DEF DataInv, ErrorHasCause
  <2> QED BY <2>1, <1>1, <1>2 DEF ProtoOK, EventsOK, Live, sockVars, protoVars
<1>4. ASSUME NEW q \in Protos PROVE BlockOK(q)'
  BY <1>1 DEF DataInv, BlockOK, Live, sockVars, protoVars, streamVars
<1>5. ASSUME NEW s \in Streams PROVE DeliveredOK(s)'
  <2>1. CASE m_protop[s] = Null
    BY <2>1, <1>1 DEF DeliveredOK, streamVars
  <2>2. CASE m_protop[s] # Null
    <3>1. m_protop[s] \in Protos /\ DeliveredOK(s)
      BY <2>2 DEF IndInv, Ownership, DataInv
    <3>2. Handed(s)' = Handed(s)
      BY <1>1 DEF Handed
    <3> QED BY <3>1, <3>2, <2>2, <1>1, <1>2, NetworkAt DEF DeliveredOK, protoVars, streamVars
  <2> QED BY <2>1, <2>2
<1>6. HandlerOK'
  <2>1. pc = "read" => frame.p \in Protos
    BY DEF IndInv, FrameOK
  <2>2. pc \in {"newstream", "write"} =>
          m_protop[frame.s] \in Protos /\ resp'[m_protop[frame.s]] = resp[m_protop[frame.s]]
          /\ Connected(m_protop[frame.s])
    BY <1>1, <1>2, InOnRead DEF DataInv, HandlerOK, OnStream
  <2> QED BY <2>1, <2>2, <1>1, <1>2 DEF DataInv, HandlerOK, Connected, sockVars, protoVars, streamVars
<1>7. DestroyedWhenDelivered'
  <2> SUFFICES ASSUME pc = "destroystream" PROVE DestroyedWhenDelivered'
    BY <1>1 DEF DestroyedWhenDelivered
  <2>1. m_protop[frame.s] \in Protos
    BY InOnRead DEF OnStream
  <2>2. DestroyedWhenDelivered
    BY DEF DataInv
  <2> QED BY <2>1, <2>2, <1>1, NetworkAt DEF DestroyedWhenDelivered, protoVars, streamVars
<1> QED BY <1>3, <1>4, <1>5, <1>6, <1>7, Assemble

-----------------------------------------------------------------------------
(* The read half.                                                          *)

\* What recv_chunk reports: an error is a reset, 0 is a full m_chunk or the end of the
\* connection, and EWOULDBLOCK with a full m_chunk is what the last call left behind.
LEMMA RecvChunkReport ==
  ASSUME IndInv, NEW p \in Protos, "CREATED" \notin m_flags[p]
  PROVE  LET got == RecvChunk(p)
             full == m_chunk[p].off = ChunkLen
         IN /\ got.n \in Nat /\ m_chunk[p].off + got.n <= ChunkLen /\ rd[p] + got.n <= rx[p]
            /\ got.ret = -1 /\ got.errno # "EWOULDBLOCK" => got.errno = "fatal" /\ conn[p] = "rst"
            /\ got.ret = 0 => \/ full /\ got.n = 0 /\ got.errno = last_error[p]
                              \/ conn[p] = "eof" /\ got.errno = "none" /\ rd[p] + got.n = rx[p]
            /\ m_chunk[p].off + got.n = ChunkLen /\ got.errno = "EWOULDBLOCK" => got.ret = 0
<1> DEFINE room == ChunkLen - m_chunk[p].off
           n == MinOf(room, rx[p] - rd[p])
<1>1. /\ ChunkLen \in Nat /\ m_chunk[p].off \in Nat /\ m_chunk[p].off <= ChunkLen
      /\ rx[p] \in Nat /\ rd[p] \in Nat /\ rd[p] <= rx[p]
  BY Types
<1>2. room \in Nat /\ rx[p] - rd[p] \in Nat
  BY <1>1
<1>3. n \in Nat /\ n <= room /\ n <= rx[p] - rd[p] /\ (n # room => n = rx[p] - rd[p])
  BY <1>2 DEF MinOf
<1>4. /\ RecvErrno(p) # "EWOULDBLOCK" => \/ conn[p] = "rst" /\ RecvErrno(p) = "fatal"
                                         \/ conn[p] = "eof" /\ RecvErrno(p) = "none"
      /\ conn[p] = "eof" => RecvErrno(p) = "none"
  BY DEF RecvErrno
<1>5. CASE room = 0
  <2>1. RecvChunk(p) = [n |-> 0, ret |-> 0, errno |-> last_error[p]]
    BY <1>5 DEF RecvChunk
  <2>2. m_chunk[p].off = ChunkLen /\ 0 \in Nat /\ rd[p] + 0 <= rx[p] /\ 0 # -1
    BY <1>1, <1>5
  <2> HIDE DEF n, room
  <2> QED BY <2>1, <2>2, <1>1
<1>6. CASE room # 0 /\ n = room
  <2>1. RecvChunk(p) = [n |-> n, ret |-> n, errno |-> "none"]
    BY <1>6 DEF RecvChunk
  <2>2. n # 0 /\ n # -1 /\ m_chunk[p].off + n <= ChunkLen /\ rd[p] + n <= rx[p]
    BY <1>1, <1>3, <1>6
  <2> HIDE DEF n, room
  <2> QED BY <2>1, <2>2, <1>3
<1>7. CASE room # 0 /\ n # room
  <2>1. RecvChunk(p) = [n |-> n, ret |-> IF conn[p] = "eof" THEN 0 ELSE -1,
                        errno |-> RecvErrno(p)]
    BY <1>7 DEF RecvChunk
  <2>2. /\ m_chunk[p].off + n <= ChunkLen /\ rd[p] + n = rx[p] /\ rd[p] + n <= rx[p]
        /\ m_chunk[p].off + n # ChunkLen /\ 0 # -1
    BY <1>1, <1>3, <1>7
  <2> HIDE DEF n, room
  <2>3. CASE conn[p] = "eof"
    BY <2>1, <2>2, <2>3, <1>3, <1>4
  <2>4. CASE conn[p] # "eof"
    BY <2>1, <2>2, <2>4, <1>3, <1>4
  <2> QED BY <2>3, <2>4
<1> QED BY <1>5, <1>6, <1>7

\* A response whose header is not complete is handled as ReadResponse says.
LEMMA ReadResponseData ==
  ASSUME IndInv, CallOrder, DataInv, pc = "read", NEW p \in Protos, p = frame.p, Live(p),
         NEW s \in Streams, m_waitp[p] = s, m_protop[s] = p, "CREATED" \notin m_flags[p],
         ReadResponse(p), frame'.len = 0, connected'[p] = TRUE,
         Wake(p) => pc' = "onread" /\ frame'.p = p,
         UNCHANGED <<interest, m_ref, m_waitp, streamVars, conn, rx, resp>>
  PROVE  ProtoOK(p)' /\ BlockOK(p)' /\ DeliveredOK(s)'
<1> DEFINE got == RecvChunk(p)
           off == m_chunk[p].off + got.n
<1>1. /\ ReadingOK(p) /\ BlockOK(p) /\ Readable(p) /\ "READ" \in interest[p]
      /\ "ERROR" \notin m_flags[p] /\ m_flags[p] = {} /\ rd[p] = m_chunk[p].off
      /\ ~created[s] /\ m_offset[s] = 0 /\ s # Null
  <2>1. m_flags[p] \subseteq Broken
    BY Types
  <2>2. ReadingOK(p) /\ EventsOK(p) /\ BlockOK(p) /\ DeliveredOK(s) /\ Readable(p)
    BY DEF DataInv, HandlerOK
  <2> QED BY <2>1, <2>2, NullAssumption DEF ReadingOK, EventsOK, DeliveredOK, CallOrder, Broken
<1>2. /\ got.n \in Nat /\ off <= ChunkLen /\ rd[p] + got.n <= rx[p]
      /\ got.ret = -1 /\ got.errno # "EWOULDBLOCK" => got.errno = "fatal" /\ conn[p] = "rst"
      /\ got.ret = 0 => \/ m_chunk[p].off = ChunkLen /\ got.n = 0 /\ got.errno = last_error[p]
                        \/ conn[p] = "eof" /\ got.errno = "none" /\ rd[p] + got.n = rx[p]
      /\ off = ChunkLen /\ got.errno = "EWOULDBLOCK" => got.ret = 0
  BY RecvChunkReport
<1>3. /\ rd' = [rd EXCEPT ![p] = @ + got.n]
      /\ last_error' = [last_error EXCEPT ![p] = got.errno]
      /\ IF got.ret = -1 /\ got.errno # "EWOULDBLOCK"
         THEN /\ m_flags' = [m_flags EXCEPT ![p] = @ \cup Broken]
              /\ m_chunk' = [m_chunk EXCEPT ![p].off = off]
              /\ Wake(p)
         ELSE IF HeaderDone(p, off)
         THEN /\ m_flags' = [m_flags EXCEPT ![p] = @ \cup {"CREATED"}]
              /\ m_chunk' = [m_chunk EXCEPT ![p] = [off |-> BodyStart(p), len |-> off]]
              /\ Wake(p)
         ELSE /\ m_chunk' = [m_chunk EXCEPT ![p].off = off]
              /\ IF got.ret = 0
                 THEN m_flags' = [m_flags EXCEPT ![p] = @ \cup Broken] /\ Wake(p)
                 ELSE m_flags' = m_flags /\ EndHalf
  BY DEF ReadResponse
<1> HIDE DEF got
<1>4. /\ rd \in [Protos -> Nat] /\ last_error \in [Protos -> Errno]
      /\ m_flags \in [Protos -> SUBSET Broken] /\ m_chunk \in [Protos -> [off : Nat, len : Nat]]
      /\ rd[p] \in Nat /\ rx[p] \in Nat /\ rd[p] <= rx[p] /\ ChunkLen \in Nat \ {0} /\ Look \in Nat
      /\ m_chunk[p].len = ChunkLen /\ resp[p] \in ResponseSpace \cup {Null}
  BY Types DEF IndInv, TypeOK
<1>5. /\ off \in Nat /\ rd'[p] = off /\ last_error'[p] = got.errno
      /\ off <= rx[p]
  BY <1>1, <1>2, <1>3, <1>4
<1> HIDE DEF off
<1>6. /\ m_ref'[p] = m_ref[p] /\ interest'[p] = interest[p] /\ conn'[p] = conn[p]
      /\ rx'[p] = rx[p] /\ resp'[p] = resp[p] /\ m_waitp'[p] = s
      /\ m_protop'[s] = p /\ ~created'[s] /\ m_offset'[s] = 0 /\ Handed(s)' = 0
  BY <1>1 DEF streamVars, Handed
<1>7. Live(p) /\ Live(p)' /\ (resp[p] = Null => rx[p] = 0)
  BY <1>1, <1>6 DEF Live, ReadingOK
<1>8. ASSUME m_flags'[p] = Broken, m_chunk'[p].off = off, HasCause(p)', Readable(p)',
             interest[p] = {"READ", "WRITE"} \/ (Wake(p) /\ got.errno # "EWOULDBLOCK")
      PROVE  ProtoOK(p)' /\ BlockOK(p)' /\ DeliveredOK(s)'
  <2>1. "ERROR" \in m_flags'[p] /\ "CREATED" \in m_flags'[p] /\ ~Connected(p)'
    BY <1>8 DEF Connected, Broken
  <2>2. ReadingOK(p)' /\ EventsOK(p)'
    BY <2>1, <1>1, <1>6, <1>7, <1>8 DEF ReadingOK, EventsOK
  <2>3. BlockOK(p)'
    BY <2>1, <1>5, <1>6, <1>8 DEF BlockOK
  <2>4. DeliveredOK(s)'
    BY <2>1, <1>6 DEF DeliveredOK
  <2> QED BY <2>2, <2>3, <2>4, <1>8 DEF ProtoOK
<1>9. CASE got.ret = -1 /\ got.errno # "EWOULDBLOCK"
  <2>1. m_flags'[p] = Broken /\ m_chunk'[p].off = off /\ Wake(p)
    BY <1>1, <1>3, <1>4, <1>9
  <2>2. HasCause(p)' /\ Readable(p)'
    BY <1>2, <1>6, <1>9 DEF HasCause, Readable
  <2> QED BY <2>1, <2>2, <1>8, <1>9
<1>10. CASE ~(got.ret = -1 /\ got.errno # "EWOULDBLOCK") /\ HeaderDone(p, off)
  <2>1. m_flags'[p] = {"CREATED"} /\ m_chunk'[p] = [off |-> resp[p].hdr, len |-> off]
    BY <1>1, <1>3, <1>4, <1>10 DEF BodyStart
  <2>2. /\ m_chunk'[p].off = resp[p].hdr /\ m_chunk'[p].len = off
        /\ resp[p] # Null /\ off >= resp[p].hdr /\ resp[p].hdr \in Nat
    BY <2>1, <1>4, <1>10 DEF HeaderDone, ResponseSpace
  <2>3. Connected(p)' /\ "ERROR" \notin m_flags'[p] /\ "CREATED" \in m_flags'[p]
    BY <2>1 DEF Connected, Broken
  <2>4. Position(p)' = resp[p].hdr
    BY <2>2, <1>5 DEF Position
  <2>5. ReadingOK(p)' /\ EventsOK(p)' /\ BlockOK(p)'
    BY <2>2, <2>3, <1>1, <1>5, <1>6, <1>7 DEF ReadingOK, EventsOK, BlockOK
  <2>6. DeliveredOK(s)'
    BY <2>2, <2>3, <2>4, <1>6 DEF DeliveredOK
  <2> QED BY <2>3, <2>5, <2>6 DEF ProtoOK
<1>11. CASE ~(got.ret = -1 /\ got.errno # "EWOULDBLOCK") /\ ~HeaderDone(p, off) /\ got.ret = 0
  <2>1. m_flags'[p] = Broken /\ m_chunk'[p].off = off /\ Wake(p)
    BY <1>1, <1>3, <1>4, <1>11
  <2>2. resp[p] = Null \/ off < resp[p].hdr + IF resp[p].long THEN Look ELSE 0
    <3> SUFFICES ASSUME resp[p] # Null
                 PROVE  off < resp[p].hdr + IF resp[p].long THEN Look ELSE 0
      OBVIOUS
    <3>1. resp[p].hdr \in Nat
      BY <1>4 DEF ResponseSpace
    <3> QED BY <3>1, <1>4, <1>5, <1>11 DEF HeaderDone
  <2>3. CASE m_chunk[p].off = ChunkLen /\ got.n = 0 /\ got.errno = last_error[p]
    <3>1. off = ChunkLen /\ rd'[p] = rd[p] /\ rx[p] >= ChunkLen /\ resp[p] # Null
      BY <2>3, <1>1, <1>4, <1>5, <1>7 DEF off
    <3>2. HasCause(p)' /\ Readable(p)'
      BY <3>1, <2>2, <1>1, <1>6 DEF HasCause, Readable
    <3>3. interest[p] = {"READ", "WRITE"} \/ got.errno # "EWOULDBLOCK"
      BY <2>3, <1>1, <1>7 DEF BlockOK
    <3> QED BY <3>2, <3>3, <2>1, <1>8
  <2>4. CASE conn[p] = "eof" /\ got.errno = "none" /\ rd[p] + got.n = rx[p]
    <3>1. off = rx[p]
      BY <2>4, <1>1 DEF off
    <3>2. HasCause(p)' /\ Readable(p)'
      BY <3>1, <2>2, <2>4, <1>6 DEF HasCause, Readable
    <3> QED BY <3>2, <2>1, <2>4, <1>8
  <2> QED BY <2>3, <2>4, <1>2, <1>11
<1>12. CASE ~(got.ret = -1 /\ got.errno # "EWOULDBLOCK") /\ ~HeaderDone(p, off) /\ got.ret # 0
  <2>1. m_flags'[p] = {} /\ m_chunk'[p].off = off
    BY <1>1, <1>3, <1>4, <1>12
  <2>2. ~Connected(p)' /\ ~(off = ChunkLen /\ got.errno = "EWOULDBLOCK")
    BY <2>1, <1>2, <1>12 DEF Connected, off
  <2>3. ReadingOK(p)' /\ EventsOK(p)' /\ BlockOK(p)'
    BY <2>1, <2>2, <1>1, <1>5, <1>6, <1>7 DEF ReadingOK, EventsOK, BlockOK
  <2>4. DeliveredOK(s)'
    BY <2>2, <1>6 DEF DeliveredOK
  <2> QED BY <2>1, <2>3, <2>4 DEF ProtoOK
<1> QED BY <1>9, <1>10, <1>11, <1>12

\* A half that works on the proto_stream p of the stream s leaves the others alone.
LEMMA OtherData ==
  ASSUME IndInv, DataInv, pc \in {"read", "send"}, frame.len = 0, frame'.len = 0,
         NEW p \in Protos, NEW s \in Streams, Live(p), m_waitp[p] = s, m_protop[s] = p,
         \A q \in Protos : q # p => Same(q), UNCHANGED <<m_waitp, streamVars>>
  PROVE  /\ \A q \in Protos : q # p => ProtoOK(q)' /\ BlockOK(q)'
         /\ \A r \in Streams : r # s => DeliveredOK(r)'
<1>1. ASSUME NEW q \in Protos, q # p PROVE ProtoOK(q)' /\ BlockOK(q)'
  <2>1. ProtoOK(q) /\ BlockOK(q) /\ Same(q)
    BY <1>1 DEF DataInv, ProtoOK, ErrorHasCause
  <2>2. BlockOK(q)'
    BY <2>1 DEF BlockOK, Live, Same, streamVars
  <2> QED BY <2>1, <2>2, SameProto
<1>2. ASSUME NEW r \in Streams, r # s PROVE DeliveredOK(r)'
  <2>1. DeliveredOK(r) /\ Handed(r)' = 0 /\ Handed(r) = 0
    BY DEF DataInv, Handed
  <2>2. m_protop[r] # Null => m_protop[r] \in Protos /\ m_protop[r] # p /\ Same(m_protop[r])
    BY <1>2 DEF IndInv, Ownership
  <2> QED BY <2>1, <2>2 DEF DeliveredOK, Position, Connected, Same, streamVars
<1> QED BY <1>1, <1>2

\* The stream that waits for the proto_stream a half was entered for.
LEMMA HalfStream ==
  ASSUME IndInv, frame.fd \in Fds, NEW p \in Protos, stream_list[frame.fd] = p
  PROVE  Live(p) /\ \E s \in Streams : m_waitp[p] = s /\ m_protop[s] = p /\ s # Null
BY NullAssumption DEF IndInv, SocketTable, Ownership

LEMMA ReadHalfData ==
  ASSUME IndInv, CallOrder, DataInv, ReadHalf
  PROVE  DataInv'
<1>1. pc = "read" /\ frame.fd \in Fds /\ frame.p \in Protos /\ stream_list[frame.fd] = frame.p
      /\ frame \in Frames
  BY DEF ReadHalf, IndInv, FrameOK, TypeOK
<1> SUFFICES ASSUME NEW p \in Protos, p = frame.p,
                    NEW s \in Streams, m_waitp[p] = s, m_protop[s] = p, s # Null, Live(p)
             PROVE  DataInv'
  BY <1>1, HalfStream
<1>2. /\ UNCHANGED <<m_files, interest, stream_list, m_ref, m_waitp, m_header, streamVars,
                     conn, rx, resp>>
      /\ connected' = [connected EXCEPT ![p] = TRUE]
      /\ IF "CREATED" \in m_flags[p]
         THEN Wake(p) /\ UNCHANGED <<m_flags, m_chunk, last_error, rd>>
         ELSE ReadResponse(p)
  BY <1>1 DEF ReadHalf
<1>3. frame.len = 0
  BY <1>1 DEF DataInv, HandlerOK
<1>4. Wake(p) => /\ pc' = "onread" /\ frame'.p = p /\ frame'.len = 0
                 /\ frame'.fd = frame.fd /\ frame'.more = frame.more
  BY <1>1, <1>3 DEF Wake, Frames
<1>5. Wake(p) \/ EndHalf
  BY <1>2 DEF ReadResponse
<1>6. frame'.len = 0 /\ pc' \in {"idle", "send", "onread"}
  BY <1>4, <1>5, EndHalfFrame
<1>7. connected'[p] = TRUE
  BY <1>2 DEF IndInv, TypeOK
<1>8. ASSUME NEW q \in Protos, q # p PROVE Same(q)
  <2>1. CASE "CREATED" \in m_flags[p]
    BY <1>2, <1>8, <2>1 DEF Same
  <2>2. CASE "CREATED" \notin m_flags[p]
    <3>1. /\ rd'[q] = rd[q] /\ last_error'[q] = last_error[q]
          /\ m_flags'[q] = m_flags[q] /\ m_chunk'[q] = m_chunk[q]
      BY <1>2, <1>8, <2>2 DEF ReadResponse, IndInv, TypeOK
    <3> QED BY <3>1, <1>2, <1>8 DEF Same
  <2> QED BY <2>1, <2>2
<1>9. ProtoOK(p)' /\ BlockOK(p)' /\ DeliveredOK(s)'
  <2>1. CASE "CREATED" \in m_flags[p]
    <3>1. ProtoOK(p) /\ BlockOK(p) /\ DeliveredOK(s) /\ Handed(s) = 0 /\ Handed(s)' = 0
      BY <1>3, <1>6 DEF DataInv, ProtoOK, ErrorHasCause, Handed
    <3>2. ProtoOK(p)'
      BY <3>1, <2>1, <1>2, <1>7
      DEF ProtoOK, ReadingOK, EventsOK, HasCause, Live, Connected, Readable
    <3>3. BlockOK(p)'
      BY <3>1, <2>1, <1>1, <1>2 DEF BlockOK, Live, streamVars
    <3>4. DeliveredOK(s)'
      BY <3>1, <2>1, <1>2 DEF DeliveredOK, Position, Connected, streamVars
    <3> QED BY <3>2, <3>3, <3>4
  <2>2. CASE "CREATED" \notin m_flags[p]
    BY <2>2, <1>1, <1>2, <1>4, <1>6, <1>7, ReadResponseData
  <2> QED BY <2>1, <2>2
<1>10. /\ \A q \in Protos : q # p => ProtoOK(q)' /\ BlockOK(q)'
       /\ \A r \in Streams : r # s => DeliveredOK(r)'
  BY <1>1, <1>2, <1>3, <1>6, <1>8, OtherData
<1>11. HandlerOK'
  <2>1. CASE Wake(p)
    BY <2>1, <1>1, <1>2, <1>4 DEF DataInv, HandlerOK
  <2>2. CASE EndHalf
    BY <2>2, <1>1, <1>2, EndHalfFrame DEF DataInv, HandlerOK
  <2> QED BY <2>1, <2>2, <1>5
<1>12. DestroyedWhenDelivered'
  BY <1>6 DEF DestroyedWhenDelivered
<1> QED BY <1>9, <1>10, <1>11, <1>12, Assemble

-----------------------------------------------------------------------------
(* The write half.                                                         *)

LEMMA WriteHalfData ==
  ASSUME IndInv, CallOrder, DataInv, WriteHalf
  PROVE  DataInv'
<1>1. /\ pc = "send" /\ frame.fd \in Fds /\ frame.p \in Protos /\ frame \in Frames
      /\ stream_list[frame.fd] \in {Null, frame.p} /\ frame.p # Null
      /\ ~frame.more /\ frame.len = 0
  BY NullAssumption DEF WriteHalf, IndInv, FrameOK, TypeOK, DataInv, HandlerOK
<1>2. UNCHANGED <<m_files, stream_list, m_ref, m_waitp, m_chunk, streamVars, netVars>>
  BY DEF WriteHalf
<1>3. CASE stream_list[frame.fd] = Null
  <2>1. /\ pc' = "idle" /\ frame'.len = 0 /\ frame'.s = Null
        /\ UNCHANGED <<connected, interest, m_header, last_error, m_flags>>
    BY <1>1, <1>3 DEF WriteHalf, NoFrame
  <2>2. UNCHANGED <<sockVars, protoVars, netVars>>
    BY <2>1, <1>2 DEF sockVars, protoVars
  <2>3. \A q \in Protos : ProtoOK(q)'
    BY <2>2, QuietProtos
  <2>4. ASSUME NEW q \in Protos PROVE BlockOK(q)'
    BY <2>1, <1>1, <1>2 DEF DataInv, BlockOK, Live, streamVars
  <2>5. ASSUME NEW r \in Streams PROVE DeliveredOK(r)'
    <3>1. DeliveredOK(r) /\ Handed(r)' = 0 /\ Handed(r) = 0
      BY <2>1, <1>1 DEF DataInv, Handed
    <3> QED BY <3>1, <2>1, <1>2 DEF DeliveredOK, Position, Connected, streamVars, netVars
  <2>6. HandlerOK' /\ DestroyedWhenDelivered'
    BY <2>1 DEF HandlerOK, DestroyedWhenDelivered
  <2> QED BY <2>3, <2>4, <2>5, <2>6, Assemble
<1>4. CASE stream_list[frame.fd] = frame.p
  <2> SUFFICES ASSUME NEW p \in Protos, p = frame.p,
                      NEW s \in Streams, m_waitp[p] = s, m_protop[s] = p, s # Null, Live(p)
               PROVE  DataInv'
    BY <1>1, <1>4, HalfStream
  <2>1. /\ interest' = [interest EXCEPT ![p] = AfterConnect(p)]
        /\ connected' = [connected EXCEPT ![p] = TRUE]
        /\ SendRequest(p)
    BY <1>1, <1>4 DEF WriteHalf
  <2>2. /\ interest \in [Protos -> SUBSET {"READ", "WRITE"}] /\ connected \in [Protos -> BOOLEAN]
        /\ last_error \in [Protos -> Errno] /\ m_flags \in [Protos -> SUBSET Broken]
        /\ rd[p] \in Nat /\ ChunkLen \in Nat \ {0}
    BY Types DEF IndInv, TypeOK
  <2>3. /\ ProtoOK(p) /\ BlockOK(p) /\ DeliveredOK(s)
        /\ interest[p] = {"READ", "WRITE"}
    <3>1. ProtoOK(p) /\ BlockOK(p) /\ DeliveredOK(s) /\ EventsOK(p)
      BY DEF DataInv, ProtoOK, ErrorHasCause
    <3>2. "WRITE" \in interest[p] /\ "READ" \in interest[p]
      BY <3>1, <1>1, <1>4 DEF DataInv, HandlerOK, EventsOK
    <3> QED BY <3>1, <3>2, <2>2
  <2>4. /\ connected'[p] = TRUE /\ "READ" \in interest'[p]
        /\ connected[p] => interest'[p] = {"READ", "WRITE"}
    BY <2>1, <2>2, <2>3 DEF AfterConnect
  <2>5. \/ /\ conn[p] = "rst" /\ m_flags'[p] = Broken /\ Wake(p)
           /\ m_flags' = [m_flags EXCEPT ![p] = Broken]
           /\ last_error' = [last_error EXCEPT ![p] = "fatal"]
        \/ /\ EndHalf /\ UNCHANGED m_flags
           /\ \A q \in Protos : q # p => last_error'[q] = last_error[q]
    <3>1. CASE m_header[p] = ReqLen
      BY <3>1, <2>1 DEF SendRequest
    <3>2. CASE m_header[p] # ReqLen /\ conn[p] = "rst"
      <4>1. m_flags[p] \cup Broken = Broken
        BY <2>2 DEF Broken
      <4> QED BY <3>2, <4>1, <2>1, <2>2 DEF SendRequest
    <3>3. CASE m_header[p] # ReqLen /\ conn[p] # "rst"
      BY <3>3, <2>1, <2>2 DEF SendRequest
    <3> QED BY <3>1, <3>2, <3>3
  <2>6. Wake(p) => /\ pc' = "onread" /\ frame'.p = p /\ frame'.len = 0
                   /\ frame'.fd = frame.fd /\ ~frame'.more
    BY <1>1 DEF Wake, Frames
  <2>7. EndHalf => pc' = "idle" /\ frame'.len = 0
    BY <1>1 DEF EndHalf, NoFrame
  <2>8. ASSUME NEW q \in Protos, q # p PROVE Same(q)
    <3>1. /\ interest'[q] = interest[q] /\ connected'[q] = connected[q]
          /\ m_flags'[q] = m_flags[q] /\ last_error'[q] = last_error[q]
      BY <2>1, <2>2, <2>5, <2>8
    <3> QED BY <3>1, <1>2 DEF Same, netVars
  <2>9. /\ \A q \in Protos : q # p => ProtoOK(q)' /\ BlockOK(q)'
        /\ \A r \in Streams : r # s => DeliveredOK(r)'
    BY <1>1, <1>2, <2>5, <2>6, <2>7, <2>8, OtherData
  <2>10. Handed(s) = 0 /\ Handed(s)' = 0
    BY <1>1, <2>5, <2>6, <2>7 DEF Handed
  <2>11. /\ m_ref'[p] = m_ref[p] /\ m_chunk'[p] = m_chunk[p] /\ m_waitp'[p] = s
         /\ m_protop'[s] = p /\ created'[s] = created[s] /\ m_offset'[s] = m_offset[s]
         /\ conn'[p] = conn[p] /\ rx'[p] = rx[p] /\ rd'[p] = rd[p] /\ resp'[p] = resp[p]
    BY <1>2 DEF streamVars, netVars
  <2>12. ProtoOK(p)' /\ BlockOK(p)' /\ DeliveredOK(s)'
    <3>1. CASE /\ conn[p] = "rst" /\ m_flags'[p] = Broken /\ Wake(p)
               /\ last_error' = [last_error EXCEPT ![p] = "fatal"]
      <4>1. /\ "ERROR" \in m_flags'[p] /\ "CREATED" \in m_flags'[p] /\ ~Connected(p)'
            /\ last_error'[p] = "fatal"
        BY <3>1, <2>2 DEF Connected, Broken
      <4>2. ReadingOK(p)' /\ EventsOK(p)' /\ HasCause(p)'
        BY <3>1, <4>1, <2>3, <2>4, <2>11
        DEF ProtoOK, ReadingOK, EventsOK, HasCause, Readable, Live
      <4>3. BlockOK(p)'
        BY <3>1, <4>1, <2>6 DEF BlockOK
      <4>4. DeliveredOK(s)'
        BY <3>1, <4>1, <2>11 DEF DeliveredOK
      <4> QED BY <4>2, <4>3, <4>4 DEF ProtoOK
    <3>2. CASE EndHalf /\ UNCHANGED m_flags
      <4>1. ProtoOK(p)'
        BY <3>2, <2>3, <2>4, <2>11
        DEF ProtoOK, ReadingOK, EventsOK, HasCause, Connected, Readable, Live
      <4>2. BlockOK(p)'
        <5>1. "ERROR" \in m_flags[p] => connected[p]
          BY <2>3 DEF ProtoOK, EventsOK
        <5>2. "CREATED" \notin m_flags[p] /\ m_chunk[p].off = ChunkLen => connected[p]
          BY <2>2, <2>3 DEF ProtoOK, ReadingOK, EventsOK
        <5> QED BY <5>1, <5>2, <3>2, <2>4, <2>11 DEF BlockOK
      <4>3. DeliveredOK(s)'
        BY <3>2, <2>3, <2>10, <2>11 DEF DeliveredOK, Position, Connected
      <4> QED BY <4>1, <4>2, <4>3
    <3> QED BY <2>5, <3>1, <3>2
  <2>13. HandlerOK'
    BY <2>5, <2>6, <2>7 DEF HandlerOK
  <2>14. DestroyedWhenDelivered'
    BY <2>5, <2>6, <2>7 DEF DestroyedWhenDelivered
  <2> QED BY <2>9, <2>12, <2>13, <2>14, Assemble
<1> QED BY <1>1, <1>3, <1>4

-----------------------------------------------------------------------------
(* The theorems.                                                           *)

\* DataInv is preserved by every step.
LEMMA NextDataInv == IndInv /\ CallOrder /\ DataInv /\ [Next]_vars => DataInv'
<1> SUFFICES ASSUME IndInv, CallOrder, DataInv, [Next]_vars PROVE DataInv'
  OBVIOUS
<1>1. CASE UNCHANGED vars
  <2>1. UNCHANGED <<sockVars, protoVars, streamVars, netVars, pc, frame>>
    BY <1>1 DEF vars
  <2>2. \A p \in Protos : ProtoOK(p)'
    BY <2>1, QuietProtos
  <2>3. \A p \in Protos : BlockOK(p)'
    BY <2>1 DEF DataInv, BlockOK, Live, sockVars, protoVars, streamVars
  <2>4. (\A s \in Streams : DeliveredOK(s)') /\ DestroyedWhenDelivered'
    BY <2>1 DEF DataInv, DeliveredOK, DestroyedWhenDelivered, Position, Handed, Connected,
                protoVars, streamVars, netVars
  <2>5. HandlerOK'
    BY <2>1 DEF DataInv, HandlerOK, Connected, Readable, sockVars, protoVars, streamVars, netVars
  <2> QED BY <2>2, <2>3, <2>4, <2>5, Assemble
<1>2. CASE Requests
  BY <1>2, GetURLData DEF Requests
<1>3. CASE Dispatch
  BY <1>3, NotifyData DEF Dispatch
<1>4. CASE Handler
  <2>1. CASE \E q \in Protos, f \in Fds : Redirect(q, f)
    BY <2>1, RedirectData
  <2>2. CASE \E ok \in BOOLEAN : NewStream(ok)
    BY <2>2, NewStreamData
  <2>3. CASE \E c \in 0..MaxReady : WriteReady(c)
    BY <2>3, WriteReadyData
  <2>4. CASE \E ok \in BOOLEAN : Write(ok)
    BY <2>4, WriteData
  <2>5. CASE \/ ReadHalf \/ WriteHalf \/ RedirectFails \/ Proceed \/ DestroyStream \/ URLNotify
    BY <2>5, ReadHalfData, WriteHalfData, RedirectFailsData, ProceedData, DestroyStreamData,
       URLNotifyData
  <2> QED BY <1>4, <2>1, <2>2, <2>3, <2>4, <2>5 DEF Handler
<1>5. CASE Network
  BY <1>5, NetworkData
<1> QED BY <1>1, <1>2, <1>3, <1>4, <1>5 DEF Next

LEMMA SpecDataInv == Spec => [](IndInv /\ CallOrder /\ DataInv)
<1>1. Init => IndInv /\ CallOrder /\ DataInv
  BY InitIndInv, InitCallOrder, InitDataInv
<1>2. IndInv /\ CallOrder /\ DataInv /\ [Next]_vars => (IndInv /\ CallOrder /\ DataInv)'
  BY NextIndInv, NextCallOrder, NextDataInv DEF Inv
<1> QED BY <1>1, <1>2, PTL DEF Spec

\* What write is given is the body at m_offset: nothing lost, repeated, reordered or taken
\* from the header, for every response, chunk size and cut of the data (recv_data, OnRead).
THEOREM SpecDeliveryInOrder == Spec => []DeliveryInOrder
<1>1. CallOrder /\ DataInv => DeliveryInOrder
  BY DEF CallOrder, DataInv, HandlerOK, DeliveryInOrder
<1> QED BY <1>1, SpecDataInv, PTL

\* A proto_stream is declared broken only when its connection or its response is (recv_chunk,
\* send_chunk, proto_stream::on_read and on_write).
THEOREM SpecErrorHasCause == Spec => []ErrorHasCause
<1>1. DataInv => ErrorHasCause
  BY DEF DataInv
<1> QED BY <1>1, SpecDataInv, PTL

\* The event that finds a connection broken ends the stream, or another read event is due
\* (block, OnRead, recv_wrapper).
THEOREM SpecErrorTearsDown == Spec => []ErrorTearsDown
<1>1. DataInv => ErrorTearsDown
  <2> SUFFICES ASSUME DataInv, NEW p \in Protos, pc = "idle", "ERROR" \in m_flags[p]
               PROVE  /\ created[m_waitp[p]] \/ interest[p] = {"READ", "WRITE"}
                      /\ "READ" \in interest[p]
                      /\ Readable(p)
    BY DEF ErrorTearsDown
  <2>1. ReadingOK(p) /\ EventsOK(p) /\ BlockOK(p)
    BY DEF DataInv
  <2>2. Live(p)
    BY <2>1 DEF ReadingOK
  <2> QED BY <2>1, <2>2 DEF EventsOK, BlockOK
<1> QED BY <1>1, SpecDataInv, PTL

\* An open stream ends for the plugin only when it cut a write short, a send failed, or the
\* connection is over and every unit of the body that arrived was written (recv_data, OnRead,
\* ~NPNetStream).
THEOREM SpecDestroyedWhenDelivered == Spec => []DestroyedWhenDelivered
<1>1. DataInv => DestroyedWhenDelivered
  BY DEF DataInv
<1> QED BY <1>1, SpecDataInv, PTL
=============================================================================
