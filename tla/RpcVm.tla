------------------------------- MODULE RpcVm -------------------------------
(***************************************************************************)
(* The RPC server of nswinviewr (shell.cpp, rpcvm.cpp).  Clients connect   *)
(* to a local port and send packets that start with their own length;      *)
(* window messages announce data, and rpc_dispatch puts what recv returned *)
(* behind what it has in pktbuf, executes every packet that is complete    *)
(* and answers on the connection the data came from.                       *)
(*                                                                         *)
(* pktbuf and total are statics, shared by all connections.  A byte is     *)
(* modelled with the packet it belongs to: its length and the byte's place *)
(* in it; Byte gives its value, as far as the length word goes.            *)
(*                                                                         *)
(* No close resets pktbuf and total.  A connection that ends in the middle *)
(* of a packet leaves that part behind, in front of what the next client   *)
(* sends: the history variable spoilt says that this has happened.  What a *)
(* packet that was misread from then on executes is not modelled.          *)
(***************************************************************************)
EXTENDS Integers, Sequences

CONSTANTS Conns,        \* connections: descriptors accept may return
          Lens,         \* lengths of the packets clients send
          Word,         \* bytes of the length word (4)
          BufSize,      \* sizeof pktbuf (163840)
          RecvMax,      \* sizeof buf in WndProc (40960)
          MaxPending,   \* bound on the requests of a client without answer
          Breaks,       \* whether connections may end in the middle of a packet
          Null

ASSUME NullAssumption == Null \notin Conns
ASSUME BreaksAssumption == Breaks \in BOOLEAN
ASSUME SizeAssumption ==
  /\ Word \in Nat \ {0} /\ RecvMax \in Nat \ {0} /\ BufSize \in Nat /\ MaxPending \in Nat
  /\ Lens # {} /\ Lens \subseteq Word..255
  /\ \A l \in Lens : l + RecvMax <= BufSize

VARIABLES pktbuf,   \* its first total bytes
          fd,       \* the connection rpc_dispatch runs for
          pc,
          conn, inflight, pending,  \* clients: state, bytes under way, requests without answer
          spoilt    \* history: a connection was closed with a part of a packet in pktbuf

clientVars == <<conn, inflight, pending>>
vars == <<pktbuf, fd, pc, clientVars, spoilt>>

Bytes(l) == [i \in 1..l |-> [len |-> l, pos |-> i]]
total == Len(pktbuf)

Init ==
  /\ pktbuf = <<>>
  /\ fd = Null
  /\ pc = "idle"
  /\ conn = [c \in Conns |-> "none"]
  /\ inflight = [c \in Conns |-> <<>>]
  /\ pending = [c \in Conns |-> <<>>]
  /\ spoilt = FALSE

-----------------------------------------------------------------------------
(* WndProc: one message at a time.                                         *)

\* WM_DEAD.
Accept(c) ==
  /\ pc = "idle" /\ conn[c] = "none"
  /\ conn' = [conn EXCEPT ![c] = "open"]
  /\ UNCHANGED <<pktbuf, fd, pc, inflight, pending, spoilt>>

\* WM_DEAE with data: recv returns n bytes and rpc_dispatch is called with them.
Recv(c, n) ==
  /\ pc = "idle"
  /\ n \in 1..Len(inflight[c])
  /\ IF total + n < BufSize
     THEN /\ pktbuf' = pktbuf \o SubSeq(inflight[c], 1, n)
          /\ pc' = "dispatch" /\ fd' = c
     ELSE pc' = "assert_total" /\ UNCHANGED <<pktbuf, fd>>
  /\ inflight' = [inflight EXCEPT ![c] = SubSeq(@, n + 1, Len(@))]
  /\ UNCHANGED <<conn, pending, spoilt>>

\* closesocket: what was under way is lost, and what pktbuf has stays there.
CloseSocket(c) ==
  /\ conn' = [conn EXCEPT ![c] = "none"]
  /\ inflight' = [inflight EXCEPT ![c] = <<>>]
  /\ pending' = [pending EXCEPT ![c] = <<>>]
  /\ spoilt' = (spoilt \/ pktbuf # <<>>)
  /\ UNCHANGED <<pktbuf, fd, pc>>

\* WM_DEAE at the end of the data: recv returns 0.
RecvClose(c) ==
  /\ pc = "idle" /\ conn[c] \in {"fin", "cut"} /\ inflight[c] = <<>>
  /\ CloseSocket(c)

\* WM_DEAE, and recv fails: the connection was reset, or there was nothing to read.
RecvFails(c) ==
  /\ Breaks
  /\ pc = "idle" /\ conn[c] # "none"
  /\ CloseSocket(c)

-----------------------------------------------------------------------------
(* rpc_dispatch.                                                           *)

\* A length word holds a length below 256, low byte first; of the other bytes only that they
\* are not all 0 is known.
Byte(u) == CASE u.pos = 1 -> u.len
             [] u.pos \in 2..Word -> 0
             [] OTHER -> 1

\* prefix[0].
Off == LET word[i \in 1..(Word + 1)] ==
             IF i = Word + 1 THEN 0 ELSE Byte(pktbuf[i]) + 256 * word[i + 1]
       IN word[1]

\* Mutant of Complete: the last byte of the packet is waited for once more.
CompleteLate == total >= Word /\ total > Off

\* A whole packet is there.
Complete == total >= Word /\ total >= Off

\* Mutant of Rest: total is reset after a call.
RestDropped == <<>>

\* What memmove leaves.
Rest == SubSeq(pktbuf, Off + 1, total)

\* The length word is in range, once it is there.
OffInRange == total >= Word => Off < BufSize

\* One packet is executed; the answer goes to fd.
Execute ==
  /\ pc = "dispatch" /\ OffInRange /\ Complete
  /\ pktbuf' = Rest
  /\ pending' = [pending EXCEPT ![fd] = IF @ = <<>> THEN @ ELSE Tail(@)]
  /\ UNCHANGED <<fd, pc, conn, inflight, spoilt>>

\* The loop ends: less than a packet is left, or the assertion on its length fails.
Done ==
  /\ pc = "dispatch" /\ (OffInRange => ~Complete)
  /\ pc' = IF OffInRange THEN "idle" ELSE "assert_off"
  /\ fd' = IF OffInRange THEN Null ELSE fd
  /\ UNCHANGED <<pktbuf, clientVars, spoilt>>

-----------------------------------------------------------------------------
(* The clients: external.                                                  *)

Aborted == {"assert_total", "assert_off"}

Request(c, l) ==
  /\ pc \notin Aborted /\ conn[c] = "open" /\ Len(pending[c]) < MaxPending
  /\ inflight' = [inflight EXCEPT ![c] = @ \o Bytes(l)]
  /\ pending' = [pending EXCEPT ![c] = Append(@, l)]
  /\ UNCHANGED <<pktbuf, fd, pc, conn, spoilt>>

\* A client closes its socket when it likes; what it wrote still arrives.
Leave(c) ==
  /\ pc \notin Aborted /\ conn[c] = "open"
  /\ conn' = [conn EXCEPT ![c] = "fin"]
  /\ UNCHANGED <<pktbuf, fd, pc, inflight, pending, spoilt>>

\* A client dies while it sends: only the first n bytes of what is under way arrive.
Cut(c, n) ==
  /\ Breaks
  /\ pc \notin Aborted /\ conn[c] = "open"
  /\ n \in 0..(Len(inflight[c]) - 1)
  /\ conn' = [conn EXCEPT ![c] = "cut"]
  /\ inflight' = [inflight EXCEPT ![c] = SubSeq(@, 1, n)]
  /\ UNCHANGED <<pktbuf, fd, pc, pending, spoilt>>

-----------------------------------------------------------------------------
Server == \/ \E c \in Conns : \/ Accept(c) \/ RecvClose(c) \/ RecvFails(c)
                              \/ \E n \in 1..RecvMax : Recv(c, n)
          \/ Execute \/ Done
Clients == \E c \in Conns : \/ (\E l \in Lens : Request(c, l)) \/ Leave(c)
                           \/ \E n \in 0..(Len(inflight[c]) - 1) : Cut(c, n)
Next == Server \/ Clients

Spec == Init /\ [][Next]_vars

\* Windows posts a message for data that is left after a recv and for the end of a connection,
\* and dispatches what it posted; the calls into the plugin return.
FairSpec == /\ Spec
            /\ WF_vars(Execute) /\ WF_vars(Done)
            /\ \A c \in Conns : /\ SF_vars(\E n \in 1..RecvMax : Recv(c, n))
                               /\ SF_vars(RecvClose(c))

-----------------------------------------------------------------------------
(* Properties.                                                             *)

Units == [len : Lens, pos : Nat \ {0}]

\* Type invariant.
TypeOK ==
  /\ \A i \in DOMAIN pktbuf : pktbuf[i] \in Units
  /\ fd \in Conns \cup {Null}
  /\ pc \in {"idle", "dispatch"} \cup Aborted
  /\ conn \in [Conns -> {"none", "open", "fin", "cut"}]
  /\ \A c \in Conns : /\ \A i \in DOMAIN inflight[c] : inflight[c][i] \in Units
                      /\ Len(pending[c]) <= MaxPending
  /\ spoilt \in BOOLEAN

\* Between two messages less than a packet is kept.
KeepsAPart == pc = "idle" => \E l \in Lens : total < l

\* What is executed, and answered, is the oldest request of the client it is answered to, all
\* of it and nothing else, however the packets were cut by recv (rpc_dispatch).
ExecutesRequests ==
  pc = "dispatch" /\ Complete =>
    pending[fd] # <<>> /\ SubSeq(pktbuf, 1, Off) = Bytes(Head(pending[fd]))

\* A client that closed its socket after whole packets has had all of them executed before the
\* server closes its own, and leaves nothing in pktbuf for the next client.
LeavesNothing ==
  \A c \in Conns : pc = "idle" /\ conn[c] = "fin" /\ inflight[c] = <<>> =>
                      pktbuf = <<>> /\ pending[c] = <<>>

\* Until a connection has ended in the middle of a packet: packets are executed whole and in
\* order, and less than one is kept.
PacketsWhole == TypeOK /\ (~spoilt => KeepsAPart /\ ExecutesRequests /\ LeavesNothing)

\* assert (total + len < sizeof pktbuf) and assert (total < 4 || off < sizeof pktbuf).
AssertionsHold == pc \notin Aborted

\* Neither fails until a connection has ended in the middle of a packet: the part it leaves in
\* pktbuf is all that makes them fail for one client after another.
AssertionsHoldUnlessSpoilt == ~spoilt => AssertionsHold

\* No request is left lying in pktbuf: each is executed in the end, unless its own connection is
\* closed first or an earlier one ended in the middle of a packet.
RequestsServed ==
  \A c \in Conns :
    (pending[c] # <<>>) ~> (\/ pc = "dispatch" /\ fd = c /\ Complete
                            \/ conn[c] = "none" \/ spoilt)
=============================================================================
