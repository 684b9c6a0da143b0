---------------------------- MODULE RpcVm_proofs ----------------------------
(***************************************************************************)
(* Proofs about RpcVm with one client at a time: however recv cuts the     *)
(* packets, and however connections end, each packet is executed whole and *)
(* in order, and neither assertion of rpc_dispatch fails, until a          *)
(* connection has ended in the middle of a packet (spoilt).  With two      *)
(* clients both are false (the run rpc_pair).                              *)
(***************************************************************************)
EXTENDS RpcVm, FiniteSetTheorems, SequenceTheorems, TLAPS

\* There is one connection, which clients use one after the other.
OneConn == \E c \in Conns : \A d \in Conns : d = c

\* The bytes u are the packets of lengths q, one behind the other; first[k] is where the k-th begins.
FramedBy(u, q, first) ==
  /\ first[1] = 1 /\ first[Len(q) + 1] = Len(u) + 1
  /\ \A k \in 1..Len(q) : first[k + 1] = first[k] + q[k]
  /\ \A j \in 1..Len(q), k \in 1..(Len(q) + 1) : j < k => first[j] + q[j] <= first[k]
  /\ \A k \in 1..Len(q) : \A i \in 1..q[k] : u[first[k] + i - 1] = [len |-> q[k], pos |-> i]

Framed(u, q) == \E first \in [1..(Len(q) + 1) -> Nat] : FramedBy(u, q, first)

Types ==
  /\ pktbuf \in Seq(Units)
  /\ fd \in Conns \cup {Null}
  /\ pc \in {"idle", "dispatch"} \cup Aborted
  /\ conn \in [Conns -> {"none", "open", "fin", "cut"}]
  /\ inflight \in [Conns -> Seq(Units)]
  /\ pending \in [Conns -> Seq(Lens)]
  /\ \A c \in Conns : Len(pending[c]) <= MaxPending
  /\ pc = "dispatch" => fd \in Conns
  /\ spoilt \in BOOLEAN

\* What is in pktbuf, then what is under way, and then what the client could not send any more is
\* what it has no answer for; only a client that died in the middle of a packet has a lost part.
FramedFor(c, lost) ==
  /\ conn[c] # "cut" => lost = <<>>
  /\ Framed(pktbuf \o (inflight[c] \o lost), pending[c])

Framing == \A c \in Conns : \E lost \in Seq(Units) : FramedFor(c, lost)

\* The server runs, and leaves less than a packet behind.
Serving ==
  /\ pc \notin Aborted
  /\ pc = "idle" => ~Complete

IndInv == Types /\ (~spoilt => Framing /\ Serving)

-----------------------------------------------------------------------------
(* Framing.                                                                *)

\* The constants as numbers.
LEMMA Sizes == /\ Word \in Nat \ {0} /\ RecvMax \in Nat \ {0} /\ BufSize \in Nat
               /\ \A l \in Lens : l \in Nat /\ Word <= l /\ l <= 255 /\ l + RecvMax <= BufSize
BY SizeAssumption

\* Receiving moves the boundary between two sequences.
LEMMA CutJoin ==
  ASSUME NEW S, NEW u \in Seq(S), NEW w \in Seq(S), NEW n \in 0..Len(w)
  PROVE  /\ SubSeq(w, 1, n) \in Seq(S) /\ SubSeq(w, n + 1, Len(w)) \in Seq(S)
         /\ SubSeq(w, 1, n) \o SubSeq(w, n + 1, Len(w)) = w
         /\ (u \o SubSeq(w, 1, n)) \o SubSeq(w, n + 1, Len(w)) = u \o w
<1>1. PICK a \in Seq(S) : a = SubSeq(w, 1, n)
  <2>1. SubSeq(w, 1, n) \in Seq(S)
    OBVIOUS
  <2> QED BY <2>1
<1>2. PICK b \in Seq(S) : b = SubSeq(w, n + 1, Len(w))
  <2>1. SubSeq(w, n + 1, Len(w)) \in Seq(S)
    OBVIOUS
  <2> QED BY <2>1
<1>3. a \o b = w
  <2>1. 1 \in 1..(Len(w) + 1) /\ n \in (1 - 1)..Len(w) /\ Len(w) \in n..Len(w)
    OBVIOUS
  <2>2. SubSeq(w, 1, n) \o SubSeq(w, n + 1, Len(w)) = SubSeq(w, 1, Len(w))
    BY <2>1, ConcatAdjacentSubSeq
  <2>3. SubSeq(w, 1, Len(w)) = w
    BY SubSeqFull
  <2> QED BY <1>1, <1>2, <2>2, <2>3
<1>4. (u \o a) \o b = u \o (a \o b)
  OBVIOUS
<1> QED BY <1>1, <1>2, <1>3, <1>4

\* Dropping the beginning of two sequences drops it from the first.
LEMMA DropConcat ==
  ASSUME NEW S, NEW p \in Seq(S), NEW w \in Seq(S), NEW n \in Nat, n <= Len(p)
  PROVE  SubSeq(p \o w, n + 1, Len(p \o w)) = SubSeq(p, n + 1, Len(p)) \o w
<1>1. PICK u \in Seq(S) : u = p \o w
  BY ConcatProperties
<1>2. /\ Len(u) = Len(p) + Len(w) /\ Len(p) \in Nat /\ Len(w) \in Nat
      /\ \A i \in 1..(Len(p) + Len(w)) : u[i] = IF i <= Len(p) THEN p[i] ELSE w[i - Len(p)]
  BY <1>1, ConcatProperties
<1>3. PICK b \in Seq(S) : /\ b = SubSeq(p, n + 1, Len(p)) /\ Len(b) = Len(p) - n
                          /\ \A i \in 1..Len(b) : b[i] = p[n + i]
  <2>1. SubSeq(p, n + 1, Len(p)) \in Seq(S)
    OBVIOUS
  <2>2. Len(SubSeq(p, n + 1, Len(p))) = Len(p) - n
    OBVIOUS
  <2>3. \A i \in 1..(Len(p) - n) : SubSeq(p, n + 1, Len(p))[i] = p[n + i]
    OBVIOUS
  <2> QED BY <2>1, <2>2, <2>3
<1>4. PICK d \in Seq(S) : /\ d = SubSeq(u, n + 1, Len(u)) /\ Len(d) = Len(u) - n
                          /\ \A i \in 1..Len(d) : d[i] = u[n + i]
  <2>1. n <= Len(u)
    BY <1>2
  <2>2. SubSeq(u, n + 1, Len(u)) \in Seq(S)
    BY <2>1
  <2>3. Len(SubSeq(u, n + 1, Len(u))) = Len(u) - n
    BY <2>1
  <2>4. \A i \in 1..(Len(u) - n) : SubSeq(u, n + 1, Len(u))[i] = u[n + i]
    BY <2>1
  <2> QED BY <2>2, <2>3, <2>4
<1>5. PICK e \in Seq(S) : /\ e = b \o w /\ Len(e) = Len(b) + Len(w)
                          /\ \A i \in 1..(Len(b) + Len(w)) :
                               e[i] = IF i <= Len(b) THEN b[i] ELSE w[i - Len(b)]
  <2>1. /\ b \o w \in Seq(S)
        /\ Len(b \o w) = Len(b) + Len(w)
        /\ \A i \in 1..(Len(b) + Len(w)) :
             (b \o w)[i] = IF i <= Len(b) THEN b[i] ELSE w[i - Len(b)]
    BY ConcatProperties, Zenon
  <2> QED BY <2>1
<1>6. Len(d) = Len(e) /\ Len(d) \in Nat
  BY <1>2, <1>3, <1>4, <1>5
<1>7. ASSUME NEW i \in 1..Len(d) PROVE d[i] = e[i]
  <2>1. n + i \in 1..(Len(p) + Len(w)) /\ i \in 1..(Len(b) + Len(w)) /\ d[i] = u[n + i]
    BY <1>2, <1>3, <1>4
  <2>2. CASE i <= Len(b)
    <3>1. n + i <= Len(p) /\ i \in 1..Len(b)
      BY <1>2, <1>3, <2>2
    <3> QED BY <1>2, <1>3, <1>5, <2>1, <2>2, <3>1
  <2>3. CASE ~(i <= Len(b))
    <3>1. ~(n + i <= Len(p)) /\ (n + i) - Len(p) = i - Len(b)
      <4>1. Len(b) = Len(p) - n /\ i \in Int
        BY <1>3, <1>6
      <4> QED BY <1>2, <2>3, <4>1
    <3>2. d[i] = w[(n + i) - Len(p)] /\ e[i] = w[i - Len(b)]
      BY <1>2, <1>5, <2>1, <2>3, <3>1
    <3> QED BY <3>1, <3>2
  <2> QED BY <2>2, <2>3
<1>8. d = e
  BY <1>6, <1>7, SeqEqual, Zenon
<1> QED BY <1>1, <1>3, <1>4, <1>5, <1>8

\* The first packet is whole if there is one, and without one there are no bytes.
LEMMA FirstPacket ==
  ASSUME NEW u \in Seq(Units), NEW q \in Seq(Lens), Framed(u, q)
  PROVE  /\ q = <<>> => Len(u) = 0
         /\ q # <<>> => /\ q[1] \in Lens /\ q[1] <= Len(u)
                        /\ \A i \in 1..q[1] : u[i] = [len |-> q[1], pos |-> i]
<1>1. PICK first \in [1..(Len(q) + 1) -> Nat] : FramedBy(u, q, first)
  BY DEF Framed
<1>2. Len(u) \in Nat /\ Len(q) \in Nat
  OBVIOUS
<1>3. ASSUME q = <<>> PROVE Len(u) = 0
  BY <1>1, <1>2, <1>3 DEF FramedBy
<1>4. ASSUME q # <<>>
      PROVE  /\ q[1] \in Lens /\ q[1] <= Len(u)
             /\ \A i \in 1..q[1] : u[i] = [len |-> q[1], pos |-> i]
  <2>1. 1 \in 1..Len(q) /\ Len(q) + 1 \in 1..(Len(q) + 1) /\ 1 < Len(q) + 1 /\ q[1] \in Lens
    BY <1>2, <1>4
  <2>2. q[1] \in Nat
    BY <2>1, Sizes
  <2>3. first[1] = 1 /\ first[1] + q[1] <= Len(u) + 1
    BY <1>1, <2>1 DEF FramedBy
  <2>4. ASSUME NEW i \in 1..q[1] PROVE u[i] = [len |-> q[1], pos |-> i]
    <3>1. u[first[1] + i - 1] = [len |-> q[1], pos |-> i]
      BY <1>1, <2>1 DEF FramedBy
    <3>2. first[1] + i - 1 = i
      BY <2>2, <2>3
    <3> QED BY <3>1, <3>2
  <2> QED BY <1>2, <2>1, <2>2, <2>3, <2>4
<1> QED BY <1>3, <1>4

\* Without the first packet, the others are left.
LEMMA FramedRest ==
  ASSUME NEW u \in Seq(Units), NEW q \in Seq(Lens), Framed(u, q), q # <<>>
  PROVE  Framed(SubSeq(u, q[1] + 1, Len(u)), Tail(q))
<1> DEFINE v == SubSeq(u, q[1] + 1, Len(u))
<1>1. PICK first \in [1..(Len(q) + 1) -> Nat] : FramedBy(u, q, first)
  BY DEF Framed
<1>2. q[1] \in Lens /\ q[1] \in Nat /\ q[1] <= Len(u) /\ Len(u) \in Nat
  BY FirstPacket, Sizes
<1>3. /\ Len(q) \in Nat \ {0} /\ Tail(q) \in Seq(Lens) /\ Len(Tail(q)) = Len(q) - 1
      /\ \A k \in 1..Len(Tail(q)) : Tail(q)[k] = q[k + 1] /\ q[k + 1] \in Nat
  <2>1. \A k \in 1..Len(q) : q[k] \in Nat
    BY Sizes
  <2> QED BY <2>1
<1>4. Len(v) = Len(u) - q[1] /\ \A i \in 1..Len(v) : v[i] = u[i + q[1]]
  BY <1>2
<1> HIDE DEF v
<1> PICK n \in Nat : n = Len(Tail(q))
  <2>1. Len(Tail(q)) \in Nat
    BY <1>3
  <2> QED BY <2>1
<1>5. \A k \in 1..(n + 1) : /\ k + 1 \in 1..(Len(q) + 1) /\ first[k + 1] \in Nat
                            /\ first[k + 1] >= 1 + q[1]
  <2> TAKE k \in 1..(n + 1)
  <2>1. k + 1 \in 1..(Len(q) + 1) /\ 1 < k + 1 /\ 1 \in 1..Len(q)
    BY <1>3
  <2>2. first[k + 1] \in Nat /\ first[1] = 1 /\ first[1] + q[1] <= first[k + 1]
    BY <1>1, <2>1 DEF FramedBy
  <2> QED BY <1>2, <2>1, <2>2
<1>6. PICK rest \in [1..(n + 1) -> Nat] : \A k \in 1..(n + 1) : rest[k] = first[k + 1] - q[1]
  <2>1. \A k \in 1..(n + 1) : first[k + 1] - q[1] \in Nat
    BY <1>2, <1>5
  <2> DEFINE r == [k \in 1..(n + 1) |-> first[k + 1] - q[1]]
  <2>2. r \in [1..(n + 1) -> Nat]
    BY <2>1
  <2>3. \A k \in 1..(n + 1) : r[k] = first[k + 1] - q[1]
    OBVIOUS
  <2> QED BY <2>2, <2>3
<1>7. FramedBy(v, Tail(q), rest)
  <2>1. rest[1] = 1
    <3>1. 1 \in 1..(n + 1) /\ 1 \in 1..Len(q)
      BY <1>3
    <3>2. first[1 + 1] = first[1] + q[1] /\ first[1] = 1
      BY <1>1, <3>1 DEF FramedBy
    <3> QED BY <3>1, <3>2, <1>2, <1>6
  <2>2. rest[n + 1] = Len(v) + 1
    <3>1. n + 1 \in 1..(n + 1) /\ (n + 1) + 1 = Len(q) + 1
      BY <1>3
    <3>2. first[Len(q) + 1] = Len(u) + 1
      BY <1>1 DEF FramedBy
    <3>3. rest[n + 1] = first[Len(q) + 1] - q[1]
      BY <1>6, <3>1
    <3> QED BY <3>2, <3>3, <1>2, <1>4
  <2>3. \A k \in 1..n : rest[k + 1] = rest[k] + Tail(q)[k]
    <3> TAKE k \in 1..n
    <3>1. k \in 1..(n + 1) /\ k + 1 \in 1..(n + 1) /\ k + 1 \in 1..Len(q)
      BY <1>3
    <3>2. first[(k + 1) + 1] = first[k + 1] + q[k + 1] /\ Tail(q)[k] = q[k + 1]
      BY <1>1, <1>3, <3>1 DEF FramedBy
    <3>3. first[k + 1] \in Nat /\ q[k + 1] \in Nat
      BY <1>3, <1>5, <3>1
    <3>4. rest[k] = first[k + 1] - q[1] /\ rest[k + 1] = first[(k + 1) + 1] - q[1]
      BY <1>6, <3>1
    <3> QED BY <3>2, <3>3, <3>4, <1>2
  <2>4. \A j \in 1..n, k \in 1..(n + 1) : j < k => rest[j] + Tail(q)[j] <= rest[k]
    <3> TAKE j \in 1..n, k \in 1..(n + 1)
    <3> HAVE j < k
    <3>1. j \in 1..(n + 1) /\ j + 1 \in 1..Len(q) /\ k + 1 \in 1..(Len(q) + 1) /\ j + 1 < k + 1
      BY <1>3
    <3>2. first[j + 1] + q[j + 1] <= first[k + 1] /\ Tail(q)[j] = q[j + 1]
      BY <1>1, <1>3, <3>1 DEF FramedBy
    <3>3. first[j + 1] \in Nat /\ q[j + 1] \in Nat /\ first[k + 1] \in Nat
      BY <1>3, <1>5, <3>1
    <3>4. rest[j] = first[j + 1] - q[1] /\ rest[k] = first[k + 1] - q[1]
      BY <1>6, <3>1
    <3> QED BY <3>2, <3>3, <3>4, <1>2
  <2>5. \A k \in 1..n : \A i \in 1..Tail(q)[k] :
          v[rest[k] + i - 1] = [len |-> Tail(q)[k], pos |-> i]
    <3> TAKE k \in 1..n
    <3> TAKE i \in 1..Tail(q)[k]
    <3>1. k \in 1..(n + 1) /\ k + 1 \in 1..Len(q) /\ Len(q) + 1 \in 1..(Len(q) + 1)
          /\ k + 1 < Len(q) + 1
      BY <1>3
    <3>2. Tail(q)[k] = q[k + 1] /\ q[k + 1] \in Nat /\ first[k + 1] \in Nat
          /\ first[k + 1] >= 1 + q[1]
      BY <1>3, <1>5, <3>1
    <3>3. u[first[k + 1] + i - 1] = [len |-> q[k + 1], pos |-> i]
      BY <1>1, <3>1, <3>2 DEF FramedBy
    <3>4. first[k + 1] + q[k + 1] <= Len(u) + 1
      BY <1>1, <3>1 DEF FramedBy
    <3>5. rest[k] = first[k + 1] - q[1]
      BY <1>6, <3>1
    <3>6. i \in 1..q[k + 1]
      BY <3>2
    <3>7. /\ rest[k] + i - 1 \in 1..Len(v)
          /\ (rest[k] + i - 1) + q[1] = first[k + 1] + i - 1
      BY <3>2, <3>4, <3>5, <3>6, <1>2, <1>4
    <3> QED BY <3>2, <3>3, <3>7, <1>4
  <2> QED BY <2>1, <2>2, <2>3, <2>4, <2>5 DEF FramedBy
<1> QED BY <1>7 DEF Framed, v

\* Another packet may follow.
LEMMA FramedMore ==
  ASSUME NEW u \in Seq(Units), NEW q \in Seq(Lens), Framed(u, q), NEW l \in Lens
  PROVE  Framed(u \o Bytes(l), Append(q, l))
<1>1. PICK first \in [1..(Len(q) + 1) -> Nat] : FramedBy(u, q, first)
  BY DEF Framed
<1>2. PICK n \in Nat : n = Len(q)
  <2>1. Len(q) \in Nat
    OBVIOUS
  <2> QED BY <2>1
<1>3. PICK m \in Nat : m = Len(u)
  <2>1. Len(u) \in Nat
    OBVIOUS
  <2> QED BY <2>1
<1>4. l \in Nat /\ \A k \in 1..n : q[k] \in Nat
  BY <1>2, Sizes
<1>5. PICK b \in Seq(Units) : /\ b = Bytes(l) /\ Len(b) = l
                             /\ \A i \in 1..l : b[i] = [len |-> l, pos |-> i]
  <2>1. /\ Bytes(l) \in Seq(Units) /\ Len(Bytes(l)) = l
        /\ \A i \in 1..l : Bytes(l)[i] = [len |-> l, pos |-> i]
    BY <1>4 DEF Bytes, Units
  <2> QED BY <2>1
<1> DEFINE v == u \o b
           r == Append(q, l)
<1>6. /\ Len(v) = m + l
      /\ \A i \in 1..m : v[i] = u[i]
      /\ \A i \in 1..l : v[m + i] = b[i]
  <2>1. Len(v) = m + l
    <3>1. Len(u \o b) = Len(u) + Len(b)
      OBVIOUS
    <3> QED BY <1>3, <1>5, <3>1
  <2>2. ASSUME NEW i \in 1..m PROVE v[i] = u[i]
    BY <1>3, <1>4, <1>5
  <2>3. ASSUME NEW i \in 1..l PROVE v[m + i] = b[i]
    BY <1>3, <1>4, <1>5
  <2> QED BY <2>1, <2>2, <2>3
<1>7. Len(r) = n + 1 /\ r[n + 1] = l /\ \A k \in 1..n : r[k] = q[k]
  BY <1>2
<1> HIDE DEF v, r
<1>8. PICK next \in [1..((n + 1) + 1) -> Nat] :
        next[(n + 1) + 1] = (m + l) + 1 /\ \A k \in 1..(n + 1) : next[k] = first[k]
  <2> DEFINE f == [k \in 1..((n + 1) + 1) |-> IF k = (n + 1) + 1 THEN (m + l) + 1 ELSE first[k]]
  <2>1. f \in [1..((n + 1) + 1) -> Nat]
    BY <1>2, <1>4
  <2>2. f[(n + 1) + 1] = (m + l) + 1
    OBVIOUS
  <2>3. \A k \in 1..(n + 1) : f[k] = first[k]
    OBVIOUS
  <2> QED BY <2>1, <2>2, <2>3
<1>9. /\ first[1] = 1 /\ first[n + 1] = m + 1
      /\ \A k \in 1..n : first[k + 1] = first[k] + q[k]
      /\ \A j \in 1..n, k \in 1..(n + 1) : j < k => first[j] + q[j] <= first[k]
      /\ \A k \in 1..n : \A i \in 1..q[k] : u[first[k] + i - 1] = [len |-> q[k], pos |-> i]
      /\ \A k \in 1..(n + 1) : first[k] \in Nat
  BY <1>1, <1>2, <1>3 DEF FramedBy
<1>10. \A j \in 1..n : /\ first[j] + q[j] <= first[n + 1] /\ first[j] >= 1
                       /\ first[j] + q[j] <= m + 1
  <2> TAKE j \in 1..n
  <2>1. j < n + 1 /\ n + 1 \in 1..(n + 1) /\ first[j] + q[j] <= first[n + 1]
    BY <1>9
  <2>2. CASE j = 1
    BY <1>9, <2>1, <2>2
  <2>3. CASE j # 1
    <3>1. 1 \in 1..n /\ j \in 1..(n + 1) /\ 1 < j
      BY <2>3
    <3>2. first[1] + q[1] <= first[j] /\ first[j] \in Nat /\ q[1] \in Nat /\ first[1] = 1
      BY <1>4, <1>9, <3>1
    <3>3. first[n + 1] = m + 1
      BY <1>9
    <3> QED BY <2>1, <3>2, <3>3, <1>2, <1>3, <1>4
  <2> QED BY <2>2, <2>3
<1>11. next[1] = 1 /\ next[(n + 1) + 1] = Len(v) + 1
  BY <1>6, <1>8, <1>9
<1>12. \A k \in 1..(n + 1) : next[k + 1] = next[k] + r[k]
  <2> TAKE k \in 1..(n + 1)
  <2>1. CASE k = n + 1
    <3>1. next[k + 1] = (m + l) + 1 /\ r[k] = l
      BY <1>7, <1>8, <2>1
    <3>2. next[k] = m + 1
      BY <1>8, <1>9, <2>1
    <3> QED BY <1>4, <3>1, <3>2
  <2>2. CASE k # n + 1
    <3>1. k \in 1..n /\ k + 1 \in 1..(n + 1)
      BY <2>2
    <3> QED BY <1>7, <1>8, <1>9, <3>1
  <2> QED BY <2>1, <2>2
<1>13. \A j \in 1..(n + 1), k \in 1..((n + 1) + 1) : j < k => next[j] + r[j] <= next[k]
  <2> TAKE j \in 1..(n + 1), k \in 1..((n + 1) + 1)
  <2> HAVE j < k
  <2>1. CASE k # (n + 1) + 1
    <3>1. j \in 1..n /\ k \in 1..(n + 1)
      BY <2>1
    <3> QED BY <1>7, <1>8, <1>9, <3>1
  <2>2. CASE k = (n + 1) + 1 /\ j # n + 1
    <3>1. j \in 1..n
      BY <2>2
    <3>2. next[j] = first[j] /\ r[j] = q[j] /\ next[k] = (m + l) + 1
      BY <1>7, <1>8, <2>2, <3>1
    <3>3. first[j] + q[j] <= m + 1 /\ first[j] \in Nat /\ q[j] \in Nat
      BY <1>4, <1>9, <1>10, <3>1
    <3> QED BY <1>4, <3>2, <3>3
  <2>3. CASE k = (n + 1) + 1 /\ j = n + 1
    BY <1>4, <1>7, <1>8, <1>9, <2>3
  <2> QED BY <2>1, <2>2, <2>3
<1>14. \A k \in 1..(n + 1) : \A i \in 1..r[k] : v[next[k] + i - 1] = [len |-> r[k], pos |-> i]
  <2> TAKE k \in 1..(n + 1)
  <2> TAKE i \in 1..r[k]
  <2>1. CASE k = n + 1
    <3>1. next[k] = m + 1 /\ r[k] = l
      BY <1>7, <1>8, <1>9, <2>1
    <3>2. i \in 1..l /\ next[k] + i - 1 = m + i
      BY <1>4, <3>1
    <3> QED BY <1>5, <1>6, <3>1, <3>2
  <2>2. CASE k # n + 1
    <3>1. k \in 1..n
      BY <2>2
    <3>2. next[k] = first[k] /\ r[k] = q[k] /\ first[k] \in Nat /\ q[k] \in Nat
      BY <1>4, <1>7, <1>8, <1>9, <3>1
    <3>3. i \in 1..q[k] /\ u[first[k] + i - 1] = [len |-> q[k], pos |-> i]
      BY <1>9, <3>1, <3>2
    <3>4. first[k] + q[k] <= m + 1 /\ first[k] >= 1
      BY <1>10, <3>1
    <3>5. first[k] + i - 1 \in 1..m
      <4>1. i \in 1..q[k] /\ first[k] \in Nat /\ q[k] \in Nat
        BY <3>2, <3>3
      <4> QED BY <4>1, <3>4, <1>2, <1>3
    <3> QED BY <1>6, <3>2, <3>3, <3>5
  <2> QED BY <2>1, <2>2
<1>15. FramedBy(v, r, next)
  BY <1>7, <1>11, <1>12, <1>13, <1>14 DEF FramedBy
<1> QED BY <1>5, <1>7, <1>8, <1>15 DEF Framed, v, r

\* What a client sends is units.
LEMMA BytesAreUnits == ASSUME NEW l \in Lens PROVE Bytes(l) \in Seq(Units)
<1>1. l \in Nat
  BY Sizes
<1> QED BY <1>1 DEF Bytes, Units

\* No bytes are no packets.
LEMMA FramedNone == Framed(<<>>, <<>>)
<1> DEFINE f == [k \in 1..1 |-> 1]
<1>1. f \in [1..(Len(<<>>) + 1) -> Nat] /\ FramedBy(<<>>, <<>>, f)
  BY DEF FramedBy
<1> QED BY <1>1 DEF Framed

-----------------------------------------------------------------------------
(* The length word.                                                        *)

\* A set of naturals has a least element: the intervals up to them are well founded.
LEMMA Least ==
  ASSUME NEW T \in SUBSET Nat, T # {}
  PROVE  \E m \in T : \A k \in T : m <= k
<1> DEFINE U == {1..m : m \in T}
<1>1. IsWellFoundedOn(StrictSubsetOrdering(Nat), FiniteSubsetsOf(Nat))
  BY FS_StrictSubsetOrderingWellFounded
<1>2. U \subseteq FiniteSubsetsOf(Nat) /\ U # {}
  <2>1. ASSUME NEW m \in T PROVE 1..m \in SUBSET Nat /\ IsFiniteSet(1..m)
    BY FS_Interval
  <2> QED BY <2>1 DEF FiniteSubsetsOf
<1>3. \E x \in U : \A y \in U : ~(<<y, x>> \in StrictSubsetOrdering(Nat))
  <2> HIDE DEF U
  <2> QED BY <1>1, <1>2, WFMin
<1>4. PICK m \in T : \A k \in T : ~(<<1..k, 1..m>> \in StrictSubsetOrdering(Nat))
  BY <1>3
<1>5. ASSUME NEW k \in T, k < m PROVE FALSE
  <2>1. 1..k \in SUBSET Nat /\ 1..m \in SUBSET Nat /\ 1..k \subseteq 1..m
    BY <1>5
  <2>2. m \in 1..m /\ m \notin 1..k
    BY <1>5
  <2> QED BY <1>4, <2>1, <2>2 DEF StrictSubsetOrdering
<1> QED BY <1>5

\* The length word of a packet has its length.
LEMMA LengthWord ==
  ASSUME pktbuf \in Seq(Units), NEW l \in Lens,
         \A i \in 1..Word : pktbuf[i] = [len |-> l, pos |-> i]
  PROVE  Off = l
<1> DEFINE E(f) == [i \in 1..(Word + 1) |-> IF i = Word + 1 THEN 0
                                           ELSE Byte(pktbuf[i]) + 256 * f[i + 1]]
           word == CHOOSE f : f = E(f)
<1>1. Off = word[1]
  BY DEF Off
<1>2. Word \in Nat \ {0} /\ l \in Nat
  BY Sizes
<1>3. \A i \in 1..Word : Byte(pktbuf[i]) = IF i = 1 THEN l ELSE 0
  <2> TAKE i \in 1..Word
  <2>1. pktbuf[i] = [len |-> l, pos |-> i]
    OBVIOUS
  <2>2. pktbuf[i].len = l /\ pktbuf[i].pos = i
    BY <2>1
  <2>3. CASE i = 1
    BY <2>2, <2>3 DEF Byte
  <2>4. CASE i # 1
    <3>1. i \in 2..Word
      BY <1>2, <2>4
    <3> QED BY <2>2, <2>4, <3>1 DEF Byte
  <2> QED BY <2>3, <2>4
<1>4. word = E(word)
  <2> DEFINE f == [i \in 1..(Word + 1) |-> IF i = 1 THEN l ELSE 0]
  <2>1. f = E(f)
    <3>1. \A i \in 1..(Word + 1) : f[i] = E(f)[i]
      <4> TAKE i \in 1..(Word + 1)
      <4>1. CASE i = Word + 1
        BY <1>2, <4>1
      <4>2. CASE i # Word + 1
        <5>1. i \in 1..Word /\ i + 1 \in 1..(Word + 1) /\ i + 1 # 1
          BY <1>2, <4>2
        <5>2. f[i + 1] = 0
          BY <5>1
        <5>3. E(f)[i] = Byte(pktbuf[i]) + 256 * f[i + 1]
          BY <4>2
        <5>4. Byte(pktbuf[i]) = f[i]
          BY <1>3, <5>1
        <5>5. f[i] \in Nat
          BY <1>2
        <5> HIDE DEF f, E
        <5> QED BY <5>2, <5>3, <5>4, <5>5
      <4> QED BY <4>1, <4>2
    <3> QED BY <3>1
  <2> HIDE DEF f, E
  <2> QED BY <2>1
<1>5. /\ word[Word + 1] = 0
      /\ \A i \in 1..Word : word[i] = Byte(pktbuf[i]) + 256 * word[i + 1]
  <2>1. \A i \in 1..(Word + 1) : word[i] = E(word)[i]
    BY <1>4
  <2> HIDE DEF word
  <2> QED BY <1>2, <2>1
<1> HIDE DEF word
<1>6. \A i \in 2..(Word + 1) : word[i] = 0
  <2> DEFINE T == {n \in 0..(Word - 1) : word[(Word + 1) - n] # 0}
  <2>1. SUFFICES ASSUME T # {} PROVE FALSE
    <3> SUFFICES ASSUME NEW i \in 2..(Word + 1) PROVE word[i] = 0
      OBVIOUS
    <3>1. (Word + 1) - i \in 0..(Word - 1) /\ (Word + 1) - ((Word + 1) - i) = i
      BY <1>2
    <3> QED BY <3>1
  <2>2. PICK n \in T : \A k \in T : n <= k
    <3>1. T \in SUBSET Nat
      BY <1>2
    <3> HIDE DEF T
    <3> QED BY <2>1, <3>1, Least
  <2>3. n \in 1..(Word - 1)
    <3>1. n \in 0..(Word - 1) /\ word[(Word + 1) - n] # 0
      BY <2>2
    <3>2. n # 0
      BY <1>2, <1>5, <3>1
    <3> QED BY <3>1, <3>2, <1>2
  <2>4. n - 1 \in 0..(Word - 1) /\ ~(n <= n - 1)
    BY <1>2, <2>3
  <2>5. word[(Word + 1) - (n - 1)] = 0
    BY <2>2, <2>4
  <2> DEFINE i == (Word + 1) - n
  <2>6. i \in 2..Word /\ i \in 1..Word /\ i # 1 /\ (Word + 1) - (n - 1) = i + 1
    BY <1>2, <2>3
  <2>7. word[i] = Byte(pktbuf[i]) + 256 * word[i + 1] /\ Byte(pktbuf[i]) = 0
    BY <1>3, <1>5, <2>6
  <2>8. word[i + 1] = 0
    BY <2>5, <2>6
  <2>9. word[i] # 0
    BY <2>2
  <2> HIDE DEF i
  <2> QED BY <2>7, <2>8, <2>9
<1>7. 1 \in 1..Word /\ 1 + 1 \in 2..(Word + 1)
  BY <1>2
<1>8. word[1] = Byte(pktbuf[1]) + 256 * word[1 + 1] /\ word[1 + 1] = 0
  BY <1>5, <1>6, <1>7
<1>9. Byte(pktbuf[1]) = l
  BY <1>3, <1>7
<1> QED BY <1>1, <1>2, <1>8, <1>9

\* Whatever is in pktbuf, its first Word bytes read as a number.
LEMMA LengthIsNat ==
  ASSUME pktbuf \in Seq(Units), total >= Word
  PROVE  Off \in Nat
<1> DEFINE E(f) == [i \in 1..(Word + 1) |-> IF i = Word + 1 THEN 0
                                           ELSE Byte(pktbuf[i]) + 256 * f[i + 1]]
           word == CHOOSE f : f = E(f)
           P(k, f) == /\ f[Word + 1] = 0
                      /\ \A i \in ((Word + 1) - k)..Word : f[i] = Byte(pktbuf[i]) + 256 * f[i + 1]
           D(k) == ((Word + 1) - k)..(Word + 1)
<1>1. Off = word[1]
  BY DEF Off
<1>2. Word \in Nat \ {0}
  BY Sizes
<1>3. \A i \in 1..Word : Byte(pktbuf[i]) \in Nat
  <2> TAKE i \in 1..Word
  <2>1. pktbuf[i] \in Units
    BY <1>2 DEF total
  <2>2. pktbuf[i].len \in Nat
    BY <2>1, Sizes DEF Units
  <2> QED BY <2>2 DEF Byte
<1>4. ASSUME NEW k \in 0..Word PROVE \E f \in [D(k) -> Nat] : P(k, f)
  <2> DEFINE T == {m \in 0..Word : ~ \E f \in [D(m) -> Nat] : P(m, f)}
  <2>1. SUFFICES ASSUME T # {} PROVE FALSE
    OBVIOUS
  <2>2. PICK n \in T : \A m \in T : n <= m
    <3>1. T \in SUBSET Nat
      BY <1>2
    <3> HIDE DEF T
    <3> QED BY <2>1, <3>1, Least
  <2>3. n \in 0..Word /\ ~ \E f \in [D(n) -> Nat] : P(n, f)
    BY <2>2
  <2>4. n # 0
    <3> DEFINE g == [i \in D(0) |-> 0]
    <3>1. g \in [D(0) -> Nat]
      OBVIOUS
    <3>2. P(0, g)
      <4>1. Word + 1 \in D(0) /\ ((Word + 1) - 0)..Word = {}
        BY <1>2
      <4> QED BY <4>1
    <3> HIDE DEF g, P, D
    <3> QED BY <2>3, <3>1, <3>2
  <2>5. n - 1 \in 0..Word /\ ~(n <= n - 1) /\ (Word + 1) - n \in 1..Word
        /\ (Word + 1) - (n - 1) = ((Word + 1) - n) + 1
    BY <1>2, <2>3, <2>4
  <2>6. PICK f \in [D(n - 1) -> Nat] : P(n - 1, f)
    <3>1. n - 1 \notin T
      BY <2>2, <2>5
    <3> HIDE DEF P, D
    <3> QED BY <2>5, <3>1
  <2>7. PICK j \in 1..Word : j = (Word + 1) - n
    BY <2>5
  <2>8. D(n) = j..(Word + 1) /\ D(n - 1) = (j + 1)..(Word + 1)
    BY <2>5, <2>7
  <2> DEFINE g == [i \in j..(Word + 1) |-> IF i = j THEN Byte(pktbuf[j]) + 256 * f[j + 1] ELSE f[i]]
  <2>9. f \in [(j + 1)..(Word + 1) -> Nat] /\ f[Word + 1] = 0
        /\ \A i \in (j + 1)..Word : f[i] = Byte(pktbuf[i]) + 256 * f[i + 1]
    BY <2>5, <2>6, <2>7, <2>8
  <2> HIDE DEF T, P, D
  <2>10. g \in [j..(Word + 1) -> Nat]
    <3> SUFFICES ASSUME NEW i \in j..(Word + 1) PROVE g[i] \in Nat
      OBVIOUS
    <3>1. CASE i = j
      <4>1. j + 1 \in (j + 1)..(Word + 1)
        BY <1>2
      <4>2. f[j + 1] \in Nat /\ Byte(pktbuf[j]) \in Nat
        BY <1>3, <2>9, <4>1
      <4>3. g[i] = Byte(pktbuf[j]) + 256 * f[j + 1]
        BY <3>1
      <4> HIDE DEF g
      <4> QED BY <4>2, <4>3
    <3>2. CASE i # j
      <4>1. i \in (j + 1)..(Word + 1)
        BY <1>2, <3>2
      <4>2. f[i] \in Nat
        BY <2>9, <4>1
      <4>3. g[i] = f[i]
        BY <3>2
      <4> HIDE DEF g
      <4> QED BY <4>2, <4>3
    <3> QED BY <3>1, <3>2
  <2>11. g[Word + 1] = 0
    <3>1. Word + 1 \in j..(Word + 1) /\ Word + 1 # j
      BY <1>2
    <3> QED BY <2>9, <3>1
  <2>12. ASSUME NEW i \in j..Word PROVE g[i] = Byte(pktbuf[i]) + 256 * g[i + 1]
    <3>1. i \in j..(Word + 1) /\ i + 1 \in j..(Word + 1) /\ i + 1 # j
      BY <1>2
    <3>2. g[i + 1] = f[i + 1] /\ g[j] = Byte(pktbuf[j]) + 256 * f[j + 1]
      <4>1. j \in j..(Word + 1)
        BY <1>2
      <4>2. g[i + 1] = f[i + 1]
        BY <3>1
      <4>3. g[j] = Byte(pktbuf[j]) + 256 * f[j + 1]
        BY <4>1
      <4> QED BY <4>2, <4>3
    <3>3. CASE i = j
      <4> HIDE DEF g
      <4> QED BY <3>2, <3>3
    <3>4. CASE i # j
      <4>1. i \in (j + 1)..Word
        BY <1>2, <3>4
      <4>2. g[i] = f[i]
        BY <3>1, <3>4
      <4> HIDE DEF g
      <4> QED BY <2>9, <3>2, <4>1, <4>2
    <3> QED BY <3>3, <3>4
  <2>13. P(n, g)
    <3>1. \A i \in j..Word : g[i] = Byte(pktbuf[i]) + 256 * g[i + 1]
      BY <2>12
    <3>2. ((Word + 1) - n)..Word = j..Word
      BY <2>7
    <3> HIDE DEF g
    <3> USE DEF P
    <3> QED BY <2>11, <3>1, <3>2
  <2> HIDE DEF g
  <2> QED BY <2>3, <2>8, <2>10, <2>13
<1>5. PICK h \in [1..(Word + 1) -> Nat] :
        h[Word + 1] = 0 /\ \A i \in 1..Word : h[i] = Byte(pktbuf[i]) + 256 * h[i + 1]
  <2>1. PICK f \in [D(Word) -> Nat] : P(Word, f)
    <3>1. Word \in 0..Word
      BY <1>2
    <3> HIDE DEF P, D
    <3> QED BY <1>4, <3>1
  <2>2. (Word + 1) - Word = 1
    BY <1>2
  <2>3. f \in [1..(Word + 1) -> Nat]
    BY <2>1, <2>2
  <2>4. f[Word + 1] = 0 /\ \A i \in 1..Word : f[i] = Byte(pktbuf[i]) + 256 * f[i + 1]
    BY <2>1, <2>2
  <2> QED BY <2>3, <2>4
<1>6. h = E(h)
  <2>1. \A i \in 1..(Word + 1) : h[i] = E(h)[i]
    <3> TAKE i \in 1..(Word + 1)
    <3>1. CASE i = Word + 1
      BY <1>5, <3>1
    <3>2. CASE i # Word + 1
      <4>1. i \in 1..Word
        BY <1>2, <3>2
      <4> QED BY <1>5, <3>2, <4>1
    <3> QED BY <3>1, <3>2
  <2> QED BY <2>1
<1>7. word = E(word)
  <2> HIDE DEF E
  <2> QED BY <1>6
<1>8. /\ word[Word + 1] = 0
      /\ \A i \in 1..Word : word[i] = Byte(pktbuf[i]) + 256 * word[i + 1]
  <2>1. \A i \in 1..(Word + 1) : word[i] = E(word)[i]
    BY <1>7
  <2> HIDE DEF word
  <2> QED BY <1>2, <2>1
<1> HIDE DEF word, P, D, E
<1>9. ASSUME NEW i \in 1..(Word + 1) PROVE word[i] \in Nat
  <2> DEFINE T == {n \in 0..Word : word[(Word + 1) - n] \notin Nat}
  <2>1. SUFFICES ASSUME T # {} PROVE FALSE
    <3>1. (Word + 1) - i \in 0..Word /\ (Word + 1) - ((Word + 1) - i) = i
      BY <1>2
    <3> QED BY <3>1
  <2>2. PICK n \in T : \A k \in T : n <= k
    <3>1. T \in SUBSET Nat
      BY <1>2
    <3> HIDE DEF T
    <3> QED BY <2>1, <3>1, Least
  <2>3. n \in 1..Word
    <3>1. n \in 0..Word /\ word[(Word + 1) - n] \notin Nat
      BY <2>2
    <3>2. n # 0
      BY <1>2, <1>8, <3>1
    <3> QED BY <3>1, <3>2, <1>2
  <2>4. n - 1 \in 0..Word /\ ~(n <= n - 1)
    BY <1>2, <2>3
  <2>5. word[(Word + 1) - (n - 1)] \in Nat
    BY <2>2, <2>4
  <2>6. PICK k \in 1..Word : k = (Word + 1) - n /\ (Word + 1) - (n - 1) = k + 1
    BY <1>2, <2>3
  <2>7. word[k] = Byte(pktbuf[k]) + 256 * word[k + 1] /\ Byte(pktbuf[k]) \in Nat
    BY <1>3, <1>8
  <2>8. word[k] \notin Nat
    BY <2>2, <2>6
  <2> QED BY <2>5, <2>6, <2>7, <2>8
<1> QED BY <1>1, <1>2, <1>9

-----------------------------------------------------------------------------
(* The invariant.                                                          *)

\* Three sequences, whichever two are joined first.
LEMMA Joined ==
  ASSUME NEW S, NEW u \in Seq(S), NEW v \in Seq(S), NEW w \in Seq(S)
  PROVE  u \o v \in Seq(S) /\ (u \o v) \o w = u \o (v \o w) /\ u \o <<>> = u
OBVIOUS

\* With a length word in pktbuf there is a request, the word is its length, and what is in
\* pktbuf of its packet is the packet's beginning.
LEMMA OldestRequest ==
  ASSUME Types, Framing, NEW c \in Conns, total >= Word
  PROVE  /\ pending[c] \in Seq(Lens) /\ pending[c] # <<>> /\ pending[c][1] \in Lens
         /\ Off = pending[c][1] /\ OffInRange
         /\ \A i \in 1..Off : i <= total => pktbuf[i] = [len |-> Off, pos |-> i]
<1>1. PICK q \in Seq(Lens) : q = pending[c]
  BY DEF Types
<1>2. PICK w \in Seq(Units) : Framed(pktbuf \o w, q)
  <2>1. PICK lost \in Seq(Units) : FramedFor(c, lost)
    BY DEF Framing
  <2>2. inflight[c] \o lost \in Seq(Units)
    BY Joined DEF Types
  <2> QED BY <1>1, <2>1, <2>2 DEF FramedFor
<1>3. PICK u \in Seq(Units) : u = pktbuf \o w
  BY ConcatProperties DEF Types
<1>4. pktbuf \in Seq(Units) /\ Len(pktbuf) \in Nat /\ Len(pktbuf) >= Word
  BY DEF Types, total
<1>5. Len(u) >= Len(pktbuf) /\ \A i \in 1..Len(pktbuf) : u[i] = pktbuf[i]
  BY <1>3, <1>4
<1>6. Framed(u, q)
  BY <1>2, <1>3
<1>7. q # <<>>
  BY <1>4, <1>5, <1>6, FirstPacket, Sizes
<1>8. q[1] \in Lens /\ \A i \in 1..q[1] : u[i] = [len |-> q[1], pos |-> i]
  BY <1>6, <1>7, FirstPacket
<1>9. q[1] \in Nat /\ Word <= q[1] /\ q[1] < BufSize /\ Word \in Nat
  BY <1>8, Sizes
<1>10. \A i \in 1..q[1] : i <= Len(pktbuf) => pktbuf[i] = [len |-> q[1], pos |-> i]
  <2> TAKE i \in 1..q[1]
  <2> HAVE i <= Len(pktbuf)
  <2>1. i \in 1..Len(pktbuf)
    BY <1>4, <1>9
  <2> QED BY <2>1, <1>5, <1>8
<1>11. \A i \in 1..Word : pktbuf[i] = [len |-> q[1], pos |-> i]
  <2> TAKE i \in 1..Word
  <2>1. i \in 1..q[1] /\ i <= Len(pktbuf)
    BY <1>4, <1>9
  <2> QED BY <2>1, <1>10
<1>12. Off = q[1]
  BY <1>4, <1>8, <1>11, LengthWord
<1> QED BY <1>1, <1>7, <1>8, <1>9, <1>10, <1>12 DEF OffInRange, total

\* Between two messages less than a packet is kept.
LEMMA LessThanAPacket ==
  ASSUME Types, Framing, ~Complete, NEW c \in Conns
  PROVE  \E l \in Lens : total < l
<1>1. total \in Nat
  BY DEF Types, total
<1>2. CASE total < Word
  <2>1. PICK l \in Lens : TRUE
    BY SizeAssumption
  <2> QED BY <2>1, <1>1, <1>2, Sizes
<1>3. CASE ~(total < Word)
  <2>1. total >= Word
    BY <1>1, <1>3, Sizes
  <2>2. Off \in Lens
    BY <2>1, OldestRequest
  <2>3. total < Off
    BY <1>1, <2>1, <2>2, Sizes DEF Complete
  <2> QED BY <2>2, <2>3
<1> QED BY <1>2, <1>3

\* If all was received of what a client sent whole, nothing is left behind.
LEMMA NothingLeft ==
  ASSUME Types, Framing, ~Complete, NEW c \in Conns, conn[c] # "cut", inflight[c] = <<>>
  PROVE  pktbuf = <<>> /\ pending[c] = <<>>
<1>1. PICK q \in Seq(Lens) : q = pending[c]
  BY DEF Types
<1>2. pktbuf \in Seq(Units) /\ pktbuf \o <<>> = pktbuf
  BY DEF Types
<1>3. Framed(pktbuf, q)
  <2>1. <<>> \o <<>> = <<>>
    OBVIOUS
  <2> QED BY <1>1, <1>2, <2>1 DEF Framing, FramedFor
<1>4. ASSUME q # <<>> PROVE FALSE
  <2>1. q[1] \in Lens /\ q[1] <= total
    BY <1>2, <1>3, <1>4, FirstPacket DEF total
  <2>2. total >= Word
    BY <2>1, <1>2, Sizes DEF total
  <2>3. Off = q[1]
    BY <1>1, <2>2, OldestRequest
  <2> QED BY <1>2, <2>1, <2>2, <2>3, Sizes DEF Complete, total
<1>5. Len(pktbuf) = 0
  BY <1>2, <1>3, <1>4, FirstPacket
<1> QED BY <1>1, <1>2, <1>4, <1>5

\* Where there is nothing, nothing is framed.
LEMMA NothingFramed == <<>> \in Seq(Units) /\ Framed(<<>> \o (<<>> \o <<>>), <<>>)
<1>1. <<>> \in Seq(Units) /\ <<>> \o (<<>> \o <<>>) = <<>>
  OBVIOUS
<1> QED BY <1>1, FramedNone, Zenon

\* The initial states satisfy the invariant.
LEMMA InitIndInv == Init => IndInv
<1> SUFFICES ASSUME Init PROVE IndInv
  OBVIOUS
<1>1. Types
  <2>1. <<>> \in Seq(Units) /\ <<>> \in Seq(Lens) /\ Len(<<>>) = 0
    OBVIOUS
  <2>2. inflight \in [Conns -> Seq(Units)]
    BY <2>1, Zenon DEF Init
  <2>3. pending \in [Conns -> Seq(Lens)]
    BY <2>1, Zenon DEF Init
  <2>4. \A c \in Conns : Len(pending[c]) <= MaxPending
    <3> TAKE c \in Conns
    <3>1. pending[c] = <<>>
      BY DEF Init
    <3> QED BY <2>1, <3>1, SizeAssumption
  <2>5. conn \in [Conns -> {"none", "open", "fin", "cut"}]
    BY Zenon DEF Init
  <2>6. /\ pktbuf \in Seq(Units) /\ fd \in Conns \cup {Null} /\ pc = "idle" /\ spoilt \in BOOLEAN
        /\ pc # "dispatch"
    BY <2>1 DEF Init
  <2> QED BY <2>2, <2>3, <2>4, <2>5, <2>6, Zenon DEF Types
<1>2. Framing
  BY NothingFramed, Zenon DEF Init, Framing, FramedFor
<1>3. Serving
  BY Sizes DEF Init, Serving, Aborted, Complete, total
<1> QED BY <1>1, <1>2, <1>3 DEF IndInv

\* A step that changes nothing in pktbuf leaves it complete or not.
LEMMA SameBuffer == ASSUME UNCHANGED pktbuf PROVE (Complete <=> Complete') /\ Off' = Off
BY DEF Complete, Off, Byte, total

\* Framing and Serving depend on nothing else.
LEMMA SameFraming ==
  ASSUME UNCHANGED <<pktbuf, inflight, pending>>, \A c \in Conns : conn'[c] = "cut" <=> conn[c] = "cut"
  PROVE  Framing => Framing'
BY DEF Framing, FramedFor

LEMMA SameServing == ASSUME UNCHANGED <<pktbuf, pc>> PROVE Serving => Serving'
BY SameBuffer DEF Serving

\* Types are preserved by every step.
LEMMA NextTypes == Types /\ [Next]_vars => Types'
<1> SUFFICES ASSUME Types, [Next]_vars PROVE Types'
  OBVIOUS
<1>1. ASSUME NEW c \in Conns, Accept(c) PROVE Types'
  BY <1>1 DEF Types, Accept
<1>2. ASSUME NEW c \in Conns, RecvClose(c) \/ RecvFails(c) PROVE Types'
  <2>1. /\ UNCHANGED <<pktbuf, fd, pc>> /\ conn' = [conn EXCEPT ![c] = "none"]
        /\ inflight' = [inflight EXCEPT ![c] = <<>>] /\ pending' = [pending EXCEPT ![c] = <<>>]
        /\ spoilt' \in BOOLEAN
    BY <1>2 DEF RecvClose, RecvFails, CloseSocket
  <2>2. inflight' \in [Conns -> Seq(Units)] /\ pending' \in [Conns -> Seq(Lens)]
    BY <2>1 DEF Types
  <2>3. \A d \in Conns : Len(pending'[d]) <= MaxPending
    <3> TAKE d \in Conns
    <3>1. CASE d = c
      BY <2>1, <3>1, SizeAssumption DEF Types
    <3>2. CASE d # c
      BY <2>1, <3>2 DEF Types
    <3> QED BY <3>1, <3>2
  <2> QED BY <2>1, <2>2, <2>3 DEF Types
<1>3. ASSUME NEW c \in Conns, NEW n \in 1..RecvMax, Recv(c, n) PROVE Types'
  <2>1. n \in 1..Len(inflight[c]) /\ UNCHANGED <<conn, pending, spoilt>>
        /\ inflight' = [inflight EXCEPT ![c] = SubSeq(inflight[c], n + 1, Len(inflight[c]))]
    BY <1>3 DEF Recv
  <2>2. PICK w \in Seq(Units) : w = inflight[c]
    BY DEF Types
  <2>3. SubSeq(w, 1, n) \in Seq(Units) /\ SubSeq(w, n + 1, Len(w)) \in Seq(Units)
    <3>1. n \in 0..Len(w)
      BY <2>1, <2>2
    <3> QED BY <3>1, CutJoin
  <2>4. inflight' \in [Conns -> Seq(Units)]
    BY <2>1, <2>2, <2>3 DEF Types
  <2>5. CASE total + n < BufSize
    <3>1. pktbuf' = pktbuf \o SubSeq(w, 1, n) /\ pc' = "dispatch" /\ fd' = c
      BY <1>3, <2>2, <2>5 DEF Recv
    <3> QED BY <2>1, <2>3, <2>4, <3>1 DEF Types
  <2>6. CASE ~(total + n < BufSize)
    <3>1. UNCHANGED <<pktbuf, fd>> /\ pc' = "assert_total"
      BY <1>3, <2>6 DEF Recv
    <3> QED BY <2>1, <2>4, <3>1 DEF Types, Aborted
  <2> QED BY <2>5, <2>6
<1>4. CASE Execute
  <2>1. pc = "dispatch" /\ Complete /\ pktbuf' = Rest /\ UNCHANGED <<fd, pc, conn, inflight, spoilt>>
        /\ pending' = [pending EXCEPT ![fd] = IF pending[fd] = <<>> THEN pending[fd] ELSE Tail(pending[fd])]
    BY <1>4 DEF Execute
  <2>2. pktbuf' \in Seq(Units)
    <3>1. Off \in Nat /\ total >= Off /\ pktbuf \in Seq(Units)
      BY <2>1, LengthIsNat DEF Types, Complete
    <3>2. PICK n \in Nat : n = Off
      BY <3>1
    <3>3. SubSeq(pktbuf, n + 1, Len(pktbuf)) \in Seq(Units)
      BY <3>1, <3>2 DEF total
    <3> QED BY <2>1, <3>2, <3>3 DEF Rest, total
  <2>3. fd \in Conns
    BY <2>1 DEF Types
  <2>4. PICK q \in Seq(Lens) : q = pending[fd] /\ Len(q) <= MaxPending
    BY <2>3 DEF Types
  <2>5. PICK r \in Seq(Lens) : r = (IF q = <<>> THEN q ELSE Tail(q)) /\ Len(r) <= MaxPending
    <3>1. CASE q = <<>>
      BY <2>4, <3>1
    <3>2. CASE q # <<>>
      <4>1. Tail(q) \in Seq(Lens) /\ Len(Tail(q)) <= MaxPending
        BY <2>4, <3>2, SizeAssumption
      <4> QED BY <3>2, <4>1
    <3> QED BY <3>1, <3>2
  <2>6. pending' = [pending EXCEPT ![fd] = r]
    BY <2>1, <2>4, <2>5
  <2>7. pending' \in [Conns -> Seq(Lens)] /\ \A c \in Conns : Len(pending'[c]) <= MaxPending
    BY <2>3, <2>5, <2>6 DEF Types
  <2> QED BY <2>1, <2>2, <2>7 DEF Types
<1>5. CASE Done
  BY <1>5 DEF Types, Done, clientVars, Aborted
<1>6. ASSUME NEW c \in Conns, NEW l \in Lens, Request(c, l) PROVE Types'
  <2>1. /\ UNCHANGED <<pktbuf, fd, pc, conn, spoilt>> /\ Len(pending[c]) < MaxPending
        /\ inflight' = [inflight EXCEPT ![c] = inflight[c] \o Bytes(l)]
        /\ pending' = [pending EXCEPT ![c] = Append(pending[c], l)]
    BY <1>6 DEF Request
  <2>2. PICK q \in Seq(Lens) : q = pending[c]
    BY DEF Types
  <2>3. PICK w \in Seq(Units) : w = inflight[c]
    BY DEF Types
  <2>4. Bytes(l) \in Seq(Units)
    BY BytesAreUnits
  <2>5. inflight' \in [Conns -> Seq(Units)]
    <3>1. w \o Bytes(l) \in Seq(Units)
      BY <2>4
    <3> QED BY <2>1, <2>3, <3>1 DEF Types
  <2>6. pending' \in [Conns -> Seq(Lens)] /\ \A d \in Conns : Len(pending'[d]) <= MaxPending
    <3>1. Append(q, l) \in Seq(Lens) /\ Len(Append(q, l)) <= MaxPending
      BY <2>1, <2>2, SizeAssumption
    <3> QED BY <2>1, <2>2, <3>1 DEF Types
  <2> QED BY <2>1, <2>5, <2>6 DEF Types
<1>7. ASSUME NEW c \in Conns, Leave(c) PROVE Types'
  BY <1>7 DEF Types, Leave
<1>8. ASSUME NEW c \in Conns, NEW n \in 0..(Len(inflight[c]) - 1), Cut(c, n) PROVE Types'
  <2>1. /\ UNCHANGED <<pktbuf, fd, pc, pending, spoilt>> /\ conn' = [conn EXCEPT ![c] = "cut"]
        /\ inflight' = [inflight EXCEPT ![c] = SubSeq(inflight[c], 1, n)]
    BY <1>8 DEF Cut
  <2>2. PICK w \in Seq(Units) : w = inflight[c]
    BY DEF Types
  <2>3. SubSeq(w, 1, n) \in Seq(Units)
    <3>1. n \in 0..Len(w)
      BY <2>2
    <3> QED BY <3>1, CutJoin
  <2> QED BY <2>1, <2>2, <2>3 DEF Types
<1>9. CASE UNCHANGED vars
  BY <1>9 DEF Types, vars, clientVars
<1> QED BY <1>1, <1>2, <1>3, <1>4, <1>5, <1>6, <1>7, <1>8, <1>9 DEF Next, Server, Clients

\* The rest of IndInv is preserved by every step after which nothing is spoilt.
LEMMA NextFraming ==
  ASSUME Types, ~spoilt => Framing /\ Serving, OneConn, [Next]_vars, ~spoilt'
  PROVE  Framing' /\ Serving'
<1>1. ~spoilt
  <2>1. UNCHANGED spoilt \/ spoilt' = (spoilt \/ pktbuf # <<>>)
    BY DEF Next, Server, Clients, Accept, RecvClose, RecvFails, CloseSocket, Recv, Execute, Done,
           Request, Leave, Cut, vars
  <2> QED BY <2>1
<1>2. Framing /\ Serving
  BY <1>1
<1>3. ASSUME NEW c \in Conns, Accept(c) PROVE Framing' /\ Serving'
  <2>1. UNCHANGED <<pktbuf, pc, inflight, pending>> /\ conn' = [conn EXCEPT ![c] = "open"]
        /\ conn[c] = "none"
    BY <1>3 DEF Accept
  <2>2. \A d \in Conns : conn'[d] = "cut" <=> conn[d] = "cut"
    BY <2>1 DEF Types
  <2> QED BY <1>2, <2>1, <2>2, SameFraming, SameServing
<1>4. ASSUME NEW c \in Conns, RecvClose(c) \/ RecvFails(c) PROVE Framing' /\ Serving'
  <2>1. /\ UNCHANGED <<pktbuf, pc>> /\ pktbuf = <<>>
        /\ inflight' = [inflight EXCEPT ![c] = <<>>] /\ pending' = [pending EXCEPT ![c] = <<>>]
    BY <1>4 DEF RecvClose, RecvFails, CloseSocket
  <2>2. ASSUME NEW d \in Conns PROVE inflight'[d] = <<>> /\ pending'[d] = <<>>
    <3>1. d = c
      BY DEF OneConn
    <3> QED BY <2>1, <3>1 DEF Types
  <2>3. pktbuf' = <<>>
    BY <2>1
  <2>4. Framing'
    BY <2>2, <2>3, NothingFramed, Zenon DEF Framing, FramedFor
  <2> QED BY <1>2, <2>1, <2>4, SameServing
<1>5. ASSUME NEW c \in Conns, NEW n \in 1..RecvMax, Recv(c, n) PROVE Framing' /\ Serving'
  <2>1. pc = "idle" /\ n \in 1..Len(inflight[c]) /\ UNCHANGED <<conn, pending>>
        /\ inflight' = [inflight EXCEPT ![c] = SubSeq(inflight[c], n + 1, Len(inflight[c]))]
    BY <1>5 DEF Recv
  <2>2. total + n < BufSize
    <3>1. PICK l \in Lens : total < l
      BY <1>2, <2>1, LessThanAPacket DEF Serving
    <3>2. total \in Nat /\ n \in Nat /\ n <= RecvMax
      BY Sizes DEF Types, total
    <3> QED BY <3>1, <3>2, Sizes
  <2>3. pktbuf' = pktbuf \o SubSeq(inflight[c], 1, n) /\ pc' = "dispatch"
    BY <1>5, <2>2 DEF Recv
  <2>4. PICK w \in Seq(Units) : w = inflight[c]
    BY DEF Types
  <2>5. PICK a \in Seq(Units), b \in Seq(Units) :
          a = SubSeq(w, 1, n) /\ b = SubSeq(w, n + 1, Len(w)) /\ a \o b = w
    <3>1. n \in 0..Len(w)
      BY <2>1, <2>4
    <3>2. /\ SubSeq(w, 1, n) \in Seq(Units) /\ SubSeq(w, n + 1, Len(w)) \in Seq(Units)
          /\ SubSeq(w, 1, n) \o SubSeq(w, n + 1, Len(w)) = w
      BY <3>1, CutJoin
    <3> QED BY <3>2, Zenon
  <2>6. PICK lost \in Seq(Units) : FramedFor(c, lost)
    BY <1>2 DEF Framing
  <2>7. pktbuf' = pktbuf \o a /\ inflight'[c] = b
    BY <2>1, <2>3, <2>4, <2>5 DEF Types
  <2>8. (pktbuf \o a) \o (b \o lost) = pktbuf \o (w \o lost)
    <3>1. pktbuf \in Seq(Units)
      BY DEF Types
    <3>2. PICK x \in Seq(Units) : x = b \o lost
      BY Joined
    <3>3. (pktbuf \o a) \o x = pktbuf \o (a \o x)
      BY <3>1
    <3>4. a \o (b \o lost) = (a \o b) \o lost
      OBVIOUS
    <3> QED BY <2>5, <3>2, <3>3, <3>4
  <2>9. FramedFor(c, lost)'
    BY <2>1, <2>4, <2>6, <2>7, <2>8 DEF FramedFor
  <2>10. Framing'
    BY <2>9 DEF Framing, OneConn
  <2>11. Serving'
    BY <2>3 DEF Serving, Aborted
  <2> QED BY <2>10, <2>11
<1>6. CASE Execute
  <2>1. pc = "dispatch" /\ Complete /\ pktbuf' = Rest /\ UNCHANGED <<fd, pc, conn, inflight>>
        /\ pending' = [pending EXCEPT ![fd] = IF pending[fd] = <<>> THEN pending[fd] ELSE Tail(pending[fd])]
    BY <1>6 DEF Execute
  <2>2. fd \in Conns
    BY <2>1 DEF Types
  <2>3. PICK q \in Seq(Lens) : q = pending[fd]
    BY <2>2 DEF Types
  <2>4. PICK lost \in Seq(Units) : FramedFor(fd, lost)
    BY <1>2, <2>2 DEF Framing
  <2>5. PICK w \in Seq(Units) : w = inflight[fd] \o lost
    BY <2>2, Joined DEF Types
  <2>6. q # <<>> /\ q[1] \in Lens /\ Off = q[1] /\ total >= q[1]
    BY <1>2, <2>1, <2>2, <2>3, OldestRequest DEF Complete
  <2>7. PICK u \in Seq(Units) : u = pktbuf \o w
    BY ConcatProperties DEF Types
  <2>8. Framed(u, q)
    BY <2>3, <2>4, <2>5, <2>7 DEF FramedFor
  <2>9. /\ pktbuf \in Seq(Units) /\ q[1] \in Nat /\ q[1] <= Len(pktbuf)
        /\ pktbuf' = SubSeq(pktbuf, q[1] + 1, Len(pktbuf))
    BY <2>1, <2>6, Sizes DEF Types, Rest, total
  <2>10. pending'[fd] = Tail(q)
    BY <2>1, <2>2, <2>3, <2>6 DEF Types
  <2>11. SubSeq(pktbuf, q[1] + 1, Len(pktbuf)) \o w = SubSeq(u, q[1] + 1, Len(u))
    BY <2>7, <2>9, DropConcat
  <2>12. Framed(SubSeq(u, q[1] + 1, Len(u)), Tail(q))
    BY <2>6, <2>8, FramedRest
  <2>13. FramedFor(fd, lost)'
    BY <2>1, <2>4, <2>5, <2>9, <2>10, <2>11, <2>12 DEF FramedFor
  <2>14. Framing'
    <3> SUFFICES ASSUME NEW d \in Conns PROVE FramedFor(d, lost)'
      BY DEF Framing
    <3>1. d = fd
      BY <2>2 DEF OneConn
    <3> QED BY <2>1, <2>13, <3>1 DEF FramedFor
  <2>15. Serving'
    BY <1>2, <2>1 DEF Serving, Aborted
  <2> QED BY <2>14, <2>15
<1>7. CASE Done
  <2>1. pc = "dispatch" /\ UNCHANGED <<pktbuf, conn, inflight, pending>> /\ (OffInRange => ~Complete)
        /\ pc' = (IF OffInRange THEN "idle" ELSE "assert_off")
    BY <1>7 DEF Done, clientVars
  <2>2. OffInRange
    <3>1. fd \in Conns
      BY <2>1 DEF Types
    <3>2. CASE total >= Word
      BY <1>2, <3>1, <3>2, OldestRequest
    <3> QED BY <3>2 DEF OffInRange
  <2>3. Framing'
    BY <1>2, <2>1, SameFraming
  <2>4. Serving'
    BY <2>1, <2>2, SameBuffer DEF Serving, Aborted
  <2> QED BY <2>3, <2>4
<1>8. ASSUME NEW c \in Conns, NEW l \in Lens, Request(c, l) PROVE Framing' /\ Serving'
  <2>1. /\ UNCHANGED <<pktbuf, pc, conn>> /\ conn[c] = "open"
        /\ inflight' = [inflight EXCEPT ![c] = inflight[c] \o Bytes(l)]
        /\ pending' = [pending EXCEPT ![c] = Append(pending[c], l)]
    BY <1>8 DEF Request
  <2>2. PICK q \in Seq(Lens) : q = pending[c]
    BY DEF Types
  <2>3. PICK w \in Seq(Units) : w = inflight[c]
    BY DEF Types
  <2>4. pktbuf \in Seq(Units) /\ Bytes(l) \in Seq(Units)
    BY BytesAreUnits DEF Types
  <2>5. Framed(pktbuf \o w, q)
    <3>1. PICK lost \in Seq(Units) : FramedFor(c, lost)
      BY <1>2 DEF Framing
    <3>2. lost = <<>> /\ w \o <<>> = w
      BY <2>1, <3>1, Joined DEF FramedFor
    <3> QED BY <2>2, <2>3, <3>1, <3>2 DEF FramedFor
  <2>6. PICK u \in Seq(Units) : u = pktbuf \o w
    BY <2>4, ConcatProperties
  <2>7. Framed(u \o Bytes(l), Append(q, l))
    BY <2>5, <2>6, FramedMore
  <2>8. pktbuf \o ((w \o Bytes(l)) \o <<>>) = u \o Bytes(l)
    <3>1. w \o Bytes(l) \in Seq(Units)
      BY <2>4, Joined
    <3>2. (w \o Bytes(l)) \o <<>> = w \o Bytes(l)
      BY <3>1, Joined
    <3>3. (pktbuf \o w) \o Bytes(l) = pktbuf \o (w \o Bytes(l))
      BY <2>4, Joined
    <3> QED BY <2>6, <3>2, <3>3
  <2>9. pending'[c] = Append(q, l) /\ inflight'[c] = w \o Bytes(l)
    BY <2>1, <2>2, <2>3 DEF Types
  <2>10. FramedFor(c, <<>>)'
    BY <2>1, <2>7, <2>8, <2>9 DEF FramedFor
  <2>11. Framing'
    <3>1. <<>> \in Seq(Units)
      OBVIOUS
    <3> QED BY <2>10, <3>1 DEF Framing, OneConn
  <2> QED BY <1>2, <2>1, <2>11, SameServing
<1>9. ASSUME NEW c \in Conns, Leave(c) PROVE Framing' /\ Serving'
  <2>1. UNCHANGED <<pktbuf, pc, inflight, pending>> /\ conn' = [conn EXCEPT ![c] = "fin"]
        /\ conn[c] = "open"
    BY <1>9 DEF Leave
  <2>2. \A d \in Conns : conn'[d] = "cut" <=> conn[d] = "cut"
    BY <2>1 DEF Types
  <2> QED BY <1>2, <2>1, <2>2, SameFraming, SameServing
<1>10. ASSUME NEW c \in Conns, NEW n \in 0..(Len(inflight[c]) - 1), Cut(c, n)
       PROVE  Framing' /\ Serving'
  <2>1. /\ UNCHANGED <<pktbuf, pc, pending>> /\ conn' = [conn EXCEPT ![c] = "cut"] /\ conn[c] = "open"
        /\ inflight' = [inflight EXCEPT ![c] = SubSeq(inflight[c], 1, n)]
    BY <1>10 DEF Cut
  <2>2. PICK w \in Seq(Units) : w = inflight[c]
    BY DEF Types
  <2>3. PICK a \in Seq(Units), b \in Seq(Units) : a = SubSeq(w, 1, n) /\ a \o b = w
    <3>1. n \in 0..Len(w)
      BY <2>2
    <3>2. /\ SubSeq(w, 1, n) \in Seq(Units) /\ SubSeq(w, n + 1, Len(w)) \in Seq(Units)
          /\ SubSeq(w, 1, n) \o SubSeq(w, n + 1, Len(w)) = w
      BY <3>1, CutJoin
    <3> QED BY <3>2, Zenon
  <2>4. PICK lost \in Seq(Units) : FramedFor(c, lost)
    BY <1>2 DEF Framing
  <2>5. lost = <<>> /\ w \o <<>> = w
    BY <2>1, <2>4, Joined DEF FramedFor
  <2>6. inflight'[c] = a /\ conn'[c] = "cut"
    BY <2>1, <2>2, <2>3 DEF Types
  <2>7. FramedFor(c, b)'
    BY <2>1, <2>2, <2>3, <2>4, <2>5, <2>6 DEF FramedFor
  <2>8. Framing'
    BY <2>7 DEF Framing, OneConn
  <2> QED BY <1>2, <2>1, <2>8, SameServing
<1>11. CASE UNCHANGED vars
  BY <1>2, <1>11, SameFraming, SameServing DEF vars, clientVars
<1> QED BY <1>3, <1>4, <1>5, <1>6, <1>7, <1>8, <1>9, <1>10, <1>11 DEF Next, Server, Clients

\* IndInv is preserved by every step.
LEMMA NextIndInv == IndInv /\ OneConn /\ [Next]_vars => IndInv'
<1> SUFFICES ASSUME IndInv, OneConn, [Next]_vars PROVE IndInv'
  OBVIOUS
<1>1. Types /\ (~spoilt => Framing /\ Serving)
  BY DEF IndInv
<1>2. Types'
  BY <1>1, NextTypes
<1>3. ~spoilt' => Framing' /\ Serving'
  BY <1>1, NextFraming
<1> QED BY <1>2, <1>3 DEF IndInv

-----------------------------------------------------------------------------
(* The theorems.                                                           *)

\* Every reachable state satisfies the inductive invariant, while OneConn holds.
THEOREM Invariant == ASSUME OneConn PROVE Spec => []IndInv
<1>1. IndInv /\ [Next]_vars => IndInv'
  BY NextIndInv
<1> QED BY InitIndInv, <1>1, PTL DEF Spec

\* However the packets are cut by recv and however connections end: until one has ended in the
\* middle of a packet, what rpc_dispatch executes is the oldest request of its client, whole, and
\* it keeps less than a packet between two messages, and nothing of a client that closed.
THEOREM WholePackets == ASSUME OneConn PROVE Spec => []PacketsWhole
<1>1. IndInv => PacketsWhole
  <2> SUFFICES ASSUME IndInv PROVE PacketsWhole
    OBVIOUS
  <2>1. Types /\ (~spoilt => Framing /\ Serving)
    BY DEF IndInv
  <2>2. TypeOK
    <3>1. \A i \in DOMAIN pktbuf : pktbuf[i] \in Units
      BY <2>1 DEF Types
    <3>2. \A c \in Conns : /\ \A i \in DOMAIN inflight[c] : inflight[c][i] \in Units
                           /\ Len(pending[c]) <= MaxPending
      <4> TAKE c \in Conns
      <4>1. inflight[c] \in Seq(Units) /\ Len(pending[c]) <= MaxPending
        BY <2>1 DEF Types
      <4> QED BY <4>1
    <3> QED BY <2>1, <3>1, <3>2 DEF Types, TypeOK
  <2>3. ASSUME ~spoilt PROVE KeepsAPart
    <3> SUFFICES ASSUME pc = "idle" PROVE \E l \in Lens : total < l
      BY DEF KeepsAPart
    <3>1. PICK c \in Conns : TRUE
      BY DEF OneConn
    <3> QED BY <2>1, <2>3, <3>1, LessThanAPacket DEF Serving
  <2>4. ASSUME ~spoilt PROVE ExecutesRequests
    <3> SUFFICES ASSUME pc = "dispatch", Complete
                 PROVE  pending[fd] # <<>> /\ SubSeq(pktbuf, 1, Off) = Bytes(Head(pending[fd]))
      BY DEF ExecutesRequests
    <3>1. fd \in Conns
      BY <2>1 DEF Types
    <3>2. /\ pending[fd] \in Seq(Lens) /\ pending[fd] # <<>> /\ pending[fd][1] \in Lens
          /\ Off = pending[fd][1] /\ total >= Off
          /\ \A i \in 1..Off : i <= total => pktbuf[i] = [len |-> Off, pos |-> i]
      BY <2>1, <2>4, <3>1, OldestRequest DEF Complete
    <3>3. PICK n \in Nat : n = Off
      BY <3>2, Sizes
    <3>4. pktbuf \in Seq(Units) /\ n <= Len(pktbuf)
      BY <2>1, <3>2, <3>3 DEF Types, total
    <3>5. SubSeq(pktbuf, 1, n) = Bytes(n)
      <4>1. \A i \in 1..n : pktbuf[i] = [len |-> n, pos |-> i]
        BY <3>2, <3>3, <3>4 DEF total
      <4>2. SubSeq(pktbuf, 1, n) = [i \in 1..n |-> pktbuf[i]]
        BY <3>4
      <4> QED BY <4>1, <4>2 DEF Bytes
    <3>6. Head(pending[fd]) = n
      BY <3>2, <3>3
    <3> QED BY <3>2, <3>3, <3>5, <3>6
  <2>5. ASSUME ~spoilt PROVE LeavesNothing
    <3> SUFFICES ASSUME NEW c \in Conns, pc = "idle", conn[c] = "fin", inflight[c] = <<>>
                 PROVE  pktbuf = <<>> /\ pending[c] = <<>>
      BY DEF LeavesNothing
    <3> QED BY <2>1, <2>5, NothingLeft DEF Serving
  <2> QED BY <2>2, <2>3, <2>4, <2>5 DEF PacketsWhole
<1> QED BY Invariant, <1>1, PTL

\* Neither assertion of rpc_dispatch fails until a connection has ended in the middle of a packet.
THEOREM AssertionsNeverFail == ASSUME OneConn PROVE Spec => []AssertionsHoldUnlessSpoilt
<1>1. IndInv => AssertionsHoldUnlessSpoilt
  BY DEF IndInv, Serving, AssertionsHold, AssertionsHoldUnlessSpoilt
<1> QED BY Invariant, <1>1, PTL

\* Connections that do not break off leave nothing behind that could spoil a packet.
LEMMA NothingSpoilt == ASSUME OneConn, ~Breaks PROVE Spec => [](~spoilt)
<1> DEFINE Kept == IndInv /\ ~spoilt /\ \A c \in Conns : conn[c] # "cut"
<1>1. Init => Kept
  BY InitIndInv DEF Init
<1>2. Kept /\ [Next]_vars => Kept'
  <2> SUFFICES ASSUME Kept, [Next]_vars PROVE Kept'
    OBVIOUS
  <2>1. Types /\ Framing /\ Serving
    BY DEF IndInv
  <2>2. IndInv'
    BY NextIndInv
  <2>3. \A c \in Conns : conn'[c] # "cut"
    BY <2>1 DEF Types, Next, Server, Clients, Accept, RecvClose, RecvFails, CloseSocket, Recv, Execute,
                Done, Request, Leave, Cut, vars, clientVars
  <2>4. ~spoilt'
    <3>1. ASSUME NEW c \in Conns, RecvClose(c) PROVE ~spoilt'
      <4>1. pc = "idle" /\ conn[c] # "cut" /\ inflight[c] = <<>> /\ spoilt' = (spoilt \/ pktbuf # <<>>)
        BY <3>1 DEF RecvClose, CloseSocket
      <4>2. pktbuf = <<>>
        BY <2>1, <4>1, NothingLeft DEF Serving
      <4> QED BY <4>1, <4>2
    <3>2. ASSUME \A c \in Conns : ~RecvClose(c) PROVE ~spoilt'
      BY <3>2 DEF Next, Server, Clients, Accept, RecvFails, Recv, Execute, Done, Request, Leave, Cut, vars
    <3> QED BY <3>1, <3>2
  <2> QED BY <2>2, <2>3, <2>4
<1> QED BY <1>1, <1>2, PTL DEF Spec

\* So with one client at a time that sends whole packets, neither assertion ever fails.
THEOREM WholeClientsNeverAbort == ASSUME OneConn, ~Breaks PROVE Spec => []AssertionsHold
<1>1. ~spoilt /\ AssertionsHoldUnlessSpoilt => AssertionsHold
  BY DEF AssertionsHoldUnlessSpoilt
<1> QED BY NothingSpoilt, AssertionsNeverFail, <1>1, PTL
=============================================================================
