----------------------------- MODULE Gtk_proofs -----------------------------
(***************************************************************************)
(* Proofs about plugin-gtk: its cipher and its password entry.             *)
(***************************************************************************)
EXTENDS GtkPlugin, Des, TLAPS

-----------------------------------------------------------------------------
(***************************************************************************)
(* Des: decryption inverts encryption for every block, all keys and every  *)
(* round function.  The invariant says that the halves of decrypt are      *)
(* those of encrypt, in reverse order and exchanged.                       *)
(***************************************************************************)

Pair == Half \X Half

\* Exclusive or gives a half, and undoes itself.
LEMMA XorType == ASSUME NEW a, NEW b PROVE Xor(a, b) \in Half
BY DEF Xor, Half

LEMMA XorTwice == ASSUME NEW a \in Half, NEW b \in Half PROVE Xor(Xor(a, b), b) = a
<1>1. \A j \in Bits : Xor(Xor(a, b), b)[j] = ((a[j] # b[j]) # b[j])
  BY DEF Xor
<1>2. \A j \in Bits : a[j] \in BOOLEAN /\ b[j] \in BOOLEAN
  BY DEF Half
<1>3. \A j \in Bits : Xor(Xor(a, b), b)[j] = a[j]
  <2> TAKE j \in Bits
  <2>1. Xor(Xor(a, b), b)[j] = ((a[j] # b[j]) # b[j])
    BY <1>1
  <2>2. a[j] \in BOOLEAN /\ b[j] \in BOOLEAN
    BY <1>2
  <2>3. CASE a[j] = b[j]
    BY <2>1, <2>2, <2>3
  <2>4. CASE a[j] # b[j]
    BY <2>1, <2>2, <2>4
  <2> QED BY <2>3, <2>4
<1> QED BY <1>3, XorType DEF Half

\* Moving bits twice changes nothing.
LEMMA MoveTwice ==
  ASSUME NEW p \in Pair, NEW k \in Nat, NEW mask \in SUBSET Bits, \A j \in mask : j + k \in Bits
  PROVE  /\ MoveXY(p, k, mask) \in Pair /\ MoveXY(MoveXY(p, k, mask), k, mask) = p
         /\ MoveYX(p, k, mask) \in Pair /\ MoveYX(MoveYX(p, k, mask), k, mask) = p
<1> DEFINE M(A, B) == Move(A, B, k, mask)
<1>1. ASSUME NEW A \in Half, NEW B \in Half PROVE M(A, B) \in Pair
  <2>1. \A j \in Bits : j - k \in mask => B[j - k] \in BOOLEAN
    BY <1>1 DEF Half
  <2>2. \A j \in Bits : j \in mask => A[j + k] \in BOOLEAN
    BY <1>1 DEF Half
  <2> QED BY <1>1, <2>1, <2>2 DEF Move, Half, Pair
<1>2. ASSUME NEW A \in Half, NEW B \in Half PROVE Move(M(A, B)[1], M(A, B)[2], k, mask) = <<A, B>>
  <2> DEFINE C == M(A, B)[1]
             D == M(A, B)[2]
  <2>1. \A j \in Bits : C[j] = IF j - k \in mask THEN B[j - k] ELSE A[j]
    BY DEF Move
  <2>2. \A j \in Bits : D[j] = IF j \in mask THEN A[j + k] ELSE B[j]
    BY DEF Move
  <2>3. \A j \in Bits : (IF j - k \in mask THEN D[j - k] ELSE C[j]) = A[j]
    <3> TAKE j \in Bits
    <3>1. CASE j - k \in mask
      <4>1. D[j - k] = A[(j - k) + k]
        BY <2>2, <3>1
      <4>2. (j - k) + k = j
        BY DEF Bits
      <4> QED BY <4>1, <4>2, <3>1
    <3>2. CASE j - k \notin mask
      BY <2>1, <3>2
    <3> QED BY <3>1, <3>2
  <2>4. \A j \in Bits : (IF j \in mask THEN C[j + k] ELSE D[j]) = B[j]
    <3> TAKE j \in Bits
    <3>1. CASE j \in mask
      <4>1. j + k \in Bits /\ (j + k) - k = j
        BY <3>1 DEF Bits
      <4>2. C[j + k] = IF (j + k) - k \in mask THEN B[(j + k) - k] ELSE A[j + k]
        BY <2>1, <4>1
      <4> QED BY <4>1, <4>2, <3>1
    <3>2. CASE j \notin mask
      BY <2>2, <3>2
    <3> QED BY <3>1, <3>2
  <2>5. Move(C, D, k, mask)[1] = A /\ Move(C, D, k, mask)[2] = B
    <3> HIDE DEF C, D
    <3>1. Move(C, D, k, mask)[1] = [j \in Bits |-> A[j]]
      BY <2>3 DEF Move
    <3>2. Move(C, D, k, mask)[2] = [j \in Bits |-> B[j]]
      BY <2>4 DEF Move
    <3> QED BY <3>1, <3>2, <1>2 DEF Half
  <2>6. \A u, v : Move(u, v, k, mask) = <<Move(u, v, k, mask)[1], Move(u, v, k, mask)[2]>>
    BY DEF Move
  <2> QED BY <2>5, <2>6
<1>3. p = <<p[1], p[2]>> /\ p[1] \in Half /\ p[2] \in Half
  BY DEF Pair
<1>4. MoveXY(p, k, mask) = M(p[1], p[2]) /\ MoveXY(MoveXY(p, k, mask), k, mask) = p
  BY <1>2, <1>3 DEF MoveXY
<1>5. MoveYX(p, k, mask) = Swap(M(p[2], p[1]))
  BY DEF MoveYX
<1>6. MoveYX(MoveYX(p, k, mask), k, mask) = Swap(Move(M(p[2], p[1])[1], M(p[2], p[1])[2], k, mask))
  BY <1>5 DEF MoveYX, Swap
<1>7. M(p[1], p[2]) \in Pair /\ M(p[2], p[1]) \in Pair
  BY <1>1, <1>3
<1>8. Swap(<<p[2], p[1]>>) = p
  BY <1>3 DEF Swap
<1>9. Swap(M(p[2], p[1])) \in Pair
  BY <1>7 DEF Swap, Pair
<1>10. Move(M(p[2], p[1])[1], M(p[2], p[1])[2], k, mask) = <<p[2], p[1]>>
  BY <1>2, <1>3
<1> QED BY <1>4, <1>5, <1>6, <1>7, <1>8, <1>9, <1>10

\* The two rotations undo each other.
LEMMA Rotations ==
  ASSUME NEW A \in Half
  PROVE  Left(A) \in Half /\ Right(A) \in Half /\ Right(Left(A)) = A /\ Left(Right(A)) = A
<1>1. Left(A) \in Half /\ Right(A) \in Half
  BY DEF Left, Right, Half, Bits
<1>2. \A j \in Bits : Right(Left(A))[j] = A[j]
  BY DEF Left, Right, Bits
<1>3. \A j \in Bits : Left(Right(A))[j] = A[j]
  BY DEF Left, Right, Bits
<1>4. Right(Left(A)) = [j \in Bits |-> A[j]]
  BY <1>2 DEF Right
<1>5. Left(Right(A)) = [j \in Bits |-> A[j]]
  BY <1>3 DEF Left
<1> QED BY <1>1, <1>4, <1>5 DEF Half

\* The masks of the permutations move bits inside a half.
LEMMA Masks ==
  /\ M4 \in SUBSET Bits /\ \A j \in M4 : j + 4 \in Bits
  /\ M16 \in SUBSET Bits /\ \A j \in M16 : j + 16 \in Bits
  /\ M2 \in SUBSET Bits /\ \A j \in M2 : j + 2 \in Bits
  /\ M8 \in SUBSET Bits /\ \A j \in M8 : j + 8 \in Bits
  /\ M1 \in SUBSET Bits /\ \A j \in M1 : j + 0 \in Bits
<1>1. M4 \in SUBSET Bits /\ \A j \in M4 : j + 4 \in Bits
  BY DEF M4, Bits
<1>2. M16 \in SUBSET Bits /\ \A j \in M16 : j + 16 \in Bits
  BY DEF M16, Bits
<1>3. M2 \in SUBSET Bits /\ \A j \in M2 : j + 2 \in Bits
  BY DEF M2, Bits
<1>4. M8 \in SUBSET Bits /\ \A j \in M8 : j + 8 \in Bits
  BY DEF M8, Bits
<1>5. M1 \in SUBSET Bits /\ \A j \in M1 : j + 0 \in Bits
  BY DEF M1, Bits
<1> QED BY <1>1, <1>2, <1>3, <1>4, <1>5

\* Each of the moves undoes itself.
LEMMA Moves ==
  ASSUME NEW p \in Pair
  PROVE  /\ MoveXY(p, 4, M4) \in Pair /\ MoveXY(MoveXY(p, 4, M4), 4, M4) = p
         /\ MoveXY(p, 16, M16) \in Pair /\ MoveXY(MoveXY(p, 16, M16), 16, M16) = p
         /\ MoveYX(p, 2, M2) \in Pair /\ MoveYX(MoveYX(p, 2, M2), 2, M2) = p
         /\ MoveYX(p, 8, M8) \in Pair /\ MoveYX(MoveYX(p, 8, M8), 8, M8) = p
         /\ MoveXY(p, 0, M1) \in Pair /\ MoveXY(MoveXY(p, 0, M1), 0, M1) = p
<1> HIDE DEF Pair
<1>1. MoveXY(p, 4, M4) \in Pair /\ MoveXY(MoveXY(p, 4, M4), 4, M4) = p
  BY MoveTwice, Masks
<1>2. MoveXY(p, 16, M16) \in Pair /\ MoveXY(MoveXY(p, 16, M16), 16, M16) = p
  BY MoveTwice, Masks
<1>3. MoveYX(p, 2, M2) \in Pair /\ MoveYX(MoveYX(p, 2, M2), 2, M2) = p
  BY MoveTwice, Masks
<1>4. MoveYX(p, 8, M8) \in Pair /\ MoveYX(MoveYX(p, 8, M8), 8, M8) = p
  BY MoveTwice, Masks
<1>5. MoveXY(p, 0, M1) \in Pair /\ MoveXY(MoveXY(p, 0, M1), 0, M1) = p
  BY MoveTwice, Masks
<1> QED BY <1>1, <1>2, <1>3, <1>4, <1>5

\* The final permutation is the inverse of the initial one, on both sides.
LEMMA FPofIP == ASSUME NEW p \in Pair PROVE DES_IP(p) \in Pair /\ DES_FP(DES_IP(p)) = p
<1> DEFINE a == MoveXY(p, 4, M4)
           b == MoveXY(a, 16, M16)
           c == MoveYX(b, 2, M2)
           q == MoveYX(c, 8, M8)
           t == <<q[1], Left(q[2])>>
           s == MoveXY(t, 0, M1)
           i == <<Left(s[1]), s[2]>>
<1>1. a \in Pair /\ MoveXY(a, 4, M4) = p
  BY Moves
<1>2. b \in Pair /\ MoveXY(b, 16, M16) = a
  <2> HIDE DEF a
  <2> QED BY <1>1, Moves
<1>3. c \in Pair /\ MoveYX(c, 2, M2) = b
  <2> HIDE DEF b
  <2> QED BY <1>2, Moves
<1>4. q \in Pair /\ MoveYX(q, 8, M8) = c
  <2> HIDE DEF c
  <2> QED BY <1>3, Moves
<1>5. t \in Pair /\ <<t[1], Right(t[2])>> = q
  <2> HIDE DEF q
  <2>1. q[1] \in Half /\ q[2] \in Half /\ q = <<q[1], q[2]>>
    BY <1>4 DEF Pair
  <2> QED BY <2>1, Rotations DEF Pair
<1>6. s \in Pair /\ MoveXY(s, 0, M1) = t
  <2> HIDE DEF t
  <2> QED BY <1>5, Moves
<1>7. i \in Pair /\ <<Right(i[1]), i[2]>> = s
  <2> HIDE DEF s
  <2>1. s[1] \in Half /\ s[2] \in Half /\ s = <<s[1], s[2]>>
    BY <1>6 DEF Pair
  <2> QED BY <2>1, Rotations DEF Pair
<1>8. DES_IP(p) = i
  BY DEF DES_IP
<1>9. DES_FP(i) = MoveXY(MoveXY(MoveYX(MoveYX(<<t[1], Right(t[2])>>, 8, M8), 2, M2), 16, M16), 4, M4)
  <2> HIDE DEF i, s, t
  <2> QED BY <1>6, <1>7 DEF DES_FP
<1> HIDE DEF i, s, t, q, c, b, a
<1> QED BY <1>1, <1>2, <1>3, <1>4, <1>5, <1>7, <1>8, <1>9

LEMMA IPofFP == ASSUME NEW p \in Pair PROVE DES_FP(p) \in Pair /\ DES_IP(DES_FP(p)) = p
<1> DEFINE u == <<Right(p[1]), p[2]>>
           s == MoveXY(u, 0, M1)
           q == <<s[1], Right(s[2])>>
           c == MoveYX(q, 8, M8)
           b == MoveYX(c, 2, M2)
           a == MoveXY(b, 16, M16)
           o == MoveXY(a, 4, M4)
<1>1. u \in Pair /\ <<Left(u[1]), u[2]>> = p
  <2>1. p[1] \in Half /\ p[2] \in Half /\ p = <<p[1], p[2]>>
    BY DEF Pair
  <2> QED BY <2>1, Rotations DEF Pair
<1>2. s \in Pair /\ MoveXY(s, 0, M1) = u
  <2> HIDE DEF u
  <2> QED BY <1>1, Moves
<1>3. q \in Pair /\ <<q[1], Left(q[2])>> = s
  <2> HIDE DEF s
  <2>1. s[1] \in Half /\ s[2] \in Half /\ s = <<s[1], s[2]>>
    BY <1>2 DEF Pair
  <2> QED BY <2>1, Rotations DEF Pair
<1>4. c \in Pair /\ MoveYX(c, 8, M8) = q
  <2> HIDE DEF q
  <2> QED BY <1>3, Moves
<1>5. b \in Pair /\ MoveYX(b, 2, M2) = c
  <2> HIDE DEF c
  <2> QED BY <1>4, Moves
<1>6. a \in Pair /\ MoveXY(a, 16, M16) = b
  <2> HIDE DEF b
  <2> QED BY <1>5, Moves
<1>7. o \in Pair /\ MoveXY(o, 4, M4) = a
  <2> HIDE DEF a
  <2> QED BY <1>6, Moves
<1>8. DES_FP(p) = o
  BY DEF DES_FP
<1>9. MoveYX(MoveYX(MoveXY(MoveXY(o, 4, M4), 16, M16), 2, M2), 8, M8) = q
  <2> HIDE DEF o, a, b, c, q
  <2> QED BY <1>4, <1>5, <1>6, <1>7
<1>10. DES_IP(o) = <<Left(u[1]), u[2]>>
  <2> HIDE DEF o, a, b, c, q, s, u
  <2> QED BY <1>2, <1>3, <1>9 DEF DES_IP
<1> HIDE DEF o, a, b, c, q, s, u
<1> QED BY <1>1, <1>7, <1>8, <1>10

\* One, two or three keys.
LEMMA KeyCount ==
  ASSUME keys \in KeyLists
  PROVE  /\ Len(keys) \in 1..3 /\ \A i \in 1..Len(keys) : keys[i] \in Keys
         /\ Rounds = IF Len(keys) = 1 THEN 16 ELSE 48
<1>1. CASE keys \in {<<k>> : k \in Keys}
  BY <1>1 DEF Rounds
<1>2. CASE keys \in Keys \X Keys
  BY <1>2 DEF Rounds
<1>3. CASE keys \in Keys \X Keys \X Keys
  BY <1>3 DEF Rounds
<1> QED BY <1>1, <1>2, <1>3 DEF KeyLists

\* Round q lies in one third, where it is number t.
LEMMA Thirds ==
  ASSUME keys \in KeyLists, NEW q \in 0..(Rounds - 1)
  PROVE  \E s \in 0..(Rounds \div 16 - 1), t \in 0..15 :
            /\ q = 16 * s + t /\ s \in 0..2 /\ q \div 16 = s /\ q % 2 = t % 2
            /\ (2 * q) \div 32 = s /\ (2 * q) % 32 = 2 * t
            /\ (2 * q + 1) \div 32 = s /\ (2 * q + 1) % 32 = 2 * t + 1
<1>1. Rounds = 16 \/ Rounds = 48
  BY KeyCount
<1>2. q \in Nat /\ q < Rounds
  BY <1>1
<1>3. q \div 16 \in 0..(Rounds \div 16 - 1) /\ q \div 16 \in 0..2
  BY <1>1, <1>2
<1>4. q - 16 * (q \div 16) \in 0..15
  BY <1>2
<1> USE <1>3, <1>4
<1> WITNESS q \div 16 \in 0..(Rounds \div 16 - 1), q - 16 * (q \div 16) \in 0..15
<1> QED BY <1>2, <1>3

\* Decrypt has the subkeys of encrypt in reverse order, round by round, and its rounds change the
\* other half.
LEMMA Schedules ==
  ASSUME keys \in KeyLists, NEW q \in 0..(Rounds - 1)
  PROVE  LET b == Rounds - 1 - q IN
         /\ b \in 0..(Rounds - 1) /\ Rounds - 1 - b = q
         /\ dsk(2 * q) = esk(2 * b) /\ dsk(2 * q + 1) = esk(2 * b + 1)
         /\ ChangesX(q) = ~ChangesX(b)
<1> DEFINE b == Rounds - 1 - q
           n == Rounds \div 16 - 1
<1>1. (Rounds = 16 /\ n = 0) \/ (Rounds = 48 /\ n = 2)
  BY KeyCount
<1>2. b \in 0..(Rounds - 1) /\ Rounds - 1 - b = q
  BY <1>1
<1>3. PICK s \in 0..n, t \in 0..15 :
         /\ q = 16 * s + t /\ s \in 0..2 /\ q \div 16 = s /\ q % 2 = t % 2
         /\ (2 * q) \div 32 = s /\ (2 * q) % 32 = 2 * t
         /\ (2 * q + 1) \div 32 = s /\ (2 * q + 1) % 32 = 2 * t + 1
  BY Thirds
<1>4. PICK u \in 0..n, v \in 0..15 :
         /\ b = 16 * u + v /\ u \in 0..2 /\ b \div 16 = u /\ b % 2 = v % 2
         /\ (2 * b) \div 32 = u /\ (2 * b) % 32 = 2 * v
         /\ (2 * b + 1) \div 32 = u /\ (2 * b + 1) % 32 = 2 * v + 1
  BY <1>2, Thirds
<1>5. u = n - s /\ v = 15 - t
  BY <1>1, <1>3, <1>4
<1>6. DecryptKey(s) = EncryptKey(u)
  BY <1>5 DEF DecryptKey
<1>7. /\ Reversed(2 * t) = 2 * v /\ Reversed(2 * t + 1) = 2 * v + 1
      /\ Reversed(2 * v) = 2 * t /\ Reversed(2 * v + 1) = 2 * t + 1
  <2>1. /\ (2 * t) \div 2 = t /\ (2 * t) % 2 = 0 /\ (2 * t + 1) \div 2 = t /\ (2 * t + 1) % 2 = 1
        /\ (2 * v) \div 2 = v /\ (2 * v) % 2 = 0 /\ (2 * v + 1) \div 2 = v /\ (2 * v + 1) % 2 = 1
    BY <1>3, <1>4
  <2> QED BY <2>1, <1>5 DEF Reversed
<1>8. (s = 1) <=> (u = 1)
  BY <1>1, <1>5
<1>9. dsk(2 * q) = esk(2 * b) /\ dsk(2 * q + 1) = esk(2 * b + 1)
  <2> HIDE DEF b
  <2> QED BY <1>3, <1>4, <1>6, <1>7, <1>8 DEF dsk, esk
<1>10. ChangesX(q) = ~ChangesX(b)
  <2>1. (t % 2 = 0) <=> (v % 2 = 1)
    <3>1. t \in 0..15 /\ v = 15 - t
      BY <1>5
    <3> HIDE DEF b, n
    <3> QED BY <3>1, Z3
  <2>2. t % 2 \in {0, 1} /\ v % 2 \in {0, 1}
    BY <1>3, <1>4
  <2> HIDE DEF b
  <2> QED BY <1>3, <1>4, <1>8, <2>1, <2>2 DEF ChangesX
<1> QED BY <1>2, <1>9, <1>10

\* Every subkey is one of those made of a key.
LEMMA Subkeys ==
  ASSUME keys \in KeyLists, NEW j \in 0..(2 * Rounds - 1)
  PROVE  esk(j) \in Keys \X Bits /\ dsk(j) \in Keys \X Bits
<1> DEFINE n == Rounds \div 16 - 1
           s == j \div 32
<1>1. (Len(keys) = 1 /\ Rounds = 16 /\ n = 0) \/ (Len(keys) \in {2, 3} /\ Rounds = 48 /\ n = 2)
  BY KeyCount
<1>2. s \in 0..n /\ j % 32 \in Bits
  BY <1>1 DEF Bits
<1>3. ASSUME NEW i \in 0..n PROVE EncryptKey(i) \in Keys
  BY <1>1, <1>3, KeyCount DEF EncryptKey
<1>4. n - s \in 0..n
  BY <1>1, <1>2
<1>5. Reversed(j % 32) \in Bits
  BY <1>2 DEF Reversed, Bits
<1>6. EncryptKey(s) \in Keys /\ DecryptKey(s) \in Keys
  BY <1>2, <1>3, <1>4 DEF DecryptKey
<1> QED BY <1>2, <1>5, <1>6 DEF esk, dsk

-----------------------------------------------------------------------------
(* The invariant.                                                          *)

\* Whatever the subkeys are, a round gives halves, and undoes itself.
LEMMA RoundType ==
  ASSUME NEW q, NEW v, NEW w, NEW p \in Pair PROVE Round(q, v, w, p) \in Pair
<1>1. p[1] \in Half /\ p[2] \in Half
  BY DEF Pair
<1>2. \A a, b : Xor(a, b) \in Half
  BY XorType
<1> QED BY <1>1, <1>2 DEF Round, Pair

LEMMA SBoxesType == ASSUME NEW v, NEW w, NEW x PROVE SBoxes(v, w, x) \in Half
BY DEF SBoxes, Half

\* A round undoes one with the same subkeys that changes the other half of exchanged halves.
LEMMA RoundTwice ==
  ASSUME NEW p \in Pair, NEW q, NEW b, NEW v, NEW w, ChangesX(q) = ~ChangesX(b)
  PROVE  Round(b, v, w, Swap(Round(q, v, w, p))) = Swap(p)
<1>1. p[1] \in Half /\ p[2] \in Half
  BY DEF Pair
<1>2. \A i \in {1, 2} : \A f \in Half : Xor(Xor(p[i], f), f) = p[i]
  BY <1>1, XorTwice
<1>3. SBoxes(v, w, p[1]) \in Half /\ SBoxes(v, w, p[2]) \in Half
  BY SBoxesType
<1>4. CASE ChangesX(q)
  <2>1. Round(q, v, w, p) = <<Xor(p[1], SBoxes(v, w, p[2])), p[2]>>
    BY <1>4 DEF Round
  <2>2. ~ChangesX(b)
    BY <1>4
  <2> QED BY <1>2, <1>3, <2>1, <2>2 DEF Round, Swap
<1>5. CASE ~ChangesX(q)
  <2>1. Round(q, v, w, p) = <<p[1], Xor(p[2], SBoxes(v, w, p[1]))>>
    BY <1>5 DEF Round
  <2>2. ChangesX(b)
    BY <1>5 DEF ChangesX
  <2> QED BY <1>2, <1>3, <2>1, <2>2 DEF Round, Swap
<1> QED BY <1>4, <1>5

\* What round Rounds - 1 - q of decrypt makes of the halves: a function of the keys alone.
Undo == [q \in 0..(Rounds - 1) |-> [p \in Pair |-> DecryptRound(Rounds - 1 - q, p)]]

\* Decrypt undoes the rounds of encrypt, the last one first.
LEMMA Undone ==
  ASSUME keys \in KeyLists, NEW q \in 0..(Rounds - 1), NEW p \in Pair
  PROVE  /\ EncryptRound(q, p) \in Pair /\ Undo[q][p] = DecryptRound(Rounds - 1 - q, p)
         /\ DecryptRound(q, p) \in Pair
         /\ Undo[q][Swap(EncryptRound(q, p))] = Swap(p)
<1> DEFINE b == Rounds - 1 - q
<1>1. /\ b \in 0..(Rounds - 1) /\ Rounds - 1 - b = q
      /\ dsk(2 * q) = esk(2 * b) /\ dsk(2 * q + 1) = esk(2 * b + 1)
      /\ ChangesX(q) = ~ChangesX(b)
  BY Schedules
<1>2. dsk(2 * b) = esk(2 * q) /\ dsk(2 * b + 1) = esk(2 * q + 1)
  <2> HIDE DEF b
  <2> QED BY <1>1, Schedules
<1>3. EncryptRound(q, p) \in Pair /\ DecryptRound(q, p) \in Pair
  BY RoundType DEF EncryptRound, DecryptRound
<1>4. Swap(EncryptRound(q, p)) \in Pair
  BY <1>3 DEF Swap, Pair
<1>5. \A x \in Pair : Undo[q][x] = DecryptRound(b, x)
  BY DEF Undo
<1>6. DecryptRound(b, Swap(EncryptRound(q, p))) = Swap(p)
  <2> HIDE DEF b
  <2> QED BY <1>1, <1>2, RoundTwice DEF EncryptRound, DecryptRound
<1> QED BY <1>3, <1>4, <1>5, <1>6

\* The first n rounds of the trace are those that Undo takes back.
Trail(n) == \A q \in 0..(n - 1) : Undo[q][Swap(trace[q + 1])] = Swap(trace[q])

Types ==
  /\ keys \in KeyLists /\ block \in Pair /\ out \in Pair
  /\ phase \in {"start", "encrypt", "encrypted", "decrypt", "done"}
  /\ X \in Half /\ Y \in Half /\ r \in 0..Rounds
  /\ trace \in [0..Rounds -> Pair]

Encrypting == phase = "encrypt" => Trail(r) /\ <<X, Y>> = trace[r]
Traced == phase \in {"encrypted", "decrypt"} => Trail(Rounds)
Loaded == phase \in {"encrypt", "encrypted", "decrypt"} => trace[0] = DES_IP(block)
PutOut == phase = "encrypted" => out = DES_FP(Swap(trace[Rounds]))
Decrypting == phase = "decrypt" => <<X, Y>> = Swap(trace[Rounds - r])

IInv == Types /\ Encrypting /\ Traced /\ Loaded /\ PutOut /\ Decrypting /\ DecryptInverts

LEMMA InitInv == Init => IInv
<1> SUFFICES ASSUME Init PROVE IInv
  OBVIOUS
<1>1. Zero \in Half
  BY DEF Zero, Half
<1>2. Rounds \in Nat
  BY KeyCount DEF Init
<1>3. Types
  BY <1>1, <1>2, BlockAssumption DEF Types, Init, Pair
<1> QED BY <1>3 DEF IInv, Init, Encrypting, Traced, Loaded, PutOut, Decrypting, DecryptInverts

\* The keys stay, and what depends on them alone.
LEMMA SameKeys == keys' = keys => Rounds' = Rounds /\ Undo' = Undo
<1> SUFFICES ASSUME keys' = keys PROVE Rounds' = Rounds /\ Undo' = Undo
  OBVIOUS
<1>1. Rounds' = Rounds
  BY DEF Rounds
<1> QED BY <1>1 DEF Undo, DecryptRound, Round, ChangesX, dsk, DecryptKey, EncryptKey

LEMMA NextInv == IInv /\ [Next]_vars => IInv'
<1> SUFFICES ASSUME IInv, [Next]_vars PROVE IInv'
  OBVIOUS
<1> USE DEF IInv
<1>1. keys \in KeyLists /\ Rounds \in {16, 48}
  BY KeyCount DEF Types
<1>2. keys' = keys /\ block' = block
  BY DEF Next, vars, LoadEncrypt, Encrypt, Store, LoadDecrypt, Decrypt
<1>3. Rounds' = Rounds /\ Undo' = Undo
  BY <1>2, SameKeys
<1>4. <<X, Y>> \in Pair /\ <<Y, X>> \in Pair /\ Swap(<<X, Y>>) = <<Y, X>> /\ Swap(<<Y, X>>) = <<X, Y>>
  BY DEF Types, Pair, Swap
<1>5. ASSUME NEW p \in Pair PROVE p = <<p[1], p[2]>> /\ p[1] \in Half /\ p[2] \in Half /\ Swap(Swap(p)) = p
  BY DEF Pair, Swap
<1>6. CASE LoadEncrypt
  <2>1. DES_IP(block) \in Pair
    BY FPofIP DEF Types
  <2>2. Types'
    BY <1>1, <1>2, <1>3, <1>5, <1>6, <2>1 DEF Types, LoadEncrypt, Halves
  <2>3. trace'[0] = DES_IP(block) /\ r' = 0
    BY <1>1, <1>6 DEF LoadEncrypt, Types
  <2>4. <<X', Y'>> = DES_IP(block)
    BY <1>5, <1>6, <2>1 DEF LoadEncrypt, Halves
  <2> QED BY <1>2, <1>6, <2>2, <2>3, <2>4
         DEF LoadEncrypt, Encrypting, Traced, Loaded, PutOut, Decrypting, DecryptInverts, Trail
<1>7. CASE Encrypt
  <2> DEFINE p == EncryptRound(r, <<X, Y>>)
  <2>1. r \in 0..(Rounds - 1) /\ r' = r + 1 /\ trace' = [trace EXCEPT ![r + 1] = p]
        /\ phase = "encrypt" /\ phase' = "encrypt" /\ X' = p[1] /\ Y' = p[2]
    BY <1>1, <1>7 DEF Encrypt, Types, Halves
  <2>2. p \in Pair /\ Undo[r][Swap(p)] = Swap(<<X, Y>>)
    BY <1>1, <1>4, <2>1, Undone
  <2> HIDE DEF p
  <2>3. Types'
    BY <1>1, <1>2, <1>3, <1>5, <1>7, <2>1, <2>2 DEF Types, Encrypt
  <2>4. trace'[r + 1] = p /\ \A q \in 0..r : trace'[q] = trace[q]
    BY <1>1, <2>1 DEF Types
  <2>5. Trail(r) /\ <<X, Y>> = trace[r]
    BY <2>1 DEF Encrypting
  <2>6. Trail(r)'
    <3> SUFFICES ASSUME NEW q \in 0..(r' - 1)
                 PROVE  Undo'[q][Swap(trace'[q + 1])] = Swap(trace'[q])
      BY DEF Trail
    <3>1. CASE q = r
      BY <1>3, <2>1, <2>2, <2>4, <2>5, <3>1
    <3>2. CASE q # r
      <4>1. q \in 0..(r - 1) /\ q + 1 \in 0..r /\ q \in 0..r
        BY <2>1, <3>2
      <4> QED BY <1>3, <2>4, <2>5, <4>1 DEF Trail
    <3> QED BY <3>1, <3>2
  <2>7. <<X', Y'>> = trace'[r']
    BY <1>5, <2>1, <2>2, <2>4
  <2>8. trace'[0] = DES_IP(block')
    BY <1>2, <2>1, <2>4 DEF Loaded
  <2> QED BY <2>1, <2>3, <2>6, <2>7, <2>8
         DEF Encrypting, Traced, Loaded, PutOut, Decrypting, DecryptInverts
<1>8. CASE Store("encrypt", "encrypted")
  <2>1. phase = "encrypt" /\ phase' = "encrypted" /\ r = Rounds /\ trace' = trace
        /\ out' = DES_FP(<<Y, X>>)
    BY <1>8 DEF Store
  <2>2. out' \in Pair
    BY <1>4, <2>1, IPofFP
  <2>3. Types'
    BY <1>1, <1>2, <1>3, <1>8, <2>1, <2>2 DEF Types, Store
  <2>4. Trail(Rounds) /\ <<X, Y>> = trace[Rounds]
    BY <2>1 DEF Encrypting
  <2>5. Trail(Rounds)'
    BY <1>3, <2>1, <2>4 DEF Trail
  <2>6. out' = DES_FP(Swap(trace'[Rounds']))
    BY <1>3, <1>4, <2>1, <2>4
  <2>7. trace'[0] = DES_IP(block')
    BY <1>2, <2>1 DEF Loaded
  <2> QED BY <2>1, <2>3, <2>5, <2>6, <2>7
         DEF Encrypting, Traced, Loaded, PutOut, Decrypting, DecryptInverts
<1>9. CASE LoadDecrypt
  <2>1. phase = "encrypted" /\ phase' = "decrypt" /\ r' = 0 /\ trace' = trace /\ out' = out
        /\ X' = DES_IP(out)[1] /\ Y' = DES_IP(out)[2]
    BY <1>9 DEF LoadDecrypt, Halves
  <2>2. trace[Rounds] \in Pair
    BY <1>1 DEF Types
  <2>3. Swap(trace[Rounds]) \in Pair
    BY <1>5, <2>2 DEF Swap, Pair
  <2>4. DES_IP(out) = Swap(trace[Rounds])
    BY <2>1, <2>3, IPofFP DEF PutOut
  <2>5. <<X', Y'>> = Swap(trace'[Rounds' - r']) /\ X' \in Half /\ Y' \in Half
    <3>1. Rounds' - r' = Rounds
      BY <1>1, <1>3, <2>1
    <3> QED BY <1>5, <2>1, <2>3, <2>4, <3>1
  <2>6. Types'
    BY <1>1, <1>2, <1>3, <2>1, <2>5 DEF Types
  <2>7. Trail(Rounds)'
    BY <1>3, <2>1 DEF Trail, Traced
  <2>8. trace'[0] = DES_IP(block')
    BY <1>2, <2>1 DEF Loaded
  <2> QED BY <2>1, <2>5, <2>6, <2>7, <2>8
         DEF Encrypting, Traced, Loaded, PutOut, Decrypting, DecryptInverts
<1>10. CASE Decrypt
  <2> DEFINE p == DecryptRound(r, <<X, Y>>)
             q == Rounds - 1 - r
  <2>1. r \in 0..(Rounds - 1) /\ r' = r + 1 /\ trace' = trace /\ out' = out
        /\ phase = "decrypt" /\ phase' = "decrypt" /\ X' = p[1] /\ Y' = p[2]
    BY <1>1, <1>10 DEF Decrypt, Types, Halves
  <2>2. q \in 0..(Rounds - 1) /\ q + 1 = Rounds - r /\ Rounds - r' = q /\ Rounds - 1 - q = r
    BY <1>1, <2>1
  <2>3. p \in Pair
    BY <1>1, <1>4, <2>1, Undone
  <2>4. Undo[q][<<X, Y>>] = p
    <3>1. Undo[q][<<X, Y>>] = DecryptRound(Rounds - 1 - q, <<X, Y>>)
      <4> HIDE DEF q
      <4> QED BY <1>1, <1>4, <2>2, Undone
    <3> QED BY <2>2, <3>1
  <2> HIDE DEF p, q
  <2>5. Trail(Rounds) /\ <<X, Y>> = Swap(trace[q + 1])
    BY <2>1, <2>2 DEF Traced, Decrypting
  <2>6. p = Swap(trace[q])
    BY <2>2, <2>4, <2>5 DEF Trail
  <2>7. <<X', Y'>> = Swap(trace'[Rounds' - r']) /\ X' \in Half /\ Y' \in Half
    BY <1>3, <1>5, <2>1, <2>2, <2>3, <2>6
  <2>8. Types'
    BY <1>1, <1>2, <1>3, <2>1, <2>7 DEF Types
  <2>9. Trail(Rounds)'
    BY <1>3, <2>1, <2>5 DEF Trail
  <2>10. trace'[0] = DES_IP(block')
    BY <1>2, <2>1 DEF Loaded
  <2> QED BY <2>1, <2>7, <2>8, <2>9, <2>10
         DEF Encrypting, Traced, Loaded, PutOut, Decrypting, DecryptInverts
<1>11. CASE Store("decrypt", "done")
  <2>1. phase = "decrypt" /\ phase' = "done" /\ r = Rounds /\ trace' = trace
        /\ out' = DES_FP(<<Y, X>>)
    BY <1>11 DEF Store
  <2>2. out' \in Pair
    BY <1>4, <2>1, IPofFP
  <2>3. Types'
    BY <1>1, <1>2, <1>3, <1>11, <2>1, <2>2 DEF Types, Store
  <2>4. trace[0] \in Pair /\ trace[0] = DES_IP(block) /\ <<X, Y>> = Swap(trace[0])
    <3>1. Rounds - r = 0 /\ 0 \in 0..Rounds
      BY <1>1, <2>1
    <3> QED BY <2>1, <3>1 DEF Types, Loaded, Decrypting
  <2>5. <<Y, X>> = DES_IP(block)
    BY <1>4, <1>5, <2>4
  <2>6. out' = block'
    BY <1>2, <2>1, <2>5, FPofIP DEF Types
  <2> QED BY <2>1, <2>3, <2>6
         DEF Encrypting, Traced, Loaded, PutOut, Decrypting, DecryptInverts
<1>12. CASE UNCHANGED vars
  BY <1>2, <1>3, <1>12
     DEF vars, Types, Encrypting, Traced, Loaded, PutOut, Decrypting, DecryptInverts, Trail
<1> QED BY <1>6, <1>7, <1>8, <1>9, <1>10, <1>11, <1>12 DEF Next

\* What des_set_key, des3_set_2keys and des3_set_3keys make of any keys, des_decrypt and
\* des3_decrypt take back what des_encrypt and des3_encrypt did to any block, whatever the S-boxes
\* are.
THEOREM Decryption == Spec => []DecryptInverts
<1>1. IInv => DecryptInverts
  BY DEF IInv
<1> QED BY <1>1, InitInv, NextInv, PTL DEF Spec

\* Every subkey a round takes is one the key schedule filled in, and the halves are 32 bits.
THEOREM TypeCorrect == Spec => []TypeOK
<1>1. IInv => TypeOK
  BY Subkeys DEF IInv, Types, TypeOK, Pair
<1> QED BY <1>1, InitInv, NextInv, PTL DEF Spec

-----------------------------------------------------------------------------
(***************************************************************************)
(* Des: the cipher is the standard's.  With equal keys the second third of *)
(* the rounds of Triple-DES takes back the first, and the third repeats    *)
(* it; the trace is therefore folded at rounds 16 and 32.                  *)
(***************************************************************************)

Triple == Rounds = 48 /\ \A i, j \in DOMAIN keys : keys[i] = keys[j]

\* With equal keys, a round of the second third is the one as far from round 16 on the other side,
\* and a round of the last third the one 32 rounds earlier.
LEMMA EqualRounds ==
  ASSUME keys \in KeyLists, Triple, NEW q \in 0..15, NEW p \in Pair
  PROVE  EncryptRound(31 - q, p) = EncryptRound(q, p) /\ EncryptRound(32 + q, p) = EncryptRound(q, p)
<1>1. EncryptKey(1) = EncryptKey(0) /\ EncryptKey(2) = EncryptKey(0)
  <2>1. Len(keys) \in {2, 3} /\ DOMAIN keys = 1..Len(keys)
    <3>1. Len(keys) \in {2, 3}
      BY KeyCount DEF Triple
    <3> QED BY <3>1 DEF KeyLists
  <2>2. CASE Len(keys) = 2
    BY <2>1, <2>2 DEF EncryptKey, Triple
  <2>3. CASE Len(keys) = 3
    BY <2>1, <2>3 DEF EncryptKey, Triple
  <2> QED BY <2>1, <2>2, <2>3
<1>2. /\ (2 * q) \div 32 = 0 /\ (2 * q) % 32 = 2 * q
      /\ (2 * q + 1) \div 32 = 0 /\ (2 * q + 1) % 32 = 2 * q + 1
      /\ (2 * (31 - q)) \div 32 = 1 /\ (2 * (31 - q)) % 32 = 30 - 2 * q
      /\ (2 * (31 - q) + 1) \div 32 = 1 /\ (2 * (31 - q) + 1) % 32 = 31 - 2 * q
      /\ (2 * (32 + q)) \div 32 = 2 /\ (2 * (32 + q)) % 32 = 2 * q
      /\ (2 * (32 + q) + 1) \div 32 = 2 /\ (2 * (32 + q) + 1) % 32 = 2 * q + 1
  OBVIOUS
<1>3. Reversed(30 - 2 * q) = 2 * q /\ Reversed(31 - 2 * q) = 2 * q + 1
  <2>1. /\ (30 - 2 * q) \div 2 = 15 - q /\ (30 - 2 * q) % 2 = 0
        /\ (31 - 2 * q) \div 2 = 15 - q /\ (31 - 2 * q) % 2 = 1
    OBVIOUS
  <2> QED BY <2>1 DEF Reversed
<1>4. esk(2 * (31 - q)) = esk(2 * q) /\ esk(2 * (31 - q) + 1) = esk(2 * q + 1)
  BY <1>1, <1>2, <1>3 DEF esk
<1>5. esk(2 * (32 + q)) = esk(2 * q) /\ esk(2 * (32 + q) + 1) = esk(2 * q + 1)
  BY <1>1, <1>2 DEF esk
<1>6. ChangesX(31 - q) = ChangesX(q) /\ ChangesX(32 + q) = ChangesX(q)
  <2>1. q \div 16 = 0 /\ (31 - q) \div 16 = 1 /\ (32 + q) \div 16 = 2
    OBVIOUS
  <2>2. ((31 - q) % 2 = 1) = (q % 2 = 0) /\ ((32 + q) % 2 = 0) = (q % 2 = 0)
    OBVIOUS
  <2> QED BY <2>1, <2>2 DEF ChangesX
<1> QED BY <1>4, <1>5, <1>6 DEF EncryptRound, Round

\* The same round twice changes nothing.
LEMMA RoundAgain ==
  ASSUME NEW p \in Pair, NEW q, NEW v, NEW w PROVE Round(q, v, w, Round(q, v, w, p)) = p
<1>1. p = <<p[1], p[2]>> /\ p[1] \in Half /\ p[2] \in Half
  BY DEF Pair
<1>2. \A i \in {1, 2} : \A f \in Half : Xor(Xor(p[i], f), f) = p[i]
  BY <1>1, XorTwice
<1>3. SBoxes(v, w, p[1]) \in Half /\ SBoxes(v, w, p[2]) \in Half
  BY SBoxesType
<1> QED BY <1>1, <1>2, <1>3 DEF Round

\* What round q of encrypt makes of the halves: a function of the keys alone.
Do == [q \in 0..(Rounds - 1) |-> [p \in Pair |-> EncryptRound(q, p)]]

LEMMA SameDo == keys' = keys => Do' = Do /\ Triple' = Triple
<1> SUFFICES ASSUME keys' = keys PROVE Do' = Do /\ Triple' = Triple
  OBVIOUS
<1>1. Rounds' = Rounds
  BY DEF Rounds
<1>2. Triple' = Triple
  BY <1>1 DEF Triple
<1> QED BY <1>1, <1>2 DEF Do, EncryptRound, Round, ChangesX, esk, EncryptKey

\* The first n rounds of the trace.
Folded(n) ==
  /\ \A q \in 0..(n - 1) : trace[q + 1] = Do[q][trace[q]]
  /\ n \in 16..32 => trace[n] = trace[32 - n]
  /\ n \in 32..48 => trace[n] = trace[n - 32]

EqualInv ==
  Triple => /\ phase = "encrypt" => Folded(r)
            /\ phase = "encrypted" => <<X, Y>> = trace[16]

LEMMA EqualNext == IInv /\ EqualInv /\ [Next]_vars => EqualInv'
<1> SUFFICES ASSUME IInv, EqualInv, [Next]_vars, Triple PROVE EqualInv'
  <2>1. [Next]_vars => keys' = keys
    BY DEF Next, vars, LoadEncrypt, Encrypt, Store, LoadDecrypt, Decrypt
  <2>2. [Next]_vars => Triple' = Triple
    BY <2>1, SameDo
  <2>3. [Next]_vars /\ ~Triple => EqualInv'
    BY <2>2 DEF EqualInv
  <2> QED BY <2>3
<1>1. keys \in KeyLists /\ Rounds = 48 /\ keys' = keys
  BY DEF Triple, IInv, Types, Next, vars, LoadEncrypt, Encrypt, Store, LoadDecrypt, Decrypt
<1>2. Do' = Do /\ Triple'
  BY <1>1, SameDo
<1>3. CASE LoadEncrypt
  <2>1. phase' = "encrypt" /\ r' = 0
    BY <1>3 DEF LoadEncrypt
  <2> QED BY <2>1 DEF EqualInv, Folded
<1>4. CASE Encrypt
  <2>1. /\ phase = "encrypt" /\ phase' = "encrypt" /\ r \in 0..47 /\ r' = r + 1
        /\ trace' = [trace EXCEPT ![r + 1] = EncryptRound(r, <<X, Y>>)]
        /\ <<X, Y>> = trace[r] /\ trace \in [0..48 -> Pair]
    BY <1>1, <1>4 DEF Encrypt, IInv, Types, Encrypting
  <2>2. /\ \A q \in 0..r : trace'[q] = trace[q] /\ trace[q] \in Pair
        /\ trace'[r + 1] = EncryptRound(r, trace[r])
    BY <2>1
  <2>3. \A q \in 0..47 : \A p \in Pair : Do[q][p] = EncryptRound(q, p)
    BY <1>1 DEF Do
  <2>4. Folded(r)
    BY <2>1 DEF EqualInv
  <2>5. ASSUME NEW q \in 0..r PROVE trace'[q + 1] = Do[q][trace'[q]]
    <3>1. CASE q = r
      BY <2>1, <2>2, <2>3, <3>1
    <3>2. CASE q # r
      <4>1. q \in 0..(r - 1) /\ q + 1 \in 0..r
        BY <2>1, <3>2
      <4> QED BY <2>2, <2>4, <4>1 DEF Folded
    <3> QED BY <3>1, <3>2
  <2>6. ASSUME r + 1 \in 16..32 PROVE trace'[r + 1] = trace'[32 - (r + 1)]
    <3>1. CASE r = 15
      BY <2>2, <3>1
    <3>2. CASE r # 15
      <4> DEFINE q == 31 - r
      <4>1. r \in 16..31 /\ q \in 0..15 /\ q \in 0..(r - 1) /\ r = 31 - q /\ 32 - r = q + 1
            /\ 32 - (r + 1) = q /\ q \in 0..r
        BY <2>1, <2>6, <3>2
      <4> HIDE DEF q
      <4>2. trace[r] = trace[q + 1] /\ trace[q + 1] = Do[q][trace[q]]
        BY <2>4, <4>1 DEF Folded
      <4>3. q \in 0..47 /\ trace[q] \in Pair
        BY <2>2, <4>1
      <4>4. trace[r] = EncryptRound(q, trace[q])
        BY <2>3, <4>2, <4>3
      <4>5. trace[r] \in Pair
        BY <2>2, <4>1
      <4>6. EncryptRound(r, trace[r]) = EncryptRound(q, trace[r])
        BY <1>1, <4>1, <4>5, EqualRounds
      <4>7. EncryptRound(q, EncryptRound(q, trace[q])) = trace[q]
        BY <4>3, RoundAgain DEF EncryptRound
      <4> QED BY <2>2, <4>1, <4>4, <4>6, <4>7
    <3> QED BY <3>1, <3>2
  <2>7. ASSUME r + 1 \in 32..48 PROVE trace'[r + 1] = trace'[(r + 1) - 32]
    <3>1. CASE r = 31
      <4>1. trace'[r + 1] = trace'[32 - (r + 1)] /\ 32 - (r + 1) = (r + 1) - 32
        BY <2>6, <3>1
      <4> QED BY <4>1
    <3>2. CASE r # 31
      <4> DEFINE q == r - 32
      <4>1. r \in 32..47 /\ q \in 0..15 /\ q \in 0..(r - 1) /\ r = 32 + q /\ (r + 1) - 32 = q + 1
            /\ q + 1 \in 0..r
        BY <2>1, <2>7, <3>2
      <4> HIDE DEF q
      <4>2. trace[r] = trace[q] /\ trace[q + 1] = Do[q][trace[q]]
        <5>1. r - 32 = q
          BY <4>1
        <5> QED BY <2>4, <4>1, <5>1 DEF Folded
      <4>3. q \in 0..47 /\ trace[q] \in Pair
        BY <2>2, <4>1
      <4>4. EncryptRound(r, trace[q]) = EncryptRound(q, trace[q])
        BY <1>1, <4>1, <4>3, EqualRounds
      <4> QED BY <2>2, <2>3, <4>1, <4>2, <4>3, <4>4
    <3> QED BY <3>1, <3>2
  <2>8. Folded(r)'
    <3>1. r' - 1 = r
      BY <2>1
    <3> QED BY <1>2, <2>1, <2>5, <2>6, <2>7, <3>1 DEF Folded
  <2> QED BY <2>1, <2>8 DEF EqualInv
<1>5. CASE Store("encrypt", "encrypted")
  <2>1. phase = "encrypt" /\ phase' = "encrypted" /\ r = 48 /\ UNCHANGED <<X, Y, trace>>
    BY <1>1, <1>5 DEF Store
  <2>2. <<X, Y>> = trace[48] /\ trace[48] = trace[48 - 32]
    BY <2>1 DEF IInv, Encrypting, EqualInv, Folded
  <2> QED BY <2>1, <2>2 DEF EqualInv
<1>6. CASE LoadDecrypt \/ Decrypt \/ Store("decrypt", "done")
  <2>1. phase' \in {"decrypt", "done"}
    BY <1>6 DEF LoadDecrypt, Decrypt, Store
  <2> QED BY <2>1 DEF EqualInv
<1>7. CASE UNCHANGED vars
  BY <1>2, <1>7 DEF vars, EqualInv, Folded
<1> QED BY <1>3, <1>4, <1>5, <1>6, <1>7 DEF Next

-----------------------------------------------------------------------------
(* The initial permutation, bit by bit.                                    *)

\* The halves after a Move: the bits that come from the other half, and the others.
LEMMA MovedBits ==
  ASSUME NEW p \in Pair, NEW k \in Nat, NEW mask \in SUBSET Bits
  PROVE  /\ \A j \in Bits :
              /\ MoveXY(p, k, mask)[1][j] = IF j - k \in mask THEN p[2][j - k] ELSE p[1][j]
              /\ MoveXY(p, k, mask)[2][j] = IF j \in mask THEN p[1][j + k] ELSE p[2][j]
         /\ \A j \in Bits :
              /\ MoveYX(p, k, mask)[2][j] = IF j - k \in mask THEN p[1][j - k] ELSE p[2][j]
              /\ MoveYX(p, k, mask)[1][j] = IF j \in mask THEN p[2][j + k] ELSE p[1][j]
BY DEF MoveXY, MoveYX, Move, Swap

\* Bit number 8 * c + b of a half, for the half with the lower numbers of the standard first.  The
\* standard's permutation takes the bits of the block by columns: those with the same b are a byte.
LEMMA PermutedBits ==
  ASSUME NEW p \in Pair, NEW a \in 0..3, NEW c \in 0..3
  PROVE  /\ DES_IP(p)[1][(32 - 8 * a - c) % 32] = p[2][8 * c + 6 - 2 * a]
         /\ DES_IP(p)[1][28 - 8 * a - c] = p[1][8 * c + 6 - 2 * a]
         /\ DES_IP(p)[2][(32 - 8 * a - c) % 32] = p[2][8 * c + 7 - 2 * a]
         /\ DES_IP(p)[2][28 - 8 * a - c] = p[1][8 * c + 7 - 2 * a]
<1>1. PICK p1 \in Pair : p1 = MoveXY(p, 4, M4)
  BY Moves
<1>2. PICK p2 \in Pair : p2 = MoveXY(p1, 16, M16)
  BY Moves
<1>3. PICK p3 \in Pair : p3 = MoveYX(p2, 2, M2)
  BY Moves
<1>4. PICK p4 \in Pair : p4 = MoveYX(p3, 8, M8)
  BY Moves
<1>5. PICK p5 \in Pair : p5 = <<p4[1], Left(p4[2])>>
  BY Rotations DEF Pair
<1>6. PICK p6 \in Pair : p6 = MoveXY(p5, 0, M1)
  BY Moves
<1>7. DES_IP(p) = <<Left(p6[1]), p6[2]>>
  BY <1>1, <1>2, <1>3, <1>4, <1>5, <1>6 DEF DES_IP
<1> DEFINE A0 == p[1]   B0 == p[2]
           A1 == p1[1]  B1 == p1[2]
           A2 == p2[1]  B2 == p2[2]
           A3 == p3[1]  B3 == p3[2]
           A4 == p4[1]  B4 == p4[2]
           A6 == p6[1]  B6 == p6[2]
<1>8. \A j \in 0..31 : /\ (j - 4 \in M4 <=> j % 8 >= 4) /\ (j \in M4 <=> j % 8 < 4)
                       /\ (j - 16 \in M16 <=> j >= 16) /\ (j \in M16 <=> j < 16)
  BY DEF M4, M16, Bits
<1>9. \A j \in 0..31 : /\ (j - 2 \in M2 <=> j % 4 >= 2) /\ (j \in M2 <=> j % 4 < 2)
                       /\ (j - 8 \in M8 <=> j % 16 >= 8) /\ (j \in M8 <=> j % 16 < 8)
                       /\ (j - 0 \in M1 <=> j % 2 = 1) /\ (j \in M1 <=> j % 2 = 1)
  BY DEF M2, M8, M1, Bits
<1>10. \A j \in 0..31 : /\ A1[j] = IF j % 8 >= 4 THEN B0[j - 4] ELSE A0[j]
                        /\ B1[j] = IF j % 8 < 4 THEN A0[j + 4] ELSE B0[j]
  <2>1. \A j \in Bits : /\ A1[j] = IF j - 4 \in M4 THEN B0[j - 4] ELSE A0[j]
                        /\ B1[j] = IF j \in M4 THEN A0[j + 4] ELSE B0[j]
    BY <1>1, MovedBits, Masks
  <2> QED BY <1>8, <2>1 DEF Bits
<1>11. \A j \in 0..31 : /\ A2[j] = IF j >= 16 THEN B1[j - 16] ELSE A1[j]
                        /\ B2[j] = IF j < 16 THEN A1[j + 16] ELSE B1[j]
  <2>1. \A j \in Bits : /\ A2[j] = IF j - 16 \in M16 THEN B1[j - 16] ELSE A1[j]
                        /\ B2[j] = IF j \in M16 THEN A1[j + 16] ELSE B1[j]
    BY <1>2, MovedBits, Masks
  <2> QED BY <1>8, <2>1 DEF Bits
<1>12. \A j \in 0..31 : /\ B3[j] = IF j % 4 >= 2 THEN A2[j - 2] ELSE B2[j]
                        /\ A3[j] = IF j % 4 < 2 THEN B2[j + 2] ELSE A2[j]
  <2>1. \A j \in Bits : /\ B3[j] = IF j - 2 \in M2 THEN A2[j - 2] ELSE B2[j]
                        /\ A3[j] = IF j \in M2 THEN B2[j + 2] ELSE A2[j]
    BY <1>3, MovedBits, Masks
  <2> QED BY <1>9, <2>1 DEF Bits
<1>13. \A j \in 0..31 : /\ B4[j] = IF j % 16 >= 8 THEN A3[j - 8] ELSE B3[j]
                        /\ A4[j] = IF j % 16 < 8 THEN B3[j + 8] ELSE A3[j]
  <2>1. \A j \in Bits : /\ B4[j] = IF j - 8 \in M8 THEN A3[j - 8] ELSE B3[j]
                        /\ A4[j] = IF j \in M8 THEN B3[j + 8] ELSE A3[j]
    BY <1>4, MovedBits, Masks
  <2> QED BY <1>9, <2>1 DEF Bits
<1>14. \A j \in 0..31 : LET i == IF j = 0 THEN 31 ELSE j - 1 IN
                        /\ A6[j] = IF j % 2 = 1 THEN B4[i] ELSE A4[j]
                        /\ B6[j] = IF j % 2 = 1 THEN A4[j] ELSE B4[i]
  <2>1. \A j \in Bits : p5[1][j] = A4[j] /\ p5[2][j] = B4[IF j = 0 THEN 31 ELSE j - 1]
    BY <1>5 DEF Left
  <2>2. \A j \in Bits : /\ A6[j] = IF j - 0 \in M1 THEN p5[2][j - 0] ELSE p5[1][j]
                        /\ B6[j] = IF j \in M1 THEN p5[1][j + 0] ELSE p5[2][j]
    BY <1>6, MovedBits, Masks
  <2>3. \A j \in 0..31 : j \in Bits /\ j - 0 = j /\ j + 0 = j
    BY DEF Bits
  <2> QED BY <1>9, <2>1, <2>2, <2>3
<1>15. \A j \in 0..31 : DES_IP(p)[1][j] = A6[IF j = 0 THEN 31 ELSE j - 1] /\ DES_IP(p)[2][j] = B6[j]
  <2>1. \A j \in 0..31 : Left(p6[1])[j] = A6[IF j = 0 THEN 31 ELSE j - 1]
    BY DEF Left, Bits
  <2> QED BY <1>7, <2>1
<1> HIDE DEF A0, B0, A1, B1, A2, B2, A3, B3, A4, B4, A6, B6
<1>16. /\ DES_IP(p)[1][(32 - 8 * a - c) % 32] = B0[8 * c + 6 - 2 * a]
       /\ DES_IP(p)[1][28 - 8 * a - c] = A0[8 * c + 6 - 2 * a]
       /\ DES_IP(p)[2][(32 - 8 * a - c) % 32] = B0[8 * c + 7 - 2 * a]
       /\ DES_IP(p)[2][28 - 8 * a - c] = A0[8 * c + 7 - 2 * a]
  <2>1. CASE a = 0
    <3>1. CASE c = 0
      BY <1>10, <1>11, <1>12, <1>13, <1>14, <1>15, <2>1, <3>1
    <3>2. CASE c = 1
      BY <1>10, <1>11, <1>12, <1>13, <1>14, <1>15, <2>1, <3>2
    <3>3. CASE c = 2
      BY <1>10, <1>11, <1>12, <1>13, <1>14, <1>15, <2>1, <3>3
    <3>4. CASE c = 3
      BY <1>10, <1>11, <1>12, <1>13, <1>14, <1>15, <2>1, <3>4
    <3> QED BY <3>1, <3>2, <3>3, <3>4
  <2>2. CASE a = 1
    <3>1. CASE c = 0
      BY <1>10, <1>11, <1>12, <1>13, <1>14, <1>15, <2>2, <3>1
    <3>2. CASE c = 1
      BY <1>10, <1>11, <1>12, <1>13, <1>14, <1>15, <2>2, <3>2
    <3>3. CASE c = 2
      BY <1>10, <1>11, <1>12, <1>13, <1>14, <1>15, <2>2, <3>3
    <3>4. CASE c = 3
      BY <1>10, <1>11, <1>12, <1>13, <1>14, <1>15, <2>2, <3>4
    <3> QED BY <3>1, <3>2, <3>3, <3>4
  <2>3. CASE a = 2
    <3>1. CASE c = 0
      BY <1>10, <1>11, <1>12, <1>13, <1>14, <1>15, <2>3, <3>1
    <3>2. CASE c = 1
      BY <1>10, <1>11, <1>12, <1>13, <1>14, <1>15, <2>3, <3>2
    <3>3. CASE c = 2
      BY <1>10, <1>11, <1>12, <1>13, <1>14, <1>15, <2>3, <3>3
    <3>4. CASE c = 3
      BY <1>10, <1>11, <1>12, <1>13, <1>14, <1>15, <2>3, <3>4
    <3> QED BY <3>1, <3>2, <3>3, <3>4
  <2>4. CASE a = 3
    <3>1. CASE c = 0
      BY <1>10, <1>11, <1>12, <1>13, <1>14, <1>15, <2>4, <3>1
    <3>2. CASE c = 1
      BY <1>10, <1>11, <1>12, <1>13, <1>14, <1>15, <2>4, <3>2
    <3>3. CASE c = 2
      BY <1>10, <1>11, <1>12, <1>13, <1>14, <1>15, <2>4, <3>3
    <3>4. CASE c = 3
      BY <1>10, <1>11, <1>12, <1>13, <1>14, <1>15, <2>4, <3>4
    <3> QED BY <3>1, <3>2, <3>3, <3>4
  <2> QED BY <2>1, <2>2, <2>3, <2>4
<1> QED BY <1>16 DEF A0, B0

\* The halves loaded are those of the standard.
LEMMA StandardBits ==
  ASSUME block \in Pair, NEW n \in 1..32
  PROVE  /\ DES_IP(block)[1][(33 - n) % 32] = Standard(n)
         /\ DES_IP(block)[2][(33 - n) % 32] = Standard(n + 32)
<1> DEFINE m == n - 1
           a == m \div 8
           b == m % 8
<1>1. m \in 0..31 /\ m = 8 * a + b /\ a \in 0..3 /\ b \in 0..7
  OBVIOUS
<1>2. (n + 32) - 33 = m /\ n <= 32 /\ ~(n + 32 <= 32)
  OBVIOUS
<1>3. /\ Standard(n) = LET at == 58 + 2 * a - 8 * b
                       IN  IF at <= 32 THEN block[1][32 - at] ELSE block[2][64 - at]
      /\ Standard(n + 32) = LET at == 57 + 2 * a - 8 * b
                            IN  IF at <= 32 THEN block[1][32 - at] ELSE block[2][64 - at]
  BY <1>2 DEF Standard
<1>4. 33 - n = 32 - 8 * a - b
  BY <1>1
<1> HIDE DEF m, a, b
<1>5. CASE b < 4
  <2>1. b \in 0..3 /\ ~(58 + 2 * a - 8 * b <= 32) /\ ~(57 + 2 * a - 8 * b <= 32)
        /\ 64 - (58 + 2 * a - 8 * b) = 8 * b + 6 - 2 * a
        /\ 64 - (57 + 2 * a - 8 * b) = 8 * b + 7 - 2 * a
    BY <1>1, <1>5
  <2> QED BY <1>1, <1>3, <1>4, <2>1, PermutedBits
<1>6. CASE b >= 4
  <2>1. PICK c \in 0..3 : b = 4 + c
    <3>1. b - 4 \in 0..3 /\ b = 4 + (b - 4)
      BY <1>1, <1>6
    <3> QED BY <3>1
  <2>2. 58 + 2 * a - 8 * b <= 32 /\ 57 + 2 * a - 8 * b <= 32
        /\ 32 - (58 + 2 * a - 8 * b) = 8 * c + 6 - 2 * a
        /\ 32 - (57 + 2 * a - 8 * b) = 8 * c + 7 - 2 * a
        /\ (33 - n) % 32 = 28 - 8 * a - c
    <3>1. 33 - n = 28 - 8 * a - c /\ 28 - 8 * a - c \in 0..31
      BY <1>1, <1>4, <2>1
    <3>2. (33 - n) % 32 = 33 - n
      BY <3>1
    <3> QED BY <1>1, <2>1, <3>1, <3>2
  <2> QED BY <1>1, <1>3, <2>2, PermutedBits
<1> QED BY <1>1, <1>5, <1>6

\* Triple-DES with equal keys is DES, and a block is loaded as the standard says: for every block,
\* all keys and every round function.
THEOREM CipherIsSound == Spec => []CipherSound
<1>1. Init => EqualInv
  BY DEF Init, EqualInv
<1>2. IInv /\ EqualInv => EqualKeysAreSingle
  BY DEF EqualInv, EqualKeysAreSingle, Triple
<1>3. IInv => LoadedAsStandard
  <2> SUFFICES ASSUME IInv, phase = "encrypt", r = 0, NEW n \in 1..32
               PROVE  X[(33 - n) % 32] = Standard(n) /\ Y[(33 - n) % 32] = Standard(n + 32)
    BY DEF LoadedAsStandard
  <2>1. <<X, Y>> = DES_IP(block) /\ block \in Pair
    BY DEF IInv, Types, Encrypting, Loaded
  <2>2. X = DES_IP(block)[1] /\ Y = DES_IP(block)[2]
    <3> HIDE DEF Pair
    <3>1. <<X, Y>>[1] = X /\ <<X, Y>>[2] = Y
      OBVIOUS
    <3> QED BY <2>1, <3>1
  <2> QED BY <2>1, <2>2, StandardBits
<1>4. Spec => []TypeOK
  BY TypeCorrect
<1> QED BY <1>1, <1>2, <1>3, <1>4, InitInv, NextInv, EqualNext, PTL DEF Spec, CipherSound

-----------------------------------------------------------------------------
(***************************************************************************)
(* GtkPlugin: an instance has one entry, and answers with its whole text.  *)
(***************************************************************************)

\* Multiples of a block, and the number of blocks a text takes.
LEMMA NextMultiple ==
  ASSUME NEW i \in Int, NEW j \in Int, i < j
  PROVE  (i + 1) * BlockLen <= j * BlockLen
BY TextAssumption

LEMMA BlocksOf ==
  ASSUME NEW k \in Nat, NEW n \in Nat, k <= n * BlockLen, n = 0 \/ (n - 1) * BlockLen < k
  PROVE  (k + BlockLen - 1) \div BlockLen = n
<1> DEFINE a == k + BlockLen - 1
           q == a \div BlockLen
           m == n * BlockLen
<1>1. /\ a \in Nat /\ q \in Int /\ m \in Nat /\ BlockLen \in Nat \ {0}
      /\ q * BlockLen <= a /\ a < q * BlockLen + BlockLen
  BY TextAssumption
<1>2. k <= m /\ a < m + BlockLen
  BY <1>1
<1>3. m <= a
  <2>1. CASE n = 0
    BY <2>1, <1>1
  <2>2. CASE n # 0
    <3>1. (n - 1) * BlockLen = m - BlockLen /\ (n - 1) * BlockLen < k
      BY <1>1, <2>2
    <3> QED BY <1>1, <3>1
  <2> QED BY <2>1, <2>2
<1>4. (q + 1) * BlockLen = q * BlockLen + BlockLen /\ (n + 1) * BlockLen = m + BlockLen
      /\ q * BlockLen \in Int
  BY <1>1
<1>5. CASE q < n
  <2>1. (q + 1) * BlockLen <= m
    BY <1>1, <1>5, NextMultiple
  <2> HIDE DEF q, m, a
  <2> QED BY <1>1, <1>3, <1>4, <2>1
<1>6. CASE n < q
  <2>1. (n + 1) * BlockLen <= q * BlockLen
    BY <1>1, <1>6, NextMultiple
  <2> HIDE DEF q, m, a
  <2> QED BY <1>1, <1>2, <1>4, <2>1
<1> QED BY <1>1, <1>5, <1>6

\* There is room for a whole block, or for none.
LEMMA RoomForBlock ==
  ASSUME NEW n \in Nat, n * BlockLen < OutLen
  PROVE  (n + 1) * BlockLen <= OutLen
<1> DEFINE q == OutLen \div BlockLen
<1>1. q \in Int /\ OutLen = q * BlockLen /\ OutLen \in Nat
  BY TextAssumption
<1>2. n < q
  <2>1. SUFFICES ASSUME q <= n PROVE FALSE
    BY <1>1
  <2>2. CASE q = n
    BY <2>2, <1>1
  <2>3. CASE q < n
    <3>1. (q + 1) * BlockLen <= n * BlockLen /\ (q + 1) * BlockLen = q * BlockLen + BlockLen
      BY <2>3, <1>1, NextMultiple, TextAssumption
    <3>2. n * BlockLen \in Int /\ q * BlockLen \in Int /\ BlockLen \in Nat \ {0}
      BY <1>1, TextAssumption
    <3> HIDE DEF q
    <3> QED BY <1>1, <3>1, <3>2
  <2> QED BY <1>1, <2>1, <2>2, <2>3
<1>3. (n + 1) * BlockLen <= q * BlockLen
  BY <1>1, <1>2, NextMultiple
<1> HIDE DEF q
<1> QED BY <1>1, <1>3

-----------------------------------------------------------------------------
\* An instance's CPlugin has a plug if and only if it is initialised, until it is deleted.
PlugsSound ==
  /\ plugs \in [Plugins -> Seq(Windows \cup {NULL})]
  /\ \A p \in Plugins : /\ memory[p] # "deleted" => Len(plugs[p]) = (IF m_bInitialized[p] THEN 1 ELSE 0)
                        /\ memory[p] = "deleted" => Len(plugs[p]) <= 1
                        /\ memory[p] # "allocated" => ~m_bInitialized[p]

\* A live instance has a CPlugin, and objects are of instances that were made.
InstancesSound ==
  /\ \A i \in Npps : npp[i] = "live" => pdata[i] # NULL
  /\ \A o \in Scripts : m_npp[o] # NULL => npp[m_npp[o]] # "none" /\ m_plugin[o] \in Plugins

\* The blocks hold the text of e, of n characters, from its start, and zeros after its end.
Holds(blocks, e, n) ==
  /\ blocks \in Seq([1..BlockLen -> [of : Plugins \cup {NULL}, at : Nat]])
  /\ \A b \in DOMAIN blocks, j \in 1..BlockLen :
       blocks[b][j] = IF (b - 1) * BlockLen + j <= n THEN Char(e, (b - 1) * BlockLen + j) ELSE End

\* While dupText runs it has passed what is in d_output, up to the end of the text, and has started
\* no block after the end.
OutputSound ==
  /\ Holds(output, entry, Length)
  /\ plain = -1 => output = <<>>
  /\ plain >= 0 => plain = (IF Len(output) * BlockLen <= Length THEN Len(output) * BlockLen ELSE Length)
  /\ Len(output) = 0 \/ (Len(output) - 1) * BlockLen < Length

\* dupText runs for a CPlugin of the object's instance, and reads its entry if its window was set.
AskedSound ==
  plain >= 0 =>
    /\ asked \in Scripts /\ m_plugin[asked] \in Plugins
    /\ m_pNPInstance[m_plugin[asked]] = m_npp[asked]
    /\ memory[m_plugin[asked]] = "allocated"
    /\ m_bInitialized[m_plugin[asked]] => entry = m_plugin[asked]

\* The entry of an answer was that of a CPlugin which had been made.
AnsweredSound == OwnText /\ (cipher.shown => memory[cipher.entry] # "none")

\* The inductive invariant of the password entry.
GateInv ==
  /\ GateTypeOK /\ PdataSound /\ ObjectsSound /\ PlugsSound /\ InstancesSound
  /\ OutputSound /\ AskedSound /\ AnsweredSound /\ TextWhole

LEMMA GateInitInv == GateInit => GateInv
<1> SUFFICES ASSUME GateInit PROVE GateInv
  OBVIOUS
<1> USE GateAssumption, TextAssumption DEF GateInit
<1>1. GateTypeOK
  BY DEF GateTypeOK, Length
<1>2. PdataSound /\ ObjectsSound /\ InstancesSound /\ AskedSound /\ AnsweredSound
  BY DEF PdataSound, ObjectsSound, InstancesSound, AskedSound, AnsweredSound, OwnText
<1>3. PlugsSound
  BY DEF PlugsSound
<1>4. OutputSound
  BY DEF OutputSound, Holds, Length
<1>5. TextWhole
  <2>1. (0 + BlockLen - 1) \div BlockLen = 0
    BY BlocksOf
  <2> QED BY <2>1 DEF TextWhole
<1> QED BY <1>1, <1>2, <1>3, <1>4, <1>5 DEF GateInv

\* The next block holds the next characters of the text.
LEMMA BlockHolds ==
  ASSUME GateInv, plain >= 0, More, NEW n, n = Len(output)
  PROVE  /\ n \in Nat /\ plain = n * BlockLen /\ n * BlockLen < Length
         /\ Passed(BlockLen) \in 0..Length
         /\ Passed(BlockLen) = IF (n + 1) * BlockLen <= Length THEN (n + 1) * BlockLen ELSE Length
         /\ (n + 1) * BlockLen <= OutLen
         /\ \A j \in 1..BlockLen :
              Character(j) = IF n * BlockLen + j <= Length THEN Char(entry, n * BlockLen + j) ELSE End
<1> DEFINE m == n * BlockLen
<1>0. Length \in Nat
  BY TextAssumption DEF GateInv, GateTypeOK, Length
<1>1. /\ n \in Nat /\ Length \in Nat /\ plain \in Int /\ m \in Nat /\ BlockLen \in Nat \ {0}
      /\ plain = IF m <= Length THEN m ELSE Length
      /\ plain < Length /\ m < OutLen
  BY <1>0, TextAssumption DEF GateInv, GateTypeOK, OutputSound, Holds, More
<1>2. plain = m /\ m < Length
  BY <1>1
<1>3. (n + 1) * BlockLen = m + BlockLen
  BY <1>1
<1>4. (n + 1) * BlockLen <= OutLen
  BY <1>1, RoomForBlock
<1> HIDE DEF m
<1>5. Passed(BlockLen) = IF m + BlockLen <= Length THEN m + BlockLen ELSE Length
  BY <1>2 DEF Passed
<1>6. Passed(BlockLen) \in 0..Length
  BY <1>1, <1>5
<1>7. \A j \in 1..BlockLen : Character(j) = IF m + j <= Length THEN Char(entry, m + j) ELSE End
  BY <1>1, <1>2 DEF Character, Passed
<1> QED BY <1>1, <1>2, <1>3, <1>4, <1>5, <1>6, <1>7 DEF m

\* What is answered is the text, or as much of it as d_output holds.
LEMMA AnswerWhole ==
  ASSUME GateInv, plain >= 0, ~More, cipher'.entry = entry,
         cipher'.len = Length, cipher'.blocks = output
  PROVE  TextWhole'
<1> DEFINE n == Len(output)
           m == n * BlockLen
           kept == IF Length < OutLen THEN Length ELSE OutLen
<1>0. Length \in Nat
  BY TextAssumption DEF GateInv, GateTypeOK, Length
<1>1. /\ n \in Nat /\ Length \in Nat /\ plain \in Int /\ m \in Nat /\ BlockLen \in Nat \ {0} /\ OutLen \in Nat
      /\ plain = IF m <= Length THEN m ELSE Length
      /\ plain >= Length \/ m >= OutLen
      /\ m <= OutLen
      /\ n = 0 \/ (n - 1) * BlockLen < Length
      /\ DOMAIN output = 1..n
  BY <1>0, TextAssumption DEF GateInv, GateTypeOK, OutputSound, Holds, More
<1>2. (n - 1) * BlockLen = m - BlockLen /\ (n = 0 => m = 0)
  BY <1>1
<1> HIDE DEF n, m
<1>3. kept \in Nat /\ kept <= m /\ (n = 0 \/ (n - 1) * BlockLen < kept)
  BY <1>1, <1>2
<1>4. (kept + BlockLen - 1) \div BlockLen = n
  BY <1>1, <1>3, BlocksOf DEF m
<1>5. ASSUME NEW b \in DOMAIN output, NEW j \in 1..BlockLen
      PROVE  output[b][j] = IF (b - 1) * BlockLen + j <= kept THEN Char(entry, (b - 1) * BlockLen + j) ELSE End
  <2> DEFINE c == (b - 1) * BlockLen + j
  <2>1. output[b][j] = IF c <= Length THEN Char(entry, c) ELSE End
    BY DEF GateInv, OutputSound, Holds
  <2>2. b \in Int /\ b <= n /\ c \in Int /\ c <= b * BlockLen /\ b * BlockLen \in Int
    <3>1. b \in Int /\ b <= n /\ j \in Int /\ j <= BlockLen /\ BlockLen \in Int
      BY <1>1
    <3>2. b * BlockLen \in Int /\ (b - 1) * BlockLen = b * BlockLen - BlockLen
      BY <3>1
    <3> QED BY <3>1, <3>2
  <2>3. b * BlockLen <= m
    <3>1. CASE b = n
      BY <3>1, <2>2, <1>1 DEF m
    <3>2. CASE b < n
      <4>1. (b + 1) * BlockLen <= n * BlockLen /\ (b + 1) * BlockLen = b * BlockLen + BlockLen
        BY <1>1, <2>2, <3>2, NextMultiple
      <4> QED BY <1>1, <2>2, <4>1 DEF m
    <3> QED BY <1>1, <2>2, <3>1, <3>2
  <2> HIDE DEF c
  <2>4. c <= Length <=> c <= kept
    BY <1>1, <2>2, <2>3
  <2> QED BY <2>1, <2>4 DEF c
<1> QED BY <1>4, <1>5 DEF TextWhole, n

\* What a call of the browser that is no request leaves alone.
LEMMA DupUntouched ==
  ASSUME GateInv, UNCHANGED text, UNCHANGED dupVars
  PROVE  Length' = Length /\ OutputSound' /\ TextWhole'
<1>1. Length' = Length
  BY DEF dupVars, Length
<1>2. OutputSound /\ TextWhole
  BY DEF GateInv
<1> QED BY <1>1, <1>2 DEF dupVars, OutputSound, Holds, TextWhole

\* What dupText leaves alone.
LEMMA PluginsUntouched ==
  ASSUME GateInv, UNCHANGED pluginVars
  PROVE  PdataSound' /\ ObjectsSound' /\ PlugsSound' /\ InstancesSound'
BY DEF GateInv, pluginVars, PdataSound, ObjectsSound, PlugsSound, InstancesSound

LEMMA GateNextInv == GateInv /\ [GateNext]_gateVars => GateInv'
<1> SUFFICES ASSUME GateInv, [GateNext]_gateVars PROVE GateInv'
  OBVIOUS
<1> USE GateAssumption, TextAssumption
<1>0. /\ GateTypeOK /\ PdataSound /\ ObjectsSound /\ PlugsSound /\ InstancesSound
      /\ OutputSound /\ AskedSound /\ AnsweredSound /\ TextWhole
  BY DEF GateInv
<1>1. ASSUME NEW i \in Npps, NEW p \in Plugins, NPP_New(i, p) PROVE GateInv'
  <2>1. OutputSound' /\ TextWhole' /\ Length' = Length
    BY <1>1, DupUntouched DEF NPP_New
  <2>2. GateTypeOK'
    BY <1>0, <1>1, <2>1 DEF NPP_New, GateTypeOK, dupVars
  <2>3. PdataSound' /\ ObjectsSound' /\ InstancesSound'
    BY <1>0, <1>1 DEF NPP_New, GateTypeOK, PdataSound, ObjectsSound, InstancesSound
  <2>4. PlugsSound'
    BY <1>0, <1>1 DEF NPP_New, GateTypeOK, PlugsSound
  <2>5. AskedSound' /\ AnsweredSound'
    BY <1>0, <1>1 DEF NPP_New, GateTypeOK, AskedSound, AnsweredSound, OwnText, dupVars
  <2> QED BY <2>1, <2>2, <2>3, <2>4, <2>5 DEF GateInv
<1>2. ASSUME NEW i \in Npps, NPP_Destroy(i) PROVE GateInv'
  <2>1. OutputSound' /\ TextWhole' /\ Length' = Length
    BY <1>2, DupUntouched DEF NPP_Destroy
  <2>2. GateTypeOK'
    BY <1>0, <1>2, <2>1 DEF NPP_Destroy, Cleared, GateTypeOK, dupVars
  <2>3. PdataSound' /\ InstancesSound'
    BY <1>0, <1>2 DEF NPP_Destroy, Cleared, GateTypeOK, PdataSound, InstancesSound
  <2>6. ObjectsSound'
    <3> SUFFICES ASSUME NEW o \in Scripts, m_npp[o] # NULL, npp'[m_npp[o]] = "live"
                 PROVE  memory'[m_plugin[o]] = "allocated" /\ m_pNPInstance[m_plugin[o]] = m_npp[o]
      BY <1>2 DEF NPP_Destroy, ObjectsSound
    <3>1. m_npp[o] \in Npps /\ m_npp[o] # i /\ npp[m_npp[o]] = "live"
      BY <1>0, <1>2 DEF NPP_Destroy, GateTypeOK
    <3>2. memory[m_plugin[o]] = "allocated" /\ m_pNPInstance[m_plugin[o]] = m_npp[o]
      BY <1>0, <3>1 DEF ObjectsSound
    <3>3. pdata[i] # NULL => m_plugin[o] # pdata[i]
      BY <1>0, <3>1, <3>2 DEF PdataSound
    <3>4. m_plugin[o] \in Plugins
      BY <1>0 DEF InstancesSound
    <3> QED BY <1>0, <1>2, <3>2, <3>3, <3>4 DEF NPP_Destroy, GateTypeOK
  <2>4. PlugsSound'
    <3>1. CASE pdata[i] = NULL
      BY <1>0, <1>2, <3>1 DEF NPP_Destroy, PlugsSound
    <3>2. CASE pdata[i] # NULL
      <4> DEFINE p == pdata[i]
      <4>1. /\ p \in Plugins /\ UNCHANGED plugs
            /\ m_bInitialized' = [m_bInitialized EXCEPT ![p] = FALSE]
            /\ memory' = [memory EXCEPT ![p] = "deleted"]
        BY <1>0, <1>2, <3>2 DEF NPP_Destroy, GateTypeOK
      <4>2. memory[p] = "allocated"
        BY <1>0, <1>2, <3>2 DEF NPP_Destroy, PdataSound
      <4> HIDE DEF p
      <4>3. /\ m_bInitialized \in [Plugins -> BOOLEAN]
            /\ memory \in [Plugins -> {"none", "allocated", "deleted"}]
        BY <1>0 DEF GateTypeOK
      <4>4. /\ plugs \in [Plugins -> Seq(Windows \cup {NULL})]
            /\ Len(plugs[p]) = (IF m_bInitialized[p] THEN 1 ELSE 0)
        BY <1>0, <4>1, <4>2 DEF PlugsSound
      <4>5. Len(plugs[p]) <= 1
        BY <4>4
      <4>6. ASSUME NEW k \in Plugins
            PROVE  /\ memory'[k] # "deleted" => Len(plugs[k]) = (IF m_bInitialized'[k] THEN 1 ELSE 0)
                   /\ memory'[k] = "deleted" => Len(plugs[k]) <= 1
                   /\ memory'[k] # "allocated" => ~m_bInitialized'[k]
        <5>1. CASE k = p
          BY <4>1, <4>3, <4>5, <5>1
        <5>2. CASE k # p
          <6>1. memory'[k] = memory[k] /\ m_bInitialized'[k] = m_bInitialized[k]
            BY <4>1, <4>3, <5>2
          <6> QED BY <1>0, <6>1 DEF PlugsSound
        <5> QED BY <5>1, <5>2
      <4> QED BY <4>1, <4>4, <4>6 DEF PlugsSound
    <3> QED BY <3>1, <3>2
  <2>5. AskedSound' /\ AnsweredSound'
    BY <1>0, <1>2 DEF NPP_Destroy, GateTypeOK, AskedSound, AnsweredSound, OwnText, dupVars
  <2> QED BY <2>1, <2>2, <2>3, <2>4, <2>5, <2>6 DEF GateInv
<1>3. ASSUME NEW i \in Npps, NEW w \in Windows \cup {NULL}, NPP_SetWindow(i, w) PROVE GateInv'
  <2> DEFINE p == pdata[i]
  <2>1. OutputSound' /\ TextWhole' /\ Length' = Length
    BY <1>3, DupUntouched DEF NPP_SetWindow
  <2>2. /\ p \in Plugins /\ memory[p] = "allocated" /\ ~m_bInitialized[p] /\ plain = -1
        /\ plugs' = [plugs EXCEPT ![p] = Append(@, w)]
        /\ m_bInitialized' = [m_bInitialized EXCEPT ![p] = TRUE]
        /\ UNCHANGED <<npp, pdata, memory, m_pNPInstance, m_npp, m_plugin, text, dupVars>>
    BY <1>0, <1>3 DEF NPP_SetWindow, Inits, GateTypeOK, PdataSound
  <2> HIDE DEF p
  <2>3. GateTypeOK' /\ PdataSound' /\ ObjectsSound' /\ InstancesSound'
    BY <1>0, <2>1, <2>2 DEF GateTypeOK, PdataSound, ObjectsSound, InstancesSound, dupVars
  <2>4. PlugsSound'
    <3>1. plugs[p] \in Seq(Windows \cup {NULL}) /\ Len(plugs[p]) = 0
      BY <1>0, <2>2 DEF PlugsSound
    <3>2. Append(plugs[p], w) \in Seq(Windows \cup {NULL}) /\ Len(Append(plugs[p], w)) = 1
      BY <3>1
    <3> QED BY <1>0, <2>2, <3>2 DEF PlugsSound, GateTypeOK
  <2>5. AskedSound' /\ AnsweredSound'
    BY <1>0, <2>2 DEF AskedSound, AnsweredSound, OwnText, dupVars
  <2> QED BY <2>1, <2>3, <2>4, <2>5 DEF GateInv
<1>4. ASSUME NEW i \in Npps, NEW o \in Scripts, CreateObject(i, o) PROVE GateInv'
  <2>1. OutputSound' /\ TextWhole' /\ Length' = Length
    BY <1>4, DupUntouched DEF CreateObject
  <2>2. GateTypeOK'
    BY <1>0, <1>4, <2>1 DEF CreateObject, GateTypeOK, dupVars
  <2>3. PdataSound' /\ ObjectsSound' /\ InstancesSound' /\ PlugsSound'
    BY <1>0, <1>4 DEF CreateObject, GateTypeOK, PdataSound, ObjectsSound, InstancesSound, PlugsSound
  <2>4. AskedSound' /\ AnsweredSound'
    BY <1>0, <1>4 DEF CreateObject, AskedSound, AnsweredSound, OwnText, dupVars
  <2> QED BY <2>1, <2>2, <2>3, <2>4 DEF GateInv
<1>5. ASSUME NEW p \in Plugins, NEW n \in 0..MaxText, Type(p, n) PROVE GateInv'
  <2>1. /\ plain = -1 /\ text' = [text EXCEPT ![p] = n] /\ output = <<>>
        /\ UNCHANGED pluginVars /\ UNCHANGED dupVars
    BY <1>0, <1>5 DEF Type, OutputSound
  <2>2. Length' \in Nat /\ GateTypeOK'
    BY <1>0, <2>1 DEF GateTypeOK, Length, pluginVars, dupVars
  <2>3. OutputSound'
    BY <2>1, <2>2 DEF OutputSound, Holds, dupVars
  <2>4. AskedSound' /\ AnsweredSound' /\ TextWhole'
    BY <1>0, <2>1 DEF AskedSound, AnsweredSound, OwnText, TextWhole, dupVars, pluginVars
  <2> QED BY <2>1, <2>2, <2>3, <2>4, PluginsUntouched DEF GateInv
<1>6. ASSUME NEW o \in Scripts, GetTextData(o) PROVE GateInv'
  <2>1. /\ m_npp[o] # NULL /\ npp[m_npp[o]] = "live"
        /\ asked' = o /\ entry' \in Entries(m_plugin[o])
        /\ plain' = 0 /\ output' = <<>> /\ UNCHANGED pluginVars /\ UNCHANGED <<text, cipher>>
    BY <1>6 DEF GetTextData
  <2>2. /\ memory[m_plugin[o]] = "allocated" /\ m_pNPInstance[m_plugin[o]] = m_npp[o]
        /\ m_plugin[o] \in Plugins
    BY <1>0, <2>1 DEF ObjectsSound, InstancesSound, GateTypeOK
  <2>3. entry' \in Plugins \cup {NULL} /\ Length' \in Nat
    BY <1>0, <2>1, <2>2 DEF Entries, Length, GateTypeOK
  <2>4. GateTypeOK'
    BY <1>0, <2>1, <2>3 DEF GateTypeOK, pluginVars
  <2>5. OutputSound'
    BY <2>1, <2>3 DEF OutputSound, Holds
  <2>6. AskedSound' /\ AnsweredSound' /\ TextWhole'
    BY <1>0, <2>1, <2>2 DEF AskedSound, AnsweredSound, OwnText, TextWhole, Entries, pluginVars
  <2> QED BY <2>1, <2>4, <2>5, <2>6, PluginsUntouched DEF GateInv
<1>7. ASSUME EncryptBlock PROVE GateInv'
  <2> DEFINE n == Len(output)
             filled == [j \in 1..BlockLen |-> Character(j)]
             Chars == [of : Plugins \cup {NULL}, at : Nat]
  <2>1. /\ plain >= 0 /\ More /\ output' = Append(output, filled) /\ plain' = Passed(BlockLen)
        /\ UNCHANGED pluginVars /\ UNCHANGED <<text, asked, entry, cipher>>
    BY <1>7 DEF EncryptBlock
  <2>2. /\ n \in Nat /\ plain = n * BlockLen /\ n * BlockLen < Length
        /\ Passed(BlockLen) \in 0..Length
        /\ Passed(BlockLen) = IF (n + 1) * BlockLen <= Length THEN (n + 1) * BlockLen ELSE Length
        /\ (n + 1) * BlockLen <= OutLen
        /\ \A j \in 1..BlockLen :
             Character(j) = IF n * BlockLen + j <= Length THEN Char(entry, n * BlockLen + j) ELSE End
    BY <2>1, BlockHolds
  <2>3. /\ Length \in Nat /\ Length' = Length /\ entry \in Plugins \cup {NULL}
        /\ n * BlockLen \in Nat /\ output \in Seq([1..BlockLen -> Chars])
    BY <1>0, <2>1, <2>2 DEF GateTypeOK, OutputSound, Holds, Length
  <2>4. filled \in [1..BlockLen -> Chars]
    <3>1. ASSUME NEW j \in 1..BlockLen PROVE Character(j) \in Chars
      <4>1. Character(j) = IF n * BlockLen + j <= Length THEN Char(entry, n * BlockLen + j) ELSE End
        BY <2>2
      <4>2. n * BlockLen + j \in Nat
        <5>1. n * BlockLen \in Nat
          BY <2>3
        <5> HIDE DEF n
        <5> QED BY <5>1
      <4>3. End \in Chars /\ Char(entry, n * BlockLen + j) \in Chars
        BY <2>3, <4>2 DEF End, Char
      <4> QED BY <4>1, <4>3
    <3> QED BY <3>1
  <2>5. /\ output' \in Seq([1..BlockLen -> Chars]) /\ Len(output') = n + 1 /\ DOMAIN output' = 1..(n + 1)
        /\ output'[n + 1] = filled /\ \A b \in 1..n : output'[b] = output[b]
    <3> HIDE DEF filled, Chars
    <3> QED BY <2>1, <2>2, <2>3, <2>4
  <2>6. GateTypeOK'
    BY <1>0, <2>1, <2>2, <2>3, <2>5 DEF GateTypeOK, pluginVars
  <2>7. Holds(output', entry, Length)
    <3> SUFFICES ASSUME NEW b \in 1..(n + 1), NEW j \in 1..BlockLen
                 PROVE output'[b][j] = IF (b - 1) * BlockLen + j <= Length
                                       THEN Char(entry, (b - 1) * BlockLen + j) ELSE End
      BY <2>5 DEF Holds
    <3>1. CASE b = n + 1
      <4>1. output'[b][j] = Character(j) /\ (b - 1) = n
        BY <2>2, <2>5, <3>1
      <4> QED BY <2>2, <4>1
    <3>2. CASE b \in 1..n
      <4>1. output'[b] = output[b]
        BY <2>5, <3>2
      <4>2. DOMAIN output = 1..n
        BY <2>3
      <4>3. output[b][j] = IF (b - 1) * BlockLen + j <= Length
                           THEN Char(entry, (b - 1) * BlockLen + j) ELSE End
        BY <1>0, <3>2, <4>2 DEF OutputSound, Holds
      <4> QED BY <4>1, <4>3
    <3> QED BY <2>2, <3>1, <3>2
  <2>8. OutputSound'
    <3>1. Len(output') - 1 = n /\ plain' # -1 /\ Length' = Length /\ entry' = entry
      BY <2>1, <2>2, <2>3, <2>5
    <3>2. Holds(output', entry', Length')
      BY <2>7, <3>1
    <3> QED BY <2>1, <2>2, <2>5, <3>1, <3>2 DEF OutputSound
  <2>9. AskedSound' /\ AnsweredSound' /\ TextWhole'
    BY <1>0, <2>1 DEF AskedSound, AnsweredSound, OwnText, TextWhole, pluginVars
  <2> QED BY <2>1, <2>6, <2>8, <2>9, PluginsUntouched DEF GateInv
<1>8. ASSUME Answer PROVE GateInv'
  <2>1. /\ plain >= 0 /\ ~More
        /\ cipher' = [of |-> m_npp[asked], shown |-> m_bInitialized[m_plugin[asked]],
                      entry |-> entry, len |-> Length, blocks |-> output]
        /\ entry' = NULL /\ plain' = -1 /\ output' = <<>>
        /\ UNCHANGED pluginVars /\ UNCHANGED text
    BY <1>8 DEF Answer
  <2>2. TextWhole'
    <3>1. cipher'.entry = entry /\ cipher'.len = Length /\ cipher'.blocks = output
      BY <2>1
    <3> QED BY <2>1, <3>1, AnswerWhole
  <2>3. Length' = 0
    BY <2>1 DEF Length
  <2>4. GateTypeOK'
    BY <1>0, <2>1, <2>3 DEF GateTypeOK, pluginVars
  <2>5. OutputSound'
    BY <2>1, <2>3 DEF OutputSound, Holds
  <2>6. AskedSound'
    BY <2>1 DEF AskedSound
  <2>7. AnsweredSound'
    BY <1>0, <2>1 DEF AskedSound, AnsweredSound, OwnText, pluginVars
  <2> QED BY <2>1, <2>2, <2>4, <2>5, <2>6, <2>7, PluginsUntouched DEF GateInv
<1>9. CASE UNCHANGED gateVars
  <2>1. UNCHANGED pluginVars /\ UNCHANGED text /\ UNCHANGED dupVars
    BY <1>9 DEF gateVars
  <2>2. OutputSound' /\ TextWhole' /\ Length' = Length
    BY <2>1, DupUntouched
  <2>3. GateTypeOK'
    BY <1>0, <2>1, <2>2 DEF GateTypeOK, pluginVars, dupVars
  <2>4. AskedSound' /\ AnsweredSound'
    BY <1>0, <2>1 DEF AskedSound, AnsweredSound, OwnText, pluginVars, dupVars
  <2> QED BY <2>1, <2>2, <2>3, <2>4, PluginsUntouched DEF GateInv
<1> QED BY <1>1, <1>2, <1>3, <1>4, <1>5, <1>6, <1>7, <1>8, <1>9 DEF GateNext

\* The inductive invariant holds in every behaviour.
LEMMA GateInvariant == GateSpec => []GateInv
  BY GateInitInv, GateNextInv, PTL DEF GateSpec

\* Every instance of plugin-gtk has one entry of its own, late calls and the page's objects find no
\* deleted CPlugin, and once its window was set an instance answers TextData with the text of its own
\* entry, whole and in order, cut at the size of d_output: for every number of instances and objects,
\* every size of a block and of d_output, and every text.
THEOREM EntryIsSound == GateSpec => []EntrySound
<1>1. GateInv => OneEntry
  <2> SUFFICES ASSUME GateInv, NEW p \in Plugins PROVE Len(plugs[p]) <= 1
    BY DEF OneEntry
  <2>1. memory[p] # "deleted" => Len(plugs[p]) = (IF m_bInitialized[p] THEN 1 ELSE 0)
    BY DEF GateInv, PlugsSound
  <2>2. memory[p] = "deleted" => Len(plugs[p]) <= 1
    BY DEF GateInv, PlugsSound
  <2>3. CASE memory[p] # "deleted"
    <3>1. CASE m_bInitialized[p]
      <4>1. Len(plugs[p]) = 1
        BY <2>1, <2>3, <3>1
      <4>2. 1 <= 1
        OBVIOUS
      <4> QED BY <4>1, <4>2
    <3>2. CASE ~m_bInitialized[p]
      <4>1. Len(plugs[p]) = 0
        BY <2>1, <2>3, <3>2
      <4>2. 0 <= 1
        OBVIOUS
      <4> QED BY <4>1, <4>2
    <3> QED BY <3>1, <3>2
  <2> QED BY <2>2, <2>3
<1>2. GateInv => EntrySound
  BY <1>1 DEF GateInv, EntrySound, AnsweredSound
<1> QED BY <1>2, GateInvariant, PTL
=============================================================================
