-------------------------------- MODULE Des --------------------------------
(***************************************************************************)
(* DES and Triple-DES of plugin-gtk (des.cpp): the key schedules of        *)
(* des_set_key, des3_set_2keys and des3_set_3keys, and a block that is     *)
(* encrypted and then decrypted, one DES_ROUND at a time.                  *)
(*                                                                         *)
(* A half block is its 32 bits, 0 the lowest; the shifts, masks and        *)
(* exclusive ors of DES_IP and DES_FP move bits.  What a round computes    *)
(* from a half and two subkeys (the S-boxes) is a constant, and a subkey   *)
(* is its key and its place in what des_main_ks makes of it.               *)
(***************************************************************************)
EXTENDS Integers, Sequences

CONSTANTS Keys,
          Blocks,     \* the blocks that are encrypted: pairs of halves
          F(_, _, _, _)  \* of two subkeys and a half: whether a bit of what a DES_ROUND xors to
                         \* the other half is set

Bits == 0..31
Half == [Bits -> BOOLEAN]
KeyLists == {<<k>> : k \in Keys} \cup (Keys \X Keys) \cup (Keys \X Keys \X Keys)

ASSUME BlockAssumption == Blocks \subseteq Half \X Half

VARIABLES keys,   \* one key for DES, two or three for Triple-DES
          block,  \* the block given to encrypt
          phase,  \* "start", "encrypt", "encrypted", "decrypt", "done"
          X, Y,   \* the halves
          r,      \* rounds done
          out,    \* the block put out last
          trace   \* the halves before each round of encrypt, and after the last

vars == <<keys, block, phase, X, Y, r, out, trace>>

-----------------------------------------------------------------------------
(* Bits.                                                                   *)

Xor(a, b) == [j \in Bits |-> a[j] # b[j]]

\* T = ((A >> k) ^ B) & mask; B ^= T; A ^= T << k.  The bits of B in the mask change places with
\* those of A that are k higher.
Move(A, B, k, mask) ==
  <<[j \in Bits |-> IF j - k \in mask THEN B[j - k] ELSE A[j]],
    [j \in Bits |-> IF j \in mask THEN A[j + k] ELSE B[j]]>>

Left(A) == [j \in Bits |-> A[IF j = 0 THEN 31 ELSE j - 1]]
Right(A) == [j \in Bits |-> A[IF j = 31 THEN 0 ELSE j + 1]]

M4 == {j \in Bits : j % 8 < 4}   \* 0x0F0F0F0F
M16 == 0..15                     \* 0x0000FFFF
M2 == {j \in Bits : j % 4 < 2}   \* 0x33333333
M8 == {j \in Bits : j % 16 < 8}  \* 0x00FF00FF
M1 == {j \in Bits : j % 2 = 1}   \* 0xAAAAAAAA

Swap(p) == <<p[2], p[1]>>
MoveXY(p, k, mask) == Move(p[1], p[2], k, mask)
MoveYX(p, k, mask) == Swap(Move(p[2], p[1], k, mask))

\* The initial permutation.
DES_IP(p) ==
  LET q == MoveYX(MoveYX(MoveXY(MoveXY(p, 4, M4), 16, M16), 2, M2), 8, M8)
      s == MoveXY(<<q[1], Left(q[2])>>, 0, M1)
  IN  <<Left(s[1]), s[2]>>

\* The final permutation.
DES_FP(p) ==
  LET s == MoveXY(<<Right(p[1]), p[2]>>, 0, M1)
      q == <<s[1], Right(s[2])>>
  IN  MoveXY(MoveXY(MoveYX(MoveYX(q, 8, M8), 2, M2), 16, M16), 4, M4)

-----------------------------------------------------------------------------
(* Key schedules.                                                          *)

Rounds == IF Len(keys) = 1 THEN 16 ELSE 48

\* The key of each third of the rounds of encrypt, and of decrypt.
EncryptKey(s) == IF Len(keys) = 2 THEN keys[(s % 2) + 1] ELSE keys[s + 1]
DecryptKey(s) == EncryptKey(Rounds \div 16 - 1 - s)

\* Mutant of Reversed: the two subkeys of a round change places, too.
ReversedPairs(t) == 31 - t

\* Subkeys in reverse order, those of a round in theirs.
Reversed(t) == 30 - 2 * (t \div 2) + (t % 2)

\* The second third of Triple-DES goes the other way.
esk(j) == <<EncryptKey(j \div 32), IF j \div 32 = 1 THEN Reversed(j % 32) ELSE j % 32>>
dsk(j) == <<DecryptKey(j \div 32), IF j \div 32 = 1 THEN j % 32 ELSE Reversed(j % 32)>>

-----------------------------------------------------------------------------
(* Encryption and decryption.                                              *)

\* Mutant of ChangesX: DES_ROUND(Y, X) comes first in every third.
ChangesXAlways(q) == q % 2 = 0

\* Round q is DES_ROUND(Y, X), which changes X, and not DES_ROUND(X, Y).
ChangesX(q) == IF q \div 16 = 1 THEN q % 2 = 1 ELSE q % 2 = 0

\* What the S-boxes make of a half and two subkeys.
SBoxes(v, w, x) == [j \in Bits |-> F(v, w, x, j) = TRUE]

\* DES_ROUND number q with its subkeys v and w.
Round(q, v, w, p) ==
  IF ChangesX(q) THEN <<Xor(p[1], SBoxes(v, w, p[2])), p[2]>>
  ELSE <<p[1], Xor(p[2], SBoxes(v, w, p[1]))>>

EncryptRound(q, p) == Round(q, esk(2 * q), esk(2 * q + 1), p)
DecryptRound(q, p) == Round(q, dsk(2 * q), dsk(2 * q + 1), p)

Zero == [j \in Bits |-> FALSE]

Init ==
  /\ keys \in KeyLists
  /\ block \in Blocks
  /\ phase = "start"
  /\ X = Zero /\ Y = Zero /\ r = 0
  /\ out = <<Zero, Zero>>
  /\ trace = [q \in 0..Rounds |-> <<Zero, Zero>>]

Halves(p) == X' = p[1] /\ Y' = p[2]

LoadEncrypt ==
  /\ phase = "start" /\ phase' = "encrypt"
  /\ Halves(DES_IP(block))
  /\ r' = 0
  /\ trace' = [trace EXCEPT ![0] = DES_IP(block)]
  /\ UNCHANGED <<keys, block, out>>

Encrypt ==
  /\ phase = "encrypt" /\ r < Rounds
  /\ LET p == EncryptRound(r, <<X, Y>>) IN
     /\ Halves(p)
     /\ trace' = [trace EXCEPT ![r + 1] = p]
  /\ r' = r + 1
  /\ UNCHANGED <<keys, block, phase, out>>

\* The halves change places before the final permutation.
Store(from, to) ==
  /\ phase = from /\ r = Rounds /\ phase' = to
  /\ out' = DES_FP(<<Y, X>>)
  /\ UNCHANGED <<keys, block, X, Y, r, trace>>

LoadDecrypt ==
  /\ phase = "encrypted" /\ phase' = "decrypt"
  /\ Halves(DES_IP(out))
  /\ r' = 0
  /\ UNCHANGED <<keys, block, out, trace>>

Decrypt ==
  /\ phase = "decrypt" /\ r < Rounds
  /\ Halves(DecryptRound(r, <<X, Y>>))
  /\ r' = r + 1
  /\ UNCHANGED <<keys, block, phase, out, trace>>

Next == \/ LoadEncrypt \/ Encrypt \/ Store("encrypt", "encrypted")
        \/ LoadDecrypt \/ Decrypt \/ Store("decrypt", "done")

Spec == Init /\ [][Next]_vars

-----------------------------------------------------------------------------
(* Properties.                                                             *)

\* Type invariant; in particular the subkeys of every round are among those made of a key.
TypeOK ==
  /\ \A j \in 0..(2 * Rounds - 1) : esk(j) \in Keys \X Bits /\ dsk(j) \in Keys \X Bits
  /\ keys \in KeyLists /\ block \in Half \X Half /\ out \in Half \X Half
  /\ phase \in {"start", "encrypt", "encrypted", "decrypt", "done"}
  /\ X \in Half /\ Y \in Half /\ r \in 0..Rounds
  /\ trace \in [0..Rounds -> Half \X Half]

\* Decryption gives the block back, whatever the S-boxes are: the subkeys of decrypt are those of
\* encrypt in reverse, round by round, with one, two and three keys.
DecryptInverts == phase = "done" => out = block

\* Triple-DES with three equal keys is DES: its last two thirds undo each other.
EqualKeysAreSingle ==
  (phase = "encrypted" /\ Rounds = 48 /\ \A i, j \in DOMAIN keys : keys[i] = keys[j])
    => <<X, Y>> = trace[16]

\* The bit of the block that is bit n of the permuted block in FIPS 46-3 (both from 1).
Standard(n) ==
  LET m == IF n <= 32 THEN n - 1 ELSE n - 33
      at == (IF n <= 32 THEN 58 ELSE 57) + 2 * (m \div 8) - 8 * (m % 8)
  IN  IF at <= 32 THEN block[1][32 - at] ELSE block[2][64 - at]

\* DES_IP is the standard's initial permutation, with both halves rotated to the left by one.
LoadedAsStandard ==
  (phase = "encrypt" /\ r = 0) =>
    \A n \in 1..32 : /\ X[(33 - n) % 32] = Standard(n)
                     /\ Y[(33 - n) % 32] = Standard(n + 32)

\* The cipher is DES: the parts it is made of are the standard's.
CipherSound == TypeOK /\ EqualKeysAreSingle /\ LoadedAsStandard
=============================================================================
