------------------------------ MODULE ElfHash ------------------------------
(***************************************************************************)
(* elf_hash (rtld.c), the hash that selects a chain of a DT_HASH table.    *)
(* The table was built by a link editor that computes with 32 bits; the    *)
(* loader computes with an unsigned long, 64 bits on amd64, and masks only *)
(* the bits 28 to 31.  The value is kept as its low 28 bits and what is    *)
(* above bit 31.                                                           *)
(***************************************************************************)
EXTENDS Integers, Sequences

CONSTANTS Strings,      \* the names looked up, as sequences of character codes
          Buckets       \* sizes of hash tables

ASSUME StringAssumption == \A n \in Strings : n \in Seq(0..255)
ASSUME BucketAssumption == Buckets \subseteq Nat \ {0}

VARIABLES str,   \* the name
          pos,   \* characters read
          low,   \* bits 0 to 27 of h; bits 28 to 31 are zero after every character
          over,  \* bits 32 and above of h
          abi    \* the link editor's hash of the same characters, bit by bit
hashVars == <<str, pos, low, over, abi>>

\* The names the plugin shim looks up.
EntryPoints == {
  \* NP_GetMIMEDescription
  <<78, 80, 95, 71, 101, 116, 77, 73, 77, 69, 68, 101, 115, 99, 114, 105, 112, 116, 105, 111, 110>>,
  \* NP_Shutdown
  <<78, 80, 95, 83, 104, 117, 116, 100, 111, 119, 110>>,
  \* NP_Initialize
  <<78, 80, 95, 73, 110, 105, 116, 105, 97, 108, 105, 122, 101>>,
  \* NP_GetValue
  <<78, 80, 95, 71, 101, 116, 86, 97, 108, 117, 101>>}

K24 == 16777216
K28 == 268435456

\* low ^ (g >> 24) for a g of the bits 28 to 31, whose value there is t: the bits 4 to 7 change.
XorNibble(l, t) ==
  LET bit(x, b) == (x \div (2^b)) % 2
      n == (l \div 16) % 16
      x == LET f[b \in 0..4] == IF b = 4 THEN 0
                                ELSE ((bit(n, b) + bit(t, b)) % 2) * 2^b + f[b + 1]
           IN  f[0]
  IN  l + 16 * (x - n)

\* h << 4 plus a character, as its bits 0 to 27, 28 to 31, and the carry into bit 32.
Shifted(l, c) ==
  LET b == (l % K24) * 16 + c
      t == (l \div K24) + (b \div K28)
  IN  [low |-> b % K28, top |-> t % 16, carry |-> t \div 16]

\* The low bits after the character c.
Step(l, c) == LET s == Shifted(l, c) IN XorNibble(s.low, s.top)

\* Mutant of Above: the bits 28 to 31 are not cleared, and are shifted on.
AboveUncleared(o, l, c) == o * 16 + Shifted(l, c).carry + Shifted(l, c).top

\* The bits above bit 31 after the character c.
Above(o, l, c) == o * 16 + Shifted(l, c).carry

\* The hash of the ABI after one more character: shifted by four, the character added with
\* carries, and the four bits that leave the 28 folded into the bits 4 to 7.
BitOf(x, b) == IF b \in 0..27 THEN (x \div (2^b)) % 2 ELSE 0
AbiStep(h, c) ==
  LET q(b) == IF b < 4 THEN 0 ELSE h[b - 4]
      carry[b \in 0..32] == IF b = 0 THEN 0 ELSE (q(b - 1) + BitOf(c, b - 1) + carry[b - 1]) \div 2
      r(b) == (q(b) + BitOf(c, b) + carry[b]) % 2
  IN  [b \in 0..27 |-> IF b \in 4..7 THEN (r(b) + r(b + 24)) % 2 ELSE r(b)]

HashInit == str \in Strings /\ pos = 0 /\ low = 0 /\ over = 0 /\ abi = [b \in 0..27 |-> 0]

Character ==
  /\ pos < Len(str)
  /\ pos' = pos + 1
  /\ low' = Step(low, str[pos + 1])
  /\ over' = Above(over, low, str[pos + 1])
  /\ abi' = AbiStep(abi, str[pos + 1])
  /\ UNCHANGED str

HashNext == Character
HashSpec == HashInit /\ [][HashNext]_hashVars

-----------------------------------------------------------------------------
(* Properties.                                                             *)

\* Type invariant.
HashTypeOK ==
  /\ str \in Strings /\ pos \in 0..Len(str)
  /\ low \in 0..(K28 - 1) /\ over \in Nat
  /\ abi \in [0..27 -> {0, 1}]

\* The low 28 bits are those of the ABI's hash, after every character: a table whose size is a
\* power of two is searched in the right chain.
LowAgrees == \A b \in 0..27 : BitOf(low, b) = abi[b]

\* The bucket the loader looks in, and the one the link editor used.  2^32 and the higher powers
\* are reduced modulo n step by step.
PowerMod(k, n) == LET f[j \in 0..k] == IF j = 0 THEN 1 % n ELSE (f[j - 1] * 2) % n IN f[k]
LoaderBucket(n) == (((over % n) * PowerMod(32, n)) + (low % n)) % n

\* The entry points the plugin shim looks up are found in the chain they were put in, whatever
\* the size of the table; so is every name of at most six characters.  A longer name may carry
\* into bit 32, which the loader keeps: a table whose size is not a power of two is then searched
\* in the wrong chain.
BucketAgrees ==
  (str \in EntryPoints \/ pos <= 6) => \A n \in Buckets : LoaderBucket(n) = low % n

\* A name is looked up in the chain its link editor put it in.
HashSound == HashTypeOK /\ LowAgrees /\ BucketAgrees
=============================================================================
