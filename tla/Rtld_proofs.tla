---------------------------- MODULE Rtld_proofs -----------------------------
(***************************************************************************)
(* Proofs about what the Linux player runs on (rtld.c, rtld_fixup.c): its  *)
(* mutexes, its sockets, the memory and resources of its image, what the   *)
(* references of its image are bound to, and the hash its symbols are      *)
(* found by.                                                               *)
(***************************************************************************)
EXTENDS FixupMutex, FixupSockets, ElfLoader, ElfBinding, ElfHash, FiniteSetTheorems, TLAPS

-----------------------------------------------------------------------------
(***************************************************************************)
(* FixupMutex: the replacement of pthread_mutex_destroy touches no freed   *)
(* mutex, loses none, and lets at most one per thread survive, for any     *)
(* number of threads and mutexes.                                          *)
(***************************************************************************)

\* A thread is in the replacement while it has a mutex to destroy; it locks the one in its slot.
PlaceSound ==
  \A t \in Threads :
    /\ pc[t] = "player" <=> arg[t] = None
    /\ pc[t] \in {"lock", "unlock"} => parked[t] # None
    /\ pc[t] = "unlock" => owner[parked[t]] = t

\* What slots and hands have is allocated and not the player's any more, and is there once.
HandsSound ==
  /\ \A t \in Threads : /\ parked[t] \in (alive \ used) \cup {None}
                        /\ arg[t] \in (alive \ used) \cup {None}
  /\ \A t, u \in Threads : /\ parked[t] # None => parked[t] # arg[u]
                           /\ (t # u /\ parked[t] # None) => parked[t] # parked[u]
                           /\ (t # u /\ arg[t] # None) => arg[t] # arg[u]

\* What was destroyed and is still allocated is in a slot or in hand.
KeptSound == \A o \in alive \ used : \E t \in Threads : parked[t] = o \/ arg[t] = o

\* Only allocated mutexes are held.  A recursive one has been locked as often as its owner knows,
\* and once more while the owner waits for it in the replacement; one of the other kind once.
OwnerSound ==
  \A o \in Objects :
    /\ o \notin alive => owner[o] = None
    /\ owner[o] = None <=> depth[o] = 0
    /\ kind[o] = "errorcheck" => depth[o] <= 1
    /\ kind[o] = "recursive" => \A t \in Threads :
         /\ locks[t][o] > 0 => owner[o] = t
         /\ owner[o] = t => depth[o] = locks[t][o] + IF pc[t] = "unlock" /\ parked[t] = o THEN 1 ELSE 0

\* What the player has not destroyed is allocated.
UsedSound == used \subseteq alive

\* The inductive invariant.
IInv == TypeOK /\ UsedSound /\ PlaceSound /\ HandsSound /\ KeptSound /\ OwnerSound

LEMMA InitInv == Init => IInv
  BY NoneAssumption, BoundAssumption
  DEF Init, IInv, TypeOK, UsedSound, PlaceSound, HandsSound, KeptSound, OwnerSound

LEMMA NextInv == IInv /\ [Next]_vars => IInv'
<1> SUFFICES ASSUME IInv, [Next]_vars PROVE IInv'
  OBVIOUS
<1> USE NoneAssumption, BoundAssumption DEF IInv
<1>1. ASSUME NEW t \in Threads, NEW o \in Objects, NEW attr \in BOOLEAN, InitMutex(t, o, attr) PROVE IInv'
  <2>1. TypeOK'
    BY <1>1 DEF TypeOK, InitMutex
  <2>2. UsedSound'
    BY <1>1 DEF UsedSound, InitMutex
  <2>3. PlaceSound'
    BY <1>1 DEF PlaceSound, InitMutex
  <2>4. HandsSound'
    BY <1>1 DEF HandsSound, InitMutex
  <2>5. KeptSound'
    BY <1>1 DEF KeptSound, InitMutex
  <2>6. OwnerSound'
    BY <1>1 DEF OwnerSound, InitMutex
  <2> QED BY <2>1, <2>2, <2>3, <2>4, <2>5, <2>6
<1>2. ASSUME NEW t \in Threads, NEW o \in Objects, Lock(t, o) PROVE IInv'
  <2>1. TypeOK'
    BY <1>2 DEF TypeOK, PlaceSound, HandsSound, OwnerSound, Lock, Acquire
  <2>2. UsedSound'
    BY <1>2 DEF UsedSound, Lock, Acquire
  <2>3. PlaceSound'
    BY <1>2 DEF PlaceSound, Lock, Acquire
  <2>4. HandsSound'
    BY <1>2 DEF HandsSound, Lock, Acquire
  <2>5. KeptSound'
    BY <1>2 DEF KeptSound, Lock, Acquire
  <2>6. OwnerSound'
    BY <1>2 DEF TypeOK, UsedSound, PlaceSound, HandsSound, KeptSound, OwnerSound, Lock, Acquire
  <2> QED BY <2>1, <2>2, <2>3, <2>4, <2>5, <2>6
<1>3. ASSUME NEW t \in Threads, NEW o \in Objects, Unlock(t, o) PROVE IInv'
  <2>1. TypeOK'
    <3>1. locks[t][o] \in 0..MaxDepth /\ locks[t][o] > 0
      BY <1>3 DEF TypeOK, Unlock
    <3>2. locks' \in [Threads -> [Objects -> 0..MaxDepth]]
      BY <1>3, <3>1 DEF TypeOK, Unlock
    <3>3. owner' \in [Objects -> Threads \cup {None}]
      BY <1>3 DEF TypeOK, Unlock, ReleaseOne
    <3>4. depth' \in [Objects -> 0..(MaxDepth + 1)]
      <4>1. CASE owner[o] = t
        <5>1. depth[o] \in 0..(MaxDepth + 1) /\ depth[o] # 0
          BY <4>1, NoneAssumption DEF TypeOK, OwnerSound
        <5>2. depth[o] - 1 \in 0..(MaxDepth + 1)
          BY <5>1
        <5> QED BY <1>3, <4>1, <5>2 DEF TypeOK, Unlock, ReleaseOne
      <4>2. CASE owner[o] # t
        BY <1>3, <4>2 DEF TypeOK, Unlock
      <4> QED BY <4>1, <4>2
    <3> QED BY <1>3, <3>2, <3>3, <3>4 DEF TypeOK, Unlock
  <2>2. UsedSound'
    BY <1>3 DEF UsedSound, Unlock, ReleaseOne
  <2>3. PlaceSound'
    BY <1>3 DEF TypeOK, PlaceSound, Unlock, ReleaseOne
  <2>4. HandsSound'
    BY <1>3 DEF HandsSound, Unlock, ReleaseOne
  <2>5. KeptSound'
    BY <1>3 DEF KeptSound, Unlock, ReleaseOne
  <2>6. OwnerSound'
    BY <1>3 DEF TypeOK, OwnerSound, Unlock, ReleaseOne
  <2> QED BY <2>1, <2>2, <2>3, <2>4, <2>5, <2>6
<1>4. ASSUME NEW t \in Threads, NEW o \in Objects, Destroy(t, o) PROVE IInv'
  <2>1. TypeOK'
    <3>1. pc' \in [Threads -> {"player", "park", "lock", "unlock"}]
      BY <1>4 DEF TypeOK, Destroy
    <3>2. arg' \in [Threads -> Objects \cup {None}]
      BY <1>4 DEF TypeOK, Destroy
    <3>3. alive' \in SUBSET Objects /\ used' \in SUBSET Objects
      BY <1>4 DEF TypeOK, Destroy
    <3> QED BY <1>4, <3>1, <3>2, <3>3 DEF TypeOK, Destroy
  <2>2. UsedSound'
    BY <1>4 DEF UsedSound, Destroy, Held
  <2>3. PlaceSound'
    BY <1>4 DEF TypeOK, PlaceSound, Destroy, Held
  <2>4. HandsSound'
    BY <1>4 DEF TypeOK, PlaceSound, HandsSound, OwnerSound, Destroy, Held
  <2>5. KeptSound'
    BY <1>4 DEF TypeOK, PlaceSound, KeptSound, Destroy, Held
  <2>6. OwnerSound'
    BY <1>4 DEF TypeOK, OwnerSound, Destroy, Held
  <2> QED BY <2>1, <2>2, <2>3, <2>4, <2>5, <2>6
<1>5. ASSUME NEW t \in Threads, Park(t) PROVE IInv'
  <2>1. TypeOK'
    BY <1>5 DEF TypeOK, Park
  <2>2. UsedSound'
    BY <1>5 DEF UsedSound, Park
  <2>3. PlaceSound'
    BY <1>5 DEF TypeOK, PlaceSound, Park
  <2>4. HandsSound'
    BY <1>5 DEF TypeOK, HandsSound, Park
  <2>5. KeptSound'
    BY <1>5 DEF TypeOK, KeptSound, Park
  <2>6. OwnerSound'
    BY <1>5 DEF OwnerSound, Park
  <2> QED BY <2>1, <2>2, <2>3, <2>4, <2>5, <2>6
<1>6. ASSUME NEW t \in Threads, Reclaim(t) PROVE IInv'
  <2>1. TypeOK'
    <3>1. pc' \in [Threads -> {"player", "park", "lock", "unlock"}]
      BY <1>6 DEF TypeOK, Reclaim
    <3>2. parked' \in [Threads -> Objects \cup {None}]
      BY <1>6 DEF TypeOK, Reclaim, Emptied
    <3>3. alive' \in SUBSET Objects
      BY <1>6 DEF TypeOK, Reclaim, Reclaimed
    <3> QED BY <1>6, <3>1, <3>2, <3>3 DEF TypeOK, Reclaim
  <2>2. UsedSound'
    BY <1>6 DEF TypeOK, UsedSound, PlaceSound, HandsSound, Reclaim, SlotFree, Held, Reclaimed, Emptied
  <2>3. PlaceSound'
    BY <1>6 DEF TypeOK, PlaceSound, Reclaim, SlotFree, Held, Reclaimed, Emptied
  <2>4. HandsSound'
    <3>1. CASE SlotFree(parked[t])
      <4>1. /\ alive' = alive \ {parked[t]} /\ used' = used /\ arg' = arg
            /\ parked' = [parked EXCEPT ![t] = None]
        BY <1>6, <3>1 DEF Reclaim, Reclaimed, Emptied
      <4>2. parked[t] # None
        BY <1>6 DEF Reclaim
      <4>3. \A u \in Threads : parked'[u] = IF u = t THEN None ELSE parked[u]
        BY <4>1 DEF TypeOK
      <4>4. \A u \in Threads : arg[u] # parked[t] /\ (u # t => parked[u] # parked[t])
        BY <4>2 DEF HandsSound
      <4> QED BY <4>1, <4>2, <4>3, <4>4 DEF HandsSound
    <3>2. CASE ~SlotFree(parked[t])
      BY <1>6, <3>2 DEF HandsSound, Reclaim
    <3> QED BY <3>1, <3>2
  <2>5. KeptSound'
    BY <1>6 DEF TypeOK, KeptSound, Reclaim, SlotFree, Held, Reclaimed, Emptied
  <2>6. OwnerSound'
    <3>1. CASE SlotFree(parked[t])
      <4>1. /\ alive' = alive \ {parked[t]} /\ owner[parked[t]] = None
            /\ parked' = [parked EXCEPT ![t] = None] /\ pc[t] = "park"
            /\ UNCHANGED <<owner, depth, kind, pc, locks>>
        BY <1>6, <3>1 DEF Reclaim, Reclaimed, Emptied, SlotFree, Held
      <4>2. \A u \in Threads : u # t => parked'[u] = parked[u]
        BY <4>1 DEF TypeOK
      <4> QED BY <4>1, <4>2 DEF OwnerSound
    <3>2. CASE ~SlotFree(parked[t])
      <4>1. /\ UNCHANGED <<alive, parked, owner, depth, kind, locks>>
            /\ pc[t] = "park" /\ pc' = [pc EXCEPT ![t] = "lock"]
        BY <1>6, <3>2 DEF Reclaim
      <4>2. \A u \in Threads : pc'[u] = "unlock" <=> pc[u] = "unlock"
        BY <4>1 DEF TypeOK
      <4> QED BY <4>1, <4>2 DEF OwnerSound
    <3> QED BY <3>1, <3>2
  <2> QED BY <2>1, <2>2, <2>3, <2>4, <2>5, <2>6
<1>7. ASSUME NEW t \in Threads, LockParked(t) PROVE IInv'
  <2>1. TypeOK'
    <3>1. parked[t] \in Objects /\ pc[t] = "lock"
      BY <1>7 DEF TypeOK, PlaceSound, LockParked
    <3>2. owner' \in [Objects -> Threads \cup {None}]
      BY <1>7 DEF TypeOK, LockParked, Acquire
    <3>3. depth' \in [Objects -> 0..(MaxDepth + 1)]
      <4>1. CASE depth' = depth
        BY <4>1 DEF TypeOK
      <4>2. CASE Acquire(t, parked[t]) /\ ~(kind[parked[t]] = "errorcheck" /\ owner[parked[t]] = t)
        <5>1. depth[parked[t]] \in 0..MaxDepth
          <6>1. CASE owner[parked[t]] = None
            BY <3>1, <6>1 DEF TypeOK, OwnerSound
          <6>2. CASE owner[parked[t]] = t
            <7>1. kind[parked[t]] = "recursive"
              BY <3>1, <4>2, <6>2 DEF TypeOK
            <7>2. depth[parked[t]] = locks[t][parked[t]]
              BY <3>1, <6>2, <7>1 DEF OwnerSound, TypeOK
            <7> QED BY <3>1, <7>2 DEF TypeOK
          <6> QED BY <4>2, <6>1, <6>2 DEF Acquire
        <5>2. depth' = [depth EXCEPT ![parked[t]] = depth[parked[t]] + 1]
          BY <4>2 DEF Acquire
        <5>3. depth[parked[t]] + 1 \in 0..(MaxDepth + 1)
          BY <5>1
        <5> QED BY <3>1, <5>2, <5>3 DEF TypeOK
      <4> QED BY <1>7, <4>1, <4>2 DEF LockParked
    <3>4. pc' \in [Threads -> {"player", "park", "lock", "unlock"}]
      BY <1>7 DEF TypeOK, LockParked
    <3> QED BY <1>7, <3>2, <3>3, <3>4 DEF TypeOK, LockParked
  <2>2. UsedSound'
    BY <1>7 DEF UsedSound, LockParked, Acquire
  <2>3. PlaceSound'
    BY <1>7 DEF TypeOK, PlaceSound, LockParked, Acquire
  <2>4. HandsSound'
    BY <1>7 DEF HandsSound, LockParked, Acquire
  <2>5. KeptSound'
    BY <1>7 DEF KeptSound, LockParked, Acquire
  <2>6. OwnerSound'
    BY <1>7 DEF TypeOK, PlaceSound, HandsSound, OwnerSound, LockParked, Acquire
  <2> QED BY <2>1, <2>2, <2>3, <2>4, <2>5, <2>6
<1>8. ASSUME NEW t \in Threads, UnlockParked(t) PROVE IInv'
  <2>1. TypeOK'
    <3>1. parked[t] \in Objects /\ owner[parked[t]] = t
      BY <1>8 DEF TypeOK, PlaceSound, UnlockParked
    <3>2. owner' \in [Objects -> Threads \cup {None}]
      BY <1>8 DEF TypeOK, UnlockParked, ReleaseParked, ReleaseOne
    <3>3. depth' \in [Objects -> 0..(MaxDepth + 1)]
      <4>1. depth[parked[t]] \in 0..(MaxDepth + 1) /\ depth[parked[t]] # 0
        BY <3>1, NoneAssumption DEF TypeOK, OwnerSound
      <4>2. depth[parked[t]] - 1 \in 0..(MaxDepth + 1)
        BY <4>1
      <4> QED BY <1>8, <4>2 DEF TypeOK, UnlockParked, ReleaseParked, ReleaseOne
    <3>4. pc' \in [Threads -> {"player", "park", "lock", "unlock"}]
      BY <1>8 DEF TypeOK, UnlockParked
    <3> QED BY <1>8, <3>2, <3>3, <3>4 DEF TypeOK, UnlockParked
  <2>2. UsedSound'
    BY <1>8 DEF UsedSound, UnlockParked, ReleaseParked, ReleaseOne
  <2>3. PlaceSound'
    BY <1>8 DEF TypeOK, PlaceSound, UnlockParked, ReleaseParked, ReleaseOne
  <2>4. HandsSound'
    BY <1>8 DEF HandsSound, UnlockParked, ReleaseParked, ReleaseOne
  <2>5. KeptSound'
    BY <1>8 DEF KeptSound, UnlockParked, ReleaseParked, ReleaseOne
  <2>6. OwnerSound'
    BY <1>8 DEF TypeOK, OwnerSound, UnlockParked, ReleaseParked, ReleaseOne
  <2> QED BY <2>1, <2>2, <2>3, <2>4, <2>5, <2>6
<1>9. CASE UNCHANGED vars
  BY <1>9 DEF vars, TypeOK, UsedSound, PlaceSound, HandsSound, KeptSound, OwnerSound
<1> QED BY <1>1, <1>2, <1>3, <1>4, <1>5, <1>6, <1>7, <1>8, <1>9 DEF Next, FixupStep

LEMMA Invariant == Spec => []IInv
  BY InitInv, NextInv, PTL DEF Spec

\* Every variable keeps its type; in particular no mutex is locked more often than the player does,
\* plus once.
THEOREM TypeCorrect == Spec => []TypeOK
  BY Invariant, PTL DEF IInv

\* pthread_mutex_destroy frees no mutex that the player uses or, if it is recursive, has locked,
\* nor one that is parked or about to be.
THEOREM NothingFreedInUse == Spec => []NoneFreedInUse
<1>1. IInv => NoneFreedInUse
  <2> SUFFICES ASSUME IInv PROVE NoneFreedInUse
    OBVIOUS
  <2>1. ASSUME NEW t \in Threads, NEW o \in Objects, locks[t][o] > 0, kind[o] = "recursive"
        PROVE o \in alive /\ owner[o] = t
    <3>1. owner[o] = t
      BY <2>1 DEF IInv, OwnerSound
    <3> QED BY <3>1, NoneAssumption DEF IInv, OwnerSound
  <2> QED BY <2>1 DEF IInv, UsedSound, HandsSound, NoneFreedInUse
<1> QED BY <1>1, Invariant, PTL

\* A destroyed mutex that is still allocated is in exactly one slot or hand.
THEOREM KeptOnce == Spec => []KeptByOne
<1>1. IInv => KeptByOne
  <2> SUFFICES ASSUME IInv, NEW o \in alive \ used
               PROVE Cardinality({t \in Threads : parked[t] = o})
                       + Cardinality({t \in Threads : arg[t] = o}) = 1
    BY DEF KeptByOne
  <2>1. o \in Objects /\ o # None
    BY NoneAssumption DEF IInv, TypeOK
  <2>2. PICK t \in Threads : parked[t] = o \/ arg[t] = o
    BY DEF IInv, KeptSound
  <2>3. CASE parked[t] = o
    <3>1. {u \in Threads : parked[u] = o} = {t} /\ {u \in Threads : arg[u] = o} = {}
      BY <2>1, <2>3 DEF IInv, HandsSound
    <3>2. Cardinality({t}) = 1 /\ Cardinality({}) = 0
      BY FS_Singleton, FS_EmptySet
    <3> QED BY <3>1, <3>2
  <2>4. CASE arg[t] = o
    <3>1. {u \in Threads : parked[u] = o} = {} /\ {u \in Threads : arg[u] = o} = {t}
      BY <2>1, <2>4 DEF IInv, HandsSound
    <3>2. Cardinality({t}) = 1 /\ Cardinality({}) = 0
      BY FS_Singleton, FS_EmptySet
    <3> QED BY <3>1, <3>2
  <2> QED BY <2>2, <2>3, <2>4
<1> QED BY <1>1, Invariant, PTL

\* Between calls at most one destroyed mutex per thread is still allocated.
THEOREM LeakIsBounded == ASSUME IsFiniteSet(Threads) PROVE Spec => []BoundedLeak
<1>1. IInv => BoundedLeak
  <2> SUFFICES ASSUME IInv, \A t \in Threads : pc[t] = "player"
               PROVE Cardinality(alive \ used) <= Cardinality(Threads)
    BY DEF BoundedLeak
  <2> DEFINE keeper == [o \in alive \ used |-> CHOOSE t \in Threads : parked[t] = o]
  <2>1. ASSUME NEW o \in alive \ used PROVE \E t \in Threads : parked[t] = o
    <3>1. o # None
      BY NoneAssumption DEF IInv, TypeOK
    <3> QED BY <3>1 DEF IInv, KeptSound, PlaceSound
  <2>2. \A o \in alive \ used : keeper[o] \in Threads /\ parked[keeper[o]] = o
    BY <2>1
  <2>3. keeper \in Injection(alive \ used, Threads)
    BY <2>2 DEF Injection, IsInjective
  <2> HIDE DEF keeper
  <2> QED BY <2>3, FS_Injection
<1> QED BY <1>1, Invariant, PTL

\* A mutex of the default kind that its owner unlocks is free, once: for a recursive one
\* OwnerSound says how often.
THEOREM HeldForThePlayer == Spec => []HeldAsLocked
<1>1. Init => HeldAsLocked
  BY NoneAssumption DEF Init, HeldAsLocked
<1>2. IInv /\ HeldAsLocked /\ [Next]_vars => HeldAsLocked'
  <2> SUFFICES ASSUME IInv, HeldAsLocked, [Next]_vars PROVE HeldAsLocked'
    OBVIOUS
  <2> USE NoneAssumption, BoundAssumption DEF IInv, TypeOK, HeldAsLocked
  <2>1. ASSUME NEW t \in Threads, NEW o \in Objects, NEW attr \in BOOLEAN, InitMutex(t, o, attr)
        PROVE HeldAsLocked'
    BY <2>1 DEF InitMutex
  <2>2. ASSUME NEW t \in Threads, NEW o \in Objects, Lock(t, o) PROVE HeldAsLocked'
    BY <2>2 DEF Lock, Acquire
  <2>3. ASSUME NEW t \in Threads, NEW o \in Objects, Unlock(t, o) PROVE HeldAsLocked'
    <3>1. pc[t] = "player" /\ locks[t][o] > 0 /\ locks' = [locks EXCEPT ![t][o] = locks[t][o] - 1]
          /\ pc' = pc /\ parked' = parked
      BY <2>3 DEF Unlock
    <3>2. \A u \in Threads, p \in Objects : u # t \/ p # o => locks'[u][p] = locks[u][p]
      BY <3>1
    <3>3. \A p \in Objects : p # o => owner'[p] = owner[p]
      BY <2>3 DEF Unlock, ReleaseOne
    <3>4. \A u \in Threads : u # t /\ owner'[o] = u => owner[o] = u
      BY <2>3 DEF Unlock, ReleaseOne
    <3>5. owner'[o] = t => locks'[t][o] > 0
      <4> SUFFICES ASSUME owner'[o] = t PROVE locks[t][o] - 1 > 0
        BY <3>1
      <4>1. owner[o] = t /\ depth[o] # 1
        BY <2>3 DEF Unlock, ReleaseOne
      <4>2. depth[o] # 0 /\ kind[o] = "recursive"
        <5>1. PICK d \in Nat : d = depth[o] /\ kind[o] \in {"recursive", "errorcheck"}
          OBVIOUS
        <5>2. depth[o] # 0
          BY <4>1 DEF OwnerSound
        <5>3. d # 0 /\ d # 1
          BY <4>1, <5>1, <5>2
        <5>4. kind[o] # "errorcheck"
          <6>1. ~(d <= 1)
            BY <5>3
          <6> QED BY <5>1, <6>1 DEF OwnerSound
        <5> QED BY <5>1, <5>2, <5>4
      <4>3. depth[o] = locks[t][o]
        BY <3>1, <4>1, <4>2 DEF OwnerSound
      <4> QED BY <3>1, <4>1, <4>3
    <3> QED BY <3>1, <3>2, <3>3, <3>4, <3>5
  <2>4. ASSUME NEW t \in Threads, NEW o \in Objects, Destroy(t, o) PROVE HeldAsLocked'
    BY <2>4 DEF Destroy
  <2>5. ASSUME NEW t \in Threads, Park(t) PROVE HeldAsLocked'
    BY <2>5 DEF Park
  <2>6. ASSUME NEW t \in Threads, Reclaim(t) PROVE HeldAsLocked'
    BY <2>6 DEF Reclaim, Emptied
  <2>7. ASSUME NEW t \in Threads, LockParked(t) PROVE HeldAsLocked'
    BY <2>7 DEF LockParked, Acquire, PlaceSound
  <2>8. ASSUME NEW t \in Threads, UnlockParked(t) PROVE HeldAsLocked'
    <3>1. parked[t] \in Objects /\ owner[parked[t]] = t /\ pc[t] = "unlock"
      BY <2>8 DEF UnlockParked, PlaceSound
    <3>2. PICK o \in Objects : o = parked[t]
      BY <3>1
    <3>3. /\ UNCHANGED <<parked, locks>> /\ pc' = [pc EXCEPT ![t] = "park"]
          /\ owner' = [owner EXCEPT ![o] = IF depth[o] = 1 THEN None ELSE t]
      BY <2>8, <3>2 DEF UnlockParked, ReleaseParked, ReleaseOne
    <3>4. depth[o] # 1 => locks[t][o] > 0
      <4> SUFFICES ASSUME depth[o] # 1 PROVE locks[t][o] > 0
        OBVIOUS
      <4>1. depth[o] # 0 /\ kind[o] = "recursive"
        <5>1. PICK d \in Nat : d = depth[o] /\ kind[o] \in {"recursive", "errorcheck"}
          OBVIOUS
        <5>2. depth[o] # 0
          BY <3>1, <3>2 DEF OwnerSound
        <5>3. d # 0 /\ d # 1
          BY <5>1, <5>2
        <5>4. kind[o] # "errorcheck"
          <6>1. ~(d <= 1)
            BY <5>3
          <6> QED BY <5>1, <6>1 DEF OwnerSound
        <5> QED BY <5>1, <5>2, <5>4
      <4>2. depth[o] = locks[t][o] + 1
        BY <3>1, <3>2, <4>1 DEF OwnerSound
      <4> QED BY <4>1, <4>2
    <3> QED BY <3>1, <3>2, <3>3, <3>4
  <2>9. CASE UNCHANGED vars
    BY <2>9 DEF vars
  <2> QED BY <2>1, <2>2, <2>3, <2>4, <2>5, <2>6, <2>7, <2>8, <2>9 DEF Next, FixupStep
<1> QED BY <1>1, <1>2, Invariant, PTL DEF Spec

\* The bookkeeping as a whole (pthread_mutex_destroy and the slot of each thread).
THEOREM MutexesAreSound == ASSUME IsFiniteSet(Threads) PROVE Spec => []MutexSound
BY TypeCorrect, NothingFreedInUse, KeptOnce, LeakIsBounded, HeldForThePlayer, PTL DEF MutexSound

-----------------------------------------------------------------------------
(***************************************************************************)
(* FixupSockets: what the player is told, and what the kernel is given.    *)
(***************************************************************************)

\* What the player was told and has read, typed: the answer of its last getsockopt, and the flags
\* it is about to change, which are the kernel's.
Noted ==
  /\ told \in [Callers -> [socket : {"none", "idle", "connecting", "connected", "failed"},
                           answer : Translated \cup {"0"},
                           truth : Errors, earlier : Translated \cup {"0"}]]
  /\ read \in [Callers -> [socket : Sockets \cup {"none"},
                           flags : SUBSET {"O_NONBLOCK", "O_ASYNC"}]]

\* Bytes in Linux's layout, and the address they stand for.
Stands(a, meant) ==
  \E f \in {AF_INET, AF_INET6}, rest \in Nat :
    a = LinuxAddress(f, rest) /\ meant = BsdAddress(f, rest)

\* An entry as getaddrinfo leaves it: the pointers of the native one, exchanged, and its address.
Exchanged(e, i) == e.canon = <<"addr", i>> /\ e.addr = <<"canon", i>> /\ Stands(e.bytes, e.meant)

\* Every list the player holds came from getaddrinfo.
ListsSound ==
  list = [l \in Lists |-> list[l]] /\ \A l \in Lists : \A i \in DOMAIN list[l] : Exchanged(list[l][i], i)

\* The inductive invariant of the socket calls.
SocketInv ==
  SocketTypeOK /\ Noted /\ SoErrorTrue /\ NonblockKept /\ ListsSound /\ AddressReaches

\* An error number the player sees is a translated one, or that of an earlier call.
LEMMA SavedType ==
  ASSUME SocketInv, NEW t \in Callers, NEW error
  PROVE  Saved(t, error) \in [Callers -> Translated \cup {"0"}]
BY DEF SocketInv, SocketTypeOK, Saved

\* getaddrinfo's conversion exchanges the two pointers of an entry.
LEMMA ConvertedEntry ==
  ASSUME NEW families \in Families, NEW i \in DOMAIN families
  PROVE  Exchanged(Converted(Native(families)[i]), i)
<1>1. families[i] \in {AF_INET, AF_INET6} /\ i \in Nat
  <2>1. CASE families = <<AF_INET>>
    BY <2>1
  <2>2. CASE families = <<AF_INET6, AF_INET>>
    BY <2>2
  <2> QED BY <2>1, <2>2 DEF Families
<1>2. PICK c, d, b : c = <<"canon", i>> /\ d = <<"addr", i>> /\ b = BsdAddress(families[i], i)
  OBVIOUS
<1>3. Native(families)[i] = [canon |-> c, addr |-> d, bytes |-> b, meant |-> b]
  BY <1>2 DEF Native, Entry
<1>4. PICK e : e = Converted(Native(families)[i])
  OBVIOUS
<1>5. e.canon = d /\ e.addr = c /\ e.bytes = convert_linux_address(b) /\ e.meant = b
  BY <1>3, <1>4 DEF Converted, Swapped
<1>6. convert_linux_address(b) = LinuxAddress(families[i], i)
  BY <1>2 DEF convert_linux_address, LinuxAddress, BsdAddress
<1> QED BY <1>1, <1>2, <1>4, <1>5, <1>6 DEF Exchanged, Stands

\* A failed call leaves the same errno in linux_errno and in its history.
LEMMA FailsAlike ==
  ASSUME SocketInv, NEW t \in Callers, NEW error, Fails(t, error)
  PROVE  linux_errno' \in [Callers -> Translated \cup {"0"}] /\ linux_errno' = last'
BY SavedType DEF SocketInv, SoErrorTrue, Fails, Saved

\* getsockopt(SO_ERROR) answers the truth if it is a translated error, errno otherwise, and puts
\* errno back.
LEMMA AnswerTrue ==
  ASSUME SocketInv, NEW t \in Callers, NEW error \in Errors
  PROVE  /\ Answer(t, error) = IF error \in Translated THEN error ELSE last[t]
         /\ Answer(t, error) \in Translated \cup {"0"}
         /\ After(t, error) = linux_errno
<1>1. linux_errno \in [Callers -> Translated \cup {"0"}] /\ linux_errno = last
  BY DEF SocketInv, SocketTypeOK, SoErrorTrue
<1>2. CASE error \in Translated
  <2>1. Saved(t, error) = [linux_errno EXCEPT ![t] = error]
    BY <1>2 DEF Saved
  <2>2. [Saved(t, error) EXCEPT ![t] = linux_errno[t]] = linux_errno
    BY <1>1, <2>1
  <2> QED BY <1>1, <1>2, <2>1, <2>2 DEF Answer, After
<1>3. CASE error \notin Translated
  <2>1. Saved(t, error) = linux_errno
    BY <1>3 DEF Saved
  <2>2. [linux_errno EXCEPT ![t] = linux_errno[t]] = linux_errno
    BY <1>1
  <2> QED BY <1>1, <1>3, <2>1, <2>2 DEF Answer, After
<1> QED BY <1>2, <1>3

\* connect gives the kernel the IPv4 address that was meant; 16 bytes are never an IPv6 address.
LEMMA FamilyKept ==
  ASSUME NEW a, NEW meant, Stands(a, meant), a.len = 16
  PROVE  /\ KernelAddress(a).b1 = AF_INET /\ meant.b1 = AF_INET
         /\ KernelAddress(a).rest = meant.rest
<1>1. PICK f \in {AF_INET, AF_INET6}, rest \in Nat :
         a = LinuxAddress(f, rest) /\ meant = BsdAddress(f, rest)
  BY DEF Stands
<1>2. f = 2
  BY <1>1 DEF LinuxAddress, Length, AF_INET, AF_INET6
<1>3. /\ a = [b0 |-> 2, b1 |-> 0, len |-> 16, rest |-> rest]
      /\ meant = [b0 |-> 16, b1 |-> 2, len |-> 16, rest |-> rest]
  BY <1>1, <1>2 DEF LinuxAddress, BsdAddress, Length, AF_INET
<1>4. a.b0 + 256 * a.b1 = 2 /\ 2 % 256 = 2
  BY <1>3
<1>5. KernelAddress(a) = [a EXCEPT !.b1 = 2]
  BY <1>3, <1>4 DEF KernelAddress, AF_INET, AF_INET6
<1> QED BY <1>3, <1>5 DEF AF_INET

LEMMA SocketInitInv == SocketInit => SocketInv
<1> SUFFICES ASSUME SocketInit PROVE SocketInv
  OBVIOUS
<1> USE DEF SocketInit
<1>1. SocketTypeOK
  BY CallsAssumption DEF SocketTypeOK, Errors
<1>2. Noted
  BY DEF Noted, Untold, Errors
<1>3. SoErrorTrue
  BY DEF SoErrorTrue, Untold, Translated
<1>4. NonblockKept
  BY DEF NonblockKept
<1>5. ListsSound
  BY DEF ListsSound
<1>6. AddressReaches
  BY DEF AddressReaches
<1> QED BY <1>1, <1>2, <1>3, <1>4, <1>5, <1>6 DEF SocketInv

LEMMA SocketNextInv == SocketInv /\ [SocketNext]_socketVars => SocketInv'
<1> SUFFICES ASSUME SocketInv, [SocketNext]_socketVars PROVE SocketInv'
  OBVIOUS
<1> USE CallsAssumption DEF SocketInv, kernelVars
<1>1. ASSUME NEW t \in Callers, ClearErrno(t) PROVE SocketInv'
  BY <1>1 DEF ClearErrno, SocketTypeOK, Noted, SoErrorTrue, NonblockKept, ListsSound, AddressReaches
<1>2. ASSUME NEW t \in Callers, ConnectRefused(t) PROVE SocketInv'
  BY <1>2, FailsAlike
  DEF ConnectRefused, Called, SocketTypeOK, Noted, SoErrorTrue, NonblockKept, ListsSound, AddressReaches
<1>3. ASSUME NEW l \in Lists, NEW families \in Families, GetAddrInfo(l, families) PROVE SocketInv'
  <2>1. ListsSound'
    BY <1>3, ConvertedEntry DEF GetAddrInfo, ListsSound
  <2> QED BY <1>3, <2>1
    DEF GetAddrInfo, Called, SocketTypeOK, Noted, SoErrorTrue, NonblockKept, AddressReaches
<1>4. ASSUME NEW l \in Lists, FreeAddrInfo(l) PROVE SocketInv'
  <2>1. ListsSound'
    BY <1>4 DEF FreeAddrInfo, ListsSound
  <2> QED BY <1>4, <2>1
    DEF FreeAddrInfo, Called, SocketTypeOK, Noted, SoErrorTrue, NonblockKept, AddressReaches
<1>5. ASSUME NEW t \in Callers, NEW s \in Sockets, NEW a, NEW meant, NEW result, Stands(a, meant),
             Connect(t, s, a, meant, result)
      PROVE SocketInv'
  <2>1. linux_errno' \in [Callers -> Translated \cup {"0"}] /\ linux_errno' = last'
    <3>1. CASE result = "ok"
      BY <1>5, <3>1 DEF Connect, SocketTypeOK, SoErrorTrue
    <3>2. CASE result # "ok"
      <4>1. Fails(t, result)
        BY <1>5, <3>2 DEF Connect
      <4> QED BY <4>1, FailsAlike
    <3> QED BY <3>1, <3>2
  <2>2. status' \in [Sockets -> {"idle", "connecting", "connected", "failed"}]
    BY <1>5 DEF Connect, SocketTypeOK
  <2>3. SocketTypeOK'
    BY <1>5, <2>1, <2>2 DEF Connect, Called, SocketTypeOK
  <2>4. AddressReaches'
    BY <1>5, FamilyKept DEF Connect, AddressReaches
  <2> QED BY <1>5, <2>1, <2>3, <2>4 DEF Connect, Noted, SoErrorTrue, NonblockKept, ListsSound
<1>6. ASSUME NEW s \in Sockets, NEW result \in Failures \cup {"0"}, Complete(s, result) PROVE SocketInv'
  BY <1>6 DEF Complete, SocketTypeOK, Errors, Noted, SoErrorTrue, NonblockKept, ListsSound, AddressReaches
<1>7. ASSUME NEW t \in Callers, NEW s \in Sockets, NEW result, Send(t, s, result) PROVE SocketInv'
  <2>1. linux_errno' \in [Callers -> Translated \cup {"0"}] /\ linux_errno' = last'
    <3>1. CASE result = "ok"
      BY <1>7, <3>1 DEF Send, SocketTypeOK, SoErrorTrue
    <3>2. CASE result # "ok"
      <4>1. Fails(t, result)
        BY <1>7, <3>2 DEF Send
      <4> QED BY <4>1, FailsAlike
    <3> QED BY <3>1, <3>2
  <2> QED BY <1>7, <2>1
    DEF Send, Called, SocketTypeOK, Noted, SoErrorTrue, NonblockKept, ListsSound, AddressReaches
<1>8. ASSUME NEW t \in Callers, NEW s \in Sockets, GetSoError(t, s) PROVE SocketInv'
  <2>1. so_error[s] \in Errors /\ linux_errno[t] \in Translated \cup {"0"} /\ linux_errno = last
        /\ status[s] \in {"idle", "connecting", "connected", "failed"}
    BY DEF SocketTypeOK, SoErrorTrue
  <2>2. linux_errno' = linux_errno /\ last' = last
    BY <1>8, <2>1, AnswerTrue DEF GetSoError
  <2>3. SocketTypeOK'
    BY <1>8, <2>2 DEF GetSoError, Called, SocketTypeOK, Errors
  <2>4. Noted'
    BY <1>8, <2>1, AnswerTrue DEF GetSoError, Noted
  <2>5. SoErrorTrue'
    <3>1. ASSUME NEW u \in Callers, u # t PROVE told'[u] = told[u]
      BY <1>8, <3>1 DEF GetSoError, Noted
    <3>2. /\ told'[t].answer = Answer(t, so_error[s]) /\ told'[t].truth = so_error[s]
          /\ told'[t].earlier = last[t]
      BY <1>8 DEF GetSoError, Noted
    <3>3. told'[t].answer = IF told'[t].truth \in Translated THEN told'[t].truth ELSE told'[t].earlier
      BY <2>1, <3>2, AnswerTrue
    <3> QED BY <2>1, <2>2, <3>1, <3>3 DEF SoErrorTrue
  <2> QED BY <1>8, <2>3, <2>4, <2>5 DEF GetSoError, NonblockKept, ListsSound, AddressReaches
<1>9. ASSUME NEW t \in Callers, NEW s \in Sockets, GetFlags(t, s) PROVE SocketInv'
  <2>1. Noted'
    BY <1>9 DEF GetFlags, Noted, SocketTypeOK
  <2> QED BY <1>9, <2>1
    DEF GetFlags, Called, SocketTypeOK, SoErrorTrue, NonblockKept, ListsSound, AddressReaches
<1>10. ASSUME NEW t \in Callers, NEW change \in {"set", "clear", "async"}, SetFlags(t, change)
       PROVE SocketInv'
  <2> DEFINE s == read[t].socket
             fs == CASE change = "set" -> read[t].flags \cup {"0x800"}
                     [] change = "clear" -> read[t].flags \ {"0x800"}
                     [] change = "async" -> read[t].flags \cup {"O_ASYNC"}
  <2>1. /\ s \in Sockets /\ flags[s] = read[t].flags
        /\ flags' = [flags EXCEPT ![s] = ToNative(fs)]
        /\ wants' = [wants EXCEPT ![s] = @ \/ change = "set"]
        /\ read' = [read EXCEPT ![t].socket = "none"]
    BY <1>10 DEF SetFlags
  <2>2. flags[s] \subseteq {"O_NONBLOCK", "O_ASYNC"}
    BY <2>1 DEF SocketTypeOK
  <2>3. /\ ToNative(fs) \subseteq {"O_NONBLOCK", "O_ASYNC"}
        /\ "O_NONBLOCK" \in flags[s] => "O_NONBLOCK" \in ToNative(fs)
        /\ change = "set" => "O_NONBLOCK" \in ToNative(fs)
    <3>1. CASE change = "set"
      BY <2>1, <2>2, <3>1 DEF ToNative
    <3>2. CASE change = "clear"
      BY <2>1, <2>2, <3>2 DEF ToNative
    <3>3. CASE change = "async"
      BY <2>1, <2>2, <3>3 DEF ToNative
    <3> QED BY <3>1, <3>2, <3>3
  <2> HIDE DEF s, fs
  <2>4. SocketTypeOK'
    BY <1>10, <2>1, <2>3 DEF SetFlags, Called, SocketTypeOK
  <2>5. NonblockKept'
    BY <2>1, <2>3 DEF NonblockKept, SocketTypeOK
  <2>6. Noted'
    BY <1>10, <2>1 DEF SetFlags, Noted
  <2> QED BY <1>10, <2>4, <2>5, <2>6 DEF SetFlags, SoErrorTrue, ListsSound, AddressReaches
<1>11. CASE UNCHANGED socketVars
  BY <1>11 DEF socketVars, SocketTypeOK, Noted, SoErrorTrue, NonblockKept, ListsSound, AddressReaches
<1>12. ASSUME NEW t \in Callers, NEW s \in Sockets, NEW l \in Lists, NEW i \in DOMAIN list[l], NEW result,
              Connect(t, s, list[l][i].bytes, list[l][i].meant, result)
       PROVE  SocketInv'
  <2>1. Stands(list[l][i].bytes, list[l][i].meant)
    BY DEF ListsSound, Exchanged
  <2> QED BY <1>5, <1>12, <2>1
<1>13. ASSUME NEW t \in Callers, NEW s \in Sockets, NEW result,
              Connect(t, s, Numeric, BsdAddress(AF_INET, 0), result)
       PROVE  SocketInv'
  <2>1. Stands(Numeric, BsdAddress(AF_INET, 0))
    BY DEF Stands, Numeric
  <2> QED BY <1>5, <1>13, <2>1
<1> QED BY <1>1, <1>2, <1>3, <1>4, <1>6, <1>7, <1>8, <1>9, <1>10, <1>11, <1>12, <1>13 DEF SocketNext

\* The inductive invariant holds in every behaviour.
LEMMA SocketInvariant == SocketSpec => []SocketInv
  BY SocketInitInv, SocketNextInv, PTL DEF SocketSpec

\* errno is that of the last failed call with a translated error and SO_ERROR is answered from it
\* or from the socket, a socket made non-blocking stays so, lists are freed as they were allocated,
\* and what reaches the kernel is the IPv4 address that was meant (rtld_fixup.c), for any number of
\* threads, sockets and lists.
THEOREM SocketsAreSound == SocketSpec => []SocketsSound
<1>1. SocketInv => FreedAsAllocated
  BY DEF SocketInv, ListsSound, Exchanged, FreedAsAllocated, Restored, Swapped
<1>2. SocketInv => SocketsSound
  BY <1>1 DEF SocketInv, SocketsSound
<1> QED BY <1>2, SocketInvariant, PTL

-----------------------------------------------------------------------------
(***************************************************************************)
(* ElfLoader: a load leaves nothing behind but the range elf_dlmmap gives  *)
(* up, and the image runs whole, in memory as its headers describe it.     *)
(***************************************************************************)
\* A page starts at or before its bytes, and it is the page of the quotient.
LEMMA PageStart ==
  ASSUME NEW a \in Nat
  PROVE  /\ TRUNC_PAGE(a) \in Nat /\ TRUNC_PAGE(a) <= a /\ a < TRUNC_PAGE(a) + PageSize
         /\ a \div PageSize \in Nat /\ (a \div PageSize) * PageSize = TRUNC_PAGE(a)
<1>1. a % PageSize \in 0..(PageSize - 1) /\ a \div PageSize \in Int
      /\ a = PageSize * (a \div PageSize) + (a % PageSize)
  BY SizeAssumption
<1>2. TRUNC_PAGE(a) = PageSize * (a \div PageSize)
  BY <1>1, SizeAssumption DEF TRUNC_PAGE
<1>3. TRUNC_PAGE(a) > -PageSize
  BY <1>1, SizeAssumption DEF TRUNC_PAGE
<1>4. a \div PageSize >= 0
  BY <1>1, SizeAssumption
<1> QED BY <1>1, <1>2, <1>4, SizeAssumption DEF TRUNC_PAGE

\* A later page starts at least a page later.
LEMMA NextPage ==
  ASSUME NEW i \in Int, NEW j \in Int, i < j
  PROVE  i * PageSize + PageSize <= j * PageSize
BY SizeAssumption

LEMMA TruncMonotone ==
  ASSUME NEW a \in Nat, NEW b \in Nat, a <= b
  PROVE  TRUNC_PAGE(a) <= TRUNC_PAGE(b)
<1> DEFINE i == a \div PageSize
           j == b \div PageSize
<1>1. i \in Int /\ j \in Int /\ i * PageSize = TRUNC_PAGE(a) /\ j * PageSize = TRUNC_PAGE(b)
      /\ TRUNC_PAGE(a) \in Nat /\ TRUNC_PAGE(b) \in Nat
  BY PageStart
<1>2. CASE j < i
  <2>1. j * PageSize + PageSize <= i * PageSize
    BY <1>1, <1>2, NextPage
  <2>2. TRUNC_PAGE(a) <= a /\ b < TRUNC_PAGE(b) + PageSize
    BY PageStart
  <2> QED BY <1>1, <2>1, <2>2, SizeAssumption
<1>3. CASE i <= j
  <2>1. CASE i = j
    BY <2>1, <1>1
  <2>2. CASE i < j
    <3>1. i * PageSize + PageSize <= j * PageSize
      BY <1>1, <2>2, NextPage
    <3> QED BY <3>1, <1>1, SizeAssumption
  <2> QED BY <1>1, <1>3, <2>1, <2>2
<1> QED BY <1>1, <1>2, <1>3

\* The end of the last page of a range is not before it, and pages start at it or before.
LEMMA RoundUp ==
  ASSUME NEW a \in Nat
  PROVE  /\ ROUND_PAGE(a) \in Nat /\ a <= ROUND_PAGE(a)
         /\ \A b \in Nat : ROUND_PAGE(a) <= b => ROUND_PAGE(a) <= TRUNC_PAGE(b)
         /\ \A b \in Nat : a <= b => ROUND_PAGE(a) <= ROUND_PAGE(b)
<1> DEFINE c == a + PageSize - 1
<1>1. c \in Nat
  BY SizeAssumption
<1>2. ROUND_PAGE(a) = TRUNC_PAGE(c) /\ TRUNC_PAGE(c) \in Nat /\ c < TRUNC_PAGE(c) + PageSize
  BY <1>1, PageStart DEF ROUND_PAGE
<1>3. a <= ROUND_PAGE(a)
  BY <1>2, SizeAssumption
<1>4. ASSUME NEW b \in Nat, ROUND_PAGE(a) <= b PROVE ROUND_PAGE(a) <= TRUNC_PAGE(b)
  <2> DEFINE i == c \div PageSize
             j == b \div PageSize
  <2>1. i \in Int /\ j \in Int /\ i * PageSize = TRUNC_PAGE(c) /\ j * PageSize = TRUNC_PAGE(b)
        /\ TRUNC_PAGE(b) \in Nat /\ b < TRUNC_PAGE(b) + PageSize
    BY <1>1, PageStart
  <2>2. CASE j < i
    <3>1. j * PageSize + PageSize <= i * PageSize
      BY <2>1, <2>2, NextPage
    <3> QED BY <3>1, <2>1, <1>2, <1>4, SizeAssumption
  <2>3. CASE i = j
    BY <2>3, <2>1, <1>2
  <2>4. CASE i < j
    <3>1. i * PageSize + PageSize <= j * PageSize
      BY <2>1, <2>4, NextPage
    <3> QED BY <3>1, <2>1, <1>2, SizeAssumption
  <2> QED BY <2>1, <2>2, <2>3, <2>4
<1>5. ASSUME NEW b \in Nat, a <= b PROVE ROUND_PAGE(a) <= ROUND_PAGE(b)
  <2>1. b + PageSize - 1 \in Nat /\ c <= b + PageSize - 1
    BY <1>5, SizeAssumption
  <2> QED BY <1>1, <2>1, TruncMonotone DEF ROUND_PAGE
<1> QED BY <1>2, <1>3, <1>4, <1>5

-----------------------------------------------------------------------------
\* What a load holds at each place.  The range of a load is its own until it is given back, or is
\* given up.
HeldSound ==
  /\ torn \subseteq 1..loads
  /\ at # "idle" => loads # 0 /\ loads \notin torn
  /\ regions = IF at \in {"mapping", "mapped", "loaded", "finished"} THEN torn \cup {loads} ELSE torn
  /\ at = "idle" => fds = {} /\ objs = {}
  /\ at \in {"mapped", "loaded", "finished"} => fds = {}
  /\ at \in {"headers", "mapping", "mapped", "loaded", "finished"} => objs = {loads}

\* The dependencies are opened once the image is mapped, all of them before it runs.
HandlesSound ==
  /\ at \in {"idle", "opened", "headers", "mapping"} => handles = <<>>
  /\ at = "mapped" => Len(handles) <= file.needed
  /\ at = "loaded" => Len(handles) = file.needed

Bytes(s) == s.vaddr .. (s.vaddr + s.memsz - 1)

\* Segment k is in memory as the headers describe it (cf. ImageAsDescribed).
Described(k) ==
  LET s == file.segs[k] IN
  \A a \in Bytes(s) :
    /\ data[a] = (IF a < FileEnd(s) THEN k ELSE 0)
    /\ IF a >= FileEnd(s) /\ Forgotten(s) THEN prot[a \div PageSize] = {}
       ELSE s.prot \subseteq prot[a \div PageSize]

\* From the first page of segment k on, the reservation is as it was made.
Untouched(k) ==
  \A a \in Addrs : TRUNC_PAGE(file.segs[k].vaddr) <= a => data[a] = 0 /\ prot[a \div PageSize] = {}

\* Segments are mapped in order; each stays as it is while the later ones are mapped.
MemorySound ==
  /\ at \in {"opened", "headers"} => seg = 0 /\ prot = NoPages /\ data = NoData
  /\ at \in {"mapped", "loaded"} => seg = Len(file.segs)
  /\ at \in {"mapping", "mapped", "loaded"} =>
       /\ seg <= Len(file.segs)
       /\ \A k \in DOMAIN file.segs : IF k <= seg THEN Described(k) ELSE Untouched(k)

\* The inductive invariant of the loader.
LoaderInv == LoadTypeOK /\ HeldSound /\ HandlesSound /\ MemorySound

\* The segments of a file, typed and in order.
LEMMA SegmentFacts ==
  ASSUME file \in Files, NEW k \in DOMAIN file.segs, NEW s, s = file.segs[k]
  PROVE  /\ k \in Nat /\ k \in 1..Len(file.segs) /\ Len(file.segs) \in Nat
         /\ s.vaddr \in Nat /\ s.filesz \in Nat /\ s.memsz \in Nat /\ s.prot \in Prots
         /\ FileEnd(s) \in Nat /\ s.vaddr <= FileEnd(s) /\ FileEnd(s) <= s.vaddr + s.memsz
         /\ s.vaddr + s.memsz <= Pages * PageSize
         /\ \A l \in 1..(k - 1) : ROUND_PAGE(file.segs[l].vaddr + file.segs[l].memsz) <= TRUNC_PAGE(s.vaddr)
<1>1. FileWellFormed(file)
  BY FileAssumption
<1>2. file.segs \in Seq(Segments) /\ s \in Segments
  BY <1>1 DEF FileWellFormed
<1>3. Pages * PageSize \in Nat
  BY SizeAssumption
<1>4. s.vaddr \in Nat /\ s.filesz \in Nat /\ s.memsz \in Nat /\ s.prot \in Prots
  BY <1>2, <1>3 DEF Segments, Addrs
<1>5. s.filesz <= s.memsz /\ s.vaddr + s.memsz <= Pages * PageSize
      /\ \A l \in 1..(k - 1) : ROUND_PAGE(file.segs[l].vaddr + file.segs[l].memsz) <= TRUNC_PAGE(s.vaddr)
  BY <1>1 DEF FileWellFormed
<1> QED BY <1>2, <1>4, <1>5 DEF FileEnd

\* The bytes of a segment are addresses of the image.
LEMMA ByteOf ==
  ASSUME file \in Files, NEW k \in DOMAIN file.segs, NEW s, s = file.segs[k], NEW a \in Bytes(s)
  PROVE  a \in Addrs /\ a \in Nat /\ s.vaddr <= a /\ a < s.vaddr + s.memsz
<1> DEFINE z == Pages * PageSize
<1>1. s.vaddr \in Nat /\ s.memsz \in Nat /\ s.vaddr + s.memsz <= z
  BY SegmentFacts
<1>2. z \in Nat /\ Addrs = 0..(z - 1)
  BY SizeAssumption DEF Addrs
<1> HIDE DEF z
<1> QED BY <1>1, <1>2 DEF Bytes

LEMMA AddrsNat == Addrs \subseteq Nat
BY SizeAssumption DEF Addrs

\* The page of a byte of the image.
LEMMA PageOf ==
  ASSUME NEW a \in Addrs
  PROVE  /\ a \in Nat /\ a \div PageSize \in PageNos /\ (a \div PageSize) * PageSize = TRUNC_PAGE(a)
<1>1. Pages * PageSize \in Nat /\ Pages \in Nat /\ PageSize \in Nat \ {0}
  BY SizeAssumption
<1>2. a \in Nat /\ a < Pages * PageSize
  BY <1>1 DEF Addrs
<1>3. a \div PageSize \in Nat /\ (a \div PageSize) * PageSize = TRUNC_PAGE(a) /\ TRUNC_PAGE(a) <= a
      /\ TRUNC_PAGE(a) \in Nat
  BY <1>2, PageStart
<1>4. a \div PageSize < Pages
  <2>1. SUFFICES ASSUME Pages <= a \div PageSize PROVE FALSE
    BY <1>1, <1>3
  <2>2. CASE Pages = a \div PageSize
    BY <2>2, <1>2, <1>3, <1>1
  <2>3. CASE Pages < a \div PageSize
    <3>1. Pages * PageSize + PageSize <= (a \div PageSize) * PageSize
      BY <2>3, <1>1, <1>3, NextPage
    <3> QED BY <3>1, <1>1, <1>2, <1>3
  <2> QED BY <2>1, <2>2, <2>3, <1>1, <1>3
<1> QED BY <1>1, <1>2, <1>3, <1>4 DEF PageNos

\* Mapping segment n puts the file's bytes and the zeros of its last page in their place, gives its
\* pages their protection, and changes no byte and no page before or after.
LEMMA SegmentMapped ==
  ASSUME file \in Files, prot \in [PageNos -> Prots], data \in [Addrs -> Int],
         NEW n \in DOMAIN file.segs, NEW s, s = file.segs[n],
         NEW a \in Addrs, NEW p, p = a \div PageSize
  PROVE  /\ a < TRUNC_PAGE(s.vaddr) => DataWith(n, s)[a] = data[a] /\ ProtWith(s)[p] = prot[p]
         /\ ROUND_PAGE(s.vaddr + s.memsz) <= a => DataWith(n, s)[a] = data[a] /\ ProtWith(s)[p] = prot[p]
         /\ (s.vaddr <= a /\ a < FileEnd(s)) => DataWith(n, s)[a] = n /\ s.prot \subseteq ProtWith(s)[p]
         /\ (FileEnd(s) <= a /\ a < s.vaddr + s.memsz) =>
              /\ DataWith(n, s)[a] \in {0, data[a]}
              /\ IF Forgotten(s) THEN ProtWith(s)[p] = prot[p] ELSE s.prot \subseteq ProtWith(s)[p]
<1> DEFINE v == s.vaddr
           e == FileEnd(s)
           m == s.vaddr + s.memsz
           d == DataLimit(s)
<1>1. v \in Nat /\ e \in Nat /\ m \in Nat /\ v <= e /\ e <= m /\ s.memsz \in Nat /\ s.filesz \in Nat
      /\ e = v + s.filesz
  <2>1. /\ s.vaddr \in Nat /\ s.filesz \in Nat /\ s.memsz \in Nat
        /\ FileEnd(s) \in Nat /\ s.vaddr <= FileEnd(s) /\ FileEnd(s) <= s.vaddr + s.memsz
    BY SegmentFacts
  <2> QED BY <2>1 DEF FileEnd
<1>2. /\ TRUNC_PAGE(v) \in Nat /\ TRUNC_PAGE(v) <= v /\ TRUNC_PAGE(e) \in Nat /\ TRUNC_PAGE(e) <= e
      /\ TRUNC_PAGE(v) <= TRUNC_PAGE(e)
  BY <1>1, PageStart, TruncMonotone
<1>3. /\ d \in Nat /\ e <= d /\ ROUND_PAGE(m) \in Nat /\ m <= ROUND_PAGE(m) /\ d <= ROUND_PAGE(m)
      /\ \A b \in Nat : d <= b => d <= TRUNC_PAGE(b)
      /\ \A b \in Nat : ROUND_PAGE(m) <= b => ROUND_PAGE(m) <= TRUNC_PAGE(b)
  BY <1>1, RoundUp DEF DataLimit
<1>4. /\ a \in Nat /\ p \in PageNos /\ p * PageSize = TRUNC_PAGE(a)
      /\ TRUNC_PAGE(a) \in Nat /\ TRUNC_PAGE(a) <= a
      /\ v <= a => TRUNC_PAGE(v) <= TRUNC_PAGE(a)
  BY <1>1, PageOf, PageStart, TruncMonotone
<1>5. DataWith(n, s)[a] = IF a < TRUNC_PAGE(v) \/ a >= d THEN data[a]
                          ELSE IF s.filesz # s.memsz /\ a >= e THEN 0
                          ELSE IF v <= a /\ a < e THEN n ELSE -1
  BY DEF DataWith
<1>6. ProtWith(s)[p] =
        IF HasBss(s) /\ "W" \notin s.prot /\ TRUNC_PAGE(a) = TRUNC_PAGE(e) THEN s.prot
        ELSE IF TRUNC_PAGE(v) <= TRUNC_PAGE(a) /\ TRUNC_PAGE(a) < d THEN s.prot \cup {"W"}
        ELSE IF HasBss(s) /\ d <= TRUNC_PAGE(a) /\ TRUNC_PAGE(a) < ROUND_PAGE(m) THEN s.prot
        ELSE prot[p]
  BY <1>4 DEF ProtWith, PagesIn
<1>7. HasBss(s) <=> s.filesz # s.memsz /\ d > e
  BY DEF HasBss
<1>8. Forgotten(s) <=> d = e
  BY DEF Forgotten
<1> HIDE DEF v, e, m, d
<1>9. ASSUME a < TRUNC_PAGE(v) PROVE DataWith(n, s)[a] = data[a] /\ ProtWith(s)[p] = prot[p]
  BY <1>1, <1>2, <1>3, <1>4, <1>5, <1>6, <1>9
<1>10. ASSUME ROUND_PAGE(m) <= a PROVE DataWith(n, s)[a] = data[a] /\ ProtWith(s)[p] = prot[p]
  <2>1. ROUND_PAGE(m) <= TRUNC_PAGE(a)
    BY <1>3, <1>4, <1>10
  <2> QED BY <1>1, <1>2, <1>3, <1>4, <1>5, <1>6, <1>7, <1>10, <2>1
<1>11. ASSUME v <= a, a < e PROVE DataWith(n, s)[a] = n /\ s.prot \subseteq ProtWith(s)[p]
  BY <1>1, <1>2, <1>3, <1>4, <1>5, <1>6, <1>11
<1>12. ASSUME e <= a, a < m
       PROVE  /\ DataWith(n, s)[a] \in {0, data[a]}
              /\ IF Forgotten(s) THEN ProtWith(s)[p] = prot[p] ELSE s.prot \subseteq ProtWith(s)[p]
  <2>1. s.filesz # s.memsz
    BY <1>1, <1>4, <1>12 DEF m, v
  <2>2. DataWith(n, s)[a] \in {0, data[a]}
    BY <1>1, <1>2, <1>4, <1>5, <1>12, <2>1
  <2>3. CASE Forgotten(s)
    <3>1. d <= TRUNC_PAGE(a)
      BY <1>3, <1>4, <1>8, <1>12, <2>3
    <3> QED BY <1>1, <1>3, <1>4, <1>6, <1>7, <1>8, <2>2, <2>3, <3>1
  <2>4. CASE ~Forgotten(s)
    <3>1. HasBss(s) /\ TRUNC_PAGE(v) <= TRUNC_PAGE(a) /\ TRUNC_PAGE(a) < ROUND_PAGE(m)
      BY <1>1, <1>3, <1>4, <1>7, <1>8, <1>12, <2>1, <2>4
    <3> QED BY <1>3, <1>4, <1>6, <2>2, <2>4, <3>1
  <2> QED BY <2>3, <2>4
<1> QED BY <1>9, <1>10, <1>11, <1>12 DEF v, e, m

\* The zeros after the file's bytes are zeros before the segment is mapped, too: MapSegment makes
\* it as described, leaves the earlier segments so, and the later ones untouched.
LEMMA MapSegmentMemory ==
  ASSUME LoaderInv, at = "mapping", seg < Len(file.segs), NEW n, n = seg + 1,
         NEW s, s = file.segs[n],
         data' = DataWith(n, s), prot' = ProtWith(s), UNCHANGED file
  PROVE  /\ \A k \in DOMAIN file.segs : k <= n => Described(k)'
         /\ \A k \in DOMAIN file.segs : k > n => Untouched(k)'
<1>1. /\ file \in Files /\ prot \in [PageNos -> Prots] /\ data \in [Addrs -> Int] /\ seg \in Nat
      /\ \A k \in DOMAIN file.segs : IF k <= seg THEN Described(k) ELSE Untouched(k)
  BY DEF LoaderInv, LoadTypeOK, MemorySound
<1>2. file.segs \in Seq(Segments) /\ DOMAIN file.segs = 1..Len(file.segs) /\ Len(file.segs) \in Nat
  BY <1>1, FileAssumption DEF FileWellFormed
<1>3. n \in DOMAIN file.segs /\ n \in Nat
  BY <1>1, <1>2
<1>4. /\ s.vaddr \in Nat /\ s.memsz \in Nat /\ FileEnd(s) \in Nat /\ s.vaddr + s.memsz <= Pages * PageSize
      /\ s.vaddr <= FileEnd(s) /\ FileEnd(s) <= s.vaddr + s.memsz
  BY <1>1, <1>3, SegmentFacts
<1>5. Pages * PageSize \in Nat
  BY SizeAssumption
<1>6. ASSUME NEW a \in Addrs
      PROVE  /\ a < TRUNC_PAGE(s.vaddr) => data'[a] = data[a] /\ prot'[a \div PageSize] = prot[a \div PageSize]
             /\ ROUND_PAGE(s.vaddr + s.memsz) <= a =>
                  data'[a] = data[a] /\ prot'[a \div PageSize] = prot[a \div PageSize]
             /\ (s.vaddr <= a /\ a < FileEnd(s)) => data'[a] = n /\ s.prot \subseteq prot'[a \div PageSize]
             /\ (FileEnd(s) <= a /\ a < s.vaddr + s.memsz) =>
                  /\ data'[a] \in {0, data[a]}
                  /\ IF Forgotten(s) THEN prot'[a \div PageSize] = prot[a \div PageSize]
                     ELSE s.prot \subseteq prot'[a \div PageSize]
  <2> DEFINE p == a \div PageSize
  <2>1. /\ a < TRUNC_PAGE(s.vaddr) => DataWith(n, s)[a] = data[a] /\ ProtWith(s)[p] = prot[p]
        /\ ROUND_PAGE(s.vaddr + s.memsz) <= a => DataWith(n, s)[a] = data[a] /\ ProtWith(s)[p] = prot[p]
        /\ (s.vaddr <= a /\ a < FileEnd(s)) => DataWith(n, s)[a] = n /\ s.prot \subseteq ProtWith(s)[p]
        /\ (FileEnd(s) <= a /\ a < s.vaddr + s.memsz) =>
             /\ DataWith(n, s)[a] \in {0, data[a]}
             /\ IF Forgotten(s) THEN ProtWith(s)[p] = prot[p] ELSE s.prot \subseteq ProtWith(s)[p]
    <3>1. file \in Files /\ prot \in [PageNos -> Prots] /\ data \in [Addrs -> Int]
      BY <1>1
    <3>2. n \in DOMAIN file.segs /\ s = file.segs[n] /\ a \in Addrs
      BY <1>3
    <3> QED BY <3>1, <3>2, SegmentMapped
  <2> QED BY <2>1
<1>7. ASSUME NEW k \in DOMAIN file.segs, k < n PROVE Described(k)'
  <2> DEFINE u == file.segs[k]
  <2>1. k \in 1..(n - 1) /\ k <= seg
    BY <1>1, <1>2, <1>3, <1>7
  <2>2. /\ u.vaddr \in Nat /\ u.memsz \in Nat
        /\ u.vaddr + u.memsz <= ROUND_PAGE(u.vaddr + u.memsz)
        /\ ROUND_PAGE(u.vaddr + u.memsz) <= TRUNC_PAGE(s.vaddr)
        /\ u.vaddr + u.memsz <= Pages * PageSize
        /\ ROUND_PAGE(u.vaddr + u.memsz) \in Nat
    <3>1. u.vaddr \in Nat /\ u.memsz \in Nat /\ u.vaddr + u.memsz <= Pages * PageSize
      BY <1>1, SegmentFacts
    <3>2. ROUND_PAGE(u.vaddr + u.memsz) <= TRUNC_PAGE(s.vaddr)
      BY <1>1, <1>3, <2>1, SegmentFacts
    <3>3. u.vaddr + u.memsz \in Nat
      BY <3>1
    <3> QED BY <3>1, <3>2, <3>3, RoundUp
  <2>3. Described(k)
    BY <1>1, <2>1
  <2>4. TRUNC_PAGE(s.vaddr) \in Nat
    BY <1>4, PageStart
  <2>5. ASSUME NEW a \in Bytes(u)
        PROVE  data'[a] = data[a] /\ prot'[a \div PageSize] = prot[a \div PageSize]
    <3>1. a \in Addrs /\ a \in Nat /\ a < u.vaddr + u.memsz
      BY <1>1, ByteOf
    <3>2. a < TRUNC_PAGE(s.vaddr)
      BY <2>2, <2>4, <3>1
    <3> QED BY <3>1, <3>2, <1>6
  <2>6. file' = file
    OBVIOUS
  <2> HIDE DEF u
  <2>7. Described(k)' <=> \A a \in Bytes(u) :
          /\ data'[a] = (IF a < FileEnd(u) THEN k ELSE 0)
          /\ IF a >= FileEnd(u) /\ Forgotten(u) THEN prot'[a \div PageSize] = {}
             ELSE u.prot \subseteq prot'[a \div PageSize]
    BY <2>6 DEF Described, u
  <2>8. Described(k) <=> \A a \in Bytes(u) :
          /\ data[a] = (IF a < FileEnd(u) THEN k ELSE 0)
          /\ IF a >= FileEnd(u) /\ Forgotten(u) THEN prot[a \div PageSize] = {}
             ELSE u.prot \subseteq prot[a \div PageSize]
    BY DEF Described, u
  <2> QED BY <2>3, <2>5, <2>7, <2>8
<1>8. Described(n)'
  <2>1. Untouched(n)
    BY <1>1, <1>3
  <2>2. TRUNC_PAGE(s.vaddr) \in Nat /\ TRUNC_PAGE(s.vaddr) <= s.vaddr
    BY <1>4, PageStart
  <2>3. SUFFICES ASSUME NEW a \in Bytes(s)
                 PROVE  /\ data'[a] = (IF a < FileEnd(s) THEN n ELSE 0)
                        /\ IF a >= FileEnd(s) /\ Forgotten(s) THEN prot'[a \div PageSize] = {}
                           ELSE s.prot \subseteq prot'[a \div PageSize]
    BY DEF Described
  <2>4. a \in Addrs /\ a \in Int /\ s.vaddr <= a /\ a < s.vaddr + s.memsz
    <3>1. file \in Files /\ n \in DOMAIN file.segs /\ s = file.segs[n] /\ a \in Bytes(s)
      BY <1>1, <1>3
    <3> QED BY <3>1, ByteOf
  <2>5. data[a] = 0 /\ prot[a \div PageSize] = {}
    BY <2>1, <2>2, <2>4, <1>4 DEF Untouched
  <2>6. CASE a < FileEnd(s)
    BY <1>4, <1>6, <2>4, <2>6
  <2>7. CASE FileEnd(s) <= a
    BY <1>4, <1>6, <2>4, <2>5, <2>7
  <2> QED BY <1>4, <2>4, <2>6, <2>7
<1>9. ASSUME NEW k \in DOMAIN file.segs, k > n PROVE Untouched(k)'
  <2> DEFINE u == file.segs[k]
  <2>1. n \in 1..(k - 1) /\ ~(k <= seg)
    BY <1>1, <1>2, <1>3, <1>9
  <2>2. u.vaddr \in Nat /\ ROUND_PAGE(s.vaddr + s.memsz) <= TRUNC_PAGE(u.vaddr)
    BY <1>1, <2>1, SegmentFacts
  <2>3. Untouched(k)
    BY <1>1, <2>1
  <2>4. SUFFICES ASSUME NEW a \in Addrs, TRUNC_PAGE(u.vaddr) <= a
                 PROVE  data'[a] = 0 /\ prot'[a \div PageSize] = {}
    <3>1. file' = file
      OBVIOUS
    <3> QED BY <3>1 DEF Untouched
  <2>5. ROUND_PAGE(s.vaddr + s.memsz) \in Nat /\ TRUNC_PAGE(u.vaddr) \in Nat /\ a \in Int
    <3>1. s.vaddr + s.memsz \in Nat
      BY <1>4
    <3>2. ROUND_PAGE(s.vaddr + s.memsz) \in Nat
      BY <3>1, RoundUp
    <3>3. TRUNC_PAGE(u.vaddr) \in Nat
      BY <2>2, PageStart
    <3> QED BY <3>2, <3>3, AddrsNat
  <2>6. ROUND_PAGE(s.vaddr + s.memsz) <= a
    BY <2>2, <2>4, <2>5
  <2> QED BY <1>6, <2>3, <2>4, <2>6 DEF Untouched
<1> QED BY <1>2, <1>3, <1>7, <1>8, <1>9

LEMMA LoadInitInv == LoadInit => LoaderInv
<1> SUFFICES ASSUME LoadInit PROVE LoaderInv
  OBVIOUS
<1>1. file \in Files
  BY FileAssumption DEF LoadInit
<1>2. LoadTypeOK
  BY <1>1, SizeAssumption DEF LoadInit, LoadTypeOK, NoPages, NoData, Prots
<1> QED BY <1>2 DEF LoadInit, LoaderInv, HeldSound, HandlesSound, MemorySound

LEMMA LoadNextInv == LoaderInv /\ [LoadNext]_loadVars => LoaderInv'
<1> SUFFICES ASSUME LoaderInv, [LoadNext]_loadVars PROVE LoaderInv'
  OBVIOUS
<1> USE SizeAssumption DEF LoaderInv, memVars, Loads
<1>0. /\ file \in Files /\ file.needed \in Nat /\ loads \in Nat /\ loads \in 0..MaxLoads
      /\ NoPages \in [PageNos -> Prots] /\ NoData \in [Addrs -> Int]
  BY FileAssumption DEF LoadTypeOK, NoPages, NoData, Prots
<1>1. ASSUME NEW im \in Files, NEW ok \in BOOLEAN, Open(im, ok) PROVE LoaderInv'
  <2>0. /\ at = "idle" /\ loads < MaxLoads /\ loads' = loads + 1 /\ file' = im
        /\ fds = {} /\ objs = {} /\ handles' = <<>> /\ handles' \in Seq(Nat) /\ loads' \in 0..MaxLoads
        /\ UNCHANGED <<objs, regions, torn>>
        /\ prot' \in [PageNos -> Prots] /\ data' \in [Addrs -> Int] /\ seg' = 0
    BY <1>0, <1>1 DEF Open, HeldSound
  <2>a. at' \in {"idle", "opened"} /\ fds' \in SUBSET {loads'} /\ (at' = "idle" => fds' = {})
    BY <1>1, <2>0 DEF Open
  <2>1. LoadTypeOK'
    BY <2>0, <2>a DEF LoadTypeOK
  <2>2. HeldSound'
    <3>1. torn \subseteq 1..(loads + 1) /\ loads + 1 \notin torn /\ loads + 1 # 0
      BY <1>0 DEF HeldSound
    <3> QED BY <2>0, <2>a, <3>1 DEF HeldSound
  <2>3. HandlesSound' /\ MemorySound'
    BY <1>1 DEF Open, HandlesSound, MemorySound
  <2> QED BY <2>1, <2>2, <2>3
<1>2. ASSUME NEW ok \in BOOLEAN, Headers(ok) PROVE LoaderInv'
  <2>0. /\ at = "opened" /\ UNCHANGED <<file, loads, regions, torn, prot, data, seg, handles>>
        /\ \/ at' = "headers" /\ objs' = objs \cup {loads} /\ fds' = fds
           \/ at' = "idle" /\ objs' = objs \ {loads} /\ fds' = fds \ {loads}
    BY <1>2 DEF Headers, Fail, Released
  <2>1. LoadTypeOK'
    BY <2>0 DEF LoadTypeOK
  <2>2. HeldSound'
    BY <2>0 DEF LoadTypeOK, HeldSound
  <2>3. HandlesSound' /\ MemorySound'
    BY <1>2 DEF Headers, Fail, Released, HandlesSound, MemorySound
  <2> QED BY <2>1, <2>2, <2>3
<1>3. ASSUME NEW ok \in BOOLEAN, Reserve(ok) PROVE LoaderInv'
  <2>0. /\ at = "headers" /\ UNCHANGED <<file, loads, torn, prot, data, seg, handles>>
        /\ \/ at' = "mapping" /\ regions' = regions \cup {loads} /\ UNCHANGED <<fds, objs>>
           \/ at' = "idle" /\ objs' = objs \ {loads} /\ fds' = fds \ {loads} /\ regions' = regions
    BY <1>3 DEF Reserve, Fail, Released
  <2>1. LoadTypeOK'
    <3>1. loads \in 1..MaxLoads
      BY <1>0, <2>0 DEF HeldSound
    <3>2. regions' \in SUBSET (1..MaxLoads) /\ fds' \in SUBSET {loads'} /\ objs' \in SUBSET {loads'}
      BY <2>0, <3>1 DEF LoadTypeOK
    <3> QED BY <2>0, <3>2 DEF LoadTypeOK
  <2>2. HeldSound'
    BY <1>0, <2>0 DEF LoadTypeOK, HeldSound
  <2>3. HandlesSound'
    BY <1>3 DEF Reserve, Fail, HandlesSound
  <2>4. MemorySound'
    <3>1. at = "headers" /\ seg = 0 /\ prot = NoPages /\ data = NoData
      BY <1>3 DEF Reserve, MemorySound
    <3>2. \A k \in DOMAIN file.segs : ~(k <= 0) /\ Untouched(k)
      <4> TAKE k \in DOMAIN file.segs
      <4>1. k \in 1..Len(file.segs)
        BY <1>0, SegmentFacts
      <4>2. \A a \in Addrs : a \div PageSize \in PageNos
        BY PageOf
      <4> QED BY <3>1, <4>1, <4>2 DEF Untouched, NoPages, NoData
    <3>3. 0 <= Len(file.segs)
      BY <1>0, FileAssumption DEF FileWellFormed
    <3>4. UNCHANGED <<file, prot, data, seg>> /\ at' \in {"idle", "mapping"}
      BY <1>3 DEF Reserve, Fail
    <3>5. \A k \in DOMAIN file.segs : Untouched(k)'
      BY <3>2, <3>4 DEF Untouched
    <3> QED BY <3>1, <3>2, <3>3, <3>4, <3>5 DEF MemorySound
  <2> QED BY <2>1, <2>2, <2>3, <2>4
<1>4. ASSUME NEW ok \in BOOLEAN, MapSegment(ok) PROVE LoaderInv'
  <2> DEFINE s == file.segs[seg + 1]
  <2>1. /\ at = "mapping" /\ seg < Len(file.segs) /\ seg \in Nat /\ UNCHANGED <<file, loads, regions, handles>>
        /\ seg <= Len(file.segs) /\ Len(file.segs) \in Nat
    BY <1>0, <1>4, FileAssumption DEF MapSegment, MemorySound, LoadTypeOK, FileWellFormed
  <2>2. CASE ok /\ DataLimit(s) > TRUNC_PAGE(s.vaddr)
    <3>1. /\ data' = DataWith(seg + 1, s) /\ prot' = ProtWith(s) /\ seg' = seg + 1
          /\ UNCHANGED <<at, fds, objs, torn>>
      BY <1>4, <2>2 DEF MapSegment
    <3>2. seg + 1 \in DOMAIN file.segs
      BY <1>0, <2>1, FileAssumption DEF FileWellFormed
    <3>3. s.prot \in Prots
      BY <1>0, <3>2, SegmentFacts
    <3> HIDE DEF s
    <3>4. data' \in [Addrs -> Int]
      BY <2>1, <3>1 DEF DataWith, LoadTypeOK
    <3>5. prot' \in [PageNos -> Prots]
      BY <3>1, <3>3 DEF ProtWith, LoadTypeOK, Prots
    <3>6. LoadTypeOK'
      BY <2>1, <3>1, <3>4, <3>5 DEF LoadTypeOK
    <3>7. HeldSound' /\ HandlesSound'
      BY <2>1, <3>1 DEF HeldSound, HandlesSound
    <3>8. MemorySound'
      <4>1. /\ \A k \in DOMAIN file.segs : k <= seg + 1 => Described(k)'
            /\ \A k \in DOMAIN file.segs : k > seg + 1 => Untouched(k)'
        BY <2>1, <3>1, MapSegmentMemory DEF s
      <4>2. \A k \in DOMAIN file.segs : k \in Nat
        BY <1>0, SegmentFacts
      <4> QED BY <2>1, <3>1, <4>1, <4>2 DEF MemorySound
    <3> QED BY <3>6, <3>7, <3>8
  <2>3. CASE ~(ok /\ DataLimit(s) > TRUNC_PAGE(s.vaddr))
    <3>1. /\ at' = "idle" /\ fds' = fds \ {loads} /\ objs' = objs \ {loads}
          /\ torn' = torn \cup {loads} /\ UNCHANGED <<prot, data, seg>>
      BY <1>4, <2>3 DEF MapSegment, Fail, Released
    <3>2. LoadTypeOK'
      BY <1>0, <2>1, <3>1 DEF LoadTypeOK, HeldSound
    <3>3. HeldSound'
      BY <1>0, <2>1, <3>1 DEF LoadTypeOK, HeldSound
    <3>4. HandlesSound' /\ MemorySound'
      BY <2>1, <3>1 DEF HandlesSound, MemorySound
    <3> QED BY <3>2, <3>3, <3>4
  <2> QED BY <2>2, <2>3
<1>5. ASSUME Mapped PROVE LoaderInv'
  <2>1. LoadTypeOK' /\ HeldSound'
    BY <1>0, <1>5 DEF Mapped, LoadTypeOK, HeldSound
  <2>2. HandlesSound'
    BY <1>0, <1>5 DEF Mapped, HandlesSound
  <2>3. MemorySound'
    BY <1>5 DEF Mapped, MemorySound, Described, Untouched
  <2> QED BY <2>1, <2>2, <2>3
<1>6. ASSUME NEW found \in BOOLEAN, OpenNeeded(found) PROVE LoaderInv'
  <2>1. /\ handles \in Seq(Nat) /\ Len(handles) \in Nat /\ Len(handles) < file.needed
    BY <1>0, <1>6 DEF OpenNeeded, NeededDone, LoadTypeOK
  <2>2. handles' \in Seq(Nat) /\ Len(handles') = Len(handles) + 1
    BY <1>6, <2>1 DEF OpenNeeded
  <2>3. LoadTypeOK' /\ HeldSound'
    BY <1>6, <2>2 DEF OpenNeeded, LoadTypeOK, HeldSound
  <2>4. HandlesSound'
    BY <1>0, <1>6, <2>1, <2>2 DEF OpenNeeded, HandlesSound
  <2>5. MemorySound'
    BY <1>6 DEF OpenNeeded, MemorySound, Described, Untouched
  <2> QED BY <2>3, <2>4, <2>5
<1>7. ASSUME Start PROVE LoaderInv'
  <2>1. LoadTypeOK' /\ HeldSound'
    BY <1>7 DEF Start, LoadTypeOK, HeldSound
  <2>2. HandlesSound'
    <3>1. handles \in Seq(Nat) /\ Len(handles) \in Nat
      BY DEF LoadTypeOK
    <3> QED BY <1>0, <1>7, <3>1 DEF Start, NeededDone, HandlesSound
  <2>3. MemorySound'
    BY <1>7 DEF Start, MemorySound, Described, Untouched
  <2> QED BY <2>1, <2>2, <2>3
<1>8. ASSUME Finish PROVE LoaderInv'
  BY <1>8 DEF Finish, LoadTypeOK, HeldSound, HandlesSound, MemorySound
<1>9. ASSUME CloseNeeded PROVE LoaderInv'
  <2>1. handles' \in Seq(Nat)
    BY <1>9 DEF CloseNeeded, Remaining, LoadTypeOK
  <2> QED BY <1>9, <2>1 DEF CloseNeeded, LoadTypeOK, HeldSound, HandlesSound, MemorySound
<1>10. ASSUME Unmap PROVE LoaderInv'
  <2>1. handles = <<>>
    BY <1>10 DEF Unmap, Remaining, LoadTypeOK
  <2>2. LoadTypeOK'
    BY <1>0, <1>10 DEF Unmap, LoadTypeOK, HeldSound
  <2>3. HeldSound'
    BY <1>0, <1>10 DEF Unmap, LoadTypeOK, HeldSound
  <2> QED BY <1>10, <2>1, <2>2, <2>3 DEF Unmap, HandlesSound, MemorySound
<1>11. CASE UNCHANGED loadVars
  BY <1>11 DEF loadVars, LoadTypeOK, HeldSound, HandlesSound, MemorySound, Described, Untouched
<1> QED BY <1>1, <1>2, <1>3, <1>4, <1>5, <1>6, <1>7, <1>8, <1>9, <1>10, <1>11 DEF LoadNext

\* The inductive invariant holds in every behaviour.
LEMMA LoaderInvariant == LoadSpec => []LoaderInv
  BY LoadInitInv, LoadNextInv, PTL DEF LoadSpec

\* elf_dlopen and elf_dlclose leave no descriptor, object or dependency behind, and no range but
\* those elf_dlmmap gave up; the code of an image runs only while the image is whole.
THEOREM LoaderIsSound == LoadSpec => []LoaderSound
<1>1. LoaderInv => NothingLeft
  BY DEF LoaderInv, HeldSound, HandlesSound, NothingLeft
<1>2. LoaderInv => WholeWhileRunning
  BY DEF LoaderInv, HeldSound, HandlesSound, WholeWhileRunning
<1>3. LoaderInv => LoaderSound
  BY <1>1, <1>2 DEF LoaderInv, LoaderSound
<1> QED BY <1>3, LoaderInvariant, PTL

\* elf_dlmmap puts every segment of every well-formed image in memory as its headers describe it,
\* for every page size, and mapping one segment never spoils another.
THEOREM ImageIsAsDescribed == LoadSpec => []ImageAsDescribed
<1>1. LoaderInv => ImageAsDescribed
  <2> SUFFICES ASSUME LoaderInv, at = "loaded", NEW k \in DOMAIN file.segs PROVE Described(k)
    BY DEF ImageAsDescribed, Described, Bytes
  <2>1. k <= seg
    BY SegmentFacts DEF LoaderInv, LoadTypeOK, MemorySound
  <2> QED BY <2>1 DEF LoaderInv, MemorySound
<1> QED BY <1>1, LoaderInvariant, PTL

-----------------------------------------------------------------------------
(***************************************************************************)
(* ElfBinding: every reference leads to the first definition in order.     *)
(* The chains of the hash table go down, so that what a walk finds is      *)
(* shown by its least counterexample, and that it misses nothing by the    *)
(* greatest.                                                               *)
(***************************************************************************)

\* A set of naturals has a least element: the intervals up to them are well founded.
LEMMA Least ==
  ASSUME NEW T \in SUBSET Nat, T # {}
  PROVE  \E m \in T : \A k \in T : m <= k
<1> DEFINE U == {1..m : m \in T}
<1>1. IsWellFoundedOn(StrictSubsetOrdering(Nat), FiniteSubsetsOf(Nat))
  BY FS_StrictSubsetOrderingWellFounded
<1>2. U \subseteq FiniteSubsetsOf(Nat) /\ U # {}
  <2>1. ASSUME NEW m \in T PROVE 1..m \in SUBSET Nat /\ IsFiniteSet(1..m)
    BY FS_Interval
  <2> QED BY <2>1 DEF FiniteSubsetsOf
<1>3. \E x \in U : \A y \in U : ~(<<y, x>> \in StrictSubsetOrdering(Nat))
  <2> HIDE DEF U
  <2> QED BY <1>1, <1>2, WFMin
<1>4. PICK m \in T : \A k \in T : ~(<<1..k, 1..m>> \in StrictSubsetOrdering(Nat))
  BY <1>3
<1>5. ASSUME NEW k \in T, k < m PROVE FALSE
  <2>1. 1..k \in SUBSET Nat /\ 1..m \in SUBSET Nat /\ 1..k \subseteq 1..m
    BY <1>5
  <2>2. m \in 1..m /\ m \notin 1..k
    BY <1>5
  <2> QED BY <1>4, <2>1, <2>2 DEF StrictSubsetOrdering
<1> QED BY <1>5

\* Walks down the chains c, with the answer v[j] for j in stop, and 0 at the end.
Answers(L, c, stop, v) ==
  \E f \in [0..L -> Nat] :
     f[0] = 0 /\ \A j \in 1..L : (j \in stop => f[j] = v[j]) /\ (j \notin stop => f[j] = f[c[j]])

LEMMA Walks ==
  ASSUME NEW L \in Nat, NEW c \in [1..L -> Nat], \A j \in 1..L : c[j] < j,
         NEW stop \in SUBSET (1..L), NEW v \in [1..L -> Nat]
  PROVE  Answers(L, c, stop, v)
<1> DEFINE E(j, f) == IF j = 0 THEN 0 ELSE IF j \in stop THEN v[j] ELSE f[c[j]]
           W(n) == \E f \in [0..n -> Nat] : \A j \in 0..n : f[j] = E(j, f)
           T == {n \in 0..L : ~W(n)}
<1>0. \A j \in 1..L : c[j] \in 0..(j - 1) /\ \A n \in j..L : c[j] \in 0..(n - 1)
  <2> SUFFICES ASSUME NEW j \in 1..L
               PROVE  c[j] \in 0..(j - 1) /\ \A n \in j..L : c[j] \in 0..(n - 1)
    OBVIOUS
  <2>1. PICK k \in Nat : k = c[j]
    OBVIOUS
  <2>2. k < j
    BY <2>1
  <2> HIDE DEF E, W, T
  <2> QED BY <2>1, <2>2
<1>1. W(0)
  <2>1. [j \in 0..0 |-> 0] \in [0..0 -> Nat] /\ \A j \in 0..0 : [i \in 0..0 |-> 0][j] = 0 /\ j = 0
    OBVIOUS
  <2> QED BY <2>1
<1>2. ASSUME NEW n \in 1..L, W(n - 1) PROVE W(n)
  <2>1. PICK f \in [0..(n - 1) -> Nat] : \A j \in 0..(n - 1) : f[j] = E(j, f)
    BY <1>2
  <2>2. PICK x \in Nat : x = IF n \in stop THEN v[n] ELSE f[c[n]]
    <3>1. c[n] \in 0..(n - 1) /\ v[n] \in Nat
      OBVIOUS
    <3>2. f[c[n]] \in Nat
      BY <3>1
    <3> QED BY <3>1, <3>2
  <2>3. PICK g \in [0..n -> Nat] : g[n] = x /\ \A j \in 0..(n - 1) : g[j] = f[j]
    <3> DEFINE h == [j \in 0..n |-> IF j = n THEN x ELSE f[j]]
    <3>1. h \in [0..n -> Nat] /\ h[n] = x /\ \A j \in 0..(n - 1) : h[j] = f[j]
      OBVIOUS
    <3> QED BY <3>1
  <2>4. ASSUME NEW j \in 0..n PROVE g[j] = E(j, g)
    <3>1. j # 0 => j \in 1..L /\ c[j] \in 0..(j - 1) /\ c[j] \in 0..(n - 1)
      <4> HIDE DEF E, W, T
      <4>1. j # 0 => j \in 1..L
        OBVIOUS
      <4>2. n \in j..L
        OBVIOUS
      <4> QED BY <1>0, <4>1, <4>2
    <3>2. CASE j = n
      BY <2>2, <2>3, <3>1, <3>2
    <3>3. CASE j # n
      <4>1. j \in 0..(n - 1)
        BY <3>3
      <4> QED BY <2>1, <2>3, <3>1, <4>1
    <3> QED BY <3>2, <3>3
  <2> QED BY <2>4
<1>3. T = {}
  <2> SUFFICES ASSUME T # {} PROVE FALSE
    OBVIOUS
  <2>1. PICK n \in T : \A k \in T : n <= k
    <3>1. T \in SUBSET Nat
      OBVIOUS
    <3> HIDE DEF T
    <3> QED BY <3>1, Least
  <2>2. n \in 0..L /\ ~W(n)
    BY <2>1
  <2> HIDE DEF W
  <2>3. n \in 1..L
    BY <1>1, <2>2
  <2>4. n - 1 \in 0..L /\ W(n - 1)
    BY <2>1, <2>3
  <2> QED BY <1>2, <2>2, <2>3, <2>4
<1>4. W(L)
  <2>1. L \in 0..L
    OBVIOUS
  <2> HIDE DEF W
  <2> QED BY <1>3, <2>1
<1>5. PICK f \in [0..L -> Nat] : \A j \in 0..L : f[j] = E(j, f)
  BY <1>4
<1>6. f[0] = 0 /\ \A j \in 1..L : (j \in stop => f[j] = v[j]) /\ (j \notin stop => f[j] = f[c[j]])
  BY <1>5
<1> QED BY <1>6 DEF Answers

\* The tables of an image.
LEMMA Tables ==
  ASSUME NEW im \in Images
  PROVE  \E L \in Nat, B \in Nat :
           /\ L = Len(im.symtab) /\ DOMAIN im.symtab = 1..L /\ im.symtab \in [1..L -> Symbols]
           /\ im.chains \in [1..L -> Nat] /\ \A j \in 1..L : im.chains[j] < j
           /\ B = Len(im.buckets) /\ B > 0 /\ im.buckets \in [1..B -> 0..L]
           /\ \A n \in Names : Bucket(im, n) \in 0..L
<1>1. WellFormed(im)
  BY ImageAssumption
<1>2. PICK L \in Nat : L = Len(im.symtab) /\ L = Len(im.chains)
  BY <1>1 DEF WellFormed
<1>3. PICK B \in Nat : B = Len(im.buckets)
  BY <1>1 DEF WellFormed
<1>4. DOMAIN im.symtab = 1..L /\ im.symtab \in [1..L -> Symbols]
  BY <1>1, <1>2 DEF WellFormed
<1>5. im.chains \in [1..L -> Nat] /\ \A j \in 1..L : im.chains[j] < j
  <2>1. im.chains \in Seq(Nat) /\ \A j \in DOMAIN im.chains : im.chains[j] < j
    BY <1>1 DEF WellFormed
  <2> QED BY <1>2, <2>1
<1>6. B > 0 /\ im.buckets \in [1..B -> 0..L]
  BY <1>1, <1>2, <1>3 DEF WellFormed
<1>7. ASSUME NEW n \in Names PROVE Bucket(im, n) \in 0..L
  <2>1. PICK h \in Nat : h = Hash[n]
    BY NameAssumption
  <2>2. (h % B) + 1 \in 1..B
    BY <1>6
  <2> QED BY <1>3, <1>6, <2>1, <2>2 DEF Bucket
<1> QED BY <1>2, <1>3, <1>4, <1>5, <1>6, <1>7

\* The walks for name: each symbol of the chain is taken, or is followed by the next.
LEMMA WalkStep ==
  ASSUME NEW im \in Images, NEW name \in Names
  PROVE  \E w \in [0..Len(im.symtab) -> Nat] :
           /\ \A i \in 0..Len(im.symtab) : Walk(im, i, name) = w[i]
           /\ w[0] = 0
           /\ \A j \in DOMAIN im.symtab :
                w[j] = IF Matches(im.symtab[j], name) THEN Base + im.symtab[j].value
                       ELSE w[im.chains[j]]
<1>1. PICK L \in Nat, B \in Nat :
           /\ L = Len(im.symtab) /\ DOMAIN im.symtab = 1..L /\ im.symtab \in [1..L -> Symbols]
           /\ im.chains \in [1..L -> Nat] /\ \A j \in 1..L : im.chains[j] < j
  BY Tables
<1> DEFINE stop == {j \in 1..L : Matches(im.symtab[j], name)}
           v == [j \in 1..L |-> Base + im.symtab[j].value]
           E(f) == [j \in 0..L |-> IF j = 0 THEN 0
                                   ELSE IF Matches(im.symtab[j], name) THEN Base + im.symtab[j].value
                                   ELSE f[im.chains[j]]]
<1>2. stop \in SUBSET (1..L)
  OBVIOUS
<1>3. v \in [1..L -> Nat]
  <2>1. \A j \in 1..L : im.symtab[j].value \in Nat
    BY <1>1 DEF Symbols
  <2> QED BY <2>1, NameAssumption
<1>4. \E f \in [0..L -> Nat] : f = E(f)
  <2>1. \A j \in 1..L : (j \in stop <=> Matches(im.symtab[j], name)) /\ v[j] = Base + im.symtab[j].value
    OBVIOUS
  <2> HIDE DEF stop, v, E
  <2>2. PICK f \in [0..L -> Nat] :
          f[0] = 0 /\ \A j \in 1..L : (j \in stop => f[j] = v[j]) /\ (j \notin stop => f[j] = f[im.chains[j]])
    <3>1. Answers(L, im.chains, stop, v)
      BY <1>1, <1>2, <1>3, Walks
    <3> QED BY <3>1 DEF Answers
  <2>3. f = E(f)
    <3>1. f = [j \in 0..L |-> f[j]]
      BY <2>2
    <3>2. \A j \in 0..L : f[j] = IF j = 0 THEN 0
                                 ELSE IF Matches(im.symtab[j], name) THEN Base + im.symtab[j].value
                                 ELSE f[im.chains[j]]
      <4>1. \A j \in 0..L : j = 0 \/ j \in 1..L
        OBVIOUS
      <4> QED BY <2>1, <2>2, <4>1
    <3> QED BY <3>1, <3>2 DEF E
  <2> QED BY <2>3
<1> DEFINE w == CHOOSE f : f = E(f)
<1>5. w = E(w)
  <2> HIDE DEF E
  <2>1. \E f : f = E(f)
    BY <1>4
  <2> QED BY <2>1
<1>6. \A i \in 0..L : Walk(im, i, name) = w[i]
  BY <1>1 DEF Walk
<1> HIDE DEF w
<1>7. PICK u : u = w /\ u = E(u)
  BY <1>5
<1>8. u[0] = 0 /\ \A j \in 1..L : u[j] = IF Matches(im.symtab[j], name) THEN Base + im.symtab[j].value
                                         ELSE u[im.chains[j]]
  BY <1>7
<1>9. \A j \in 0..L : u[j] \in Nat
  <2> DEFINE T == {j \in 0..L : u[j] \notin Nat}
  <2> SUFFICES ASSUME T # {} PROVE FALSE
    OBVIOUS
  <2>1. PICK j \in T : \A k \in T : j <= k
    <3>1. T \in SUBSET Nat
      OBVIOUS
    <3> HIDE DEF T
    <3> QED BY <3>1, Least
  <2>2. j \in 1..L /\ u[j] \notin Nat
    BY <1>8, <2>1
  <2>3. im.chains[j] \in 0..L /\ im.chains[j] < j
    BY <1>1, <2>2
  <2>4. u[im.chains[j]] \in Nat
    BY <2>1, <2>2, <2>3
  <2>5. Base + im.symtab[j].value \in Nat
    BY <1>3, <2>2
  <2> QED BY <1>8, <2>2, <2>4, <2>5
<1>10. u \in [0..L -> Nat]
  <2>1. u = [j \in 0..L |-> u[j]]
    BY <1>7
  <2> QED BY <1>9, <2>1
<1> QED BY <1>1, <1>6, <1>7, <1>8, <1>10

\* What the walk down the chain of name answers is there exactly when the table defines name, if that
\* is the chain where the link editor put it.
LEMMA LookupOwn ==
  ASSUME NEW im \in Images, NEW name \in Names, im.hash, SameBucket(im, name)
  PROVE  /\ Candidates(im, name) = {} => elf_dlsym(im, name) = 0
         /\ Candidates(im, name) # {} =>
              \E i \in Candidates(im, name) : elf_dlsym(im, name) = Base + im.symtab[i].value
         /\ elf_dlsym(im, name) \in Nat
<1>1. PICK L \in Nat, B \in Nat :
           /\ L = Len(im.symtab) /\ DOMAIN im.symtab = 1..L /\ im.symtab \in [1..L -> Symbols]
           /\ im.chains \in [1..L -> Nat] /\ \A j \in 1..L : im.chains[j] < j
           /\ \A n \in Names : Bucket(im, n) \in 0..L
  BY Tables
<1>2. PICK w \in [0..L -> Nat] :
           /\ \A i \in 0..L : Walk(im, i, name) = w[i]
           /\ w[0] = 0
           /\ \A j \in 1..L : w[j] = IF Matches(im.symtab[j], name) THEN Base + im.symtab[j].value
                                     ELSE w[im.chains[j]]
  BY <1>1, WalkStep
<1>3. PICK b \in 0..L : b = Bucket(im, name)
  BY <1>1
<1>4. elf_dlsym(im, name) = w[b]
  BY <1>2, <1>3 DEF elf_dlsym
<1>5. \A i : i \in Candidates(im, name) <=> i \in 1..L /\ Matches(im.symtab[i], name)
  BY <1>1 DEF Candidates, Matches
<1>6. \A j \in 1..L : im.symtab[j].value \in Nat /\ im.symtab[j].name \in Names
  BY <1>1 DEF Symbols
<1>7. \A j \in 1..L : im.chains[j] \in 0..L /\ im.chains[j] < j
  <2> SUFFICES ASSUME NEW j \in 1..L PROVE im.chains[j] \in 0..L /\ im.chains[j] < j
    OBVIOUS
  <2>1. PICK k \in Nat : k = im.chains[j] /\ k < j
    BY <1>1
  <2> QED BY <2>1
\* It finds nothing but a definition.
<1>8. \A j \in 0..L : w[j] = 0 \/ \E i \in Candidates(im, name) : w[j] = Base + im.symtab[i].value
  <2> DEFINE Good(j) == w[j] = 0 \/ \E i \in Candidates(im, name) : w[j] = Base + im.symtab[i].value
             T == {j \in 0..L : ~Good(j)}
  <2> SUFFICES ASSUME T # {} PROVE FALSE
    OBVIOUS
  <2>1. PICK j \in T : \A k \in T : j <= k
    <3>1. T \in SUBSET Nat
      OBVIOUS
    <3> HIDE DEF T
    <3> QED BY <3>1, Least
  <2>2. j \in 0..L /\ ~Good(j)
    BY <2>1
  <2>3. j \in 1..L
    BY <1>2, <2>2
  <2>4. ~Matches(im.symtab[j], name)
    BY <1>2, <1>5, <2>2, <2>3
  <2>5. w[j] = w[im.chains[j]]
    BY <1>2, <2>3, <2>4
  <2>6. ~Good(im.chains[j])
    BY <2>2, <2>5
  <2> HIDE DEF Good
  <2> QED BY <1>7, <2>1, <2>3, <2>6
<1>9. \A j \in 1..L : Base + im.symtab[j].value # 0
  <2>1. Base \in Nat /\ Base # 0
    BY NameAssumption DEF NameAssumption
  <2>2. \A x \in Nat : Base + x # 0
    BY <2>1
  <2> QED BY <1>6, <2>2
\* It misses no definition: the last symbol of the bucket whose walk answers is the first of all.
<1>10. ASSUME NEW i \in Candidates(im, name) PROVE w[b] # 0
  <2> SUFFICES ASSUME w[b] = 0 PROVE FALSE
    OBVIOUS
  <2>0. PICK q : q = LinkHash[name] % Len(im.buckets) /\ im.buckets[q + 1] = b
    BY <1>3 DEF Bucket, SameBucket
  <2> DEFINE S(j) == j \in 1..L /\ LinkBucket(im, j) = q /\ w[j] # 0
             T == {k \in 0..L : S(L - k)}
  <2>1. S(i)
    <3>1. i \in 1..L /\ im.symtab[i].name = name /\ Matches(im.symtab[i], name)
      BY <1>5, <1>10 DEF Matches
    <3>2. w[i] = Base + im.symtab[i].value
      BY <1>2, <3>1
    <3>3. w[i] # 0
      BY <1>9, <3>1, <3>2
    <3>4. LinkBucket(im, i) = q
      BY <2>0, <3>1 DEF LinkBucket
    <3> QED BY <3>1, <3>3, <3>4
  <2>2. PICK j : S(j) /\ \A k : S(k) => k <= j
    <3>1. T \in SUBSET Nat
      OBVIOUS
    <3>2. T # {}
      <4>1. i \in 1..L
        BY <2>1
      <4>2. L - i \in 0..L /\ L - (L - i) = i
        BY <4>1
      <4>3. S(L - (L - i))
        BY <2>1, <4>2
      <4> HIDE DEF S
      <4> QED BY <4>2, <4>3
    <3>3. PICK m \in T : \A k \in T : m <= k
      <4> HIDE DEF T
      <4> QED BY <3>1, <3>2, Least
    <3>4. m \in 0..L /\ S(L - m)
      BY <3>3
    <3>5. ASSUME NEW k, S(k) PROVE k <= L - m
      <4>1. k \in 1..L
        BY <3>5
      <4>2. L - k \in 0..L /\ L - (L - k) = k
        BY <4>1
      <4>3. L - k \in T
        <5> HIDE DEF S
        <5> QED BY <3>5, <4>2
      <4>4. m <= L - k
        BY <3>3, <4>3
      <4> QED BY <3>4, <4>1, <4>4
    <3> HIDE DEF S
    <3> QED BY <3>4, <3>5
  <2>3. j # b
    BY <2>2
  <2>4. PICK k \in 1..L : im.chains[k] = j /\ LinkBucket(im, k) = q
    <3>1. WellFormed(im) /\ j \in DOMAIN im.symtab /\ LinkBucket(im, j) = q /\ j # 0
      BY <1>1, <2>2, ImageAssumption
    <3>2. im.buckets[LinkBucket(im, j) + 1] # j
      BY <2>0, <2>3, <3>1
    <3>3. PICK k \in DOMAIN im.symtab : im.chains[k] = j
      BY <3>1, <3>2 DEF WellFormed
    <3>4. k \in DOMAIN im.chains /\ im.chains[k] # 0
      BY <1>1, <3>1, <3>3
    <3>5. LinkBucket(im, im.chains[k]) = LinkBucket(im, k)
      BY <3>1, <3>4 DEF WellFormed
    <3> QED BY <1>1, <3>1, <3>3, <3>5
  <2>5. w[k] # 0
    <3>1. CASE Matches(im.symtab[k], name)
      <4>1. w[k] = Base + im.symtab[k].value
        BY <1>2, <3>1
      <4> QED BY <1>9, <4>1
    <3>2. CASE ~Matches(im.symtab[k], name)
      <4>1. w[k] = w[j]
        BY <1>2, <2>4, <3>2
      <4> QED BY <2>2, <4>1
    <3> QED BY <3>1, <3>2
  <2>6. k <= j /\ j < k
    <3>1. S(k)
      BY <2>4, <2>5
    <3>2. k <= j
      <4> HIDE DEF S
      <4> QED BY <2>2, <3>1
    <3>3. j < k
      BY <1>7, <2>4
    <3> QED BY <3>2, <3>3
  <2>7. j \in 1..L
    BY <2>2
  <2> QED BY <2>6, <2>7
<1> QED BY <1>2, <1>3, <1>4, <1>8, <1>10

\* A name that the loader looks for in another chain than the link editor's is not found.
LEMMA LookupElsewhere ==
  ASSUME NEW im \in Images, NEW name \in Names, im.hash, ~SameBucket(im, name)
  PROVE  elf_dlsym(im, name) = 0
<1>1. PICK L \in Nat, B \in Nat :
           /\ L = Len(im.symtab) /\ DOMAIN im.symtab = 1..L /\ im.symtab \in [1..L -> Symbols]
           /\ im.chains \in [1..L -> Nat] /\ \A j \in 1..L : im.chains[j] < j
           /\ B = Len(im.buckets) /\ B > 0 /\ im.buckets \in [1..B -> 0..L]
           /\ \A n \in Names : Bucket(im, n) \in 0..L
  BY Tables
<1>2. PICK w \in [0..L -> Nat] :
           /\ \A i \in 0..L : Walk(im, i, name) = w[i]
           /\ w[0] = 0
           /\ \A j \in 1..L : w[j] = IF Matches(im.symtab[j], name) THEN Base + im.symtab[j].value
                                     ELSE w[im.chains[j]]
  BY <1>1, WalkStep
<1>3. PICK b \in 0..L : b = Bucket(im, name)
  BY <1>1
<1>4. elf_dlsym(im, name) = w[b]
  BY <1>2, <1>3 DEF elf_dlsym
<1>5. PICK q \in 0..(B - 1) : q = Hash[name] % B /\ b = im.buckets[q + 1] /\ q # LinkHash[name] % B
  <2>1. PICK h \in Nat : h = Hash[name]
    BY NameAssumption
  <2>2. PICK k \in Nat \ {0} : k = B
    BY <1>1
  <2>3. h % k \in 0..(k - 1)
    BY <2>1, <2>2
  <2> QED BY <1>1, <1>3, <2>1, <2>2, <2>3 DEF Bucket, SameBucket
<1>6. WellFormed(im)
  BY ImageAssumption
<1>7. \A j \in 1..L : LinkBucket(im, j) = q => w[j] = 0
  <2> DEFINE T == {j \in 1..L : LinkBucket(im, j) = q /\ w[j] # 0}
  <2> SUFFICES ASSUME T # {} PROVE FALSE
    OBVIOUS
  <2>1. PICK j \in T : \A k \in T : j <= k
    <3>1. T \in SUBSET Nat
      OBVIOUS
    <3> HIDE DEF T
    <3> QED BY <3>1, Least
  <2>2. j \in 1..L /\ LinkBucket(im, j) = q /\ w[j] # 0
    BY <2>1
  <2>3. ~Matches(im.symtab[j], name)
    BY <1>1, <1>5, <2>2 DEF LinkBucket, Matches
  <2>4. w[im.chains[j]] # 0
    BY <1>2, <2>2, <2>3
  <2>5. PICK k \in Nat : k = im.chains[j] /\ k < j
    BY <1>1, <2>2
  <2>6. k # 0
    BY <1>2, <2>4, <2>5
  <2>7. k \in 1..L
    BY <2>2, <2>5, <2>6
  <2>8. LinkBucket(im, k) = q
    BY <1>1, <1>6, <2>2, <2>5, <2>6 DEF WellFormed
  <2>9. k \in T
    BY <2>4, <2>5, <2>7, <2>8
  <2> HIDE DEF T
  <2> QED BY <2>1, <2>2, <2>5, <2>9
<1>8. CASE b = 0
  BY <1>2, <1>4, <1>8
<1>9. CASE b # 0
  <2>1. q + 1 \in DOMAIN im.buckets /\ (q + 1) - 1 = q
    BY <1>1, <1>5
  <2>2. LinkBucket(im, im.buckets[q + 1]) = (q + 1) - 1
    BY <1>5, <1>6, <1>9, <2>1 DEF WellFormed
  <2> QED BY <1>4, <1>5, <1>7, <1>9, <2>1, <2>2
<1> QED BY <1>8, <1>9

\* What elf_dlsym answers is one of the image's own definitions, and 0 when it has none.
LEMMA Lookup ==
  ASSUME NEW im \in Images, NEW name \in Names, im.hash
  PROVE  /\ Own(im, name) = {} => elf_dlsym(im, name) = 0
         /\ Own(im, name) # {} => elf_dlsym(im, name) \in Own(im, name) /\ elf_dlsym(im, name) # 0
         /\ elf_dlsym(im, name) \in Nat
<1>1. CASE ~SameBucket(im, name)
  BY <1>1, LookupElsewhere DEF Own
<1>2. CASE SameBucket(im, name)
  <2>1. Own(im, name) = {Base + im.symtab[i].value : i \in Candidates(im, name)}
    BY <1>2 DEF Own
  <2>2. /\ Candidates(im, name) = {} => elf_dlsym(im, name) = 0
        /\ Candidates(im, name) # {} =>
             \E i \in Candidates(im, name) : elf_dlsym(im, name) = Base + im.symtab[i].value
        /\ elf_dlsym(im, name) \in Nat
    BY <1>2, LookupOwn
  <2>3. ASSUME NEW i \in Candidates(im, name) PROVE Base + im.symtab[i].value # 0
    <3>1. PICK L \in Nat : DOMAIN im.symtab = 1..L /\ im.symtab \in [1..L -> Symbols]
      BY Tables
    <3>2. im.symtab[i] \in Symbols
      BY <3>1 DEF Candidates
    <3>3. PICK x \in Nat : x = im.symtab[i].value
      BY <3>2 DEF Symbols
    <3> QED BY <3>3, NameAssumption
  <2> QED BY <2>1, <2>2, <2>3
<1> QED BY <1>1, <1>2

-----------------------------------------------------------------------------
(* What find_symdef comes to.                                              *)

\* Symbol symnum is found at the definition that counts now; it is missing, or an assertion fails,
\* for the reasons that EndsOnlyUndefined allows.
LEMMA Resolution ==
  ASSUME BindTypeOK, NEW symnum \in DOMAIN image.symtab, NEW in_plt \in BOOLEAN
  PROVE  LET ref == image.symtab[symnum]
             def == find_symdef(image, symnum, in_plt)
         IN  /\ def.end \in {"found", "missing", "assert"} /\ def.addr \in Nat
             /\ def.end = "found" => def.addr \in Definitions(image, symnum, global)
             /\ def.end = "missing" =>
                  Undefined(symnum) /\ (image.hash => in_plt) /\ Definitions(image, symnum, global) = {}
             /\ def.end = "assert" =>
                  \/ Undefined(symnum) /\ ref.bind # "weak" /\ ~in_plt
                  \/ ref.type = "section" \/ (ref.bind = "local" /\ ref.value = 0)
<1> DEFINE ref == image.symtab[symnum]
           name == ref.name
           def == find_symdef(image, symnum, in_plt)
<1>1. image \in Images /\ global \in SUBSET Names
  BY DEF BindTypeOK
<1>2. PICK L \in Nat, B \in Nat :
           /\ L = Len(image.symtab) /\ DOMAIN image.symtab = 1..L /\ image.symtab \in [1..L -> Symbols]
  BY <1>1, Tables
<1>3. name \in Names /\ ref.value \in Nat /\ image.hash \in BOOLEAN
  BY <1>1, <1>2, ImageAssumption DEF Symbols, WellFormed
<1>4. Base \in Nat /\ Fixups[name] \in Nat /\ Globals[name] \in Nat
  BY <1>3, NameAssumption
<1>5. PICK a : a = elf_dlsym(image, name)
  OBVIOUS
<1>6. image.hash => a \in Nat /\ (a = 0 <=> Own(image, name) = {}) /\ (a # 0 => a \in Own(image, name))
  <2> HIDE DEF name
  <2> QED BY <1>1, <1>3, <1>5, Lookup
<1>7. CASE symnum >= nchains(image)
  <2>1. ~image.hash
    BY <1>2, <1>3, <1>7 DEF nchains
  <2>2. def = Missing
    BY <1>7 DEF find_symdef
  <2> QED BY <2>1, <2>2 DEF Missing, Undefined, Definitions
<1>8. CASE ~(symnum >= nchains(image))
  <2>1. image.hash
    BY <1>2, <1>3, <1>8 DEF nchains
  <2>2. def = IF ref.type = "section" THEN Asserts
              ELSE IF ref.bind = "local" THEN IF ref.value = 0 THEN Asserts ELSE Found(Base + ref.value)
              ELSE IF Fixups[name] # 0 THEN Found(Fixups[name])
              ELSE IF a # 0 THEN Found(a)
              ELSE IF name \in global THEN Found(Globals[name])
              ELSE IF ref.bind = "weak" THEN Found(0)
              ELSE IF in_plt THEN Missing ELSE Asserts
    BY <1>5, <1>8 DEF find_symdef, AsWeak
  <2> DEFINE own == Own(image, name)
             D == Definitions(image, symnum, global)
  <2>3. D = IF ref.bind = "local" THEN {Base + ref.value}
            ELSE IF Fixups[name] # 0 THEN {Fixups[name]}
            ELSE IF own # {} THEN own
            ELSE IF name \in global THEN {Globals[name]}
            ELSE IF ref.bind = "weak" THEN {0} ELSE {}
    BY <2>1 DEF Definitions
  <2>4. (own = {} <=> a = 0) /\ (a # 0 => a \in own) /\ a \in Nat
    BY <1>6, <2>1
  <2>5. Undefined(symnum) <=> Fixups[name] = 0 /\ own = {} /\ name \notin global
    BY <2>1 DEF Undefined
  <2> HIDE DEF def, own, D
  <2>6. CASE ref.type = "section"
    <3>1. def = Asserts
      BY <2>2, <2>6
    <3> QED BY <2>6, <3>1 DEF Asserts, def
  <2>7. CASE ref.type # "section" /\ ref.bind = "local"
    <3>1. ref.value = 0 => def = Asserts
      BY <2>2, <2>7
    <3>2. ref.value # 0 => def = Found(Base + ref.value)
      BY <2>2, <2>7
    <3> QED BY <1>3, <1>4, <2>3, <2>7, <3>1, <3>2 DEF Asserts, Found, def, D
  <2> DEFINE Searched == ref.type # "section" /\ ref.bind # "local"
  <2>8. CASE Searched /\ Fixups[name] # 0
    <3>1. def = Found(Fixups[name])
      BY <2>2, <2>8
    <3> QED BY <1>4, <2>3, <2>8, <3>1 DEF Found, def, D
  <2>9. CASE Searched /\ Fixups[name] = 0 /\ a # 0
    <3>1. def = Found(a)
      BY <2>2, <2>9
    <3> QED BY <2>3, <2>4, <2>9, <3>1 DEF Found, def, D
  <2>10. CASE Searched /\ Fixups[name] = 0 /\ a = 0 /\ name \in global
    <3>1. def = Found(Globals[name])
      BY <2>2, <2>10
    <3> QED BY <1>4, <2>3, <2>4, <2>10, <3>1 DEF Found, def, D
  <2>11. CASE Searched /\ Fixups[name] = 0 /\ a = 0 /\ name \notin global
    <3>1. Undefined(symnum)
      BY <2>4, <2>5, <2>11
    <3>2. def = IF ref.bind = "weak" THEN Found(0) ELSE IF in_plt THEN Missing ELSE Asserts
      BY <2>2, <2>11
    <3>3. D = IF ref.bind = "weak" THEN {0} ELSE {}
      BY <2>3, <2>4, <2>11
    <3> QED BY <3>1, <3>2, <3>3 DEF Found, Missing, Asserts, def, D
  <2> QED BY <2>6, <2>7, <2>8, <2>9, <2>10, <2>11
<1> QED BY <1>7, <1>8

-----------------------------------------------------------------------------
(* The invariant.                                                          *)

\* Where PLT word p leads once the PLT is moved.
Leads(p) == IF phase = "plt" /\ p > done THEN {Base + Stub(p)} ELSE SlotValues(p)

\* The words that are not relocated yet hold what the file says; once the PLT is moved, each of its
\* words, and what a thread keeps for one, leads where PltSound says.
BindInv ==
  /\ BindTypeOK /\ DataRelocated /\ EndsOnlyUndefined
  /\ phase = "data" =>
       /\ \A w \in (done + 1)..Len(image.data) : slots[w] = image.data[w].inplace
       /\ \A p \in DOMAIN image.plt : slots[PltWord(image, p)] = Stub(p)
  /\ phase \in {"plt", "run"} => \A p \in DOMAIN image.plt : slots[PltWord(image, p)] \in Leads(p)
  /\ \A t \in ImageThreads, p \in DOMAIN image.plt : binding[t] = p => temp[t] \in SlotValues(p)
  /\ phase \in {"data", "plt"} => \A t \in ImageThreads : binding[t] = 0

\* The relocations of an image.
LEMMA Relocating ==
  ASSUME NEW im \in Images
  PROVE  \E D \in Nat, P \in Nat :
           /\ D = Len(im.data) /\ P = Len(im.plt) /\ Words(im) = 1..(D + P)
           /\ DOMAIN im.data = 1..D /\ im.data \in [1..D -> Relocations]
           /\ DOMAIN im.plt = 1..P /\ im.plt \in [1..P -> DOMAIN im.symtab]
           /\ \A r \in 1..D : LooksUp(im.data[r]) => im.data[r].sym \in DOMAIN im.symtab
           /\ \A p \in 1..P : im.symtab[im.plt[p]].bind # "local" /\ im.symtab[im.plt[p]].type # "section"
<1>1. WellFormed(im)
  BY ImageAssumption
<1>2. PICK D \in Nat : D = Len(im.data)
  BY <1>1 DEF WellFormed
<1>3. PICK P \in Nat : P = Len(im.plt)
  BY <1>1 DEF WellFormed
<1>4. DOMAIN im.data = 1..D /\ im.data \in [1..D -> Relocations]
  BY <1>1, <1>2 DEF WellFormed
<1>5. DOMAIN im.plt = 1..P /\ im.plt \in [1..P -> DOMAIN im.symtab]
  BY <1>1, <1>3 DEF WellFormed
<1>6. \A r \in 1..D : LooksUp(im.data[r]) => im.data[r].sym \in DOMAIN im.symtab
  BY <1>1, <1>4 DEF WellFormed
<1>7. \A p \in 1..P : im.symtab[im.plt[p]].bind # "local" /\ im.symtab[im.plt[p]].type # "section"
  BY <1>1, <1>5 DEF WellFormed
<1>8. Words(im) = 1..(D + P)
  BY <1>2, <1>3 DEF Words
<1> QED BY <1>2, <1>3, <1>4, <1>5, <1>6, <1>7, <1>8

LEMMA BindInitInv == BindInit => BindInv
<1> SUFFICES ASSUME BindInit PROVE BindInv
  OBVIOUS
<1>1. image \in Images /\ phase = "data" /\ done = 0 /\ global \in SUBSET Names
  BY DEF BindInit
<1>2. PICK D \in Nat, P \in Nat :
           /\ D = Len(image.data) /\ P = Len(image.plt) /\ Words(image) = 1..(D + P)
           /\ DOMAIN image.data = 1..D /\ image.data \in [1..D -> Relocations]
           /\ DOMAIN image.plt = 1..P
  BY <1>1, Relocating
<1>3. slots = [w \in 1..(D + P) |-> IF w <= D THEN image.data[w].inplace ELSE w - D]
  BY <1>2 DEF BindInit, Stub
<1>4. \A w \in 1..D : image.data[w].inplace \in Nat
  BY <1>2 DEF Relocations
<1>5. slots \in [1..(D + P) -> Nat]
  BY <1>3, <1>4
<1>6. \A w \in 1..D : slots[w] = image.data[w].inplace
  BY <1>3
<1>7. \A p \in 1..P : slots[PltWord(image, p)] = Stub(p)
  <2> SUFFICES ASSUME NEW p \in 1..P PROVE slots[PltWord(image, p)] = Stub(p)
    BY <1>2
  <2>1. PltWord(image, p) = D + p
    BY <1>2 DEF PltWord
  <2>2. D + p \in 1..(D + P) /\ ~(D + p <= D) /\ (D + p) - D = p
    OBVIOUS
  <2> QED BY <1>3, <2>1, <2>2 DEF Stub
<1>8. BindTypeOK
  <2>1. temp \in [ImageThreads -> Nat] /\ target \in [ImageThreads -> Nat]
    BY DEF BindInit
  <2>2. binding \in [ImageThreads -> 0..Len(image.plt)]
    BY <1>2 DEF BindInit
  <2>3. done \in 0..(IF phase \in {"plt", "run", "exit"} THEN Len(image.plt) ELSE Len(image.data))
    BY <1>1, <1>2
  <2>4. early = global
    BY DEF BindInit
  <2> QED BY <1>1, <1>2, <1>5, <2>1, <2>2, <2>3, <2>4 DEF BindTypeOK
<1>9. DataRelocated /\ EndsOnlyUndefined
  BY <1>1 DEF DataRelocated, EndsOnlyUndefined
<1>10. \A t \in ImageThreads : binding[t] = 0
  BY DEF BindInit
<1> QED BY <1>1, <1>2, <1>6, <1>7, <1>8, <1>9, <1>10 DEF BindInv

\* The values a data word may hold are determined by the image and the scope it was relocated in,
\* those of a PLT word by what is in the scope now as well.
LEMMA SameValues ==
  ASSUME image' = image, early' = early
  PROVE  \A i : DataValues(i)' = DataValues(i) /\ (global' = global => SlotValues(i)' = SlotValues(i))
BY DEF SlotValues, DataValues

\* A symbol without a definition in one scope gains one at most in larger ones, and keeps it.
LEMMA Gains ==
  ASSUME NEW im, NEW i, NEW e, NEW g, NEW h, e \subseteq g, g \subseteq h, Definitions(im, i, e) = {}
  PROVE  Definitions(im, i, g) \subseteq Definitions(im, i, h)
BY DEF Definitions

\* One that has a definition keeps it in larger scopes, unless it is weak and 0 stood for it.
LEMMA Keeps ==
  ASSUME NEW im, NEW i, NEW e, NEW g, e \subseteq g, Definitions(im, i, e) # {}
  PROVE  Definitions(im, i, e) = {0} \/ Definitions(im, i, g) = Definitions(im, i, e)
BY DEF Definitions

\* What a PLT word may hold, it may hold when more names are in the scope.
LEMMA SlotsGrow ==
  ASSUME image' = image, early' = early, early \subseteq global, global \subseteq global'
  PROVE  \A p : SlotValues(p) \subseteq SlotValues(p)'
<1> SUFFICES ASSUME NEW p PROVE SlotValues(p) \subseteq SlotValues(p)'
  OBVIOUS
<1> DEFINE was == Definitions(image, image.plt[p], early)
           now == Definitions(image, image.plt[p], global)
           then == Definitions(image, image.plt[p], global')
<1>1. SlotValues(p) = IF was # {} THEN was ELSE now \cup {Base + Stub(p)}
  BY DEF SlotValues
<1>2. SlotValues(p)' = IF was # {} THEN was ELSE then \cup {Base + Stub(p)}
  BY DEF SlotValues, Stub
<1>3. was = {} => now \subseteq then
  BY Gains
<1> QED BY <1>1, <1>2, <1>3

LEMMA BindNextInv == BindInv /\ [BindNext]_bindVars => BindInv'
<1> SUFFICES ASSUME BindInv, [BindNext]_bindVars PROVE BindInv'
  OBVIOUS
<1>1. image' = image /\ early' = early /\ image \in Images /\ BindTypeOK
  BY DEF BindInv, BindTypeOK, BindNext, bindVars, RelocateData, RebasePlt, BindEagerly, Relocated,
         Call, EnterFixup, Bind, Appear
<1>2. PICK D \in Nat, P \in Nat :
           /\ D = Len(image.data) /\ P = Len(image.plt) /\ Words(image) = 1..(D + P)
           /\ DOMAIN image.data = 1..D /\ image.data \in [1..D -> Relocations]
           /\ DOMAIN image.plt = 1..P /\ image.plt \in [1..P -> DOMAIN image.symtab]
           /\ \A r \in 1..D : LooksUp(image.data[r]) => image.data[r].sym \in DOMAIN image.symtab
           /\ \A p \in 1..P : /\ image.symtab[image.plt[p]].bind # "local"
                              /\ image.symtab[image.plt[p]].type # "section"
  BY <1>1, Relocating
<1>3. /\ slots \in [1..(D + P) -> Nat] /\ temp \in [ImageThreads -> Nat]
      /\ binding \in [ImageThreads -> 0..P] /\ target \in [ImageThreads -> Nat]
      /\ done \in Nat /\ global \in SUBSET Names /\ early \subseteq global
      /\ done \in 0..(IF phase \in {"plt", "run", "exit"} THEN P ELSE D)
      /\ phase \in {"data", "plt", "run", "abort", "exit"}
  <2>1. slots \in [Words(image) -> Nat] /\ Words(image) = 1..(D + P)
    BY <1>1, <1>2 DEF BindTypeOK
  <2>2. binding \in [ImageThreads -> 0..Len(image.plt)] /\ P = Len(image.plt)
    BY <1>1, <1>2 DEF BindTypeOK
  <2>3. done \in 0..(IF phase \in {"plt", "run", "exit"} THEN P ELSE D)
    BY <1>1, <1>2 DEF BindTypeOK
  <2>4. done \in Nat
    BY <2>3
  <2> QED BY <1>1, <2>1, <2>2, <2>3, <2>4 DEF BindTypeOK
<1>4. \A p \in 1..P : PltWord(image, p) = D + p /\ D + p \in 1..(D + P) /\ D + p \notin 1..D
  <2> TAKE p \in 1..P
  <2>1. PltWord(image, p) = D + p
    BY <1>2 DEF PltWord
  <2>2. D + p \in 1..(D + P) /\ D + p \notin 1..D
    OBVIOUS
  <2> QED BY <2>1, <2>2
<1>5. ASSUME NEW p \in 1..P
      PROVE  LET def == find_symdef(image, image.plt[p], TRUE) IN
             /\ def.addr \in Nat /\ def.end \in {"found", "missing"}
             /\ def.end = "found" => def.addr \in Definitions(image, image.plt[p], global)
             /\ def.end = "missing" =>
                  Undefined(image.plt[p]) /\ Definitions(image, image.plt[p], global) = {}
  <2>1. image.plt[p] \in DOMAIN image.symtab
    BY <1>2
  <2> QED BY <1>1, <1>2, <2>1, Resolution
<1>6. \A i : DataValues(i)' = DataValues(i) /\ (global' = global => SlotValues(i)' = SlotValues(i))
  BY <1>1, SameValues
\* What an action that leaves the data words alone, once they are relocated, has to show.
<1>7. ASSUME phase \in {"plt", "run"}, phase' \in {"plt", "run", "exit"}, BindTypeOK',
             \A w \in 1..D : slots'[w] = slots[w],
             phase' # "exit" => \A p \in 1..P : slots'[D + p] \in Leads(p)',
             \A t \in ImageThreads, p \in 1..P : binding'[t] = p => temp'[t] \in SlotValues(p)',
             phase' = "plt" => binding' = binding, EndsOnlyUndefined'
      PROVE  BindInv'
  <2>1. DataRelocated'
    <3>1. DataRelocated
      BY DEF BindInv
    <3>2. \A w \in 1..D : slots[w] \in DataValues(w)
      BY <1>2, <1>7, <3>1 DEF DataRelocated
    <3> QED BY <1>1, <1>2, <1>6, <1>7, <3>2 DEF DataRelocated
  <2>2. phase' = "plt" => \A t \in ImageThreads : binding'[t] = 0
    <3>1. phase' = "plt" => phase = "plt"
      BY <1>7 DEF BindNext, bindVars, RelocateData, RebasePlt, BindEagerly, Relocated, Call, EnterFixup,
                  Bind, Appear
    <3> QED BY <1>7, <3>1 DEF BindInv
  <2>3. phase' \in {"plt", "run"} => \A p \in DOMAIN image'.plt : slots'[PltWord(image', p)] \in Leads(p)'
    BY <1>1, <1>2, <1>4, <1>7
  <2>4. \A t \in ImageThreads, p \in DOMAIN image'.plt : binding'[t] = p => temp'[t] \in SlotValues(p)'
    BY <1>1, <1>2, <1>7
  <2> QED BY <1>7, <2>1, <2>2, <2>3, <2>4 DEF BindInv
<1>8. phase \in {"plt", "run"} => \A p \in 1..P : slots[D + p] \in Leads(p)
  BY <1>2, <1>4 DEF BindInv
<1>9. \A t \in ImageThreads, p \in 1..P : binding[t] = p => temp[t] \in SlotValues(p)
  BY <1>2 DEF BindInv
\* Where the words of a running image lead.
<1>20. /\ phase = "run" => \A p \in 1..P : slots[D + p] \in SlotValues(p)
       /\ phase' = "run" => \A p \in 1..P : Leads(p)' = SlotValues(p)'
  BY <1>8 DEF Leads
<1>21. DOMAIN image'.plt = 1..P /\ 0 \notin 1..P
  BY <1>1, <1>2
<1>10. CASE RelocateData
  <2>1. /\ phase = "data" /\ done \in 0..(D - 1) /\ done + 1 \in 1..D
        /\ UNCHANGED <<image, global, temp, binding, target>>
    <3>1. phase = "data" /\ done < D
      BY <1>2, <1>10 DEF RelocateData
    <3> QED BY <1>3, <1>10, <3>1 DEF RelocateData
  <2> DEFINE r == image.data[done + 1]
             def == CASE LooksUp(r) -> find_symdef(image, r.sym, FALSE)
                      [] r.kind = "unknown" -> Asserts
                      [] OTHER -> Found(0)
  <2>2. /\ r \in Relocations /\ r.addend \in Nat /\ r.inplace \in Nat
        /\ r.kind \in {"relative", "64", "glob_dat", "relative32", "32", "left", "unknown"}
        /\ LooksUp(r) => r.sym \in DOMAIN image.symtab
    BY <1>2, <2>1 DEF Relocations
  <2>6. /\ LooksUp(r) => r.kind # "unknown" /\ def = find_symdef(image, r.sym, FALSE)
        /\ ~LooksUp(r) => def = IF r.kind = "unknown" THEN Asserts ELSE Found(0)
    BY DEF LooksUp
  <2>3. slots[done + 1] = r.inplace
    <3>1. done + 1 \in (done + 1)..Len(image.data)
      BY <1>2, <2>1
    <3> QED BY <2>1, <3>1 DEF BindInv
  <2>4. CASE def.end = "found"
    <3>1. /\ slots' = [slots EXCEPT ![done + 1] = DataValue(r, r.inplace, def.addr)]
          /\ done' = done + 1 /\ phase' = "data"
      BY <1>10, <2>1, <2>3, <2>4 DEF RelocateData
    <3>2. PICK x \in Nat : x = DataValue(r, r.inplace, def.addr) /\ x \in DataValues(done + 1)
      <4> DEFINE S == CASE LooksUp(r) -> Definitions(image, r.sym, early)
                        [] Relative(r) -> {Base}
                        [] OTHER -> {0}
      <4>1. PICK b \in Nat, m \in Nat, o \in Nat : b = Base /\ m = r.addend /\ o = r.inplace
        BY <2>2, NameAssumption
      <4>12. LooksUp(r) => S = Definitions(image, r.sym, early)
        BY DEF LooksUp, Relative
      <4>2. PICK a \in Nat : a = def.addr /\ (LooksUp(r) => a \in S)
        <5>1. CASE ~LooksUp(r)
          <6> HIDE DEF r, def
          <6> QED BY <2>4, <2>6, <5>1 DEF Found, Asserts
        <5>2. CASE LooksUp(r)
          <6>1. def = find_symdef(image, r.sym, FALSE) /\ r.sym \in DOMAIN image.symtab
            BY <2>2, <2>6, <5>2
          <6>2. early = global
            BY <1>1, <2>1 DEF BindTypeOK
          <6> HIDE DEF r, def, S
          <6>3. def.addr \in Nat /\ def.addr \in Definitions(image, r.sym, global)
            BY <1>1, <2>4, <6>1, Resolution
          <6> QED BY <4>12, <5>2, <6>2, <6>3
        <5> QED BY <5>1, <5>2
      <4>3. DataValues(done + 1) = {s + (CASE r.kind = "relative" -> r.addend
                                           [] r.kind \in {"64", "glob_dat"} -> 0
                                           [] OTHER -> r.inplace) : s \in S}
        BY DEF DataValues
      <4>4. /\ LooksUp(r) <=> r.kind \in {"64", "glob_dat", "32"}
            /\ Relative(r) <=> r.kind \in {"relative", "relative32"}
        BY DEF Relative, LooksUp
      <4>5. (r.kind \in {"relative", "relative32"} => S = {b}) /\ (r.kind = "left" => S = {0})
        BY <4>1, <4>4
      <4>10. r.kind # "unknown"
        <5> SUFFICES ASSUME r.kind = "unknown" PROVE FALSE
          OBVIOUS
        <5>1. ~LooksUp(r)
          BY <2>6
        <5>2. def = Asserts
          BY <2>6, <5>1
        <5> HIDE DEF def
        <5> QED BY <2>4, <5>2 DEF Asserts
      <4> HIDE DEF r, def, S
      <4>6. CASE r.kind = "relative"
        <5>1. DataValue(r, r.inplace, def.addr) = b + m
          BY <4>1, <4>6 DEF DataValue
        <5>2. b + m \in DataValues(done + 1)
          BY <4>1, <4>3, <4>4, <4>5, <4>6
        <5> QED BY <5>1, <5>2
      <4>7. CASE r.kind = "relative32"
        <5>1. DataValue(r, r.inplace, def.addr) = o + b
          BY <4>1, <4>7 DEF DataValue
        <5>2. b + o \in DataValues(done + 1)
          BY <4>1, <4>3, <4>4, <4>5, <4>7
        <5>3. o + b = b + o /\ b + o \in Nat
          OBVIOUS
        <5> QED BY <5>1, <5>2, <5>3
      <4>8. CASE r.kind \in {"64", "glob_dat"}
        <5>1. DataValue(r, r.inplace, def.addr) = a
          BY <4>2, <4>8 DEF DataValue
        <5>2. a + 0 \in DataValues(done + 1)
          BY <4>2, <4>3, <4>4, <4>8
        <5> QED BY <5>1, <5>2
      <4>9. CASE r.kind = "32"
        <5>1. DataValue(r, r.inplace, def.addr) = o + a
          BY <4>1, <4>2, <4>9 DEF DataValue
        <5>2. a + o \in DataValues(done + 1)
          BY <4>1, <4>2, <4>3, <4>4, <4>9
        <5>3. o + a = a + o /\ a + o \in Nat
          OBVIOUS
        <5> QED BY <5>1, <5>2, <5>3
      <4>11. CASE r.kind = "left"
        <5>1. DataValue(r, r.inplace, def.addr) = o
          BY <4>1, <4>11 DEF DataValue
        <5>2. 0 + o \in DataValues(done + 1)
          BY <4>1, <4>3, <4>5, <4>11
        <5> QED BY <5>1, <5>2
      <4> QED BY <2>2, <4>6, <4>7, <4>8, <4>9, <4>10, <4>11
    <3> HIDE DEF r, def
    <3>3. slots' \in [1..(D + P) -> Nat] /\ slots'[done + 1] = x
          /\ \A w \in 1..(D + P) : w # done + 1 => slots'[w] = slots[w]
      <4>1. done + 1 \in 1..(D + P)
        BY <2>1
      <4> QED BY <1>3, <3>1, <3>2, <4>1
    <3>4. BindTypeOK'
      <4>1. slots' \in [Words(image) -> Nat]
        BY <1>2, <3>3
      <4>2. done' \in 0..Len(image.data)
        BY <1>2, <2>1, <3>1
      <4> QED BY <1>1, <2>1, <3>1, <4>1, <4>2 DEF BindTypeOK, Words
    <3>5. DataRelocated'
      <4> SUFFICES ASSUME NEW w \in 1..(done + 1) PROVE slots'[w] \in DataValues(w)
        BY <1>1, <1>6, <3>1 DEF DataRelocated
      <4>1. CASE w = done + 1
        BY <3>2, <3>3, <4>1
      <4>2. CASE w # done + 1
        <5>1. w \in 1..done /\ w \in 1..(D + P)
          BY <2>1, <4>2
        <5>2. slots[w] \in DataValues(w)
          BY <2>1, <5>1 DEF BindInv, DataRelocated
        <5> QED BY <3>3, <4>2, <5>1, <5>2
      <4> QED BY <4>1, <4>2
    <3>6. ASSUME NEW w \in (done' + 1)..Len(image.data) PROVE slots'[w] = image.data[w].inplace
      <4>1. w \in (done + 1)..Len(image.data) /\ w \in 1..(D + P) /\ w # done + 1
        <5>1. w \in ((done + 1) + 1)..D
          BY <1>2, <3>1, <3>6
        <5>2. PICK q \in Nat : q = done
          BY <1>3
        <5>3. w \in (q + 1)..D /\ w \in 1..(D + P) /\ w # q + 1
          BY <5>1, <5>2
        <5> QED BY <1>2, <5>2, <5>3
      <4> QED BY <2>1, <3>3, <4>1 DEF BindInv
    <3>7. ASSUME NEW p \in 1..P PROVE slots'[PltWord(image, p)] = Stub(p)
      <4>1. D + p # done + 1 /\ D + p \in 1..(D + P)
        BY <2>1
      <4> QED BY <1>2, <1>4, <2>1, <3>3, <4>1 DEF BindInv
    <3>8. EndsOnlyUndefined'
      BY <3>1 DEF EndsOnlyUndefined
    <3>9. \A t \in ImageThreads : binding'[t] = 0
      BY <2>1 DEF BindInv
    <3>10. DOMAIN image'.plt = 1..P
      BY <1>21
    <3>12. \A t \in ImageThreads, p \in DOMAIN image'.plt : binding'[t] # p
      BY <1>21, <3>9
    <3>11. \A p \in DOMAIN image'.plt : slots'[PltWord(image, p)'] = Stub(p)
      BY <1>1, <3>7, <3>10 DEF PltWord
    <3> QED BY <1>1, <3>1, <3>4, <3>5, <3>6, <3>8, <3>9, <3>11, <3>12 DEF BindInv, Stub
  <2>5. CASE def.end # "found"
    <3>1. phase' = "abort" /\ UNCHANGED <<slots, done>>
      BY <1>10, <2>5 DEF RelocateData
    <3>2. r.kind = "unknown" \/ LooksUp(r)
      <4> HIDE DEF r, def
      <4> QED BY <2>5, <2>6 DEF Found
    <3>3. LET ref == image.symtab[r.sym] IN
          \/ r.kind = "unknown"
          \/ LooksUp(r) /\ (\/ Undefined(r.sym) /\ (image.hash => ref.bind # "weak")
                            \/ ref.type = "section" \/ (ref.bind = "local" /\ ref.value = 0))
      <4>1. LooksUp(r) => def = find_symdef(image, r.sym, FALSE) /\ r.sym \in DOMAIN image.symtab
        BY <2>2, <2>6
      <4> HIDE DEF r
      <4> QED BY <1>1, <2>5, <3>2, <4>1, Resolution
    <3>4. EndsOnlyUndefined'
      BY <2>1, <3>1, <3>3 DEF EndsOnlyUndefined, Undefined
    <3>5. BindTypeOK'
      <4>1. done' \in 0..Len(image.data)
        BY <1>2, <2>1, <3>1
      <4> QED BY <1>1, <1>2, <2>1, <3>1, <4>1 DEF BindTypeOK
    <3>6. DataRelocated'
      BY <3>1 DEF DataRelocated
    <3>7. \A t \in ImageThreads : binding'[t] = 0
      BY <2>1 DEF BindInv
    <3>8. \A t \in ImageThreads, p \in DOMAIN image'.plt : binding'[t] # p
      BY <1>21, <3>7
    <3> QED BY <3>1, <3>4, <3>5, <3>6, <3>7, <3>8 DEF BindInv
  <2> QED BY <2>4, <2>5
<1>11. CASE RebasePlt
  <2>1. /\ phase = "data" /\ done = D /\ phase' = "plt" /\ done' = 0
        /\ UNCHANGED <<image, global, temp, binding, target>>
        /\ slots' = [w \in 1..(D + P) |-> IF w > D THEN slots[w] + Base ELSE slots[w]]
    BY <1>2, <1>11 DEF RebasePlt, FirstEntry
  <2>2. slots' \in [1..(D + P) -> Nat] /\ \A w \in 1..D : slots'[w] = slots[w]
    <3>1. \A w \in 1..(D + P) : slots[w] \in Nat /\ slots[w] + Base \in Nat
      BY <1>3, NameAssumption
    <3> QED BY <2>1, <3>1
  <2>3. ASSUME NEW p \in 1..P PROVE slots'[D + p] \in Leads(p)'
    <3>1. D + p \in 1..(D + P) /\ D + p > D
      OBVIOUS
    <3>2. slots[D + p] = p
      BY <1>2, <1>4, <2>1 DEF BindInv, Stub
    <3>3. slots'[D + p] = p + Base
      BY <2>1, <3>1, <3>2
    <3>4. p + Base = Base + p
      BY NameAssumption
    <3>5. p > done'
      BY <2>1
    <3>6. Leads(p)' = {Base + p}
      BY <2>1, <3>5 DEF Leads, Stub
    <3> QED BY <3>3, <3>4, <3>6
  <2>4. BindTypeOK'
    <3>1. slots' \in [Words(image) -> Nat]
      BY <1>2, <2>1, <2>2
    <3>2. done' \in 0..P
      BY <2>1
    <3>3. done' \in 0..Len(image.plt)
      BY <1>2, <3>2
    <3> QED BY <1>1, <2>1, <3>1, <3>3 DEF BindTypeOK, Words
  <2>5. DataRelocated'
    <3>1. \A w \in 1..D : slots[w] \in DataValues(w)
      BY <1>2, <2>1 DEF BindInv, DataRelocated
    <3> QED BY <1>1, <1>2, <1>6, <2>1, <2>2, <3>1 DEF DataRelocated
  <2>6. EndsOnlyUndefined'
    BY <2>1 DEF EndsOnlyUndefined
  <2>7. \A t \in ImageThreads : binding'[t] = 0
    BY <2>1 DEF BindInv
  <2>8. \A p \in DOMAIN image'.plt : slots'[PltWord(image', p)] \in Leads(p)'
    BY <1>1, <1>2, <1>4, <2>3
  <2>9. \A t \in ImageThreads, p \in DOMAIN image'.plt : binding'[t] # p
    BY <1>21, <2>7
  <2> QED BY <2>1, <2>4, <2>5, <2>6, <2>7, <2>8, <2>9 DEF BindInv
<1>12. CASE BindEagerly
  <2> DEFINE p == done + 1
             def == find_symdef(image, image.plt[done + 1], TRUE)
  <2>1. phase = "plt" /\ p \in 1..P /\ UNCHANGED <<image, global, temp, binding, target>>
    <3>1. phase = "plt" /\ done < P
      BY <1>2, <1>12 DEF BindEagerly
    <3> QED BY <1>3, <1>12, <3>1 DEF BindEagerly
  <2>2. /\ def.addr \in Nat /\ def.end \in {"found", "missing"}
        /\ def.end = "found" => def.addr \in SlotValues(p)
        /\ def.end = "missing" => Base + Stub(p) \in SlotValues(p)
    <3> HIDE DEF p
    <3>1. def = find_symdef(image, image.plt[p], TRUE)
      BY DEF p
    <3> HIDE DEF def
    <3>2. early = global
      BY <1>1, <2>1 DEF BindTypeOK
    <3>3. def.end = "found" => def.addr \in Definitions(image, image.plt[p], early)
      BY <1>5, <2>1, <3>1, <3>2
    <3>4. def.end = "missing" => Definitions(image, image.plt[p], early) = {}
      BY <1>5, <2>1, <3>1, <3>2
    <3>5. /\ def.end = "found" => def.addr \in SlotValues(p)
          /\ def.end = "missing" => Base + Stub(p) \in SlotValues(p)
      BY <3>3, <3>4 DEF SlotValues
    <3> QED BY <1>5, <2>1, <3>1, <3>5
  <2>3. /\ slots' = IF def.end = "found" THEN [slots EXCEPT ![D + p] = def.addr] ELSE slots
        /\ done' = p /\ phase' = "plt"
    <3>1. PltWord(image, done + 1) = D + p
      BY <1>4, <2>1
    <3> QED BY <1>12, <2>1, <2>2, <3>1 DEF BindEagerly
  <2> HIDE DEF def, p
  <2>4. slots' \in [1..(D + P) -> Nat]
    BY <1>3, <1>4, <2>1, <2>2, <2>3
  <2>5. \A w \in 1..D : slots'[w] = slots[w]
    BY <1>3, <1>4, <2>1, <2>3
  <2>6. ASSUME NEW q \in 1..P PROVE slots'[D + q] \in Leads(q)'
    <3>1. slots[D + q] \in Leads(q) /\ slots[D + p] \in Leads(p)
      BY <1>8, <2>1
    <3>2. SlotValues(q)' = SlotValues(q)
      BY <1>6, <2>1
    <3>3. CASE q = p
      <4>1. Leads(q) = {Base + Stub(q)} /\ Leads(q)' = SlotValues(q)'
        <5>1. q > done /\ ~(q > done')
          BY <1>3, <2>1, <2>3, <3>3 DEF p
        <5> QED BY <2>1, <2>3, <5>1 DEF Leads
      <4>2. slots'[D + p] = IF def.end = "found" THEN def.addr ELSE slots[D + p]
        BY <1>3, <1>4, <2>1, <2>3
      <4> QED BY <2>2, <3>1, <3>2, <3>3, <4>1, <4>2
    <3>4. CASE q # p
      <4>1. D + q # D + p /\ D + q \in 1..(D + P)
        BY <2>1, <3>4
      <4>2. slots'[D + q] = slots[D + q]
        BY <1>3, <1>4, <2>1, <2>3, <4>1
      <4>3. q > done <=> q > done'
        BY <1>3, <2>1, <2>3, <3>4 DEF p
      <4>4. Leads(q)' = Leads(q)
        BY <2>1, <2>3, <3>2, <4>3 DEF Leads, Stub
      <4> QED BY <3>1, <4>2, <4>4
    <3> QED BY <3>3, <3>4
  <2>7. BindTypeOK'
    <3>1. slots' \in [Words(image) -> Nat]
      BY <1>2, <2>1, <2>3, <2>4
    <3>2. done' \in 0..P
      BY <2>1, <2>3
    <3>3. done' \in 0..Len(image.plt)
      BY <1>2, <3>2
    <3> QED BY <1>1, <2>1, <2>3, <3>1, <3>3 DEF BindTypeOK, Words
  <2>8. EndsOnlyUndefined'
    BY <2>3 DEF EndsOnlyUndefined
  <2> QED BY <1>6, <1>7, <1>9, <2>1, <2>3, <2>5, <2>6, <2>7, <2>8
<1>13. CASE Relocated
  <2>1. phase = "plt" /\ phase' = "run" /\ done = P
        /\ UNCHANGED <<image, global, done, slots, temp, binding, target, early>>
    BY <1>2, <1>13 DEF Relocated
  <2>2. BindTypeOK'
    BY <1>1, <2>1 DEF BindTypeOK, Words
  <2>3. EndsOnlyUndefined'
    BY <2>1 DEF EndsOnlyUndefined
  <2>4. \A p \in 1..P : slots'[D + p] \in Leads(p)'
    <3> TAKE p \in 1..P
    <3>1. Leads(p) = SlotValues(p)
      BY <2>1 DEF Leads
    <3> QED BY <1>6, <1>8, <1>20, <2>1, <3>1
  <2> QED BY <1>6, <1>7, <1>9, <2>1, <2>2, <2>3, <2>4
<1>14. ASSUME NEW t \in ImageThreads, NEW p \in 1..P, Call(t, p) PROVE BindInv'
  <2>1. /\ phase = "run" /\ phase' = "run" /\ UNCHANGED <<image, global, done, slots, temp, binding, early>>
        /\ target' = [target EXCEPT ![t] = slots[D + p]]
    BY <1>4, <1>14 DEF Call
  <2>2. target' \in [ImageThreads -> Nat]
    <3>1. slots[D + p] \in Nat
      BY <1>3, <1>4
    <3> QED BY <1>3, <2>1, <3>1
  <2>3. BindTypeOK'
    BY <1>1, <2>1, <2>2 DEF BindTypeOK, Words
  <2>4. EndsOnlyUndefined'
    BY <2>1 DEF EndsOnlyUndefined
  <2> QED BY <1>6, <1>7, <1>9, <1>20, <2>1, <2>3, <2>4
<1>15. ASSUME NEW t \in ImageThreads, NEW p \in 1..P, EnterFixup(t, p) PROVE BindInv'
  <2> DEFINE def == find_symdef(image, image.plt[p], TRUE)
  <2>1. /\ phase = "run" /\ binding[t] = 0 /\ Unbound(p)
        /\ UNCHANGED <<image, global, done, slots, target, early>>
    BY <1>15 DEF EnterFixup
  <2>2. /\ def.addr \in Nat /\ def.end \in {"found", "missing"}
        /\ def.end = "found" => def.addr \in SlotValues(p)
        /\ def.end = "missing" => Undefined(image.plt[p])
    <3> DEFINE was == Definitions(image, image.plt[p], early)
               now == Definitions(image, image.plt[p], global)
    <3>1. /\ def.addr \in Nat /\ def.end \in {"found", "missing"}
          /\ def.end = "found" => def.addr \in now
          /\ def.end = "missing" => Undefined(image.plt[p])
      BY <1>5
    <3>2. SlotValues(p) = IF was # {} THEN was ELSE now \cup {Base + Stub(p)}
      BY DEF SlotValues
    <3>3. was # {} => was = now
      <4> SUFFICES ASSUME was # {} PROVE was = now
        OBVIOUS
      <4>1. was = {0} \/ now = was
        BY <1>3, Keeps
      <4>2. slots[D + p] = Base + p /\ slots[D + p] \in SlotValues(p)
        BY <1>4, <1>20, <2>1 DEF Unbound, Stub
      <4>3. PICK b \in Nat \ {0} : b = Base
        BY NameAssumption
      <4>4. b + p # 0
        BY <4>3
      <4> HIDE DEF was, now
      <4> QED BY <3>2, <4>1, <4>2, <4>3, <4>4
    <3> HIDE DEF def, was, now
    <3> QED BY <3>1, <3>2, <3>3
  <2>3. CASE def.end = "missing"
    <3>1. phase' = "exit" /\ UNCHANGED <<temp, binding>>
      BY <1>15, <2>3 DEF EnterFixup
    <3>2. BindTypeOK'
      BY <1>1, <2>1, <3>1 DEF BindTypeOK, Words
    <3>3. Unbound(p)' /\ Undefined(image.plt[p])' /\ p \in DOMAIN image'.plt
      BY <1>2, <2>1, <2>2, <2>3 DEF Unbound, Undefined
    <3>4. EndsOnlyUndefined'
      BY <3>1, <3>3 DEF EndsOnlyUndefined
    <3> QED BY <1>6, <1>7, <1>9, <2>1, <3>1, <3>2, <3>4
  <2>4. CASE def.end = "found"
    <3>1. temp' = [temp EXCEPT ![t] = def.addr] /\ binding' = [binding EXCEPT ![t] = p] /\ phase' = "run"
      BY <1>15, <2>1, <2>4 DEF EnterFixup, Keep
    <3> HIDE DEF def
    <3>2. temp' \in [ImageThreads -> Nat] /\ binding' \in [ImageThreads -> 0..P]
      BY <1>3, <2>2, <3>1
    <3>3. BindTypeOK'
      BY <1>1, <1>2, <2>1, <3>1, <3>2 DEF BindTypeOK, Words
    <3>4. ASSUME NEW u \in ImageThreads, NEW q \in 1..P, binding'[u] = q PROVE temp'[u] \in SlotValues(q)'
      <4>0. SlotValues(q)' = SlotValues(q)
        BY <1>6, <2>1
      <4>1. CASE u = t
        BY <1>3, <2>2, <2>4, <3>1, <3>4, <4>0, <4>1
      <4>2. CASE u # t
        BY <1>3, <1>9, <3>1, <3>4, <4>0, <4>2
      <4> QED BY <4>1, <4>2
    <3>5. EndsOnlyUndefined'
      BY <3>1 DEF EndsOnlyUndefined
    <3> QED BY <1>6, <1>7, <1>20, <2>1, <3>1, <3>3, <3>4, <3>5
  <2> QED BY <2>2, <2>3, <2>4
<1>16. ASSUME NEW t \in ImageThreads, Bind(t) PROVE BindInv'
  <2>1. PICK p \in 1..P : p = binding[t]
    BY <1>3, <1>16 DEF Bind
  <2>2. PICK a \in Nat : a = temp[t] /\ a \in SlotValues(p)
    BY <1>3, <1>9, <2>1
  <2>3. /\ phase = "run" /\ phase' = "run" /\ UNCHANGED <<image, global, done, temp, early>>
        /\ slots' = [slots EXCEPT ![D + p] = a] /\ target' = [target EXCEPT ![t] = a]
        /\ binding' = [binding EXCEPT ![t] = 0]
    BY <1>4, <1>16, <2>1, <2>2 DEF Bind
  <2>4. slots' \in [1..(D + P) -> Nat] /\ target' \in [ImageThreads -> Nat]
        /\ binding' \in [ImageThreads -> 0..P]
    BY <1>3, <1>4, <2>3
  <2>5. \A w \in 1..D : slots'[w] = slots[w]
    BY <1>3, <1>4, <2>3
  <2>6. ASSUME NEW q \in 1..P PROVE slots'[D + q] \in Leads(q)'
    <3>1. slots[D + q] \in SlotValues(q) /\ D + q \in 1..(D + P) /\ Leads(q)' = SlotValues(q)
      BY <1>4, <1>6, <1>20, <2>3
    <3>2. CASE q = p
      BY <1>3, <2>2, <2>3, <3>1, <3>2
    <3>3. CASE q # p
      <4>1. D + q # D + p
        BY <3>3
      <4> QED BY <1>3, <2>3, <3>1, <4>1
    <3> QED BY <3>2, <3>3
  <2>7. \A u \in ImageThreads, q \in 1..P : binding'[u] = q => temp'[u] \in SlotValues(q)'
    <3> SUFFICES ASSUME NEW u \in ImageThreads, NEW q \in 1..P, binding'[u] = q
                 PROVE  temp'[u] \in SlotValues(q)'
      OBVIOUS
    <3>1. SlotValues(q)' = SlotValues(q)
      BY <1>6, <2>3
    <3>2. binding[u] = q
      BY <1>3, <2>3
    <3> QED BY <1>9, <2>3, <3>1, <3>2
  <2>8. BindTypeOK'
    BY <1>1, <1>2, <2>3, <2>4 DEF BindTypeOK, Words
  <2>9. EndsOnlyUndefined'
    BY <2>3 DEF EndsOnlyUndefined
  <2> QED BY <1>7, <2>3, <2>5, <2>6, <2>7, <2>8, <2>9
<1>17. ASSUME NEW n \in Names, Appear(n) PROVE BindInv'
  <2>1. /\ phase = "run" /\ phase' = "run" /\ global' = global \cup {n}
        /\ UNCHANGED <<image, done, slots, temp, binding, target, early>>
    BY <1>17 DEF Appear
  <2>2. BindTypeOK'
    <3>1. global' \in SUBSET Names /\ early' \subseteq global'
      BY <1>3, <2>1
    <3> QED BY <1>1, <2>1, <3>1 DEF BindTypeOK, Words
  <2>3. EndsOnlyUndefined'
    BY <2>1 DEF EndsOnlyUndefined
  <2>4. \A p : SlotValues(p) \subseteq SlotValues(p)'
    BY <1>3, <2>1, SlotsGrow
  <2>5. \A p \in 1..P : slots'[D + p] \in Leads(p)'
    BY <1>20, <2>1, <2>4
  <2>6. \A t \in ImageThreads, p \in 1..P : binding'[t] = p => temp'[t] \in SlotValues(p)'
    BY <1>9, <2>1, <2>4
  <2> QED BY <1>7, <2>1, <2>2, <2>3, <2>5, <2>6
<1>18. CASE UNCHANGED bindVars
  <2>1. /\ image' = image /\ global' = global /\ phase' = phase /\ done' = done /\ slots' = slots
        /\ temp' = temp /\ binding' = binding /\ target' = target /\ early' = early
    BY <1>18 DEF bindVars
  <2>2. BindTypeOK'
    BY <1>1, <2>1 DEF BindTypeOK, Words
  <2>3. DataRelocated' /\ EndsOnlyUndefined'
    BY <1>1, <1>6, <2>1 DEF BindInv, DataRelocated, EndsOnlyUndefined, Unbound, Undefined
  <2>4. \A p : Leads(p)' = Leads(p)
    BY <1>6, <2>1 DEF Leads, Stub
  <2> QED BY <1>6, <2>1, <2>2, <2>3, <2>4 DEF BindInv, PltWord, Stub
<1> QED BY <1>2, <1>10, <1>11, <1>12, <1>13, <1>14, <1>15, <1>16, <1>17, <1>18 DEF BindNext

LEMMA BindInvariant == BindSpec => []BindInv
BY BindInitInv, BindNextInv, PTL DEF BindSpec

\* Lookup in any well-formed image, the relocation of its data and of its PLT, and what any number of
\* threads bind meanwhile lead to the first definition in order; the program ends only for a symbol
\* that has none (elf_dlsym, find_symdef, elf_dlreloc, _rtld_fixup).
THEOREM ReferencesAreBound == BindSpec => []BindingSound
<1>1. BindInv => BindingSound
  <2> SUFFICES ASSUME BindInv PROVE BindingSound
    OBVIOUS
  <2>1. image \in Images
    BY DEF BindInv, BindTypeOK
  <2>2. LookupSound
    BY <2>1, Lookup DEF LookupSound
  <2>3. PltSound
    BY DEF BindInv, PltSound, Leads
  <2> QED BY <2>2, <2>3 DEF BindInv, BindingSound
<1> QED BY <1>1, BindInvariant, PTL

-----------------------------------------------------------------------------
(***************************************************************************)
(* ElfHash: the loader looks for a name where its link editor put it, for  *)
(* all names, as far as the low 28 bits say; for the entry points and for  *)
(* short names whatever the size of the table.                             *)
(***************************************************************************)

\* What holds of 0, and of b + 1 if of b, holds up to n.
LEMMA Upwards ==
  ASSUME NEW n \in Nat, NEW S, 0 \in S, \A b \in 0..(n - 1) : b \in S => b + 1 \in S
  PROVE  \A b \in 0..n : b \in S
<1> DEFINE T == {b \in 0..n : b \notin S}
<1>1. SUFFICES ASSUME T # {} PROVE FALSE
  OBVIOUS
<1>2. PICK m \in T : \A k \in T : m <= k
  <2>1. T \in SUBSET Nat
    OBVIOUS
  <2> HIDE DEF T
  <2> QED BY <1>1, <2>1, Least
<1>3. m \in 0..n /\ m \notin S /\ m # 0
  BY <1>2
<1>4. m - 1 \in 0..(n - 1) /\ m - 1 \notin T
  BY <1>2, <1>3
<1>5. m - 1 \in S /\ (m - 1) + 1 = m
  BY <1>3, <1>4
<1> QED BY <1>3, <1>4, <1>5

-----------------------------------------------------------------------------
\* Numbers and their bits.

Bit(x, b) == (x \div (2^b)) % 2

\* The powers of two the hash works with; each is a number of its own to the prover.
Doubles(b) == 2^b \in Nat \ {0} /\ 2^(b + 1) = 2 * 2^b

LEMMA Power == ASSUME NEW b \in 0..32 PROVE Doubles(b)
<1>1. /\ Doubles(0) /\ Doubles(1) /\ Doubles(2) /\ Doubles(3) /\ Doubles(4) /\ Doubles(5) /\ Doubles(6)
      /\ Doubles(7) /\ Doubles(8) /\ Doubles(9) /\ Doubles(10) /\ Doubles(11) /\ Doubles(12) /\ Doubles(13)
      /\ Doubles(14) /\ Doubles(15) /\ Doubles(16) /\ Doubles(17) /\ Doubles(18) /\ Doubles(19) /\ Doubles(20)
      /\ Doubles(21) /\ Doubles(22) /\ Doubles(23) /\ Doubles(24) /\ Doubles(25) /\ Doubles(26) /\ Doubles(27)
      /\ Doubles(28) /\ Doubles(29) /\ Doubles(30) /\ Doubles(31) /\ Doubles(32)
  BY SMT DEF Doubles
<1>2. \/ b = 0 \/ b = 1 \/ b = 2 \/ b = 3 \/ b = 4 \/ b = 5 \/ b = 6 \/ b = 7 \/ b = 8 \/ b = 9 \/ b = 10
      \/ b = 11 \/ b = 12 \/ b = 13 \/ b = 14 \/ b = 15 \/ b = 16 \/ b = 17 \/ b = 18 \/ b = 19 \/ b = 20 \/ b = 21
      \/ b = 22 \/ b = 23 \/ b = 24 \/ b = 25 \/ b = 26 \/ b = 27 \/ b = 28 \/ b = 29 \/ b = 30 \/ b = 31 \/ b = 32
  OBVIOUS
<1> QED BY <1>1, <1>2

\* Shifting by one place more is halving.
LEMMA Halving ==
  ASSUME NEW x \in Nat, NEW b \in 0..32
  PROVE  /\ x \div (2^b) \in Nat
         /\ x \div (2^(b + 1)) = (x \div (2^b)) \div 2
<1>1. PICK p \in Nat \ {0} : p = 2^b /\ 2^(b + 1) = 2 * p
  BY Power DEF Doubles
<1>2. PICK q \in Nat : q = x \div p
  BY <1>1
<1>3. x \div (2 * p) = q \div 2
  BY <1>2
<1> QED BY <1>1, <1>2, <1>3

\* Shifting twice.
LEMMA ShiftTwice ==
  ASSUME NEW x \in Nat, NEW a \in 0..33, NEW b \in 0..33, a + b <= 33
  PROVE  (x \div (2^a)) \div (2^b) = x \div (2^(a + b)) /\ x \div (2^a) \in Nat
<1>1. ASSUME NEW m \in 0..33 PROVE x \div (2^m) \in Nat
  <2>1. CASE m \in 0..32
    BY <2>1, Halving
  <2>2. CASE m = 33
    <3>1. (x \div (2^32)) \in Nat /\ x \div (2^(32 + 1)) = (x \div (2^32)) \div 2
      BY Halving
    <3>2. PICK q \in Nat : q = x \div (2^32)
      BY <3>1
    <3>3. q \div 2 \in Nat
      OBVIOUS
    <3> QED BY <2>2, <3>1, <3>2, <3>3
  <2> QED BY <2>1, <2>2
<1>2. PICK y \in Nat : y = x \div (2^a)
  BY <1>1
<1> DEFINE S == {m \in 0..33 : y \div (2^m) = x \div (2^(a + m))}
<1>3. 0 \in S
  <2>1. 2^0 = 1
    BY SMT
  <2>2. y \div (2^0) = y
    BY <2>1
  <2> QED BY <1>2, <2>2
<1>4. \A m \in 0..(b - 1) : m \in S => m + 1 \in S
  <2> TAKE m \in 0..(b - 1)
  <2> HAVE m \in S
  <2>1. m \in 0..32 /\ m + 1 \in 0..33 /\ a + m \in 0..32 /\ a + (m + 1) = (a + m) + 1
    OBVIOUS
  <2>2. y \div (2^(m + 1)) = (y \div (2^m)) \div 2
    BY <2>1, Halving
  <2>3. x \div (2^((a + m) + 1)) = (x \div (2^(a + m))) \div 2
    BY <2>1, Halving
  <2>4. y \div (2^m) = x \div (2^(a + m))
    OBVIOUS
  <2>5. x \div (2^(a + (m + 1))) = (x \div (2^(a + m))) \div 2
    BY <2>1, <2>3
  <2>6. y \div (2^(m + 1)) = x \div (2^(a + (m + 1)))
    BY <2>2, <2>4, <2>5
  <2> QED BY <2>1, <2>6
<1>5. b \in S
  <2> HIDE DEF S
  <2>1. \A m \in 0..b : m \in S
    BY <1>3, <1>4, Upwards
  <2> QED BY <2>1
<1> QED BY <1>2, <1>5

\* The low 28 bits do not change when the others are masked off.
LEMMA Masked ==
  ASSUME NEW x \in Nat, NEW b \in 0..27
  PROVE  Bit(x % K28, b) = Bit(x, b)
<1>1. PICK z \in Nat, y \in Nat : z = x % K28 /\ x = z + K28 * y /\ K28 \in Nat
  BY SMT DEF K28
<1> DEFINE S == {m \in 0..28 : x \div (2^m) = (z \div (2^m)) + (2^(28 - m)) * y}
<1>2. 0 \in S
  <2>1. 2^0 = 1 /\ 2^28 = K28
    BY SMT DEF K28
  <2>2. x \div (2^0) = x /\ z \div (2^0) = z
    BY <2>1
  <2>3. x = z + (2^28) * y
    BY <1>1, <2>1, SMT
  <2>4. 28 - 0 = 28
    OBVIOUS
  <2> QED BY <2>2, <2>3, <2>4
<1>3. \A m \in 0..27 : m \in S =>
        \E w \in Nat, u \in Nat : /\ u = z \div (2^m) /\ x \div (2^m) = u + 2 * w
                                  /\ w = (2^(28 - (m + 1))) * y
  <2> TAKE m \in 0..27
  <2> HAVE m \in S
  <2>1. 27 - m \in 0..32 /\ (27 - m) + 1 = 28 - m /\ 28 - (m + 1) = 27 - m
    OBVIOUS
  <2>2. PICK p \in Nat : p = 2^(27 - m) /\ 2^(28 - m) = 2 * p
    BY <2>1, Power DEF Doubles
  <2>3. z \div (2^m) \in Nat
    <3>1. m \in 0..32
      OBVIOUS
    <3> QED BY <1>1, <3>1, Halving
  <2>4. p * y \in Nat /\ (2 * p) * y = 2 * (p * y)
    OBVIOUS
  <2> QED BY <2>1, <2>2, <2>3, <2>4
<1>4. \A m \in 0..27 : m \in S => m + 1 \in S
  <2> TAKE m \in 0..27
  <2> HAVE m \in S
  <2>1. PICK w \in Nat, u \in Nat : /\ u = z \div (2^m) /\ x \div (2^m) = u + 2 * w
                                    /\ w = (2^(28 - (m + 1))) * y
    BY <1>3
  <2>2. x \div (2^(m + 1)) = (u + 2 * w) \div 2 /\ z \div (2^(m + 1)) = u \div 2
    <3>1. m \in 0..32
      OBVIOUS
    <3>2. x \div (2^(m + 1)) = (x \div (2^m)) \div 2
      BY <3>1, Halving
    <3>3. z \div (2^(m + 1)) = (z \div (2^m)) \div 2
      BY <1>1, <3>1, Halving
    <3> QED BY <2>1, <3>2, <3>3
  <2>3. (u + 2 * w) \div 2 = (u \div 2) + w
    OBVIOUS
  <2> QED BY <2>1, <2>2, <2>3
<1>5. b \in S
  <2> HIDE DEF S
  <2>1. \A m \in 0..28 : m \in S
    BY <1>2, <1>4, Upwards
  <2> QED BY <2>1
<1>6. PICK w \in Nat, u \in Nat : u = z \div (2^b) /\ x \div (2^b) = u + 2 * w
  BY <1>3, <1>5
<1>7. (u + 2 * w) % 2 = u % 2
  OBVIOUS
<1> QED BY <1>1, <1>6, <1>7 DEF Bit


\* The bits of a number are those of its nibbles lo and x and of what is above them, hi.
InNibbles(y, lo, x, hi) ==
  /\ \A b \in 0..3 : Bit(y, b) = Bit(lo, b) /\ Bit(y, b + 4) = Bit(x, b)
  /\ y \div (2^8) = hi

LEMMA NibbleBits ==
  ASSUME NEW lo \in 0..15, NEW x \in 0..15, NEW hi \in Nat, NEW y \in Nat, y = lo + 16 * x + 256 * hi
  PROVE  InNibbles(y, lo, x, hi)
<1>1. \A b \in 0..3 : b = 0 \/ b = 1 \/ b = 2 \/ b = 3
  OBVIOUS
<1>2. /\ y % 2 = lo % 2 /\ (y \div 2) % 2 = (lo \div 2) % 2
      /\ (y \div 4) % 2 = (lo \div 4) % 2 /\ (y \div 8) % 2 = (lo \div 8) % 2
  <2>1. y \div 2 = (lo \div 2) + 8 * x + 128 * hi
    BY SMT
  <2>2. y \div 4 = (lo \div 4) + 4 * x + 64 * hi
    BY SMT
  <2>3. y \div 8 = (lo \div 8) + 2 * x + 32 * hi
    BY SMT
  <2>4. y % 2 = lo % 2
    BY SMT
  <2>5. (y \div 2) % 2 = (lo \div 2) % 2
    BY <2>1, SMT
  <2>6. (y \div 4) % 2 = (lo \div 4) % 2
    BY <2>2, SMT
  <2>7. (y \div 8) % 2 = (lo \div 8) % 2
    BY <2>3, SMT
  <2> QED BY <2>4, <2>5, <2>6, <2>7
<1>3. /\ (y \div 16) % 2 = x % 2 /\ (y \div 32) % 2 = (x \div 2) % 2
      /\ (y \div 64) % 2 = (x \div 4) % 2 /\ (y \div 128) % 2 = (x \div 8) % 2
  <2>1. y \div 16 = x + 16 * hi
    BY SMT
  <2>2. y \div 32 = (x \div 2) + 8 * hi
    BY SMT
  <2>3. y \div 64 = (x \div 4) + 4 * hi
    BY SMT
  <2>4. y \div 128 = (x \div 8) + 2 * hi
    BY SMT
  <2>5. (y \div 16) % 2 = x % 2
    BY <2>1, SMT
  <2>6. (y \div 32) % 2 = (x \div 2) % 2
    BY <2>2, SMT
  <2>7. (y \div 64) % 2 = (x \div 4) % 2
    BY <2>3, SMT
  <2>8. (y \div 128) % 2 = (x \div 8) % 2
    BY <2>4, SMT
  <2> QED BY <2>5, <2>6, <2>7, <2>8
<1>4. /\ 2^0 = 1 /\ 2^1 = 2 /\ 2^2 = 4 /\ 2^3 = 8 /\ 2^4 = 16 /\ 2^5 = 32 /\ 2^6 = 64 /\ 2^7 = 128 /\ 2^8 = 256
      /\ y \div 1 = y /\ lo \div 1 = lo /\ x \div 1 = x
  BY SMT
<1>5. Bit(y, 0) = Bit(lo, 0) /\ Bit(y, 1) = Bit(lo, 1) /\ Bit(y, 2) = Bit(lo, 2) /\ Bit(y, 3) = Bit(lo, 3)
  BY <1>2, <1>4 DEF Bit
<1>6. Bit(y, 4) = Bit(x, 0) /\ Bit(y, 5) = Bit(x, 1) /\ Bit(y, 6) = Bit(x, 2) /\ Bit(y, 7) = Bit(x, 3)
  BY <1>3, <1>4 DEF Bit
<1>7. y \div (2^8) = hi
  BY <1>4, SMT
<1>8. \A b \in 0..3 : Bit(y, b) = Bit(lo, b)
  BY <1>1, <1>5
<1>9. \A b \in 0..3 : Bit(y, b + 4) = Bit(x, b)
  <2> TAKE b \in 0..3
  <2>1. 0 + 4 = 4 /\ 1 + 4 = 5 /\ 2 + 4 = 6 /\ 3 + 4 = 7
    OBVIOUS
  <2> QED BY <1>1, <1>6, <2>1
<1> QED BY <1>7, <1>8, <1>9 DEF InNibbles

\* The exclusive or of four bits.
LEMMA Nibble ==
  ASSUME NEW l \in Nat, NEW t \in Nat
  PROVE  \E x \in 0..15 :
           /\ XorNibble(l, t) = l + 16 * (x - ((l \div 16) % 16))
           /\ \A b \in 0..3 : Bit(x, b) = (Bit((l \div 16) % 16, b) + Bit(t, b)) % 2
<1>1. PICK n \in Nat : n = (l \div 16) % 16
  OBVIOUS
<1> DEFINE g(b) == (Bit(n, b) + Bit(t, b)) % 2
           E(f) == [b \in 0..4 |-> IF b = 4 THEN 0 ELSE g(b) * 2^b + f[b + 1]]
           word == CHOOSE f : f = E(f)
<1>2. XorNibble(l, t) = l + 16 * (word[0] - n)
  BY <1>1 DEF XorNibble, Bit
<1>3. g(0) \in {0, 1} /\ g(1) \in {0, 1} /\ g(2) \in {0, 1} /\ g(3) \in {0, 1}
  <2>1. \A b \in 0..3 : Bit(n, b) \in {0, 1} /\ Bit(t, b) \in {0, 1}
    <3> TAKE b \in 0..3
    <3>1. PICK p \in Nat, u \in Nat : p = n \div (2^b) /\ u = t \div (2^b)
      <4>1. b \in 0..32
        OBVIOUS
      <4> QED BY <4>1, Halving
    <3>2. p % 2 \in {0, 1} /\ u % 2 \in {0, 1}
      OBVIOUS
    <3> QED BY <3>1, <3>2 DEF Bit
  <2>2. \A v, w \in {0, 1} : (v + w) % 2 \in {0, 1}
    BY SMT
  <2> QED BY <2>1, <2>2
<1>4. PICK g0 \in {0, 1}, g1 \in {0, 1}, g2 \in {0, 1}, g3 \in {0, 1} :
        g0 = g(0) /\ g1 = g(1) /\ g2 = g(2) /\ g3 = g(3)
  BY <1>3
<1> HIDE DEF g
<1>5. 2^0 = 1 /\ 2^1 = 2 /\ 2^2 = 4 /\ 2^3 = 8
  BY SMT
<1>6. word = E(word)
  <2> DEFINE f == [b \in 0..4 |-> IF b = 0 THEN g0 + 2 * g1 + 4 * g2 + 8 * g3
                                 ELSE IF b = 1 THEN 2 * g1 + 4 * g2 + 8 * g3
                                 ELSE IF b = 2 THEN 4 * g2 + 8 * g3
                                 ELSE IF b = 3 THEN 8 * g3 ELSE 0]
  <2>1. f = E(f)
    <3>1. /\ f[0] = g0 + 2 * g1 + 4 * g2 + 8 * g3 /\ f[1] = 2 * g1 + 4 * g2 + 8 * g3
          /\ f[2] = 4 * g2 + 8 * g3 /\ f[3] = 8 * g3 /\ f[4] = 0
      OBVIOUS
    <3>2. /\ E(f)[0] = g(0) * 2^0 + f[0 + 1] /\ E(f)[1] = g(1) * 2^1 + f[1 + 1]
          /\ E(f)[2] = g(2) * 2^2 + f[2 + 1] /\ E(f)[3] = g(3) * 2^3 + f[3 + 1] /\ E(f)[4] = 0
      <4> HIDE DEF f
      <4> QED OBVIOUS
    <3>3. DOMAIN f = 0..4 /\ DOMAIN E(f) = 0..4
      OBVIOUS
    <3>4. 0 + 1 = 1 /\ 1 + 1 = 2 /\ 2 + 1 = 3 /\ 3 + 1 = 4
      OBVIOUS
    <3>5. \A b \in 0..4 : b = 0 \/ b = 1 \/ b = 2 \/ b = 3 \/ b = 4
      OBVIOUS
    <3>6. E(f)[3] = f[3]
      BY <1>4, <1>5, <3>1, <3>2, <3>4
    <3>7. E(f)[2] = f[2]
      BY <1>4, <1>5, <3>1, <3>2, <3>4
    <3>8. E(f)[1] = f[1]
      BY <1>4, <1>5, <3>1, <3>2, <3>4
    <3>9. E(f)[0] = f[0]
      BY <1>4, <1>5, <3>1, <3>2, <3>4
    <3>10. \A b \in 0..4 : f[b] = E(f)[b]
      BY <3>1, <3>2, <3>5, <3>6, <3>7, <3>8, <3>9
    <3>11. f = [b \in 0..4 |-> f[b]]
      OBVIOUS
    <3>12. E(f) = [b \in 0..4 |-> E(f)[b]]
      OBVIOUS
    <3> HIDE DEF f, E
    <3> QED BY <3>10, <3>11, <3>12
  <2> HIDE DEF f, E
  <2> QED BY <2>1
<1>7. /\ word[0] = g(0) * 2^0 + word[0 + 1] /\ word[1] = g(1) * 2^1 + word[1 + 1]
      /\ word[2] = g(2) * 2^2 + word[2 + 1] /\ word[3] = g(3) * 2^3 + word[3 + 1] /\ word[4] = 0
  <2>1. \A b \in 0..4 : word[b] = E(word)[b]
    BY <1>6
  <2> HIDE DEF word
  <2> QED BY <2>1
<1> HIDE DEF word
<1>8. word[0] = g0 + 2 * g1 + 4 * g2 + 8 * g3
  <2>1. 0 + 1 = 1 /\ 1 + 1 = 2 /\ 2 + 1 = 3 /\ 3 + 1 = 4
    OBVIOUS
  <2>2. word[3] = 8 * g3
    BY <1>4, <1>5, <1>7, <2>1
  <2>3. word[2] = 4 * g2 + 8 * g3
    BY <1>4, <1>5, <1>7, <2>1, <2>2
  <2>4. word[1] = 2 * g1 + 4 * g2 + 8 * g3
    BY <1>4, <1>5, <1>7, <2>1, <2>3
  <2> QED BY <1>4, <1>5, <1>7, <2>1, <2>4
<1>9. PICK x \in 0..15 : x = word[0] /\ x = g0 + 2 * g1 + 4 * g2 + 8 * g3
  BY <1>8
<1>10. x % 2 = g0 /\ (x \div 2) % 2 = g1 /\ (x \div 4) % 2 = g2 /\ (x \div 8) % 2 = g3 /\ x \div 1 = x
  BY <1>9, SMT
<1>11. Bit(x, 0) = g(0) /\ Bit(x, 1) = g(1) /\ Bit(x, 2) = g(2) /\ Bit(x, 3) = g(3)
  BY <1>4, <1>5, <1>10 DEF Bit
<1>12. \A b \in 0..3 : Bit(x, b) = g(b)
  <2>1. \A b \in 0..3 : b = 0 \/ b = 1 \/ b = 2 \/ b = 3
    OBVIOUS
  <2> QED BY <1>11, <2>1
<1>13. \A b \in 0..3 : Bit(x, b) = (Bit(n, b) + Bit(t, b)) % 2
  BY <1>12 DEF g
<1> QED BY <1>1, <1>2, <1>9, <1>13

\* Addition with carries: what a sum has at a place beyond the places of its terms.
LEMMA Carries ==
  ASSUME NEW x \in Nat, NEW y \in Nat, NEW b \in 0..31
  PROVE  LET k(i) == ((x + y) \div (2^i)) - (x \div (2^i)) - (y \div (2^i)) IN
         /\ k(b) \in Int
         /\ k(b + 1) = (Bit(x, b) + Bit(y, b) + k(b)) \div 2
         /\ Bit(x + y, b) = (Bit(x, b) + Bit(y, b) + k(b)) % 2
<1> DEFINE k(i) == ((x + y) \div (2^i)) - (x \div (2^i)) - (y \div (2^i))
<1>1. b \in 0..32 /\ x + y \in Nat
  OBVIOUS
<1>2. PICK u \in Nat, v \in Nat, w \in Nat :
        u = x \div (2^b) /\ v = y \div (2^b) /\ w = (x + y) \div (2^b)
  BY <1>1, Halving
<1>3. (x + y) \div (2^(b + 1)) = ((x + y) \div (2^b)) \div 2
  BY <1>1, Halving
<1>4. x \div (2^(b + 1)) = (x \div (2^b)) \div 2
  BY <1>1, Halving
<1>5. y \div (2^(b + 1)) = (y \div (2^b)) \div 2
  BY <1>1, Halving
<1>6. k(b) = w - u - v /\ k(b + 1) = (w \div 2) - (u \div 2) - (v \div 2)
  BY <1>2, <1>3, <1>4, <1>5
<1>7. Bit(x, b) = u % 2 /\ Bit(y, b) = v % 2 /\ Bit(x + y, b) = w % 2
  BY <1>2 DEF Bit
<1>8. (w \div 2) - (u \div 2) - (v \div 2) = ((u % 2) + (v % 2) + (w - u - v)) \div 2
  BY SMT
<1>9. w % 2 = ((u % 2) + (v % 2) + (w - u - v)) % 2
  BY SMT
<1>10. w - u - v \in Int
  OBVIOUS
<1> HIDE DEF k
<1>11. k(b) \in Int /\ k(b + 1) = (Bit(x, b) + Bit(y, b) + k(b)) \div 2
       /\ Bit(x + y, b) = (Bit(x, b) + Bit(y, b) + k(b)) % 2
  BY <1>6, <1>7, <1>8, <1>9, <1>10
<1> QED BY <1>11 DEF k

\* A quotient is zero from the place on that the number does not reach.
LEMMA NoHighBits ==
  ASSUME NEW c \in 0..255, NEW b \in 8..31
  PROVE  Bit(c, b) = 0
<1>1. c \div (2^8) = 0
  BY SMT
<1>2. 8 \in 0..33 /\ b - 8 \in 0..33 /\ 8 + (b - 8) = b /\ 8 + (b - 8) <= 33
      /\ c \in Nat /\ b - 8 \in 0..32
  OBVIOUS
<1>3. (c \div (2^8)) \div (2^(b - 8)) = c \div (2^(8 + (b - 8)))
  BY <1>2, ShiftTwice
<1>4. PICK p \in Nat \ {0} : p = 2^(b - 8)
  BY <1>2, Power DEF Doubles
<1>5. 0 \div p = 0
  OBVIOUS
<1>6. c \div (2^b) = 0
  BY <1>1, <1>2, <1>3, <1>4, <1>5
<1>7. 0 % 2 = 0
  OBVIOUS
<1> QED BY <1>6, <1>7 DEF Bit

\* BitOf is the bit at a place where the number has one.
LEMMA BitOfIsBit ==
  /\ \A x \in Nat : \A b \in 0..27 : BitOf(x, b) = Bit(x, b)
  /\ \A c \in 0..255 : \A b \in 0..31 : BitOf(c, b) = Bit(c, b)
<1>1. \A x \in Nat : \A b \in 0..27 : BitOf(x, b) = Bit(x, b)
  BY DEF BitOf, Bit
<1>2. ASSUME NEW c \in 0..255, NEW b \in 0..31 PROVE BitOf(c, b) = Bit(c, b)
  <2>1. CASE b \in 0..27
    BY <1>1, <2>1
  <2>2. CASE b \notin 0..27
    <3>1. b \in 8..31
      BY <2>2
    <3>2. BitOf(c, b) = 0
      BY <2>2 DEF BitOf
    <3> QED BY <3>1, <3>2, NoHighBits
  <2> QED BY <2>1, <2>2
<1> QED BY <1>1, <1>2

\* The bits of sixteen times a number are the number's, four places up.
LEMMA ShiftedBits ==
  ASSUME NEW l \in Nat, NEW b \in 0..31
  PROVE  Bit(16 * l, b) = IF b < 4 THEN 0 ELSE Bit(l, b - 4)
<1>1. CASE b < 4
  <2>1. (16 * l) % 2 = 0 /\ ((16 * l) \div 2) % 2 = 0 /\ ((16 * l) \div 4) % 2 = 0 /\ ((16 * l) \div 8) % 2 = 0
        /\ (16 * l) \div 1 = 16 * l
    BY SMT
  <2>2. 2^0 = 1 /\ 2^1 = 2 /\ 2^2 = 4 /\ 2^3 = 8
    BY SMT
  <2>3. Bit(16 * l, 0) = 0 /\ Bit(16 * l, 1) = 0 /\ Bit(16 * l, 2) = 0 /\ Bit(16 * l, 3) = 0
    BY <2>1, <2>2 DEF Bit
  <2>4. b = 0 \/ b = 1 \/ b = 2 \/ b = 3
    BY <1>1
  <2>5. Bit(16 * l, b) = 0
    BY <2>3, <2>4
  <2> QED BY <1>1, <2>5
<1>2. CASE ~(b < 4)
  <2>1. (16 * l) \div (2^4) = l
    BY SMT
  <2>2. 4 \in 0..33 /\ b - 4 \in 0..33 /\ 4 + (b - 4) = b /\ 4 + (b - 4) <= 33 /\ 16 * l \in Nat
    BY <1>2
  <2>3. ((16 * l) \div (2^4)) \div (2^(b - 4)) = (16 * l) \div (2^(4 + (b - 4)))
    BY <2>2, ShiftTwice
  <2>4. l \div (2^(b - 4)) = (16 * l) \div (2^b)
    BY <2>1, <2>2, <2>3
  <2> QED BY <1>2, <2>4 DEF Bit
<1> QED BY <1>1, <1>2

\* A bit of the hash after one more character, from those of the sum that is not yet folded.
Hashed(l, c, b) ==
  IF b \in 4..7 THEN (Bit(16 * l + c, b) + Bit(16 * l + c, b + 24)) % 2 ELSE Bit(16 * l + c, b)

\* The ABI's hash, before the bits that leave are folded in, is sixteen times what it was plus
\* the character.
LEMMA Ripple ==
  ASSUME NEW l \in Nat, NEW h, NEW c \in 0..255,
         \A b \in 0..27 : h[b] = Bit(l, b)
  PROVE  AbiStep(h, c) = [b \in 0..27 |-> Hashed(l, c, b)]
<1> DEFINE q(b) == IF b < 4 THEN 0 ELSE h[b - 4]
           E(f) == [b \in 0..32 |-> IF b = 0 THEN 0 ELSE (q(b - 1) + BitOf(c, b - 1) + f[b - 1]) \div 2]
           carry == CHOOSE f : f = E(f)
           r(b) == (q(b) + BitOf(c, b) + carry[b]) % 2
<1>1. AbiStep(h, c) = [b \in 0..27 |-> IF b \in 4..7 THEN (r(b) + r(b + 24)) % 2 ELSE r(b)]
  BY DEF AbiStep
<1>2. \A b \in 0..31 : q(b) = Bit(16 * l, b) /\ BitOf(c, b) = Bit(c, b)
  <2> TAKE b \in 0..31
  <2>1. CASE b < 4
    BY <2>1, ShiftedBits, BitOfIsBit
  <2>2. CASE ~(b < 4)
    <3>1. b - 4 \in 0..27
      BY <2>2
    <3> QED BY <2>2, <3>1, ShiftedBits, BitOfIsBit
  <2> QED BY <2>1, <2>2
<1> HIDE DEF q
<1>3. PICK x \in Nat : x = 16 * l
  OBVIOUS
<1>4. c \in Nat
  OBVIOUS
<1> DEFINE k(b) == ((x + c) \div (2^b)) - (x \div (2^b)) - (c \div (2^b))
<1>5. k(0) = 0
  <2>1. 2^0 = 1
    BY SMT
  <2>2. (x + c) \div 1 = x + c /\ x \div 1 = x /\ c \div 1 = c
    OBVIOUS
  <2>3. (x + c) - x - c = 0
    OBVIOUS
  <2> QED BY <2>1, <2>2, <2>3
<1>6. \A b \in 0..31 : /\ k(b + 1) = (q(b) + BitOf(c, b) + k(b)) \div 2
                       /\ Bit(x + c, b) = (q(b) + BitOf(c, b) + k(b)) % 2
  <2> TAKE b \in 0..31
  <2>1. /\ k(b + 1) = (Bit(x, b) + Bit(c, b) + k(b)) \div 2
        /\ Bit(x + c, b) = (Bit(x, b) + Bit(c, b) + k(b)) % 2
    BY <1>4, Carries
  <2>2. q(b) = Bit(x, b) /\ BitOf(c, b) = Bit(c, b)
    BY <1>2, <1>3
  <2> HIDE DEF k
  <2> QED BY <2>1, <2>2
<1> HIDE DEF k
<1>7. carry = E(carry)
  <2> DEFINE f == [b \in 0..32 |-> k(b)]
  <2>1. \A b \in 0..32 : f[b] = E(f)[b]
    <3> TAKE b \in 0..32
    <3>1. CASE b = 0
      BY <1>5, <3>1
    <3>2. CASE b # 0
      <4>1. b - 1 \in 0..31 /\ b - 1 \in 0..32 /\ (b - 1) + 1 = b
        BY <3>2
      <4>2. f[b - 1] = k(b - 1) /\ f[b] = k(b)
        BY <4>1
      <4>3. k(b) = (q(b - 1) + BitOf(c, b - 1) + k(b - 1)) \div 2
        BY <1>6, <4>1
      <4>4. E(f)[b] = (q(b - 1) + BitOf(c, b - 1) + f[b - 1]) \div 2
        <5> HIDE DEF f
        <5> QED BY <3>2
      <4> HIDE DEF f, E
      <4> QED BY <4>2, <4>3, <4>4
    <3> QED BY <3>1, <3>2
  <2>2. f = [b \in 0..32 |-> f[b]]
    OBVIOUS
  <2>3. E(f) = [b \in 0..32 |-> E(f)[b]]
    OBVIOUS
  <2> HIDE DEF f, E
  <2>4. f = E(f)
    BY <2>1, <2>2, <2>3
  <2> QED BY <2>4
<1>8. /\ carry[0] = 0
      /\ \A b \in 1..32 : carry[b] = (q(b - 1) + BitOf(c, b - 1) + carry[b - 1]) \div 2
  <2>1. \A b \in 0..32 : carry[b] = E(carry)[b]
    BY <1>7
  <2> HIDE DEF carry
  <2>2. E(carry)[0] = 0
    OBVIOUS
  <2>3. \A b \in 1..32 : E(carry)[b] = (q(b - 1) + BitOf(c, b - 1) + carry[b - 1]) \div 2
    OBVIOUS
  <2> HIDE DEF E
  <2> QED BY <2>1, <2>2, <2>3
<1> HIDE DEF carry
<1> DEFINE S == {b \in 0..32 : carry[b] = k(b)}
<1>9. 0 \in S /\ \A b \in 0..31 : b \in S => b + 1 \in S
  <2>1. 0 \in S
    BY <1>5, <1>8
  <2>2. \A b \in 0..31 : b \in S => b + 1 \in S
    <3> TAKE b \in 0..31
    <3> HAVE b \in S
    <3>1. b + 1 \in 1..32 /\ b + 1 \in 0..32 /\ (b + 1) - 1 = b
      OBVIOUS
    <3>2. carry[b + 1] = (q(b) + BitOf(c, b) + carry[b]) \div 2
      BY <1>8, <3>1
    <3>3. carry[b] = k(b)
      OBVIOUS
    <3>4. carry[b + 1] = k(b + 1)
      BY <1>6, <3>2, <3>3
    <3> QED BY <3>1, <3>4
  <2> QED BY <2>1, <2>2
<1>10. \A b \in 0..32 : b \in S
  <2> HIDE DEF S
  <2>1. 32 \in Nat /\ 32 - 1 = 31
    OBVIOUS
  <2> QED BY <1>9, <2>1, Upwards
<1>11. \A b \in 0..31 : r(b) = Bit(x + c, b)
  <2> TAKE b \in 0..31
  <2>1. b \in 0..32
    OBVIOUS
  <2>2. carry[b] = k(b)
    BY <1>10, <2>1
  <2> QED BY <1>6, <2>2
<1> HIDE DEF r
<1>12. \A b \in 0..27 : (IF b \in 4..7 THEN (r(b) + r(b + 24)) % 2 ELSE r(b)) = Hashed(l, c, b)
  <2> TAKE b \in 0..27
  <2>1. b \in 0..31 /\ (b \in 4..7 => b + 24 \in 0..31)
    OBVIOUS
  <2> QED BY <1>3, <1>11, <2>1 DEF Hashed
<1> QED BY <1>1, <1>12

\* The widths, kept as numbers without a value.
LEMMA Widths == \E n, m \in Nat \ {0} : K24 = n /\ K28 = 16 * n /\ K28 = 256 * m /\ K28 = 2^28
<1>1. K24 \in Nat \ {0} /\ 1048576 \in Nat \ {0}
  BY SMT DEF K24
<1>2. K28 = 16 * K24 /\ K28 = 256 * 1048576 /\ K28 = 2^28
  BY SMT DEF K24, K28
<1> QED BY SMT, <1>1, <1>2

\* One shift and one addition, in parts.
LEMMA ShiftedIs ==
  ASSUME NEW l \in 0..(K28 - 1), NEW c \in 0..255
  PROVE  /\ Shifted(l, c).low = (16 * l + c) % K28
         /\ Shifted(l, c).top = ((16 * l + c) \div K28) % 16
         /\ Shifted(l, c).carry = ((16 * l + c) \div K28) \div 16
<1>1. /\ Shifted(l, c).low = ((l % K24) * 16 + c) % K28
      /\ Shifted(l, c).top = ((l \div K24) + (((l % K24) * 16 + c) \div K28)) % 16
      /\ Shifted(l, c).carry = ((l \div K24) + (((l % K24) * 16 + c) \div K28)) \div 16
  BY DEF Shifted
<1>2. PICK n \in Nat : n = K24 /\ n > 0 /\ K28 = 16 * n
  BY Widths
<1>3. K28 = 16 * n
  BY <1>2
<1>4. PICK u \in Nat, v \in 0..(n - 1) : u = l \div n /\ v = l % n /\ l = n * u + v
  BY <1>2, <1>3, SMT
<1>5. PICK w \in Nat, z \in 0..(16 * n - 1) :
        w = (v * 16 + c) \div (16 * n) /\ z = (v * 16 + c) % (16 * n) /\ v * 16 + c = (16 * n) * w + z
  BY <1>2, <1>4, SMT
<1>6. 16 * l + c = (16 * n) * (u + w) + z
  BY <1>2, <1>4, <1>5, SMT
<1>7. (16 * l + c) % (16 * n) = z /\ (16 * l + c) \div (16 * n) = u + w
  BY <1>2, <1>4, <1>5, <1>6, SMT
<1> QED BY <1>1, <1>2, <1>3, <1>4, <1>5, <1>7

\* The low bits after one character.
LEMMA StepBits ==
  ASSUME NEW l \in 0..(K28 - 1), NEW c \in 0..255
  PROVE  /\ Step(l, c) \in 0..(K28 - 1)
         /\ \A b \in 0..27 : Bit(Step(l, c), b) = Hashed(l, c, b)
<1>0. PICK m \in Nat : K28 = 256 * m /\ m > 0 /\ K28 = 2^28
  BY Widths
<1>1. PICK X \in Nat : X = 16 * l + c
  BY <1>0
<1>2. PICK y \in 0..(K28 - 1) : y = X % K28
  BY <1>0
<1>3. PICK w \in Nat, t \in 0..15 : w = X \div K28 /\ t = w % 16
  BY <1>0
<1>4. Shifted(l, c).low = y /\ Shifted(l, c).top = t
  BY <1>1, <1>2, <1>3, ShiftedIs
<1>5. PICK lo \in 0..15, n \in 0..15, hi \in Nat :
        lo = y % 16 /\ n = (y \div 16) % 16 /\ hi = y \div 256 /\ y = lo + 16 * n + 256 * hi /\ hi < m
  <2>1. y \in Nat /\ y < 256 * m
    BY <1>0, <1>2
  <2> QED BY <2>1, SMT
<1>6. PICK x \in 0..15 : /\ Step(l, c) = y + 16 * (x - n)
                         /\ \A b \in 0..3 : Bit(x, b) = (Bit(n, b) + Bit(t, b)) % 2
  <2>1. y \in Nat /\ t \in Nat
    BY <1>0
  <2>2. Step(l, c) = XorNibble(y, t)
    BY <1>4 DEF Step
  <2>3. PICK x \in 0..15 : /\ XorNibble(y, t) = y + 16 * (x - ((y \div 16) % 16))
                           /\ \A b \in 0..3 : Bit(x, b) = (Bit((y \div 16) % 16, b) + Bit(t, b)) % 2
    BY <2>1, Nibble
  <2> QED BY <1>5, <2>2, <2>3
<1>7. PICK R \in Nat : R = Step(l, c) /\ R = lo + 16 * x + 256 * hi
  <2>1. y + 16 * (x - n) = lo + 16 * x + 256 * hi
    BY <1>5
  <2>2. lo + 16 * x + 256 * hi \in Nat
    OBVIOUS
  <2> QED BY <1>6, <2>1, <2>2
<1>8. R < 256 * m
  BY <1>5, <1>7, <1>0
<1>9. /\ \A b \in 0..3 : Bit(R, b) = Bit(lo, b) /\ Bit(R, b + 4) = Bit(x, b)
      /\ R \div (2^8) = hi
  <2>1. InNibbles(R, lo, x, hi)
    BY <1>7, NibbleBits
  <2> QED BY <2>1 DEF InNibbles
<1>10. /\ \A b \in 0..3 : Bit(y, b) = Bit(lo, b) /\ Bit(y, b + 4) = Bit(n, b)
       /\ y \div (2^8) = hi
  <2>1. y \in Nat
    BY <1>0
  <2>2. InNibbles(y, lo, n, hi)
    BY <1>5, <2>1, NibbleBits
  <2> QED BY <2>2 DEF InNibbles
<1>11. \A b \in 0..27 : Bit(y, b) = Bit(X, b)
  BY <1>2, Masked
<1>12. \A b \in 8..27 : Bit(R, b) = Bit(y, b)
  <2> TAKE b \in 8..27
  <2>1. 8 \in 0..33 /\ b - 8 \in 0..33 /\ 8 + (b - 8) = b /\ 8 + (b - 8) <= 33 /\ y \in Nat
    BY <1>0
  <2>2. (R \div (2^8)) \div (2^(b - 8)) = R \div (2^(8 + (b - 8)))
    BY <2>1, ShiftTwice
  <2>3. (y \div (2^8)) \div (2^(b - 8)) = y \div (2^(8 + (b - 8)))
    BY <2>1, ShiftTwice
  <2>4. R \div (2^b) = y \div (2^b)
    BY <1>9, <1>10, <2>1, <2>2, <2>3
  <2> QED BY <2>4 DEF Bit
<1>13. \A b \in 0..3 : Bit(t, b) = Bit(X, b + 28)
  <2> TAKE b \in 0..3
  <2>1. 28 \in 0..33 /\ b \in 0..33 /\ 28 + b = b + 28 /\ 28 + b <= 33
    OBVIOUS
  <2>2. (X \div (2^28)) \div (2^b) = X \div (2^(28 + b))
    BY <2>1, ShiftTwice
  <2>3. Bit(w, b) = Bit(X, b + 28)
    BY <1>0, <1>3, <2>1, <2>2 DEF Bit
  <2>4. PICK v \in Nat : w = t + 16 * v
    BY <1>3
  <2>5. Bit(w, b) = Bit(t, b)
    <3>1. PICK p \in 0..15, q \in Nat : w = t + 16 * p + 256 * q
      <4>1. v = (v % 16) + 16 * (v \div 16) /\ v % 16 \in 0..15 /\ v \div 16 \in Nat
        BY SMT
      <4> QED BY <2>4, <4>1
    <3>2. InNibbles(w, t, p, q)
      BY <3>1, NibbleBits
    <3> QED BY <3>2 DEF InNibbles
  <2> QED BY <2>3, <2>5
<1>14. \A b \in 0..27 : Bit(R, b) = IF b \in 4..7 THEN (Bit(X, b) + Bit(X, b + 24)) % 2 ELSE Bit(X, b)
  <2> TAKE b \in 0..27
  <2>1. CASE b \in 0..3
    BY <1>9, <1>10, <1>11, <2>1
  <2>2. CASE b \in 4..7
    <3>1. PICK i \in 0..3 : i = b - 4 /\ i + 4 = b /\ i + 28 = b + 24
      BY <2>2
    <3>2. Bit(R, b) = (Bit(n, i) + Bit(t, i)) % 2
      BY <1>6, <1>9, <3>1
    <3>3. Bit(n, i) = Bit(X, b)
      BY <1>10, <1>11, <3>1
    <3>4. Bit(t, i) = Bit(X, b + 24)
      BY <1>13, <3>1
    <3> QED BY <2>2, <3>2, <3>3, <3>4
  <2>3. CASE b \in 8..27
    <3>1. b \notin 4..7
      BY <2>3
    <3> QED BY <1>11, <1>12, <2>3, <3>1
  <2> QED BY <2>1, <2>2, <2>3
<1>15. R \in 0..(K28 - 1)
  BY <1>0, <1>8
<1> QED BY <1>1, <1>7, <1>14, <1>15 DEF Hashed

\* The two hashes stay together.
LEMMA AbiBits ==
  ASSUME NEW l \in 0..(K28 - 1), NEW h \in [0..27 -> {0, 1}], NEW c \in 0..255,
         \A b \in 0..27 : BitOf(l, b) = h[b]
  PROVE  /\ AbiStep(h, c) \in [0..27 -> {0, 1}]
         /\ \A b \in 0..27 : BitOf(Step(l, c), b) = AbiStep(h, c)[b]
<1>1. K28 \in Nat
  BY Widths
<1>2. l \in Nat /\ Step(l, c) \in Nat
  <2>1. Step(l, c) \in 0..(K28 - 1)
    BY StepBits
  <2> QED BY <1>1, <2>1
<1>3. \A b \in 0..27 : h[b] = Bit(l, b)
  BY <1>2, BitOfIsBit
<1>4. \A b \in 0..27 : BitOf(Step(l, c), b) = AbiStep(h, c)[b]
  <2> TAKE b \in 0..27
  <2>1. BitOf(Step(l, c), b) = Bit(Step(l, c), b)
    BY <1>2, BitOfIsBit
  <2>2. AbiStep(h, c) = [i \in 0..27 |-> Hashed(l, c, i)]
    BY <1>2, <1>3, Ripple
  <2>3. Bit(Step(l, c), b) = Hashed(l, c, b)
    BY StepBits
  <2> QED BY <2>1, <2>2, <2>3
<1>5. \A b \in 0..27 : BitOf(Step(l, c), b) \in {0, 1}
  <2> TAKE b \in 0..27
  <2>1. b \in 0..32
    OBVIOUS
  <2>2. PICK u \in Nat : u = Step(l, c) \div (2^b)
    BY <1>2, <2>1, Halving
  <2>3. u % 2 \in {0, 1}
    OBVIOUS
  <2>4. BitOf(Step(l, c), b) = Bit(Step(l, c), b)
    BY <1>2, BitOfIsBit
  <2> QED BY <2>2, <2>3, <2>4 DEF Bit
<1>6. AbiStep(h, c) = [b \in 0..27 |-> AbiStep(h, c)[b]]
  <2>1. l \in Nat
    BY <1>2
  <2>2. AbiStep(h, c) = [i \in 0..27 |-> Hashed(l, c, i)]
    BY <2>1, <1>3, Ripple
  <2> QED BY <2>2
<1> QED BY <1>4, <1>5, <1>6

-----------------------------------------------------------------------------
\* The entry points.  Their hashes are computed, character by character.

\* What makes r the low bits after c, as arithmetic.
Hops(l, c, r) ==
  /\ l \in Nat /\ l < K28 /\ c \in Nat /\ c <= 255 /\ r \in Nat /\ 16 * l + c < 16 * K28
  /\ LET y == (16 * l + c) % K28
         t == (16 * l + c) \div K28
         n == (y \div 16) % 16
         x == (r \div 16) % 16
     IN  /\ r = y + 16 * (x - n)
         /\ x % 2 = ((n % 2) + (t % 2)) % 2
         /\ (x \div 2) % 2 = (((n \div 2) % 2) + ((t \div 2) % 2)) % 2
         /\ (x \div 4) % 2 = (((n \div 4) % 2) + ((t \div 4) % 2)) % 2
         /\ (x \div 8) % 2 = (((n \div 8) % 2) + ((t \div 8) % 2)) % 2

\* r is the low bits after c, and nothing is carried beyond bit 31.
Hop(l, c, r) == l \in 0..(K28 - 1) /\ Step(l, c) = r /\ Shifted(l, c).carry = 0

\* Two numbers below 16 with the same bits are the same.
LEMMA SameBits ==
  ASSUME NEW x \in 0..15, NEW y \in 0..15, \A b \in 0..3 : Bit(x, b) = Bit(y, b)
  PROVE  x = y
<1>1. 2^0 = 1 /\ 2^1 = 2 /\ 2^2 = 4 /\ 2^3 = 8 /\ x \div 1 = x /\ y \div 1 = y
  BY SMT
<1>2. Bit(x, 0) = Bit(y, 0) /\ Bit(x, 1) = Bit(y, 1) /\ Bit(x, 2) = Bit(y, 2) /\ Bit(x, 3) = Bit(y, 3)
  OBVIOUS
<1>3. /\ x % 2 = y % 2 /\ (x \div 2) % 2 = (y \div 2) % 2
      /\ (x \div 4) % 2 = (y \div 4) % 2 /\ (x \div 8) % 2 = (y \div 8) % 2
  BY <1>1, <1>2 DEF Bit
<1> QED BY <1>3, SMT

LEMMA HopsHop == ASSUME NEW l, NEW c, NEW r, Hops(l, c, r) PROVE Hop(l, c, r)
<1>1. PICK m \in Nat \ {0} : K28 = 256 * m
  BY Widths
<1>2. l \in 0..(K28 - 1) /\ c \in 0..255 /\ 16 * l + c < 16 * K28 /\ l \in Nat /\ c \in Nat
  <2>1. l \in Nat /\ l < K28 /\ c \in Nat /\ c <= 255 /\ 16 * l + c < 16 * K28
    BY DEF Hops
  <2> QED BY <1>1, <2>1
<1>3. PICK y \in Nat, t \in 0..15 : y = (16 * l + c) % K28 /\ t = (16 * l + c) \div K28
  <2>1. \A z \in Nat : z < 16 * K28 => z \div K28 \in 0..15 /\ z % K28 \in Nat
    BY SMT DEF K28
  <2>2. 16 * l + c \in Nat
    BY <1>2
  <2> QED BY <1>2, <2>1, <2>2
<1>4. t % 16 = t /\ t \div 16 = 0
  OBVIOUS
<1>5. Shifted(l, c).low = y /\ Shifted(l, c).top = t /\ Shifted(l, c).carry = 0
  BY <1>2, <1>3, <1>4, ShiftedIs
<1>6. PICK n \in 0..15, x \in 0..15 :
        /\ n = (y \div 16) % 16 /\ x = (r \div 16) % 16 /\ r = y + 16 * (x - n)
        /\ x % 2 = ((n % 2) + (t % 2)) % 2
        /\ (x \div 2) % 2 = (((n \div 2) % 2) + ((t \div 2) % 2)) % 2
        /\ (x \div 4) % 2 = (((n \div 4) % 2) + ((t \div 4) % 2)) % 2
        /\ (x \div 8) % 2 = (((n \div 8) % 2) + ((t \div 8) % 2)) % 2
  <2>1. r \in Nat
    BY DEF Hops
  <2>2. (y \div 16) % 16 \in 0..15 /\ (r \div 16) % 16 \in 0..15
    BY <2>1, SMT
  <2> QED BY <1>3, <2>2 DEF Hops
<1>7. PICK v \in 0..15 : /\ XorNibble(y, t) = y + 16 * (v - n)
                         /\ \A b \in 0..3 : Bit(v, b) = (Bit(n, b) + Bit(t, b)) % 2
  <2>1. t \in Nat
    OBVIOUS
  <2>2. PICK v \in 0..15 : /\ XorNibble(y, t) = y + 16 * (v - ((y \div 16) % 16))
                           /\ \A b \in 0..3 : Bit(v, b) = (Bit((y \div 16) % 16, b) + Bit(t, b)) % 2
    BY <2>1, Nibble
  <2> QED BY <1>6, <2>2
<1>8. \A b \in 0..3 : Bit(x, b) = (Bit(n, b) + Bit(t, b)) % 2
  <2>1. 2^0 = 1 /\ 2^1 = 2 /\ 2^2 = 4 /\ 2^3 = 8 /\ x \div 1 = x /\ n \div 1 = n /\ t \div 1 = t
    BY SMT
  <2>2. /\ Bit(x, 0) = (Bit(n, 0) + Bit(t, 0)) % 2 /\ Bit(x, 1) = (Bit(n, 1) + Bit(t, 1)) % 2
        /\ Bit(x, 2) = (Bit(n, 2) + Bit(t, 2)) % 2 /\ Bit(x, 3) = (Bit(n, 3) + Bit(t, 3)) % 2
    BY <1>6, <2>1 DEF Bit
  <2>3. \A b \in 0..3 : b = 0 \/ b = 1 \/ b = 2 \/ b = 3
    OBVIOUS
  <2> QED BY <2>2, <2>3
<1>9. v = x
  <2>1. \A b \in 0..3 : Bit(v, b) = Bit(x, b)
    BY <1>7, <1>8
  <2> QED BY <2>1, SameBits
<1>10. Step(l, c) = XorNibble(y, t)
  BY <1>5 DEF Step
<1> QED BY <1>2, <1>5, <1>6, <1>7, <1>9, <1>10 DEF Hop


\* T are the low bits before, between and after the characters of n, and none carries.
Trail(n, T) == T[1] = 0 /\ \A i \in 1..Len(n) : Hop(T[i], n[i], T[i + 1])

LEMMA TrailOfGetMIMEDescription ==
  ASSUME NEW n, n = <<78, 80, 95, 71, 101, 116, 77, 73, 77, 69, 68, 101, 115, 99, 114, 105, 112, 116, 105, 111, 110>>
  PROVE  \E T : Trail(n, T)
<1> DEFINE T == <<0, 78, 1328, 21343, 341559, 5465045, 87440836, 56876253, 104713769, 64807613,
                 231615525, 216187460, 237773925, 46286371, 203711155, 38153058, 73578153, 103508800,
                 45528084, 191578505, 112465999, 188843326>>
<1>1. Len(n) = 21 /\ T[1] = 0
  BY SMT
<1>2. Hops(T[1], n[1], T[2]) /\ Hops(T[2], n[2], T[3]) /\ Hops(T[3], n[3], T[4])
  BY SMT DEF Hops, K28
<1>3. Hops(T[4], n[4], T[5]) /\ Hops(T[5], n[5], T[6]) /\ Hops(T[6], n[6], T[7])
  BY SMT DEF Hops, K28
<1>4. Hops(T[7], n[7], T[8]) /\ Hops(T[8], n[8], T[9]) /\ Hops(T[9], n[9], T[10])
  BY SMT DEF Hops, K28
<1>5. Hops(T[10], n[10], T[11]) /\ Hops(T[11], n[11], T[12]) /\ Hops(T[12], n[12], T[13])
  BY SMT DEF Hops, K28
<1>6. Hops(T[13], n[13], T[14]) /\ Hops(T[14], n[14], T[15]) /\ Hops(T[15], n[15], T[16])
  BY SMT DEF Hops, K28
<1>7. Hops(T[16], n[16], T[17]) /\ Hops(T[17], n[17], T[18]) /\ Hops(T[18], n[18], T[19])
  BY SMT DEF Hops, K28
<1>8. Hops(T[19], n[19], T[20]) /\ Hops(T[20], n[20], T[21]) /\ Hops(T[21], n[21], T[22])
  BY SMT DEF Hops, K28
<1>9. \A i \in 1..21 : i = 1 \/ i = 2 \/ i = 3 \/ i = 4 \/ i = 5 \/ i = 6 \/ i = 7 \/ i = 8 \/ i = 9 \/ i = 10 \/ i = 11 \/ i = 12
                      \/ i = 13 \/ i = 14 \/ i = 15 \/ i = 16 \/ i = 17 \/ i = 18 \/ i = 19 \/ i = 20 \/ i = 21
  OBVIOUS
<1> HIDE DEF T
<1>10. \A i \in 1..21 : Hops(T[i], n[i], T[i + 1])
  BY <1>2, <1>3, <1>4, <1>5, <1>6, <1>7, <1>8, <1>9, SMT
<1> QED BY <1>1, <1>10, HopsHop DEF Trail

LEMMA TrailOfShutdown ==
  ASSUME NEW n, n = <<78, 80, 95, 83, 104, 117, 116, 100, 111, 119, 110>>
  PROVE  \E T : Trail(n, T)
<1> DEFINE T == <<0, 78, 1328, 21343, 341571, 5465240, 87443957, 56926100, 105511316, 77568463,
                 167353639, 261739086>>
<1>1. Len(n) = 11 /\ T[1] = 0
  BY SMT
<1>2. Hops(T[1], n[1], T[2]) /\ Hops(T[2], n[2], T[3]) /\ Hops(T[3], n[3], T[4])
  BY SMT DEF Hops, K28
<1>3. Hops(T[4], n[4], T[5]) /\ Hops(T[5], n[5], T[6]) /\ Hops(T[6], n[6], T[7])
  BY SMT DEF Hops, K28
<1>4. Hops(T[7], n[7], T[8]) /\ Hops(T[8], n[8], T[9]) /\ Hops(T[9], n[9], T[10])
  BY SMT DEF Hops, K28
<1>5. Hops(T[10], n[10], T[11]) /\ Hops(T[11], n[11], T[12])
  BY SMT DEF Hops, K28
<1>6. \A i \in 1..11 : i = 1 \/ i = 2 \/ i = 3 \/ i = 4 \/ i = 5 \/ i = 6 \/ i = 7 \/ i = 8 \/ i = 9 \/ i = 10 \/ i = 11
  OBVIOUS
<1> HIDE DEF T
<1>7. \A i \in 1..11 : Hops(T[i], n[i], T[i + 1])
  BY <1>2, <1>3, <1>4, <1>5, <1>6, SMT
<1> QED BY <1>1, <1>7, HopsHop DEF Trail

LEMMA TrailOfInitialize ==
  ASSUME NEW n, n = <<78, 80, 95, 73, 110, 105, 116, 105, 97, 108, 105, 122, 101>>
  PROVE  \E T : Trail(n, T)
<1> DEFINE T == <<0, 78, 1328, 21343, 341561, 5465086, 87441481, 56886612, 104879513, 67459473, 5609788,
                 89756713, 93930330, 160708181>>
<1>1. Len(n) = 13 /\ T[1] = 0
  BY SMT
<1>2. Hops(T[1], n[1], T[2]) /\ Hops(T[2], n[2], T[3]) /\ Hops(T[3], n[3], T[4])
  BY SMT DEF Hops, K28
<1>3. Hops(T[4], n[4], T[5]) /\ Hops(T[5], n[5], T[6]) /\ Hops(T[6], n[6], T[7])
  BY SMT DEF Hops, K28
<1>4. Hops(T[7], n[7], T[8]) /\ Hops(T[8], n[8], T[9]) /\ Hops(T[9], n[9], T[10])
  BY SMT DEF Hops, K28
<1>5. Hops(T[10], n[10], T[11]) /\ Hops(T[11], n[11], T[12]) /\ Hops(T[12], n[12], T[13])
  BY SMT DEF Hops, K28
<1>6. Hops(T[13], n[13], T[14])
  BY SMT DEF Hops, K28
<1>7. \A i \in 1..13 : i = 1 \/ i = 2 \/ i = 3 \/ i = 4 \/ i = 5 \/ i = 6 \/ i = 7 \/ i = 8 \/ i = 9 \/ i = 10 \/ i = 11 \/ i = 12
                      \/ i = 13
  OBVIOUS
<1> HIDE DEF T
<1>8. \A i \in 1..13 : Hops(T[i], n[i], T[i + 1])
  BY <1>2, <1>3, <1>4, <1>5, <1>6, <1>7, SMT
<1> QED BY <1>1, <1>8, HopsHop DEF Trail

LEMMA TrailOfGetValue ==
  ASSUME NEW n, n = <<78, 80, 95, 71, 101, 116, 86, 97, 108, 117, 101>>
  PROVE  \E T : Trail(n, T)
<1> DEFINE T == <<0, 78, 1328, 21343, 341559, 5465045, 87440836, 56876230, 104713457, 64802588,
                 231535109, 214900837>>
<1>1. Len(n) = 11 /\ T[1] = 0
  BY SMT
<1>2. Hops(T[1], n[1], T[2]) /\ Hops(T[2], n[2], T[3]) /\ Hops(T[3], n[3], T[4])
  BY SMT DEF Hops, K28
<1>3. Hops(T[4], n[4], T[5]) /\ Hops(T[5], n[5], T[6]) /\ Hops(T[6], n[6], T[7])
  BY SMT DEF Hops, K28
<1>4. Hops(T[7], n[7], T[8]) /\ Hops(T[8], n[8], T[9]) /\ Hops(T[9], n[9], T[10])
  BY SMT DEF Hops, K28
<1>5. Hops(T[10], n[10], T[11]) /\ Hops(T[11], n[11], T[12])
  BY SMT DEF Hops, K28
<1>6. \A i \in 1..11 : i = 1 \/ i = 2 \/ i = 3 \/ i = 4 \/ i = 5 \/ i = 6 \/ i = 7 \/ i = 8 \/ i = 9 \/ i = 10 \/ i = 11
  OBVIOUS
<1> HIDE DEF T
<1>7. \A i \in 1..11 : Hops(T[i], n[i], T[i + 1])
  BY <1>2, <1>3, <1>4, <1>5, <1>6, SMT
<1> QED BY <1>1, <1>7, HopsHop DEF Trail

LEMMA Trails == ASSUME NEW n \in EntryPoints PROVE \E T : Trail(n, T)
  BY TrailOfGetMIMEDescription, TrailOfShutdown, TrailOfInitialize, TrailOfGetValue, SMT DEF EntryPoints

-----------------------------------------------------------------------------
\* The bucket.

LEMMA Quotient ==
  ASSUME NEW a \in Nat, NEW m \in Nat \ {0}
  PROVE  \E q \in Nat, y \in Nat : q = a \div m /\ y = a % m /\ a = m * q + y /\ y < m /\ y <= a
  OBVIOUS

LEMMA Remainder ==
  ASSUME NEW m \in Nat \ {0}, NEW q \in Nat, NEW y \in Nat, y < m, NEW a \in Nat, a = m * q + y
  PROVE  a % m = y
  OBVIOUS

\* Doubling is compatible with remainders.
LEMMA Doubling ==
  ASSUME NEW p \in Nat, NEW n \in Nat \ {0}
  PROVE  (2 * p) % n = ((p % n) * 2) % n
<1>1. PICK u \in Nat, v \in Nat : v = p % n /\ p = n * u + v
  BY Quotient
<1>2. PICK w \in Nat, a \in Nat : w = v * 2 /\ a = 2 * p
  OBVIOUS
<1>3. PICK x \in Nat, y \in Nat : y = w % n /\ w = n * x + y /\ y < n
  BY Quotient
<1>4. PICK z \in Nat, b \in Nat, d \in Nat : z = 2 * u + x /\ b = n * u /\ d = n * x
  OBVIOUS
<1>5. n * z = 2 * b + d
  <2>1. n * (2 * u + x) = 2 * (n * u) + n * x
    OBVIOUS
  <2> QED BY <1>4, <2>1
<1>6. a = n * z + y
  <2>1. p = b + v /\ w = d + y
    BY <1>1, <1>3, <1>4
  <2>2. a = (2 * b + d) + y
    BY <1>2, <2>1
  <2> QED BY <1>5, <2>2
<1>7. a % n = y
  <2>1. y < n
    BY <1>3
  <2> QED BY <1>6, <2>1, Remainder
<1> QED BY <1>1, <1>2, <1>3, <1>7

\* Powers modulo n are numbers: the recursion has a solution.
LEMMA PowerModNat == ASSUME NEW n \in Nat \ {0} PROVE PowerMod(32, n) \in Nat
<1> DEFINE E(f) == [j \in 0..32 |-> IF j = 0 THEN 1 % n ELSE (f[j - 1] * 2) % n]
           power == CHOOSE f : f = E(f)
<1>1. PowerMod(32, n) = power[32]
  BY DEF PowerMod
<1>2. power = E(power)
  <2> DEFINE f == [j \in 0..32 |-> (2^j) % n]
  <2>1. \A j \in 0..32 : f[j] = E(f)[j]
    <3> TAKE j \in 0..32
    <3>1. CASE j = 0
      <4>1. 2^0 = 1
        BY SMT
      <4> QED BY <3>1, <4>1
    <3>2. CASE j # 0
      <4>1. j - 1 \in 0..32 /\ (j - 1) + 1 = j
        BY <3>2
      <4>2. PICK p \in Nat : p = 2^(j - 1) /\ 2^j = 2 * p
        BY <4>1, Power DEF Doubles
      <4>3. (2 * p) % n = ((p % n) * 2) % n
        BY Doubling
      <4>4. f[j - 1] = p % n /\ f[j] = (2 * p) % n
        BY <4>1, <4>2
      <4>5. E(f)[j] = (f[j - 1] * 2) % n
        <5> HIDE DEF f
        <5> QED BY <3>2
      <4> HIDE DEF f, E
      <4> QED BY <4>3, <4>4, <4>5
    <3> QED BY <3>1, <3>2
  <2>2. f = [j \in 0..32 |-> f[j]]
    OBVIOUS
  <2>3. E(f) = [j \in 0..32 |-> E(f)[j]]
    OBVIOUS
  <2> HIDE DEF f, E
  <2>4. f = E(f)
    BY <2>1, <2>2, <2>3
  <2> QED BY <2>4
<1>3. power[0] = 1 % n /\ \A j \in 1..32 : power[j] = (power[j - 1] * 2) % n
  <2>1. \A j \in 0..32 : power[j] = E(power)[j]
    BY <1>2
  <2> HIDE DEF power
  <2>2. E(power)[0] = 1 % n /\ \A j \in 1..32 : E(power)[j] = (power[j - 1] * 2) % n
    OBVIOUS
  <2> HIDE DEF E
  <2> QED BY <2>1, <2>2
<1> HIDE DEF power
<1> DEFINE S == {j \in 0..32 : power[j] \in Nat}
<1>4. 0 \in S /\ \A j \in 0..31 : j \in S => j + 1 \in S
  <2>1. 0 \in S
    BY <1>3
  <2>2. \A j \in 0..31 : j \in S => j + 1 \in S
    <3> TAKE j \in 0..31
    <3> HAVE j \in S
    <3>1. j + 1 \in 1..32 /\ j + 1 \in 0..32 /\ (j + 1) - 1 = j
      OBVIOUS
    <3>2. power[j + 1] = (power[j] * 2) % n
      BY <1>3, <3>1
    <3>3. PICK p \in Nat : p = power[j]
      OBVIOUS
    <3>4. (p * 2) % n \in Nat
      OBVIOUS
    <3> QED BY <3>1, <3>2, <3>3, <3>4
  <2> QED BY <2>1, <2>2
<1>5. 32 \in S
  <2> HIDE DEF S
  <2>1. 32 \in Nat /\ 32 - 1 = 31 /\ 32 \in 0..32
    OBVIOUS
  <2> QED BY <1>4, <2>1, Upwards
<1> QED BY <1>1, <1>5

\* Without carries the loader looks where the link editor put the name.
LEMMA BucketIs ==
  ASSUME low \in Nat, over = 0
  PROVE  \A n \in Buckets : LoaderBucket(n) = low % n
<1> TAKE n \in Buckets
<1>1. n \in Nat \ {0}
  BY BucketAssumption
<1>2. PICK p \in Nat : p = PowerMod(32, n)
  BY <1>1, PowerModNat
<1>3. 0 % n = 0 /\ 0 * p = 0 /\ (0 + (low % n)) % n = low % n
  BY <1>1
<1> QED BY <1>2, <1>3 DEF LoaderBucket

-----------------------------------------------------------------------------
\* The invariant.

\* An entry point is on its trail.
OnTrail == str \in EntryPoints => over = 0 /\ \E T : Trail(str, T) /\ low = T[pos + 1]

\* The first characters do not fill the 28 bits: low is at most 33 * (16^pos - 1).
Short ==
  /\ pos = 0 => low <= 0
  /\ pos = 1 => low <= 495
  /\ pos = 2 => low <= 8415
  /\ pos = 3 => low <= 135135
  /\ pos = 4 => low <= 2162655
  /\ pos = 5 => low <= 34602975
  /\ pos <= 6 => over = 0

HashInv == HashTypeOK /\ LowAgrees /\ OnTrail /\ Short

LEMMA HashInitInv == HashInit => HashInv
<1> SUFFICES ASSUME HashInit PROVE HashInv
  OBVIOUS
<1> USE DEF HashInit
<1>1. HashTypeOK
  <2>1. 0 \in 0..(K28 - 1)
    BY Widths
  <2>2. Len(str) \in Nat
    BY StringAssumption
  <2>3. abi \in [0..27 -> {0, 1}]
    OBVIOUS
  <2> QED BY <2>1, <2>2, <2>3 DEF HashTypeOK
<1>2. LowAgrees
  <2> SUFFICES ASSUME NEW b \in 0..27 PROVE BitOf(0, b) = 0
    BY DEF LowAgrees
  <2>1. b \in 0..32
    OBVIOUS
  <2>2. PICK p \in Nat \ {0} : p = 2^b
    BY <2>1, Power DEF Doubles
  <2>3. (0 \div p) % 2 = 0
    BY SMT
  <2> QED BY <2>2, <2>3 DEF BitOf
<1>3. OnTrail
  <2>1. \A T : Trail(str, T) => T[0 + 1] = 0
    BY DEF Trail
  <2> QED BY <2>1, Trails DEF OnTrail
<1>4. Short
  BY DEF Short
<1> QED BY <1>1, <1>2, <1>3, <1>4 DEF HashInv

LEMMA HashNextInv == HashInv /\ [HashNext]_hashVars => HashInv'
<1> SUFFICES ASSUME HashInv, [HashNext]_hashVars PROVE HashInv'
  OBVIOUS
<1>1. CASE UNCHANGED hashVars
  BY <1>1 DEF HashInv, HashTypeOK, LowAgrees, OnTrail, Short, hashVars
<1>2. CASE Character
  <2>1. /\ str \in Strings /\ pos \in 0..Len(str) /\ low \in 0..(K28 - 1) /\ over \in Nat
        /\ abi \in [0..27 -> {0, 1}] /\ \A b \in 0..27 : BitOf(low, b) = abi[b]
    BY DEF HashInv, HashTypeOK, LowAgrees
  <2>2. PICK s \in Seq(0..255) : s = str /\ Len(s) \in Nat
    <3>1. str \in Seq(0..255)
      BY <2>1, StringAssumption
    <3>2. \A s \in Seq(0..255) : Len(s) \in Nat
      OBVIOUS
    <3> QED BY <3>1, <3>2
  <2>3. PICK k \in Nat : k = pos /\ k + 1 \in 1..Len(str) /\ pos' = k + 1
    BY <1>2, <2>1, <2>2 DEF Character
  <2>4. PICK c \in 0..255 : c = str[k + 1]
    <3>1. k + 1 \in 1..Len(s)
      BY <2>2, <2>3
    <3>2. \A S : \A q \in Seq(S) : \A i \in 1..Len(q) : q[i] \in S
      OBVIOUS
    <3>3. s[k + 1] \in 0..255
      BY <3>1, <3>2
    <3> QED BY <2>2, <3>3
  <2>5. /\ str' = str /\ low' = Step(low, c) /\ over' = Above(over, low, c) /\ abi' = AbiStep(abi, c)
    BY <1>2, <2>3, <2>4 DEF Character
  <2>6. Step(low, c) \in 0..(K28 - 1)
    BY <2>1, StepBits
  <2>7. /\ AbiStep(abi, c) \in [0..27 -> {0, 1}]
        /\ \A b \in 0..27 : BitOf(Step(low, c), b) = AbiStep(abi, c)[b]
    BY <2>1, AbiBits
  <2>8. PICK m \in Nat \ {0} : K28 = m
    BY Widths
  <2>9. PICK l \in Nat : l = low
    BY <2>1, <2>8
  <2>10. PICK X \in Nat : X = 16 * l + c /\ X <= 16 * l + 255
    OBVIOUS
  <2>11. PICK d \in Nat, y \in Nat, t \in Nat :
           /\ d = Shifted(low, c).carry /\ d = (X \div K28) \div 16
           /\ y = Shifted(low, c).low /\ y <= X
           /\ t = Shifted(low, c).top
    <3>1. /\ Shifted(low, c).low = X % m /\ Shifted(low, c).top = (X \div m) % 16
          /\ Shifted(low, c).carry = (X \div m) \div 16
      BY <2>1, <2>8, <2>9, <2>10, ShiftedIs
    <3>2. PICK w \in Nat, y \in Nat : w = X \div m /\ y = X % m /\ y <= X
      BY Quotient
    <3>3. w \div 16 \in Nat /\ w % 16 \in Nat
      OBVIOUS
    <3> QED BY <2>8, <3>1, <3>2, <3>3
  <2>12. over' = over * 16 + d /\ over' \in Nat
    <3>1. PICK o \in Nat : o = over
      BY <2>1
    <3>2. o * 16 + d \in Nat
      OBVIOUS
    <3> QED BY <2>5, <2>11, <3>1, <3>2 DEF Above
  <2>13. HashTypeOK'
    BY <2>1, <2>2, <2>3, <2>5, <2>6, <2>7, <2>12 DEF HashTypeOK
  <2>14. LowAgrees'
    <3>1. \A b \in 0..27 : BitOf(low', b) = abi'[b]
      BY <2>5, <2>7
    <3> QED BY <3>1 DEF LowAgrees, BitOf
  <2>15. OnTrail'
    <3> SUFFICES ASSUME str \in EntryPoints PROVE over' = 0 /\ \E T : Trail(str, T) /\ low' = T[pos' + 1]
      BY <2>5 DEF OnTrail, Trail, EntryPoints
    <3>1. PICK T : over = 0 /\ Trail(str, T) /\ low = T[k + 1]
      BY <2>3 DEF HashInv, OnTrail
    <3>2. Hop(low, c, T[(k + 1) + 1])
      BY <2>3, <2>4, <3>1 DEF Trail
    <3>3. low' = T[(k + 1) + 1] /\ d = 0
      BY <2>5, <2>11, <3>2 DEF Hop
    <3> QED BY <2>3, <2>12, <3>1, <3>3
  <2>16. Short'
    <3>1. PICK x \in 0..15, n \in 0..15 : Step(low, c) = y + 16 * (x - n)
      <4>1. PICK x \in 0..15 : XorNibble(y, t) = y + 16 * (x - ((y \div 16) % 16))
        BY Nibble
      <4>2. (y \div 16) % 16 \in 0..15
        OBVIOUS
      <4> QED BY <2>11, <4>1, <4>2 DEF Step
    <3>2. PICK z \in Nat : z = low' /\ z <= 16 * l + 495
      <4>1. Step(low, c) \in Nat
        BY <2>6, <2>8
      <4>2. y <= X
        BY <2>11
      <4>3. y + 16 * (x - n) <= 16 * l + 495
        BY <2>10, <4>2
      <4> QED BY <2>5, <3>1, <4>1, <4>3
    <3>3. l <= 34602975 => d = 0
      <4>1. X <= 553647855 => (X \div K28) \div 16 = 0
        BY SMT DEF K28
      <4> QED BY <2>10, <2>11, <4>1, SMT
    <3>4. /\ k = 0 => l <= 0
          /\ k = 1 => l <= 495
          /\ k = 2 => l <= 8415
          /\ k = 3 => l <= 135135
          /\ k = 4 => l <= 2162655
          /\ k = 5 => l <= 34602975
          /\ k <= 6 => over = 0
      BY <2>3, <2>9, SMT DEF HashInv, Short
    <3>5. /\ k + 1 = 1 => z <= 495
          /\ k + 1 = 2 => z <= 8415
          /\ k + 1 = 3 => z <= 135135
          /\ k + 1 = 4 => z <= 2162655
          /\ k + 1 = 5 => z <= 34602975
      BY <3>2, <3>4, SMT
    <3>6. k + 1 <= 6 => over' = 0
      BY <2>12, <3>3, <3>4, SMT
    <3>7. k + 1 # 0
      OBVIOUS
    <3> QED BY <2>3, <3>2, <3>5, <3>6, <3>7, SMT DEF Short
  <2> QED BY <2>13, <2>14, <2>15, <2>16 DEF HashInv
<1> QED BY <1>1, <1>2 DEF HashNext

\* The low 28 bits of elf_hash are those of the ABI's hash for every name, and the entry points of
\* the plugin, and the names of at most six characters, are looked up in the chain they were put
\* in, whatever the size of the table.
THEOREM HashIsSound == HashSpec => []HashSound
<1>1. HashInv => HashSound
  <2> SUFFICES ASSUME HashInv PROVE HashSound
    OBVIOUS
  <2>1. low \in Nat
    BY Widths DEF HashInv, HashTypeOK
  <2>2. BucketAgrees
    <3> SUFFICES ASSUME str \in EntryPoints \/ pos <= 6 PROVE \A n \in Buckets : LoaderBucket(n) = low % n
      BY DEF BucketAgrees
    <3>1. over = 0
      BY SMT DEF HashInv, OnTrail, Short
    <3> QED BY <2>1, <3>1, BucketIs
  <2> QED BY <2>2 DEF HashInv, HashSound
<1> QED BY <1>1, HashInitInv, HashNextInv, PTL DEF HashSpec
=============================================================================
