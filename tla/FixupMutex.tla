----------------------------- MODULE FixupMutex -----------------------------
(***************************************************************************)
(* The replacement of pthread_mutex_destroy for the Linux player           *)
(* (rtld_fixup.c).  The player destroys mutexes that are locked; FreeBSD   *)
(* refuses that, so a mutex that is busy is parked in a slot of the        *)
(* calling thread and destroyed the next time the thread finds a busy one. *)
(*                                                                         *)
(* A pthread_mutex_t of FreeBSD is a pointer to an object: parking copies  *)
(* the pointer.  A mutex made with attributes is recursive, one without    *)
(* is of FreeBSD's default kind, which refuses (EDEADLK) to be locked      *)
(* twice.  The steps of a thread in the replacement are its calls of the   *)
(* native functions, whose results it does not look at.                    *)
(***************************************************************************)
EXTENDS Integers, FiniteSets

CONSTANTS
  Threads,
  Objects,   \* addresses of mutex objects
  None,
  MaxDepth,  \* bound: how often a thread locks a mutex it holds
  MaxInits   \* bound: calls of pthread_mutex_init

ASSUME NoneAssumption == None \notin Objects /\ None \notin Threads
ASSUME BoundAssumption == MaxDepth \in Nat \ {0} /\ MaxInits \in Nat

VARIABLES
  alive,   \* objects that are allocated
  used,    \* objects of mutexes the player has not destroyed
  kind,    \* "recursive" or "errorcheck"
  owner,   \* thread that holds each object
  depth,   \* and how often
  parked,  \* leak_mutex_obj of each thread, None if leak_mutex_exist is 0
  pc,      \* where each thread is
  arg,     \* the mutex it destroys
  locks,   \* locks[t][o]: times t has locked o and not yet unlocked it, as the player sees it
  inits    \* calls of pthread_mutex_init so far

vars == <<alive, used, kind, owner, depth, parked, pc, arg, locks, inits>>

Init ==
  /\ alive = {} /\ used = {} /\ inits = 0
  /\ owner = [o \in Objects |-> None]
  /\ kind = [o \in Objects |-> "recursive"]
  /\ depth = [o \in Objects |-> 0]
  /\ locks = [t \in Threads |-> [o \in Objects |-> 0]]
  /\ parked = [t \in Threads |-> None]
  /\ pc = [t \in Threads |-> "player"]
  /\ arg = [t \in Threads |-> None]

-----------------------------------------------------------------------------
(* The native functions.                                                   *)

Held(o) == owner[o] # None

Acquire(t, o) ==
  /\ owner[o] \in {None, t}
  /\ owner' = [owner EXCEPT ![o] = t]
  /\ depth' = [depth EXCEPT ![o] = @ + 1]

ReleaseOne(t, o) ==
  /\ owner[o] = t
  /\ depth' = [depth EXCEPT ![o] = @ - 1]
  /\ owner' = [owner EXCEPT ![o] = IF depth[o] = 1 THEN None ELSE t]

-----------------------------------------------------------------------------
(* The player.                                                             *)

\* pthread_mutex_init_fixup: attributes, whatever they say, stand for recursive.  The memory of a
\* freed mutex is not used again as long as a thread believes it holds it.
InitMutex(t, o, attr) ==
  /\ pc[t] = "player" /\ o \notin alive /\ inits < MaxInits
  /\ \A u \in Threads : locks[u][o] = 0
  /\ inits' = inits + 1
  /\ alive' = alive \cup {o} /\ used' = used \cup {o}
  /\ kind' = [kind EXCEPT ![o] = IF attr THEN "recursive" ELSE "errorcheck"]
  /\ UNCHANGED <<owner, depth, parked, pc, arg, locks>>

Lock(t, o) ==
  /\ pc[t] = "player" /\ o \in used /\ locks[t][o] < MaxDepth
  /\ kind[o] = "errorcheck" => owner[o] # t
  /\ Acquire(t, o)
  /\ locks' = [locks EXCEPT ![t][o] = @ + 1]
  /\ UNCHANGED <<alive, used, kind, parked, pc, arg, inits>>

\* A mutex may be unlocked after it was destroyed.  If it is not t's any more, nothing happens.
Unlock(t, o) ==
  /\ pc[t] = "player" /\ locks[t][o] > 0
  /\ locks' = [locks EXCEPT ![t][o] = @ - 1]
  /\ IF owner[o] = t THEN ReleaseOne(t, o) ELSE UNCHANGED <<owner, depth>>
  /\ UNCHANGED <<alive, used, kind, parked, pc, arg, inits>>

\* The player destroys a mutex, once.
Destroy(t, o) ==
  /\ pc[t] = "player" /\ o \in used
  /\ used' = used \ {o}
  /\ IF Held(o)
     THEN pc' = [pc EXCEPT ![t] = "park"] /\ arg' = [arg EXCEPT ![t] = o] /\ UNCHANGED alive
     ELSE alive' = alive \ {o} /\ UNCHANGED <<pc, arg>>
  /\ UNCHANGED <<kind, owner, depth, parked, locks, inits>>

-----------------------------------------------------------------------------
(* The rest of pthread_mutex_destroy_fixup.                                *)

\* The mutex is parked, and the call returns.
Park(t) ==
  /\ pc[t] = "park" /\ parked[t] = None
  /\ parked' = [parked EXCEPT ![t] = arg[t]]
  /\ pc' = [pc EXCEPT ![t] = "player"]
  /\ arg' = [arg EXCEPT ![t] = None]
  /\ UNCHANGED <<alive, used, kind, owner, depth, locks, inits>>

\* The parked mutex can be destroyed.
SlotFree(o) == ~Held(o)

\* The slot of t is empty.
Emptied(t) == [parked EXCEPT ![t] = None]

\* Mutant of Reclaimed: the parked mutex is forgotten, not destroyed.
ReclaimedNot(o) == alive

\* The objects after the parked one is destroyed.
Reclaimed(o) == alive \ {o}

\* The mutex in the slot is destroyed, if it is free by now; else it is waited for.
Reclaim(t) ==
  /\ pc[t] = "park" /\ parked[t] # None
  /\ IF SlotFree(parked[t])
     THEN /\ alive' = Reclaimed(parked[t])
          /\ parked' = Emptied(t)
          /\ UNCHANGED pc
     ELSE pc' = [pc EXCEPT ![t] = "lock"] /\ UNCHANGED <<alive, parked>>
  /\ UNCHANGED <<used, kind, owner, depth, arg, locks, inits>>

\* pthread_mutex_lock: EDEADLK if the thread holds it and it is not recursive.
LockParked(t) ==
  /\ pc[t] = "lock"
  /\ IF kind[parked[t]] = "errorcheck" /\ owner[parked[t]] = t THEN UNCHANGED <<owner, depth>>
     ELSE Acquire(t, parked[t])
  /\ pc' = [pc EXCEPT ![t] = "unlock"]
  /\ UNCHANGED <<alive, used, kind, parked, arg, locks, inits>>

\* Mutant of ReleaseParked: the mutex that was waited for stays locked.
ReleaseParkedNot(t) == UNCHANGED <<owner, depth>>

\* pthread_mutex_unlock.
ReleaseParked(t) == ReleaseOne(t, parked[t])

UnlockParked(t) ==
  /\ pc[t] = "unlock"
  /\ ReleaseParked(t)
  /\ pc' = [pc EXCEPT ![t] = "park"]
  /\ UNCHANGED <<alive, used, kind, parked, arg, locks, inits>>

FixupStep(t) == Park(t) \/ Reclaim(t) \/ LockParked(t) \/ UnlockParked(t)

Next == \E t \in Threads :
          \/ \E o \in Objects, attr \in BOOLEAN : InitMutex(t, o, attr)
          \/ \E o \in Objects : Lock(t, o) \/ Unlock(t, o) \/ Destroy(t, o)
          \/ FixupStep(t)

Spec == Init /\ [][Next]_vars

\* Threads are scheduled, a lock is not withheld from a thread for ever, and the player unlocks
\* what it locked.
FairSpec == /\ Spec
            /\ \A t \in Threads : SF_vars(FixupStep(t))
            /\ \A t \in Threads : \A o \in Objects : WF_vars(Unlock(t, o))

-----------------------------------------------------------------------------
(* Properties.                                                             *)

\* Type invariant.
TypeOK ==
  /\ alive \in SUBSET Objects /\ used \in SUBSET Objects
  /\ kind \in [Objects -> {"recursive", "errorcheck"}]
  /\ owner \in [Objects -> Threads \cup {None}]
  /\ depth \in [Objects -> 0..(MaxDepth + 1)]
  /\ parked \in [Threads -> Objects \cup {None}]
  /\ pc \in [Threads -> {"player", "park", "lock", "unlock"}]
  /\ arg \in [Threads -> Objects \cup {None}]
  /\ locks \in [Threads -> [Objects -> 0..MaxDepth]]
  /\ inits \in 0..MaxInits

\* No freed mutex is touched: what the player uses or has locked, what is parked and what is about
\* to be parked are allocated, and a recursive mutex stays with the thread that locked it.  (One of
\* the default kind that its own thread has parked is unlocked by the thread's next destroy, after
\* the EDEADLK: its memory is freed while the player believes it locked.)
NoneFreedInUse ==
  /\ used \subseteq alive
  /\ \A t \in Threads, o \in Objects :
       (locks[t][o] > 0 /\ kind[o] = "recursive") => o \in alive /\ owner[o] = t
  /\ \A t \in Threads : parked[t] \in alive \cup {None} /\ arg[t] \in alive \cup {None}

\* Every mutex the player has destroyed is freed or waits to be, in the slot or the hands of
\* exactly one thread: nothing is lost, and nothing is destroyed twice.
KeptByOne ==
  \A o \in alive \ used :
    Cardinality({t \in Threads : parked[t] = o}) + Cardinality({t \in Threads : arg[t] = o}) = 1

\* At most one busy mutex per thread survives the player's destroy.
BoundedLeak ==
  (\A t \in Threads : pc[t] = "player") => Cardinality(alive \ used) <= Cardinality(Threads)

\* Nothing stays locked on behalf of the replacement: whoever holds a mutex has locked it as the
\* player and will unlock it, or is between the two calls of the replacement.  A destroy that waits
\* for a parked mutex waits for the player only.
HeldAsLocked ==
  \A t \in Threads, o \in Objects :
    owner[o] = t => locks[t][o] > 0 \/ (pc[t] = "unlock" /\ parked[t] = o)

\* The bookkeeping of destroyed mutexes is sound.
MutexSound == TypeOK /\ NoneFreedInUse /\ KeptByOne /\ BoundedLeak /\ HeldAsLocked

\* t is in a deadlock: each thread of some set that t is in waits for its parked mutex, which one
\* of the set holds as the player (and a thread that has a recursive one itself goes round the
\* loop for ever, locking and unlocking it).
Stuck(t) ==
  \E W \in SUBSET Threads :
    /\ t \in W
    /\ \A u \in W :
         /\ pc[u] # "player" /\ parked[u] # None
         /\ \E v \in W : /\ owner[parked[u]] = v /\ locks[v][parked[u]] > 0
                         /\ v # u \/ kind[parked[u]] = "recursive"

\* pthread_mutex_destroy returns, unless the threads that are in it hold each other's parked
\* mutexes, or one its own: that is the only way it can hang.
DestroyReturns == \A t \in Threads : pc[t] # "player" ~> (pc[t] = "player" \/ Stuck(t))
=============================================================================
