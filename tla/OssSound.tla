------------------------------ MODULE OssSound ------------------------------
(***************************************************************************)
(* The OSS sound output of rtld-npp/flashsupport.c: FPX_SoundOutput_Open   *)
(* makes an instance and a thread that fills a buffer and writes it to     *)
(* /dev/dsp; FPX_SoundOutput_Close stops the thread, waits for it and      *)
(* frees the instance the thread works on.                                 *)
(*                                                                         *)
(* The player's thread (the owner) and the sound threads are interleaved   *)
(* at every system call and at every access to an instance.  Instances,    *)
(* descriptors and threads have addresses and numbers that are used again. *)
(* FPX_SoundOutput_Latency reads one field of an instance the player       *)
(* holds, and changes nothing.                                             *)
(***************************************************************************)
EXTENDS Integers, FiniteSets

CONSTANTS Instances,    \* addresses FPI_Mem_Alloc may return
          Fds,          \* descriptors open("/dev/dsp") may return (never 0, which Close would
                        \* take for none: standard input is open)
          Threads,      \* thread identities
          BufLen,       \* units in the buffer a thread writes
          Null          \* no thread, no descriptor (the instance is zeroed)

ASSUME NullAssumption == Null \notin Instances \cup Fds \cup Threads
ASSUME BufAssumption == BufLen \in Nat \ {0}

VARIABLES
  alloc,        \* instances allocated
  oss_fd, thread, signal,   \* their fields
  fds,          \* descriptors of /dev/dsp that are open
  held,         \* instances the player was given and has not closed
  pc, cur,      \* the owner: where it is, in a call for which instance
  tpc, ptr, len,    \* each sound thread: where it is, its instance, what is left to write
  late          \* history: writes begun since Close set signal, counted up to LateCap

instVars == <<alloc, oss_fd, thread, signal>>
ownerVars == <<held, pc, cur>>
threadVars == <<tpc, ptr, len>>
vars == <<instVars, fds, ownerVars, threadVars, late>>

LateCap == 2

Init ==
  /\ alloc = {}
  /\ oss_fd = [i \in Instances |-> Null]
  /\ thread = [i \in Instances |-> Null]
  /\ signal = [i \in Instances |-> FALSE]
  /\ fds = {}
  /\ held = {}
  /\ pc = "idle" /\ cur = Null
  /\ tpc = [t \in Threads |-> "none"]
  /\ ptr = [t \in Threads |-> Null]
  /\ len = [t \in Threads |-> 0]
  /\ late = [i \in Instances |-> 0]

-----------------------------------------------------------------------------
(* FPX_SoundOutput_Open.                                                   *)

\* FPI_Mem_Alloc and memset.
Open(i) ==
  /\ pc = "idle" /\ i \notin alloc
  /\ alloc' = alloc \cup {i}
  /\ oss_fd' = [oss_fd EXCEPT ![i] = Null]
  /\ thread' = [thread EXCEPT ![i] = Null]
  /\ signal' = [signal EXCEPT ![i] = FALSE]
  /\ late' = [late EXCEPT ![i] = 0]
  /\ pc' = "open" /\ cur' = i
  /\ UNCHANGED <<fds, held, threadVars>>

\* fail: the instance is freed; a descriptor that was opened stays open.
AfterFail == alloc \ {cur}

Fail == alloc' = AfterFail /\ pc' = "idle" /\ cur' = Null

OpenDevice(f) ==
  /\ pc = "open" /\ f \notin fds
  /\ fds' = fds \cup {f}
  /\ oss_fd' = [oss_fd EXCEPT ![cur] = f]
  /\ pc' = "ioctl"
  /\ UNCHANGED <<alloc, thread, signal, held, cur, threadVars, late>>

\* The device is missing or busy.
OpenDeviceFails ==
  /\ pc = "open"
  /\ Fail
  /\ UNCHANGED <<oss_fd, thread, signal, fds, held, threadVars, late>>

\* The three ioctls that set format, channels and speed.
Configure(ok) ==
  /\ pc = "ioctl"
  /\ IF ok THEN pc' = "create" /\ UNCHANGED <<alloc, cur>> ELSE Fail
  /\ UNCHANGED <<oss_fd, thread, signal, fds, held, threadVars, late>>

\* pthread_create answers an error with a positive number, so the instance is returned
\* whether or not there is a thread (t is Null if not).
CreateThread(t) ==
  /\ pc = "create"
  /\ t # Null => tpc[t] = "none"
  /\ thread' = [thread EXCEPT ![cur] = t]
  /\ tpc' = [u \in Threads |-> IF u = t THEN "fill" ELSE tpc[u]]
  /\ ptr' = [u \in Threads |-> IF u = t THEN cur ELSE ptr[u]]
  /\ held' = held \cup {cur}
  /\ pc' = "idle" /\ cur' = Null
  /\ UNCHANGED <<alloc, oss_fd, signal, fds, len, late>>

-----------------------------------------------------------------------------
(* FPX_SoundOutput_Close.                                                  *)

SetSignal(i) ==
  /\ pc = "idle" /\ i \in held
  /\ held' = held \ {i}
  /\ signal' = [signal EXCEPT ![i] = TRUE]
  /\ pc' = "reset" /\ cur' = i
  /\ UNCHANGED <<alloc, oss_fd, thread, fds, threadVars, late>>

\* SNDCTL_DSP_RESET: what the device holds is dropped.
Reset ==
  /\ pc = "reset"
  /\ pc' = "join"
  /\ UNCHANGED <<instVars, fds, held, cur, threadVars, late>>

\* Mutant of Joinable: the thread is detached.
JoinableAlways(t) == TRUE

\* pthread_join returns, at once if there is no thread.
Joinable(t) == t # Null => tpc[t] = "exited"

Join ==
  /\ pc = "join"
  /\ Joinable(thread[cur])
  /\ tpc' = [t \in Threads |-> IF t = thread[cur] /\ tpc[t] = "exited" THEN "none" ELSE tpc[t]]
  /\ pc' = "close"
  /\ UNCHANGED <<instVars, fds, held, cur, ptr, len, late>>

CloseDevice ==
  /\ pc = "close"
  /\ fds' = fds \ {oss_fd[cur]}
  /\ pc' = "free"
  /\ UNCHANGED <<instVars, held, cur, threadVars, late>>

Free ==
  /\ pc = "free"
  /\ alloc' = alloc \ {cur}
  /\ pc' = "idle" /\ cur' = Null
  /\ UNCHANGED <<oss_fd, thread, signal, fds, held, threadVars, late>>

-----------------------------------------------------------------------------
(* oss_thread.                                                             *)

\* FPI_SoundOutput_FillBuffer returns.
Fill(t) ==
  /\ tpc[t] = "fill"
  /\ tpc' = [tpc EXCEPT ![t] = "write"]
  /\ len' = [len EXCEPT ![t] = BufLen]
  /\ UNCHANGED <<instVars, fds, ownerVars, ptr, late>>

\* The thread enters write(instance->oss_fd, ...).
EnterWrite(t) ==
  /\ tpc[t] = "write"
  /\ tpc' = [tpc EXCEPT ![t] = "writing"]
  /\ late' = [late EXCEPT ![ptr[t]] = IF signal[ptr[t]] /\ @ < LateCap THEN @ + 1 ELSE @]
  /\ UNCHANGED <<instVars, fds, ownerVars, ptr, len>>

\* How many units one write may take.
WriteCounts(t) == 0..len[t]

\* write returns n, or -1.
WriteReturns(t, n) ==
  /\ tpc[t] = "writing"
  /\ n \in WriteCounts(t) \cup {-1}
  /\ len' = [len EXCEPT ![t] = IF n >= 0 THEN @ - n ELSE @]
  /\ tpc' = [tpc EXCEPT ![t] = IF n >= 0 THEN "check" ELSE "check_error"]
  /\ UNCHANGED <<instVars, fds, ownerVars, ptr, late>>

\* Mutant of Stops: signal is looked at when the buffer is empty only.
StopsWhenEmpty(t) == signal[ptr[t]] /\ len[t] = 0

\* Mutant of Stops: signal is looked at after a write that succeeded only.
StopsUnlessError(t) == signal[ptr[t]] /\ tpc[t] = "check"

\* if ( instance->signal ) pthread_exit(0)
Stops(t) == signal[ptr[t]]

\* Between two writes; after an error usleep(100) and the same write again.
CheckSignal(t) ==
  /\ tpc[t] \in {"check", "check_error"}
  /\ tpc' = [tpc EXCEPT ![t] = IF Stops(t) THEN "exited"
                               ELSE IF len[t] = 0 THEN "fill" ELSE "write"]
  /\ UNCHANGED <<instVars, fds, ownerVars, ptr, len, late>>

-----------------------------------------------------------------------------
OpenSteps == \/ \E i \in Instances : Open(i)
             \/ \E f \in Fds : OpenDevice(f)
             \/ OpenDeviceFails
             \/ \E ok \in BOOLEAN : Configure(ok)
             \/ \E t \in Threads \cup {Null} : CreateThread(t)
CloseSteps == Reset \/ Join \/ CloseDevice \/ Free
SoundThread(t) == \/ Fill(t) \/ EnterWrite(t)
                  \/ \E n \in -1..BufLen : WriteReturns(t, n)
                  \/ CheckSignal(t)

Next == \/ OpenSteps
        \/ \E i \in Instances : SetSignal(i)
        \/ CloseSteps
        \/ \E t \in Threads : SoundThread(t)

Spec == Init /\ [][Next]_vars

\* Both threads are scheduled; FillBuffer returns, and so does every write: the device plays
\* what it is given or reports an error.  No write has to succeed.
FairSpec == Spec /\ WF_vars(CloseSteps) /\ \A t \in Threads : WF_vars(SoundThread(t))

-----------------------------------------------------------------------------
(* Properties.                                                             *)

Running(t) == tpc[t] \notin {"none", "exited"}
InOpen == {"open", "ioctl", "create"}
InClose == {"reset", "join", "close", "free"}
TPcValues == {"none", "fill", "write", "writing", "check", "check_error", "exited"}

TypeOK ==
  /\ alloc \subseteq Instances
  /\ oss_fd \in [Instances -> Fds \cup {Null}]
  /\ thread \in [Instances -> Threads \cup {Null}]
  /\ signal \in [Instances -> BOOLEAN]
  /\ fds \subseteq Fds
  /\ held \subseteq alloc
  /\ pc \in {"idle"} \cup InOpen \cup InClose
  /\ cur \in Instances \cup {Null}
  /\ tpc \in [Threads -> TPcValues]
  /\ ptr \in [Threads -> Instances \cup {Null}]
  /\ len \in [Threads -> 0..BufLen]
  /\ late \in [Instances -> 0..LateCap]

\* A sound thread only ever works on an instance that is allocated and its own, and writes to
\* a descriptor that is open and is no other instance's, although Close frees the one and
\* closes the other (oss_thread against FPX_SoundOutput_Close).
ThreadOwnsInstance ==
  \A t \in Threads : Running(t) =>
    LET i == ptr[t]
    IN /\ i \in alloc /\ thread[i] = t
       /\ oss_fd[i] \in fds
       /\ \A j \in alloc \ {i} : oss_fd[j] # oss_fd[i]

\* Nothing is lost between the player and the library: what is allocated is what the player
\* holds, and the instance of the call it is in.
InstancesOwned ==
  alloc = held \cup (IF pc = "idle" THEN {} ELSE {cur})

\* A sound thread runs for as long as the player has its instance, whatever errors the device
\* answers, and no longer: Close waits for a thread that was told to stop, and that nobody has
\* joined before (oss_thread's pthread_exit against FPX_SoundOutput_Close).
StopsForClose ==
  /\ \A i \in held : thread[i] # Null => Running(thread[i]) /\ ptr[thread[i]] = i
  /\ pc \in {"reset", "join"} =>
       signal[cur] /\ (thread[cur] # Null => tpc[thread[cur]] # "none" /\ ptr[thread[cur]] = cur)

\* All of these: nobody uses an instance that was freed, none is lost, and none falls silent.
InstancesSound == TypeOK /\ ThreadOwnsInstance /\ InstancesOwned /\ StopsForClose

\* Once Close has set signal, the thread starts at most one more write: the sound stops.
AtMostOneLateWrite == \A i \in Instances : late[i] <= 1

\* Close returns, even if no write to the device ever succeeds again.
CloseReturns == \A i \in Instances : (pc \in InClose /\ cur = i) ~> (pc = "idle")

-----------------------------------------------------------------------------
(* The inductive invariant of OssSound_proofs.                             *)

\* The instances that have the device open, and those whose thread was not joined.
HasDevice(i) == i \in held \/ (i = cur /\ pc \in {"ioctl", "create", "reset", "join", "close"})
HasThread(i) == i \in held \/ (i = cur /\ pc \in {"reset", "join"})

\* The owner is in one call, for an instance the player does not hold.
OwnerOK ==
  /\ InstancesOwned
  /\ IF pc = "idle" THEN cur = Null ELSE cur \in Instances \ held
  /\ pc = "open" => oss_fd[cur] = Null

DeviceOK ==
  \A i \in alloc : HasDevice(i) =>
    oss_fd[i] \in fds /\ \A j \in alloc \ {i} : oss_fd[j] # oss_fd[i]

\* A thread that was not joined works on the instance that names it, and that is not yet
\* past the join of its Close.
ThreadOK ==
  \A t \in Threads : tpc[t] # "none" =>
    ptr[t] \in alloc /\ HasThread(ptr[t]) /\ thread[ptr[t]] = t

\* signal is set in Close and nowhere else, a thread ends when it has seen it, and a thread
\* that was made is there until it is joined.
SignalOK ==
  /\ \A i \in alloc : signal[i] <=> i \notin held /\ pc \in InClose
  /\ \A t \in Threads : tpc[t] = "exited" => signal[ptr[t]]
  /\ \A i \in alloc : HasThread(i) /\ thread[i] # Null =>
       tpc[thread[i]] # "none" /\ ptr[thread[i]] = i

\* No write is late before signal is set, and a thread with a late write behind it starts none.
LateOK ==
  /\ \A i \in Instances : late[i] \in {0, 1} /\ (~signal[i] => late[i] = 0)
  /\ pc \in InOpen => late[cur] = 0
  /\ \A t \in Threads : tpc[t] \in {"fill", "write"} => late[ptr[t]] = 0

IndInv == TypeOK /\ OwnerOK /\ DeviceOK /\ ThreadOK /\ SignalOK /\ LateOK
=============================================================================
