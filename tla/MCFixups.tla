------------------------------ MODULE MCFixups ------------------------------
(* An instance of FixupMutex and one of FixupSockets in one run.  The two  *)
(* share no state, so a behaviour exercises one of them, and the other     *)
(* rests as it was initialised.                                            *)
EXTENDS FixupMutex, FixupSockets

VARIABLE part  \* the component this behaviour exercises

OnMutexes(A) == part = "mutexes" /\ A /\ UNCHANGED <<socketVars, part>>

FixupsInit == Init /\ SocketInit /\ part \in {"mutexes", "sockets"}
FixupsNext == \/ OnMutexes(Next)
              \/ part = "sockets" /\ SocketNext /\ UNCHANGED <<vars, part>>
fixupsVars == <<vars, socketVars, part>>

\* The fairness of FixupMutex.
FixupsSpec ==
  /\ FixupsInit /\ [][FixupsNext]_fixupsVars
  /\ \A t \in Threads : SF_fixupsVars(OnMutexes(FixupStep(t)))
  /\ \A t \in Threads : \A o \in Objects : WF_fixupsVars(OnMutexes(Unlock(t, o)))
=============================================================================
