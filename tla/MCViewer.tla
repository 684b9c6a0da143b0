------------------------------ MODULE MCViewer ------------------------------
(* An instance of WinPlugin and one of PlayerThread in one run.  The two   *)
(* share no state and no object of the program, so a behaviour exercises   *)
(* one of them, and the other rests as it was initialised.                 *)
EXTENDS WinPlugin, PlayerThread

VARIABLE part  \* the component this behaviour exercises

Play(A) == part = "player" /\ A /\ UNCHANGED <<vars, part>>

ViewerInit == Init /\ PlayerInit /\ part \in {"windows", "player"}
ViewerNext == \/ part = "windows" /\ Next /\ UNCHANGED <<queueVars, part>>
              \/ Play(PlayerNext)
viewerVars == <<vars, queueVars, part>>

\* The fairness of PlayerThread.
ViewerSpec == /\ ViewerInit /\ [][ViewerNext]_viewerVars
              /\ WF_viewerVars(Play(MainStep)) /\ WF_viewerVars(Play(PlayerStep))
=============================================================================
