---------------------------- MODULE PlayerThread ----------------------------
(***************************************************************************)
(* The thread for videos of nswinviewr (the end of npnetstream.cpp), from  *)
(* player_initialize to player_cleanup.  The program queues no video: the  *)
(* one call of play_video (npnetstream.cpp:644) stands in an #if 0, so     *)
(* that _header is null for ever.  What is left of player_routine is a     *)
(* thread that waits for the end of the program, and what is left to go    *)
(* wrong is that end: h_quit is written without the lock, h_event is an    *)
(* auto-reset event, and the lock is deleted while the other thread may    *)
(* want it.                                                                *)
(*                                                                         *)
(* Each thread is modelled in steps, one from each call that may wait or   *)
(* be seen by the other thread (the lock, the event, the handle) to the    *)
(* next.                                                                   *)
(***************************************************************************)

VARIABLES
  lock,       \* owner of h_lock: "none", "player", or "deleted"
  event,      \* h_event is set
  h_quit,
  handle,     \* the thread's handle is open
  main, player  \* where the two threads are

queueVars == <<lock, event, h_quit, handle, main, player>>

\* player_initialize.
PlayerInit ==
  /\ lock = "none"
  /\ event = FALSE
  /\ h_quit = FALSE
  /\ handle = TRUE
  /\ main = "idle"
  /\ player = "enter"

-----------------------------------------------------------------------------
(* The window's thread: player_cleanup, after the last message.            *)

\* h_quit is set without the lock.
Cleanup ==
  /\ main = "idle"
  /\ h_quit' = TRUE
  /\ main' = "quitting"
  /\ UNCHANGED <<lock, event, handle, player>>

\* Mutant of QuitEvent: player_cleanup does not set the event.
QuitEventNot == event

\* h_event after player_cleanup's SetEvent.
QuitEvent == TRUE

QuitAnnounce ==
  /\ main = "quitting"
  /\ event' = QuitEvent
  /\ main' = "joining"
  /\ UNCHANGED <<lock, h_quit, handle, player>>

\* Mutant of Joined: the wait is given up.
JoinedAlways == TRUE

\* WaitForSingleObject returns: the thread has ended, or its handle is closed already, which
\* _endthread does when player_routine returns.
Joined == player = "ended" \/ ~handle

\* The rest of player_cleanup.  CloseHandle on a handle that is closed changes nothing.
DeleteLock ==
  /\ main = "joining" /\ Joined
  /\ lock' = "deleted"
  /\ main' = "done"
  /\ UNCHANGED <<event, h_quit, handle, player>>

-----------------------------------------------------------------------------
(* player_routine.                                                         *)

\* EnterCriticalSection, at the start and after a wait.
Enter ==
  /\ player = "enter" /\ lock = "none"
  /\ lock' = "player"
  /\ player' = "head"
  /\ UNCHANGED <<event, h_quit, handle, main>>

\* The head of the loop: there is no video, and the lock is left to wait for the event.
Empty ==
  /\ player = "head" /\ ~h_quit
  /\ lock' = "none"
  /\ player' = "wait"
  /\ UNCHANGED <<event, h_quit, handle, main>>

\* WaitForSingleObject(h_event): the event is reset.
Woken ==
  /\ player = "wait" /\ event
  /\ event' = FALSE
  /\ player' = "enter"
  /\ UNCHANGED <<lock, h_quit, handle, main>>

\* After h_quit there is nothing to free; the lock is left, and the routine returns.
Drain ==
  /\ player = "head" /\ h_quit
  /\ lock' = "none"
  /\ player' = "ended"
  /\ UNCHANGED <<event, h_quit, handle, main>>

\* _endthread closes the handle.
EndThread ==
  /\ player = "ended" /\ handle
  /\ handle' = FALSE
  /\ UNCHANGED <<lock, event, h_quit, main, player>>

-----------------------------------------------------------------------------
MainStep == QuitAnnounce \/ DeleteLock
PlayerStep == Enter \/ Empty \/ Woken \/ Drain \/ EndThread

PlayerNext == Cleanup \/ MainStep \/ PlayerStep

PlayerSpec == PlayerInit /\ [][PlayerNext]_queueVars

\* Both threads are scheduled.
FairPlayerSpec == PlayerSpec /\ WF_queueVars(MainStep) /\ WF_queueVars(PlayerStep)

-----------------------------------------------------------------------------
(* Properties.                                                             *)

\* Type invariant.
PlayerTypeOK ==
  /\ lock \in {"none", "player", "deleted"}
  /\ event \in BOOLEAN /\ h_quit \in BOOLEAN /\ handle \in BOOLEAN
  /\ main \in {"idle", "quitting", "joining", "done"}
  /\ player \in {"enter", "head", "wait", "ended"}

\* h_lock is deleted only when nothing of the player thread is left to enter or leave it.
DeletedLast == lock = "deleted" => player = "ended"

\* The wake-up for the end is not lost: when the player thread waits after h_quit was set, the
\* event is set or about to be.  It looks at h_quit before it waits, with the lock left in
\* between, and the event resets itself.
WakeUpDue == ~event /\ player = "wait" /\ h_quit => main = "quitting"

\* The end of the thread is sound: the lock is deleted after it, and it is told.
EndSound == PlayerTypeOK /\ DeletedLast /\ WakeUpDue

\* The end of the program does not hang: player_cleanup returns, wherever the thread was when
\* h_quit was set.
CleanupReturns == (main = "quitting") ~> (main = "done")
=============================================================================
