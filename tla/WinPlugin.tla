----------------------------- MODULE WinPlugin -----------------------------
(***************************************************************************)
(* Plugin instances of nswinviewr and their windows (npplugin.cpp,         *)
(* shell.cpp, NPPluginExec and NPPluginShutdown of netscape.cpp, and the   *)
(* instance calls of rpcvm.cpp).  The viewer's own instance, Viewer, draws *)
(* into the program's window, Main; each instance that an RPC client makes *)
(* gets a window of its own.  A window's long (SetWindowLong) is the       *)
(* instance its messages go to.                                            *)
(*                                                                         *)
(* All of it is one thread.  If the player pumps messages in newp and      *)
(* destroy, window messages are handled in the middle of these calls.      *)
(* A window has one child, the embed window, that exists as long as it.    *)
(***************************************************************************)
EXTENDS Integers, FiniteSets

CONSTANTS Plugins,  \* addresses of the instances RPC clients make, each used once
          Viewer,   \* and of the viewer's own
          Windows,  \* windows made for instances
          Main,     \* the program's window, __netscape_hwnd
          Null,
          Pumps     \* the player pumps messages in newp and destroy

ASSUME NameAssumption == Viewer \notin Plugins /\ Main \notin Windows /\ Null \notin Plugins \cup Windows \cup {Viewer, Main}
ASSUME PumpAssumption == Pumps \in BOOLEAN

AllPlugins == Plugins \cup {Viewer}
AllWindows == Windows \cup {Main}

VARIABLES
  memory,    \* of each instance: "none", "allocated", "deleted"
  m_flags, m_parent,
  m_embed,   \* m_embed is not NULL
  listed,    \* __plugin_instance_list
  exists,    \* windows that exist
  long,      \* the instance each window belongs to
  told,      \* last argument of setwindow, a window or Null, and whether it existed then
  late,      \* instances setwindow was called for after their destroy
  new,       \* what newp came to: "none", "called", "ok", "refused"
  destroyed, \* how often destroy was called
  busy,      \* <<call, instance>> while the player is in newp or destroy
  pc,        \* "start", "exec", "loop", "shutdown", "end", or "assert"
  left       \* instances NPPluginShutdown has yet to come to

objectVars == <<memory, m_flags, m_parent, m_embed>>
windowVars == <<exists, long>>
playerVars == <<told, late, new, destroyed>>
vars == <<objectVars, listed, windowVars, playerVars, busy, pc, left>>

Idle == <<"none", Null>>

\* WinMain before NPPluginExec: the program's window was made, its long set to 0.
Init ==
  /\ memory = [p \in AllPlugins |-> "none"]
  /\ m_flags = [p \in AllPlugins |-> {}]
  /\ m_parent = [p \in AllPlugins |-> Null]
  /\ m_embed = [p \in AllPlugins |-> FALSE]
  /\ listed = {}
  /\ exists = {Main}
  /\ long = [w \in AllWindows |-> Null]
  /\ told = [p \in AllPlugins |-> [window |-> Null, there |-> TRUE]]
  /\ late = {}
  /\ new = [p \in AllPlugins |-> "none"]
  /\ destroyed = [p \in AllPlugins |-> 0]
  /\ busy = Idle
  /\ pc = "start"
  /\ left = {}

-----------------------------------------------------------------------------
(* NPPlugin.                                                               *)

\* The constructor.
Construct(p, hWnd) ==
  /\ memory[p] = "none"
  /\ memory' = [memory EXCEPT ![p] = "allocated"]
  /\ m_parent' = [m_parent EXCEPT ![p] = hWnd]
  /\ new' = [new EXCEPT ![p] = "called"]
  /\ UNCHANGED <<m_flags, m_embed, told, late, destroyed>>

\* Mutant of Owns: the window is not destroyed with its instance.
OwnsNot(p) == FALSE

\* The destructor destroys the window that was made and is still there.
Owns(p) == "inited" \in m_flags[p] /\ "detach" \notin m_flags[p]

\* delete; DestroyWindow sends WM_DESTROY, which comes to DetachWindow of the same instance.
Delete(p) ==
  /\ memory' = [memory EXCEPT ![p] = "deleted"]
  /\ exists' = IF Owns(p) THEN exists \ {m_parent[p]} ELSE exists
  /\ m_flags' = IF Owns(p) THEN [m_flags EXCEPT ![p] = @ \cup {"detach"}] ELSE m_flags
  /\ m_embed' = IF Owns(p) THEN [m_embed EXCEPT ![p] = FALSE] ELSE m_embed
  /\ UNCHANGED <<m_parent, long>>

\* NPGeckoWindowNew: a new parent unless there is one, and the child.  The messages that CreateWindow
\* and ShowWindow send come while the long of a new window is still 0.  No child can be made in a
\* parent that is gone.
GeckoWindowNew(p) ==
  \E w \in IF m_parent[p] # Null THEN {m_parent[p]}
           ELSE {v \in Windows : \A q \in AllPlugins : m_parent[q] # v} :
    /\ m_flags' = [m_flags EXCEPT ![p] = @ \cup {"inited"}]
    /\ m_parent' = [m_parent EXCEPT ![p] = w]
    /\ IF w = Main /\ Main \notin exists
       THEN UNCHANGED <<m_embed, windowVars>>
       ELSE /\ m_embed' = [m_embed EXCEPT ![p] = TRUE]
            /\ exists' = exists \cup {w}
            /\ long' = [long EXCEPT ![w] = p]

\* SetWindow gives the player a window, and not NULL.
Shows(p) == "detach" \notin m_flags[p]

\* The assertion of SetWindow, after the window was made.
SetAsserts(p) == Shows(p) => m_embed'[p]

\* The player's setwindow.
Tell(p, w) ==
  /\ told' = [told EXCEPT ![p] = [window |-> w, there |-> w \in exists' \cup {Null}]]
  /\ late' = IF destroyed[p] > 0 THEN late \cup {p} ELSE late

SetWindow(p) ==
  /\ IF "inited" \in m_flags[p] THEN UNCHANGED <<m_flags, m_parent, m_embed, windowVars>>
     ELSE GeckoWindowNew(p)
  /\ IF SetAsserts(p) THEN Tell(p, IF Shows(p) THEN m_parent'[p] ELSE Null)
     ELSE UNCHANGED <<told, late>>
  /\ UNCHANGED <<memory, new, destroyed>>

\* m_flags after DetachWindow.
Detached(p) == IF "inited" \in m_flags[p] THEN [m_flags EXCEPT ![p] = @ \cup {"detach"}] ELSE m_flags

DetachWindow(p) ==
  /\ m_flags' = Detached(p)
  /\ m_embed' = IF "inited" \in m_flags[p] THEN [m_embed EXCEPT ![p] = FALSE] ELSE m_embed

\* m_flags after AttachWindow, a toggle.
Attached(p) ==
  IF m_embed[p]
  THEN [m_flags EXCEPT ![p] = IF "attach" \in @ THEN @ \ {"attach"} ELSE @ \cup {"attach"}]
  ELSE m_flags

\* Resize talks to the player.
Resizes(p) == "attach" \in m_flags[p] /\ "detach" \notin m_flags[p]

\* Window messages come in the message loop, and in newp and destroy if the player pumps messages.
MayReceive ==
  \/ pc = "loop" /\ busy = Idle
  \/ Pumps /\ busy # Idle /\ pc \in {"exec", "loop", "shutdown"}

-----------------------------------------------------------------------------
(* Window messages.                                                        *)

\* WM_SIZE: Resize of the instance, which has made its window: the long was set when it was made.
Size(w) ==
  /\ MayReceive /\ w \in exists
  /\ UNCHANGED windowVars
  /\ LET p == long[w] IN
     /\ p # Null /\ Resizes(p)
     /\ IF m_embed[p] THEN Tell(p, w) /\ UNCHANGED pc
        ELSE pc' = "assert" /\ UNCHANGED <<told, late>>
  /\ UNCHANGED <<objectVars, listed, new, destroyed, busy, left>>

\* WM_COMMAND IDM_ABOUT: AttachWindow, which shows the child or hides it.
About(w) ==
  /\ MayReceive /\ w \in exists
  /\ long[w] # Null
  /\ m_flags' = Attached(long[w])
  /\ UNCHANGED <<memory, m_parent, m_embed, listed, windowVars, playerVars, busy, pc, left>>

\* IDM_EXIT, or the user closes the window: WM_DESTROY.
Close(w) ==
  /\ MayReceive /\ w \in exists
  /\ IF long[w] # Null THEN DetachWindow(long[w]) ELSE UNCHANGED <<m_flags, m_embed>>
  /\ exists' = exists \ {w}
  /\ UNCHANGED <<memory, m_parent, listed, long, playerVars, busy, pc, left>>

-----------------------------------------------------------------------------
(* rpc_call: the messages of the RPC connections come to the program's     *)
(* window, outside other calls (rpc_dispatch asserts it).                  *)

MayCall == pc = "loop" /\ busy = Idle /\ Main \in exists

\* NPP_New up to newp.
RpcNew(p) ==
  /\ MayCall
  /\ Construct(p, Null)
  /\ busy' = <<"new", p>>
  /\ UNCHANGED <<listed, windowVars, pc, left>>

\* NPP_New after newp.
RpcNewEnd(p, ok) ==
  /\ pc = "loop" /\ busy = <<"new", p>>
  /\ new' = [new EXCEPT ![p] = IF ok THEN "ok" ELSE "refused"]
  /\ IF ok THEN listed' = listed \cup {p} /\ UNCHANGED <<objectVars, windowVars>>
     ELSE Delete(p) /\ UNCHANGED listed
  /\ busy' = Idle
  /\ UNCHANGED <<told, late, destroyed, pc, left>>

\* An instance a client has.
Known(p) == memory[p] = "allocated" /\ new[p] = "ok"

\* NPP_SetWindow.
RpcSetWindow(p) ==
  /\ MayCall /\ Known(p)
  /\ SetWindow(p)
  /\ pc' = IF SetAsserts(p) THEN pc ELSE "assert"
  /\ UNCHANGED <<listed, busy, left>>

Destroy(p) == destroyed' = [destroyed EXCEPT ![p] = @ + 1]

\* NPP_Destroy up to destroy.
RpcDestroy(p) ==
  /\ MayCall /\ Known(p)
  /\ Destroy(p)
  /\ busy' = <<"destroy", p>>
  /\ UNCHANGED <<objectVars, listed, windowVars, told, late, new, pc, left>>

\* Mutant of Unlisted: the instance stays in the list.
UnlistedNot(p) == listed

\* The list after NPP_Destroy.
Unlisted(p) == listed \ {p}

\* NPP_Destroy after destroy.
RpcDestroyEnd(p) ==
  /\ pc = "loop" /\ busy = <<"destroy", p>>
  /\ listed' = Unlisted(p)
  /\ Delete(p)
  /\ busy' = Idle
  /\ UNCHANGED <<playerVars, pc, left>>

-----------------------------------------------------------------------------
(* WinMain.                                                                *)

\* NPPluginExec without a URL.
NoUrl ==
  /\ pc = "start" /\ pc' = "loop"
  /\ UNCHANGED <<objectVars, listed, windowVars, playerVars, busy, left>>

\* NPPluginExec up to newp.
Exec ==
  /\ pc = "start" /\ pc' = "exec"
  /\ Construct(Viewer, Main)
  /\ listed' = listed \cup {Viewer}
  /\ busy' = <<"new", Viewer>>
  /\ UNCHANGED <<windowVars, left>>

\* SetWindow and AttachWindow of NPPluginExec, which does not look at what newp answered.
ExecEnd(ok) ==
  /\ pc = "exec"
  /\ UNCHANGED exists
  /\ LET w == m_parent[Viewer] IN
     IF w \in exists
     THEN /\ m_flags' = [m_flags EXCEPT ![Viewer] = {"inited", "attach"}]
          /\ m_embed' = [m_embed EXCEPT ![Viewer] = TRUE]
          /\ long' = [long EXCEPT ![w] = Viewer]
          /\ Tell(Viewer, w)
          /\ pc' = "loop"
     ELSE pc' = "assert" /\ UNCHANGED <<m_flags, m_embed, long, told, late>>
  /\ new' = [new EXCEPT ![Viewer] = IF ok THEN "ok" ELSE "refused"]
  /\ busy' = Idle
  /\ UNCHANGED <<memory, m_parent, listed, destroyed, left>>

\* WM_QUIT ends the message loop; NPPluginShutdown begins.
Quit ==
  /\ pc = "loop" /\ busy = Idle /\ Main \notin exists
  /\ pc' = "shutdown"
  /\ left' = listed
  /\ UNCHANGED <<objectVars, listed, windowVars, playerVars, busy>>

\* One instance of the list is destroyed; none is deleted or taken off.
ShutdownOne(p) ==
  /\ pc = "shutdown" /\ p \in left
  /\ Destroy(p)
  /\ busy' = <<"shutdown", p>>
  /\ left' = left \ {p}
  /\ UNCHANGED <<objectVars, listed, windowVars, told, late, new, pc>>

\* WP_Shutdown, after the last one.
Shutdown ==
  /\ pc = "shutdown" /\ left = {}
  /\ pc' = "end" /\ busy' = Idle
  /\ UNCHANGED <<objectVars, listed, windowVars, playerVars, left>>

Next ==
  \/ \E w \in AllWindows : Size(w) \/ About(w) \/ Close(w)
  \/ \E p \in Plugins : \/ RpcNew(p) \/ RpcSetWindow(p) \/ RpcDestroy(p) \/ RpcDestroyEnd(p)
                        \/ \E ok \in BOOLEAN : RpcNewEnd(p, ok)
  \/ NoUrl \/ Exec
  \/ \E ok \in BOOLEAN : ExecEnd(ok)
  \/ Quit \/ Shutdown
  \/ \E p \in AllPlugins : ShutdownOne(p)

Spec == Init /\ [][Next]_vars

-----------------------------------------------------------------------------
(* Properties.                                                             *)

\* Type invariant.
TypeOK ==
  /\ memory \in [AllPlugins -> {"none", "allocated", "deleted"}]
  /\ m_flags \in [AllPlugins -> SUBSET {"inited", "attach", "detach"}]
  /\ m_parent \in [AllPlugins -> AllWindows \cup {Null}]
  /\ m_embed \in [AllPlugins -> BOOLEAN]
  /\ listed \in SUBSET AllPlugins /\ left \in SUBSET listed
  /\ exists \in SUBSET AllWindows
  /\ long \in [AllWindows -> AllPlugins \cup {Null}]
  /\ told \in [AllPlugins -> [window : AllWindows \cup {Null}, there : BOOLEAN]]
  /\ late \in SUBSET AllPlugins
  /\ new \in [AllPlugins -> {"none", "called", "ok", "refused"}]
  /\ destroyed \in [AllPlugins -> 0..1]
  /\ pc \in {"start", "exec", "loop", "shutdown", "end", "assert"}

\* A message to a window that exists finds an instance that exists and whose window it is, also
\* after the instance was deleted and when its window was closed in the middle of a call.
LongSound ==
  \A w \in exists : long[w] # Null =>
    /\ memory[long[w]] = "allocated"
    /\ m_parent[long[w]] = w /\ m_embed[long[w]] /\ "detach" \notin m_flags[long[w]]

\* The list NPPluginShutdown goes through has no deleted instance.
ListSound == \A p \in listed : memory[p] = "allocated"

\* By the end of the program the player's destroy was called once for each instance its newp made,
\* whether a client destroyed it or left it behind, and never for one a client's NPP_New lost.
DestroyedOnce ==
  pc = "end" =>
    /\ \A p \in AllPlugins : new[p] = "ok" => destroyed[p] = 1
    /\ \A p \in Plugins : new[p] = "refused" => destroyed[p] = 0

\* setwindow is called with a window only while that window exists.
GivenWindowExists == \A p \in AllPlugins : told[p].there

\* The windows are sound: what messages, the list of instances and the player are led to exists.
WindowsSound == TypeOK /\ LongSound /\ ListSound /\ GivenWindowExists

\* The assertions on m_embed and m_parent in SetWindow and Resize hold, if the player does not pump
\* messages: the program's window cannot be closed between the call of newp and SetWindow.
AssertionsHold == pc # "assert"

\* After its destroy the player is not called for an instance any more, if it does not pump messages
\* in its calls.
NoCallAfterDestroy == late = {}
=============================================================================
