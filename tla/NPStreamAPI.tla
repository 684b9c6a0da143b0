---------------------------- MODULE NPStreamAPI ----------------------------
(***************************************************************************)
(* What the browser side of NPAPI promises a plugin about one URL request: *)
(* which of newstream, write, destroystream and urlnotify it calls, in     *)
(* which order.  A request is "pending" from the moment the plugin asks    *)
(* for the URL; a newstream that succeeds leaves it "open"; an open stream *)
(* is written at increasing offsets without holes, and destroyed once;     *)
(* urlnotify comes last, after destroystream if newstream had succeeded    *)
(* and without it if not.  The name of a call is the phase the request is  *)
(* in while the plugin executes it.                                        *)
(***************************************************************************)
EXTENDS Integers

CONSTANT Streams        \* slots for requests

VARIABLES phase,        \* where the request in each slot stands
          written       \* data units handed over by write since newstream

apiVars == <<phase, written>>

APIInit ==
  /\ phase = [s \in Streams |-> "none"]
  /\ written = [s \in Streams |-> 0]

\* The request in slot s moves from one phase to another and has handed over n units.
Move(s, from, to, n) ==
  /\ phase[s] = from
  /\ phase' = [phase EXCEPT ![s] = to]
  /\ written' = [written EXCEPT ![s] = n]

GetURLCall(s) == Move(s, "none", "pending", 0)
NewStreamCall(s) == Move(s, "pending", "newstream", 0)
NewStreamReturn(s) == Move(s, "newstream", "open", 0) \/ Move(s, "newstream", "urlnotify", 0)
WriteCall(s) == Move(s, "open", "write", written[s])
WriteReturn(s) == \/ written'[s] > written[s] /\ Move(s, "write", "open", written'[s])
                  \/ Move(s, "write", "destroystream", written[s])
DestroyStreamCall(s) == Move(s, "open", "destroystream", written[s])
DestroyStreamReturn(s) == Move(s, "destroystream", "urlnotify", written[s])
URLNotifyCall(s) == Move(s, "pending", "urlnotify", 0)
URLNotifyReturn(s) == Move(s, "urlnotify", "none", 0)

APINext ==
  \E s \in Streams : \/ GetURLCall(s)
                     \/ NewStreamCall(s) \/ NewStreamReturn(s)
                     \/ WriteCall(s) \/ WriteReturn(s)
                     \/ DestroyStreamCall(s) \/ DestroyStreamReturn(s)
                     \/ URLNotifyCall(s) \/ URLNotifyReturn(s)

APISpec == APIInit /\ [][APINext]_apiVars
=============================================================================
