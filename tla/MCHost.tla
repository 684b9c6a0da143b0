------------------------------- MODULE MCHost -------------------------------
(* npprunner's host and the script objects of both hosts.  They share no   *)
(* state, and one of them works in each behaviour.                         *)
EXTENDS MCPluginHost, NpObjects, TLC

VARIABLE part  \* "host" or "objects": the part that is at work

MCMaxHeld == [h \in Hosts |-> IF h = "npprunner" THEN 1 ELSE 2]

Symmetry == Permutations(NPObjects) \cup Permutations(Slots) \cup Permutations(Instances)

AllVars == <<part, vars, objVars>>

\* One set of files and one program stand for the part that rests.
PartsInit ==
  /\ part \in {"host", "objects"}
  /\ \/ part = "host" /\ host = "npprunner"
     \/ part = "objects" /\ files = [p \in Paths |-> "none"]
  /\ Init /\ ObjInit

PartsNext ==
  \/ part = "host" /\ Next /\ UNCHANGED <<part, objVars>>
  \/ part = "objects" /\ ObjNext /\ UNCHANGED <<part, vars>>

PartsSpec == PartsInit /\ [][PartsNext]_AllVars
=============================================================================
