------------------------------- MODULE MCGtk -------------------------------
(* The password entry of plugin-gtk and its cipher.  They share no state   *)
(* (the entry takes what the cipher makes of a block as it comes), and one *)
(* of them works in each behaviour.  The blocks tell all 64 bits apart;    *)
(* the round function is not a bijection and treats its two subkeys        *)
(* differently.                                                            *)
EXTENDS GtkPlugin, Des

VARIABLE part  \* "entry" or "cipher": the part that is at work

Place(w) == (IF w[1] = "k1" THEN 7 ELSE 0) + w[2]
MCF(v, w, x, j) == (x[(j + Place(v)) % 32] /\ x[(j + 5) % 32]) # (j = Place(w) % 32)
AllAndNone == <<[j \in Bits |-> TRUE], [j \in Bits |-> FALSE]>>
MCBlocks ==
  {<<[j \in Bits |-> (j \div 2^b) % 2 = 1], [j \in Bits |-> (j \div 2^b) % 2 = 1]>> : b \in 0..4}
  \cup {AllAndNone}

AllVars == <<part, gateVars, vars>>

\* One block and one key stand for the cipher when it rests.
PartsInit ==
  /\ part \in {"entry", "cipher"}
  /\ \/ part = "entry" /\ keys = <<"k1">> /\ block = AllAndNone
     \/ part = "cipher"
  /\ GateInit /\ Init

PartsNext ==
  \/ part = "entry" /\ GateNext /\ UNCHANGED <<part, vars>>
  \/ part = "cipher" /\ Next /\ UNCHANGED <<part, gateVars>>

PartsSpec == PartsInit /\ [][PartsNext]_AllVars
============================================================================
