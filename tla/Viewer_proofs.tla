--------------------------- MODULE Viewer_proofs ----------------------------
(***************************************************************************)
(* Proofs about the two parts of nswinviewr that are not streams: its      *)
(* windows and instances, and the thread that waits for videos.            *)
(***************************************************************************)
EXTENDS WinPlugin, PlayerThread, FiniteSetTheorems, TLAPS

-----------------------------------------------------------------------------
(***************************************************************************)
(* WinPlugin: a window that exists belongs to an instance that exists, the *)
(* list of instances has no deleted one, and destroy is called once for    *)
(* each instance, for any number of instances and windows and whether or   *)
(* not the player pumps messages in its calls.                             *)
(***************************************************************************)

\* The flags and the child of an instance.
FlagsSound ==
  \A p \in AllPlugins : /\ m_embed[p] => "inited" \in m_flags[p]
                        /\ "detach" \in m_flags[p] => "inited" \in m_flags[p]

\* An instance of a client has a parent when it made its window; the viewer's is the program's.
ParentsSound ==
  /\ \A p \in Plugins : /\ m_parent[p] \in Windows \cup {Null}
                        /\ m_parent[p] # Null => "inited" \in m_flags[p]
  /\ m_parent[Viewer] \in {Main, Null}

\* The viewer's instance before its SetWindow, and in newp.
ViewerSound ==
  /\ pc \in {"start", "exec"} => m_flags[Viewer] = {} /\ left = {}
  /\ pc = "start" => busy = Idle
  /\ pc = "exec" => memory[Viewer] = "allocated" /\ m_parent[Viewer] = Main /\ busy = <<"new", Viewer>>
  /\ memory[Viewer] # "deleted"
  /\ Viewer \in listed <=> memory[Viewer] = "allocated"
  /\ Viewer \in listed <=> new[Viewer] # "none"

\* The instances of clients, by how far they got.
ClientsSound ==
  \A p \in Plugins :
    /\ new[p] = "none" => memory[p] = "none"
    /\ memory[p] = "none" => new[p] = "none" /\ ~m_embed[p] /\ "inited" \notin m_flags[p]
    /\ new[p] = "called" => /\ memory[p] = "allocated" /\ pc \in {"loop", "assert"}
                            /\ busy = <<"new", p>>
    /\ new[p] \in {"none", "called", "refused"} => destroyed[p] = 0 /\ p \notin listed
    /\ busy = <<"new", p>> => new[p] = "called"
    /\ busy = <<"destroy", p>> => p \in listed /\ pc \in {"loop", "assert"}
    /\ (new[p] = "ok" /\ p \notin listed) => destroyed[p] = 1 /\ memory[p] = "deleted"

\* Of the instances in the list the player destroyed the one a client is destroying, and those
\* that NPPluginShutdown came to.
ListedSound ==
  /\ pc \in {"start", "exec", "loop"} =>
       left = {} /\ \A p \in listed : destroyed[p] = IF busy = <<"destroy", p>> THEN 1 ELSE 0
  /\ pc \in {"shutdown", "end"} => \A p \in listed : destroyed[p] = IF p \in left THEN 0 ELSE 1
  /\ pc = "end" => left = {}
  /\ Viewer \notin listed => destroyed[Viewer] = 0

IInv == TypeOK /\ FlagsSound /\ ParentsSound /\ ViewerSound /\ ClientsSound /\ ListedSound
               /\ LongSound /\ ListSound

LEMMA InitInv == Init => IInv
BY NameAssumption DEF Init, Idle, IInv, TypeOK, FlagsSound, ParentsSound, ViewerSound, ClientsSound,
   ListedSound, LongSound, ListSound, AllPlugins, AllWindows

ToldType == [AllPlugins -> [window : AllWindows \cup {Null}, there : BOOLEAN]]

\* What the player was told last stays a window or NULL, and whether it was there.
LEMMA TellType ==
  ASSUME told \in ToldType, late \in SUBSET AllPlugins, NEW p \in AllPlugins,
         NEW w \in AllWindows \cup {Null}, Tell(p, w)
  PROVE  told' \in ToldType /\ late' \in SUBSET AllPlugins
<1> DEFINE b == w \in exists' \cup {Null}
           r == [window |-> w, there |-> b]
<1>1. b \in BOOLEAN
  OBVIOUS
<1>2. told' = [told EXCEPT ![p] = r] /\ late' \in SUBSET AllPlugins
  BY DEF Tell
<1> HIDE DEF b
<1>3. r \in [window : AllWindows \cup {Null}, there : BOOLEAN]
  BY <1>1
<1> HIDE DEF r
<1> QED BY <1>2, <1>3 DEF ToldType

\* The flag of one instance is set.
LEMMA EmbedType ==
  ASSUME m_embed \in [AllPlugins -> BOOLEAN], NEW p \in AllPlugins, NEW b \in BOOLEAN,
         m_embed' = [m_embed EXCEPT ![p] = b]
  PROVE  m_embed' \in [AllPlugins -> BOOLEAN]
OBVIOUS

LEMMA NextInv == IInv /\ [Next]_vars => IInv'
<1> SUFFICES ASSUME IInv, [Next]_vars PROVE IInv'
  OBVIOUS
<1> USE NameAssumption DEF IInv, AllPlugins, AllWindows, Idle, objectVars, windowVars, playerVars
<1>1. ASSUME NEW w \in AllWindows, Size(w) PROVE IInv'
  <2>1. TypeOK'
    BY <1>1 DEF TypeOK, Size, Resizes, Tell, MayReceive
  <2>2. FlagsSound'
    BY <1>1 DEF FlagsSound, Size, Resizes, Tell, MayReceive
  <2>3. ParentsSound'
    BY <1>1 DEF ParentsSound, Size, Resizes, Tell, MayReceive
  <2>4. ViewerSound'
    BY <1>1 DEF ViewerSound, Size, Resizes, Tell, MayReceive
  <2>5. ClientsSound'
    BY <1>1 DEF ClientsSound, Size, Resizes, Tell, MayReceive
  <2>6. ListedSound'
    BY <1>1 DEF ListedSound, Size, Resizes, Tell, MayReceive
  <2>7. LongSound'
    BY <1>1 DEF LongSound, Size, Resizes, Tell, MayReceive
  <2>8. ListSound'
    BY <1>1 DEF ListSound, Size, Resizes, Tell, MayReceive
  <2> QED BY <2>1, <2>2, <2>3, <2>4, <2>5, <2>6, <2>7, <2>8
<1>2. ASSUME NEW w \in AllWindows, About(w) PROVE IInv'
  <2>1. TypeOK'
    BY <1>2 DEF TypeOK, About, Attached, MayReceive
  <2>2. FlagsSound'
    BY <1>2 DEF FlagsSound, About, Attached, MayReceive
  <2>3. ParentsSound'
    BY <1>2 DEF ParentsSound, About, Attached, MayReceive
  <2>4. ViewerSound'
    BY <1>2 DEF TypeOK, FlagsSound, ViewerSound, LongSound, About, Attached, MayReceive
  <2>5. ClientsSound'
    BY <1>2 DEF ClientsSound, About, Attached, MayReceive
  <2>6. ListedSound'
    BY <1>2 DEF ListedSound, About, Attached, MayReceive
  <2>7. LongSound'
    BY <1>2 DEF LongSound, About, Attached, MayReceive
  <2>8. ListSound'
    BY <1>2 DEF ListSound, About, Attached, MayReceive
  <2> QED BY <2>1, <2>2, <2>3, <2>4, <2>5, <2>6, <2>7, <2>8
<1>3. ASSUME NEW w \in AllWindows, Close(w) PROVE IInv'
  <2>1. TypeOK'
    <3>1. m_flags' \in [AllPlugins -> SUBSET {"inited", "attach", "detach"}]
      BY <1>3 DEF TypeOK, Close, DetachWindow, Detached
    <3>2. m_embed' \in [AllPlugins -> BOOLEAN]
      BY <1>3 DEF TypeOK, Close, DetachWindow
    <3> QED BY <1>3, <3>1, <3>2 DEF TypeOK, ToldType, Close, DetachWindow, Detached, MayReceive
  <2>2. FlagsSound'
    BY <1>3 DEF TypeOK, FlagsSound, Close, DetachWindow, Detached, MayReceive
  <2>3. ParentsSound'
    BY <1>3 DEF TypeOK, ParentsSound, Close, DetachWindow, Detached, MayReceive
  <2>4. ViewerSound'
    BY <1>3 DEF TypeOK, ViewerSound, Close, DetachWindow, Detached, MayReceive
  <2>5. ClientsSound'
    BY <1>3 DEF TypeOK, ClientsSound, Close, DetachWindow, Detached, MayReceive
  <2>6. ListedSound'
    BY <1>3 DEF ListedSound, Close, DetachWindow, Detached, MayReceive
  <2>7. LongSound'
    BY <1>3 DEF TypeOK, LongSound, Close, DetachWindow, Detached, MayReceive
  <2>8. ListSound'
    BY <1>3 DEF ListSound, Close, DetachWindow, Detached, MayReceive
  <2> QED BY <2>1, <2>2, <2>3, <2>4, <2>5, <2>6, <2>7, <2>8
<1>4. ASSUME NEW p \in Plugins, RpcNew(p) PROVE IInv'
  <2>1. TypeOK'
    BY <1>4 DEF TypeOK, RpcNew, MayCall, Construct
  <2>2. FlagsSound'
    BY <1>4 DEF FlagsSound, RpcNew, MayCall, Construct
  <2>3. ParentsSound'
    BY <1>4 DEF ParentsSound, RpcNew, MayCall, Construct
  <2>4. ViewerSound'
    BY <1>4 DEF ViewerSound, RpcNew, MayCall, Construct
  <2>5. ClientsSound'
    BY <1>4 DEF TypeOK, ClientsSound, RpcNew, MayCall, Construct
  <2>6. ListedSound'
    BY <1>4 DEF ListedSound, RpcNew, MayCall, Construct
  <2>7. LongSound'
    BY <1>4 DEF LongSound, RpcNew, MayCall, Construct
  <2>8. ListSound'
    BY <1>4 DEF ListSound, RpcNew, MayCall, Construct
  <2> QED BY <2>1, <2>2, <2>3, <2>4, <2>5, <2>6, <2>7, <2>8
<1>5. ASSUME NEW p \in Plugins, NEW ok \in BOOLEAN, RpcNewEnd(p, ok) PROVE IInv'
  <2>1. TypeOK'
    <3>1. m_flags' \in [AllPlugins -> SUBSET {"inited", "attach", "detach"}]
      BY <1>5 DEF TypeOK, RpcNewEnd, Delete, Owns
    <3>2. m_embed' \in [AllPlugins -> BOOLEAN]
      BY <1>5 DEF TypeOK, RpcNewEnd, Delete
    <3>3. memory' \in [AllPlugins -> {"none", "allocated", "deleted"}] /\ new' \in [AllPlugins -> {"none", "called", "ok", "refused"}]
      BY <1>5 DEF TypeOK, RpcNewEnd, Delete
    <3>4. exists' \in SUBSET AllWindows /\ listed' \in SUBSET AllPlugins /\ left' \in SUBSET listed'
      BY <1>5 DEF TypeOK, RpcNewEnd, Delete
    <3> QED BY <1>5, <3>1, <3>2, <3>3, <3>4 DEF TypeOK, ToldType, RpcNewEnd, Delete, Owns
  <2>2. FlagsSound'
    BY <1>5 DEF TypeOK, FlagsSound, RpcNewEnd, Delete, Owns
  <2>3. ParentsSound'
    BY <1>5 DEF TypeOK, ParentsSound, RpcNewEnd, Delete, Owns
  <2>4. ViewerSound'
    BY <1>5 DEF TypeOK, ViewerSound, RpcNewEnd, Delete, Owns
  <2>5. ClientsSound'
    BY <1>5 DEF TypeOK, ClientsSound, RpcNewEnd, Delete, Owns
  <2>6. ListedSound'
    BY <1>5 DEF TypeOK, ClientsSound, ListedSound, RpcNewEnd, Delete, Owns
  <2>7. LongSound'
    BY <1>5 DEF TypeOK, FlagsSound, LongSound, RpcNewEnd, Delete, Owns
  <2>8. ListSound'
    BY <1>5 DEF TypeOK, ClientsSound, ListSound, RpcNewEnd, Delete, Owns
  <2> QED BY <2>1, <2>2, <2>3, <2>4, <2>5, <2>6, <2>7, <2>8
<1>6. ASSUME NEW p \in Plugins, RpcSetWindow(p) PROVE IInv'
  <2>1. TypeOK'
    <3>1. m_flags' \in [AllPlugins -> SUBSET {"inited", "attach", "detach"}]
      BY <1>6 DEF TypeOK, RpcSetWindow, SetWindow, GeckoWindowNew
    <3>2. m_parent' \in [AllPlugins -> AllWindows \cup {Null}]
      BY <1>6 DEF TypeOK, RpcSetWindow, SetWindow, GeckoWindowNew
    <3>3. m_embed' \in [AllPlugins -> BOOLEAN]
      <4>1. CASE m_embed' = m_embed
        BY <4>1 DEF TypeOK
      <4>2. CASE m_embed' = [m_embed EXCEPT ![p] = TRUE]
        BY <4>2, EmbedType, NameAssumption DEF TypeOK
      <4> QED BY <1>6, <4>1, <4>2 DEF RpcSetWindow, SetWindow, GeckoWindowNew
    <3>4. exists' \in SUBSET AllWindows /\ long' \in [AllWindows -> AllPlugins \cup {Null}]
      BY <1>6 DEF TypeOK, RpcSetWindow, SetWindow, GeckoWindowNew
    <3>5. told' \in ToldType /\ late' \in SUBSET AllPlugins
      <4>1. CASE UNCHANGED <<told, late>>
        BY <4>1 DEF TypeOK, ToldType
      <4>2. CASE Tell(p, (IF Shows(p) THEN m_parent'[p] ELSE Null))
        <5>1. (IF Shows(p) THEN m_parent'[p] ELSE Null) \in AllWindows \cup {Null}
          BY <1>6, <3>2 DEF TypeOK, ParentsSound, ExecEnd
        <5> QED BY <4>2, <5>1, TellType, NameAssumption DEF TypeOK, ToldType
      <4> QED BY <1>6, <4>1, <4>2 DEF RpcSetWindow, SetWindow
    <3> QED BY <1>6, <3>1, <3>2, <3>3, <3>4, <3>5 DEF TypeOK, ToldType, RpcSetWindow, MayCall,
           Known, SetWindow, SetAsserts, Shows, Tell, GeckoWindowNew
  <2>2. FlagsSound'
    BY <1>6 DEF TypeOK, FlagsSound, RpcSetWindow, MayCall, Known, SetWindow, SetAsserts, Shows,
       Tell, GeckoWindowNew
  <2>3. ParentsSound'
    BY <1>6 DEF TypeOK, ParentsSound, RpcSetWindow, MayCall, Known, SetWindow, SetAsserts, Shows,
       Tell, GeckoWindowNew
  <2>4. ViewerSound'
    BY <1>6 DEF ViewerSound, RpcSetWindow, MayCall, Known, SetWindow, SetAsserts, Shows, Tell,
       GeckoWindowNew
  <2>5. ClientsSound'
    BY <1>6 DEF TypeOK, ClientsSound, RpcSetWindow, MayCall, Known, SetWindow, SetAsserts, Shows,
       Tell, GeckoWindowNew
  <2>6. ListedSound'
    BY <1>6 DEF ListedSound, RpcSetWindow, MayCall, Known, SetWindow, SetAsserts, Shows, Tell,
       GeckoWindowNew
  <2>7. LongSound'
    BY <1>6 DEF TypeOK, FlagsSound, LongSound, RpcSetWindow, MayCall, Known, SetWindow, SetAsserts,
       Shows, Tell, GeckoWindowNew
  <2>8. ListSound'
    BY <1>6 DEF ListSound, RpcSetWindow, MayCall, Known, SetWindow, SetAsserts, Shows, Tell,
       GeckoWindowNew
  <2> QED BY <2>1, <2>2, <2>3, <2>4, <2>5, <2>6, <2>7, <2>8
<1>7. ASSUME NEW p \in Plugins, RpcDestroy(p) PROVE IInv'
  <2>1. TypeOK'
    BY <1>7 DEF TypeOK, ViewerSound, ClientsSound, ListedSound, RpcDestroy, MayCall, Known, Destroy
  <2>2. FlagsSound'
    BY <1>7 DEF FlagsSound, RpcDestroy, MayCall, Known, Destroy
  <2>3. ParentsSound'
    BY <1>7 DEF ParentsSound, RpcDestroy, MayCall, Known, Destroy
  <2>4. ViewerSound'
    BY <1>7 DEF ViewerSound, RpcDestroy, MayCall, Known, Destroy
  <2>5. ClientsSound'
    BY <1>7 DEF ClientsSound, RpcDestroy, MayCall, Known, Destroy
  <2>6. ListedSound'
    BY <1>7 DEF TypeOK, ListedSound, RpcDestroy, MayCall, Known, Destroy
  <2>7. LongSound'
    BY <1>7 DEF LongSound, RpcDestroy, MayCall, Known, Destroy
  <2>8. ListSound'
    BY <1>7 DEF ListSound, RpcDestroy, MayCall, Known, Destroy
  <2> QED BY <2>1, <2>2, <2>3, <2>4, <2>5, <2>6, <2>7, <2>8
<1>8. ASSUME NEW p \in Plugins, RpcDestroyEnd(p) PROVE IInv'
  <2>1. TypeOK'
    BY <1>8 DEF TypeOK, ViewerSound, ClientsSound, ListedSound, RpcDestroyEnd, Delete, Owns, Unlisted
  <2>2. FlagsSound'
    BY <1>8 DEF FlagsSound, RpcDestroyEnd, Delete, Owns, Unlisted
  <2>3. ParentsSound'
    BY <1>8 DEF ParentsSound, RpcDestroyEnd, Delete, Owns, Unlisted
  <2>4. ViewerSound'
    BY <1>8 DEF ViewerSound, RpcDestroyEnd, Delete, Owns, Unlisted
  <2>5. ClientsSound'
    BY <1>8 DEF TypeOK, ViewerSound, ClientsSound, ListedSound, RpcDestroyEnd, Delete, Owns, Unlisted
  <2>6. ListedSound'
    BY <1>8 DEF ListedSound, RpcDestroyEnd, Delete, Owns, Unlisted
  <2>7. LongSound'
    BY <1>8 DEF TypeOK, FlagsSound, LongSound, RpcDestroyEnd, Delete, Owns, Unlisted
  <2>8. ListSound'
    BY <1>8 DEF ListSound, RpcDestroyEnd, Delete, Owns, Unlisted
  <2> QED BY <2>1, <2>2, <2>3, <2>4, <2>5, <2>6, <2>7, <2>8
<1>9. CASE NoUrl
  <2>1. TypeOK'
    BY <1>9 DEF TypeOK, NoUrl
  <2>2. FlagsSound'
    BY <1>9 DEF FlagsSound, NoUrl
  <2>3. ParentsSound'
    BY <1>9 DEF ParentsSound, NoUrl
  <2>4. ViewerSound'
    BY <1>9 DEF ViewerSound, NoUrl
  <2>5. ClientsSound'
    BY <1>9 DEF ClientsSound, NoUrl
  <2>6. ListedSound'
    BY <1>9 DEF ListedSound, NoUrl
  <2>7. LongSound'
    BY <1>9 DEF LongSound, NoUrl
  <2>8. ListSound'
    BY <1>9 DEF ListSound, NoUrl
  <2> QED BY <2>1, <2>2, <2>3, <2>4, <2>5, <2>6, <2>7, <2>8
<1>10. CASE Exec
  <2>1. TypeOK'
    BY <1>10 DEF TypeOK, Exec, Construct
  <2>2. FlagsSound'
    BY <1>10 DEF FlagsSound, Exec, Construct
  <2>3. ParentsSound'
    BY <1>10 DEF ParentsSound, Exec, Construct
  <2>4. ViewerSound'
    BY <1>10 DEF TypeOK, ViewerSound, Exec, Construct
  <2>5. ClientsSound'
    BY <1>10 DEF ClientsSound, Exec, Construct
  <2>6. ListedSound'
    BY <1>10 DEF TypeOK, ViewerSound, ListedSound, Exec, Construct
  <2>7. LongSound'
    BY <1>10 DEF LongSound, Exec, Construct
  <2>8. ListSound'
    BY <1>10 DEF TypeOK, ListSound, Exec, Construct
  <2> QED BY <2>1, <2>2, <2>3, <2>4, <2>5, <2>6, <2>7, <2>8
<1>11. ASSUME NEW ok \in BOOLEAN, ExecEnd(ok) PROVE IInv'
  <2>1. TypeOK'
    <3>1. m_flags' \in [AllPlugins -> SUBSET {"inited", "attach", "detach"}]
      BY <1>11 DEF TypeOK, ExecEnd
    <3>2. long' \in [AllWindows -> AllPlugins \cup {Null}] /\ new' \in [AllPlugins -> {"none", "called", "ok", "refused"}]
      BY <1>11 DEF TypeOK, ExecEnd
    <3>3. told' \in ToldType /\ late' \in SUBSET AllPlugins
      <4>1. CASE UNCHANGED <<told, late>>
        BY <4>1 DEF TypeOK, ToldType
      <4>2. CASE Tell(Viewer, m_parent[Viewer])
        <5>1. m_parent[Viewer] \in AllWindows \cup {Null}
          BY <1>11, <1>11 DEF TypeOK, ParentsSound, ExecEnd
        <5> QED BY <4>2, <5>1, TellType, NameAssumption DEF TypeOK, ToldType
      <4> QED BY <1>11, <4>1, <4>2 DEF ExecEnd
    <3>4. pc' \in {"loop", "assert"} /\ UNCHANGED <<memory, m_parent, exists, listed, destroyed, left>>
      BY <1>11 DEF TypeOK, ExecEnd
    <3>5. m_embed' \in [AllPlugins -> BOOLEAN]
      <4>1. CASE m_embed' = m_embed
        BY <4>1 DEF TypeOK
      <4>2. CASE m_embed' = [m_embed EXCEPT ![Viewer] = TRUE]
        BY <4>2, EmbedType, NameAssumption DEF TypeOK
      <4> QED BY <1>11, <4>1, <4>2 DEF ExecEnd
    <3> QED BY <1>11, <3>1, <3>2, <3>3, <3>4, <3>5 DEF TypeOK, ToldType, ExecEnd, Tell
  <2>2. FlagsSound'
    BY <1>11 DEF TypeOK, FlagsSound, ExecEnd, Tell
  <2>3. ParentsSound'
    BY <1>11 DEF TypeOK, ParentsSound, ExecEnd, Tell
  <2>4. ViewerSound'
    BY <1>11 DEF ViewerSound, ExecEnd, Tell
  <2>5. ClientsSound'
    BY <1>11 DEF TypeOK, ClientsSound, ExecEnd, Tell
  <2>6. ListedSound'
    BY <1>11 DEF TypeOK, ViewerSound, ListedSound, ExecEnd, Tell
  <2>7. LongSound'
    BY <1>11 DEF TypeOK, ViewerSound, LongSound, ExecEnd, Tell
  <2>8. ListSound'
    BY <1>11 DEF ListSound, ExecEnd, Tell
  <2> QED BY <2>1, <2>2, <2>3, <2>4, <2>5, <2>6, <2>7, <2>8
<1>12. CASE Quit
  <2>1. TypeOK'
    BY <1>12 DEF TypeOK, Quit
  <2>2. FlagsSound'
    BY <1>12 DEF FlagsSound, Quit
  <2>3. ParentsSound'
    BY <1>12 DEF ParentsSound, Quit
  <2>4. ViewerSound'
    BY <1>12 DEF ViewerSound, Quit
  <2>5. ClientsSound'
    BY <1>12 DEF ClientsSound, Quit
  <2>6. ListedSound'
    BY <1>12 DEF ListedSound, Quit
  <2>7. LongSound'
    BY <1>12 DEF LongSound, Quit
  <2>8. ListSound'
    BY <1>12 DEF ListSound, Quit
  <2> QED BY <2>1, <2>2, <2>3, <2>4, <2>5, <2>6, <2>7, <2>8
<1>13. ASSUME NEW p \in AllPlugins, ShutdownOne(p) PROVE IInv'
  <2>1. TypeOK'
    BY <1>13 DEF TypeOK, ViewerSound, ClientsSound, ListedSound, ShutdownOne, Destroy
  <2>2. FlagsSound'
    BY <1>13 DEF FlagsSound, ShutdownOne, Destroy
  <2>3. ParentsSound'
    BY <1>13 DEF ParentsSound, ShutdownOne, Destroy
  <2>4. ViewerSound'
    BY <1>13 DEF ViewerSound, ShutdownOne, Destroy
  <2>5. ClientsSound'
    BY <1>13 DEF TypeOK, ClientsSound, ShutdownOne, Destroy
  <2>6. ListedSound'
    BY <1>13 DEF TypeOK, ListedSound, ShutdownOne, Destroy
  <2>7. LongSound'
    BY <1>13 DEF LongSound, ShutdownOne, Destroy
  <2>8. ListSound'
    BY <1>13 DEF ListSound, ShutdownOne, Destroy
  <2> QED BY <2>1, <2>2, <2>3, <2>4, <2>5, <2>6, <2>7, <2>8
<1>14. CASE Shutdown
  <2>1. TypeOK'
    BY <1>14 DEF TypeOK, Shutdown
  <2>2. FlagsSound'
    BY <1>14 DEF FlagsSound, Shutdown
  <2>3. ParentsSound'
    BY <1>14 DEF ParentsSound, Shutdown
  <2>4. ViewerSound'
    BY <1>14 DEF ViewerSound, Shutdown
  <2>5. ClientsSound'
    BY <1>14 DEF ClientsSound, Shutdown
  <2>6. ListedSound'
    BY <1>14 DEF ListedSound, Shutdown
  <2>7. LongSound'
    BY <1>14 DEF LongSound, Shutdown
  <2>8. ListSound'
    BY <1>14 DEF ListSound, Shutdown
  <2> QED BY <2>1, <2>2, <2>3, <2>4, <2>5, <2>6, <2>7, <2>8
<1>15. CASE UNCHANGED vars
  BY <1>15 DEF vars, TypeOK, FlagsSound, ParentsSound, ViewerSound, ClientsSound, ListedSound,
     LongSound, ListSound
<1> QED BY <1>1, <1>2, <1>3, <1>4, <1>5, <1>6, <1>7, <1>8, <1>9, <1>10, <1>11, <1>12, <1>13, <1>14,
       <1>15 DEF Next

-----------------------------------------------------------------------------
(* The theorems.                                                           *)

\* The types hold; destroy is never called twice for an instance (NPP_Destroy, NPPluginShutdown).
THEOREM TypeCorrect == Spec => []TypeOK
<1>1. IInv => TypeOK
  BY DEF IInv
<1> QED BY <1>1, InitInv, NextInv, PTL DEF Spec

\* The instance in a window's long is there and has not lost the window, however the calls of
\* clients, the user's closing windows and the messages in the middle of newp and destroy come
\* (NPPlugin::~NPPlugin, DetachWindow, NPGeckoWindowNew).
THEOREM WindowsHaveInstances == Spec => []LongSound
<1>1. IInv => LongSound
  BY DEF IInv
<1> QED BY <1>1, InitInv, NextInv, PTL DEF Spec

\* NPPluginShutdown never comes to an instance that was deleted (__plugin_instance_list).
THEOREM ListedExist == Spec => []ListSound
<1>1. IInv => ListSound
  BY DEF IInv
<1> QED BY <1>1, InitInv, NextInv, PTL DEF Spec

\* At the end the player has destroyed each instance its newp made, once, and none it refused a
\* client (NPP_Destroy, NPPluginShutdown).
THEOREM AllDestroyed == Spec => []DestroyedOnce
<1>1. IInv => DestroyedOnce
  <2> SUFFICES ASSUME IInv, pc = "end"
               PROVE  /\ \A p \in AllPlugins : new[p] = "ok" => destroyed[p] = 1
                      /\ \A p \in Plugins : new[p] = "refused" => destroyed[p] = 0
    BY DEF DestroyedOnce
  <2>1. \A p \in listed : destroyed[p] = 1
    BY DEF IInv, ListedSound
  <2>2. \A p \in Plugins : new[p] = "ok" => destroyed[p] = 1
    BY <2>1 DEF IInv, ClientsSound
  <2>3. new[Viewer] = "ok" => destroyed[Viewer] = 1
    BY <2>1 DEF IInv, ViewerSound
  <2>4. \A p \in Plugins : new[p] = "refused" => destroyed[p] = 0
    BY DEF IInv, ClientsSound
  <2> QED BY <2>2, <2>3, <2>4 DEF AllPlugins
<1> QED BY <1>1, InitInv, NextInv, PTL DEF Spec

-----------------------------------------------------------------------------
(* The windows the player is given.                                        *)

\* An instance that was not detached has its child, once its window was made.
Shown ==
  \A p \in AllPlugins : /\ "attach" \in m_flags[p] => "inited" \in m_flags[p]
                        /\ ("inited" \in m_flags[p] /\ "detach" \notin m_flags[p]) => m_embed[p]

\* A child is in a window that exists and belongs to its instance.
Embedded == \A p \in AllPlugins : m_embed[p] => m_parent[p] \in exists /\ long[m_parent[p]] = p

GivenInv == Shown /\ Embedded /\ GivenWindowExists

LEMMA GivenNext == IInv /\ GivenInv /\ [Next]_vars => GivenInv'
<1> SUFFICES ASSUME IInv, GivenInv, [Next]_vars PROVE GivenInv'
  OBVIOUS
<1> USE NameAssumption DEF GivenInv, IInv, TypeOK, AllPlugins, AllWindows
<1>1. ASSUME NEW w \in AllWindows, Size(w) PROVE GivenInv'
  <2>1. Shown'
    BY <1>1 DEF FlagsSound, LongSound, Shown, Embedded, Size, Tell, Resizes, MayReceive, objectVars,
       windowVars
  <2>2. Embedded'
    BY <1>1 DEF FlagsSound, ParentsSound, ClientsSound, LongSound, Shown, Embedded, Size, Tell,
       Resizes, MayReceive, objectVars, windowVars
  <2>3. GivenWindowExists'
    BY <1>1 DEF FlagsSound, ParentsSound, LongSound, Shown, Embedded, GivenWindowExists, Size, Tell,
       Resizes, MayReceive, objectVars, windowVars
  <2> QED BY <2>1, <2>2, <2>3
<1>2. ASSUME NEW w \in AllWindows, About(w) PROVE GivenInv'
  <2>1. Shown'
    BY <1>2 DEF FlagsSound, LongSound, Shown, Embedded, About, Attached, MayReceive, windowVars,
       playerVars
  <2>2. Embedded'
    BY <1>2 DEF FlagsSound, ParentsSound, ClientsSound, LongSound, Shown, Embedded, About, Attached,
       MayReceive, windowVars, playerVars
  <2>3. GivenWindowExists'
    BY <1>2 DEF FlagsSound, ParentsSound, LongSound, Shown, Embedded, GivenWindowExists, About,
       Attached, MayReceive, windowVars, playerVars
  <2> QED BY <2>1, <2>2, <2>3
<1>3. ASSUME NEW w \in AllWindows, Close(w) PROVE GivenInv'
  <2>1. Shown'
    BY <1>3 DEF FlagsSound, LongSound, Shown, Embedded, Close, DetachWindow, Detached, MayReceive,
       playerVars
  <2>2. Embedded'
    BY <1>3 DEF FlagsSound, ParentsSound, ClientsSound, LongSound, Shown, Embedded, Close,
       DetachWindow, Detached, MayReceive, playerVars
  <2>3. GivenWindowExists'
    BY <1>3 DEF FlagsSound, ParentsSound, LongSound, Shown, Embedded, GivenWindowExists, Close,
       DetachWindow, Detached, MayReceive, playerVars
  <2> QED BY <2>1, <2>2, <2>3
<1>4. ASSUME NEW p \in Plugins, RpcNew(p) PROVE GivenInv'
  <2>1. Shown'
    BY <1>4 DEF FlagsSound, LongSound, Shown, Embedded, RpcNew, MayCall, Construct, windowVars
  <2>2. Embedded'
    BY <1>4 DEF FlagsSound, ParentsSound, ClientsSound, LongSound, Shown, Embedded, RpcNew, MayCall,
       Construct, windowVars
  <2>3. GivenWindowExists'
    BY <1>4 DEF FlagsSound, ParentsSound, LongSound, Shown, Embedded, GivenWindowExists, RpcNew,
       MayCall, Construct, windowVars
  <2> QED BY <2>1, <2>2, <2>3
<1>5. ASSUME NEW p \in Plugins, NEW ok \in BOOLEAN, RpcNewEnd(p, ok) PROVE GivenInv'
  <2>1. Shown'
    BY <1>5 DEF FlagsSound, LongSound, Shown, Embedded, RpcNewEnd, Delete, Owns, objectVars, windowVars
  <2>2. Embedded'
    BY <1>5 DEF FlagsSound, ParentsSound, ClientsSound, LongSound, Shown, Embedded, RpcNewEnd,
       Delete, Owns, objectVars, windowVars
  <2>3. GivenWindowExists'
    BY <1>5 DEF FlagsSound, ParentsSound, LongSound, Shown, Embedded, GivenWindowExists, RpcNewEnd,
       Delete, Owns, objectVars, windowVars
  <2> QED BY <2>1, <2>2, <2>3
<1>6. ASSUME NEW p \in Plugins, RpcSetWindow(p) PROVE GivenInv'
  <2>1. Shown'
    BY <1>6 DEF ParentsSound, Shown, RpcSetWindow, SetWindow, GeckoWindowNew
  <2>2. Embedded'
    BY <1>6 DEF FlagsSound, ParentsSound, ClientsSound, LongSound, Shown, Embedded, RpcSetWindow,
       SetWindow, SetAsserts, Shows, Tell, GeckoWindowNew, windowVars
  <2>3. GivenWindowExists'
    BY <1>6 DEF FlagsSound, ParentsSound, LongSound, Shown, Embedded, GivenWindowExists,
       RpcSetWindow, SetWindow, SetAsserts, Shows, Tell, GeckoWindowNew, windowVars
  <2> QED BY <2>1, <2>2, <2>3
<1>7. ASSUME NEW p \in Plugins, RpcDestroy(p) PROVE GivenInv'
  <2>1. Shown'
    BY <1>7 DEF FlagsSound, LongSound, Shown, Embedded, RpcDestroy, objectVars, windowVars
  <2>2. Embedded'
    BY <1>7 DEF FlagsSound, ParentsSound, ClientsSound, LongSound, Shown, Embedded, RpcDestroy,
       objectVars, windowVars
  <2>3. GivenWindowExists'
    BY <1>7 DEF FlagsSound, ParentsSound, LongSound, Shown, Embedded, GivenWindowExists, RpcDestroy,
       objectVars, windowVars
  <2> QED BY <2>1, <2>2, <2>3
<1>8. ASSUME NEW p \in Plugins, RpcDestroyEnd(p) PROVE GivenInv'
  <2>1. Shown'
    BY <1>8 DEF FlagsSound, LongSound, Shown, Embedded, RpcDestroyEnd, Delete, Owns, playerVars
  <2>2. Embedded'
    BY <1>8 DEF FlagsSound, ParentsSound, ClientsSound, LongSound, Shown, Embedded, RpcDestroyEnd,
       Delete, Owns, playerVars
  <2>3. GivenWindowExists'
    BY <1>8 DEF FlagsSound, ParentsSound, LongSound, Shown, Embedded, GivenWindowExists,
       RpcDestroyEnd, Delete, Owns, playerVars
  <2> QED BY <2>1, <2>2, <2>3
<1>9. CASE NoUrl
  <2>1. Shown'
    BY <1>9 DEF FlagsSound, LongSound, Shown, Embedded, NoUrl, objectVars, windowVars, playerVars
  <2>2. Embedded'
    BY <1>9 DEF FlagsSound, ParentsSound, ClientsSound, LongSound, Shown, Embedded, NoUrl,
       objectVars, windowVars, playerVars
  <2>3. GivenWindowExists'
    BY <1>9 DEF FlagsSound, ParentsSound, LongSound, Shown, Embedded, GivenWindowExists, NoUrl,
       objectVars, windowVars, playerVars
  <2> QED BY <2>1, <2>2, <2>3
<1>10. CASE Exec
  <2>1. Shown'
    BY <1>10 DEF FlagsSound, LongSound, Shown, Embedded, Exec, Construct, windowVars
  <2>2. Embedded'
    BY <1>10 DEF FlagsSound, ParentsSound, ClientsSound, LongSound, Shown, Embedded, Exec,
       Construct, windowVars
  <2>3. GivenWindowExists'
    BY <1>10 DEF FlagsSound, ParentsSound, LongSound, Shown, Embedded, GivenWindowExists, Exec,
       Construct, windowVars
  <2> QED BY <2>1, <2>2, <2>3
<1>11. ASSUME NEW ok \in BOOLEAN, ExecEnd(ok) PROVE GivenInv'
  <2>1. Shown'
    BY <1>11 DEF FlagsSound, LongSound, Shown, Embedded, ExecEnd, Tell
  <2>2. Embedded'
    BY <1>11 DEF FlagsSound, ParentsSound, ClientsSound, LongSound, Shown, Embedded, ExecEnd, Tell
  <2>3. GivenWindowExists'
    BY <1>11 DEF FlagsSound, ParentsSound, LongSound, Shown, Embedded, GivenWindowExists, ExecEnd, Tell
  <2> QED BY <2>1, <2>2, <2>3
<1>12. CASE Quit
  <2>1. Shown'
    BY <1>12 DEF FlagsSound, LongSound, Shown, Embedded, Quit, objectVars, windowVars, playerVars
  <2>2. Embedded'
    BY <1>12 DEF FlagsSound, ParentsSound, ClientsSound, LongSound, Shown, Embedded, Quit,
       objectVars, windowVars, playerVars
  <2>3. GivenWindowExists'
    BY <1>12 DEF FlagsSound, ParentsSound, LongSound, Shown, Embedded, GivenWindowExists, Quit,
       objectVars, windowVars, playerVars
  <2> QED BY <2>1, <2>2, <2>3
<1>13. ASSUME NEW p \in AllPlugins, ShutdownOne(p) PROVE GivenInv'
  <2>1. Shown'
    BY <1>13 DEF FlagsSound, LongSound, Shown, Embedded, ShutdownOne, objectVars, windowVars
  <2>2. Embedded'
    BY <1>13 DEF FlagsSound, ParentsSound, ClientsSound, LongSound, Shown, Embedded, ShutdownOne,
       objectVars, windowVars
  <2>3. GivenWindowExists'
    BY <1>13 DEF FlagsSound, ParentsSound, LongSound, Shown, Embedded, GivenWindowExists,
       ShutdownOne, objectVars, windowVars
  <2> QED BY <2>1, <2>2, <2>3
<1>14. CASE Shutdown
  <2>1. Shown'
    BY <1>14 DEF FlagsSound, LongSound, Shown, Embedded, Shutdown, objectVars, windowVars, playerVars
  <2>2. Embedded'
    BY <1>14 DEF FlagsSound, ParentsSound, ClientsSound, LongSound, Shown, Embedded, Shutdown,
       objectVars, windowVars, playerVars
  <2>3. GivenWindowExists'
    BY <1>14 DEF FlagsSound, ParentsSound, LongSound, Shown, Embedded, GivenWindowExists, Shutdown,
       objectVars, windowVars, playerVars
  <2> QED BY <2>1, <2>2, <2>3
<1>15. CASE UNCHANGED vars
  <2>1. Shown'
    BY <1>15 DEF FlagsSound, LongSound, Shown, Embedded, vars, objectVars, windowVars, playerVars
  <2>2. Embedded'
    BY <1>15 DEF FlagsSound, ParentsSound, ClientsSound, LongSound, Shown, Embedded, vars,
       objectVars, windowVars, playerVars
  <2>3. GivenWindowExists'
    BY <1>15 DEF FlagsSound, ParentsSound, LongSound, Shown, Embedded, GivenWindowExists, vars,
       objectVars, windowVars, playerVars
  <2> QED BY <2>1, <2>2, <2>3
<1> QED BY <1>1, <1>2, <1>3, <1>4, <1>5, <1>6, <1>7, <1>8, <1>9, <1>10, <1>11, <1>12, <1>13, <1>14,
       <1>15 DEF Next

LEMMA GivenInit == Init => GivenInv
BY NameAssumption DEF Init, GivenInv, Shown, Embedded, GivenWindowExists

\* The player is given a window only while it exists (SetWindow, Resize), and with the types, the
\* windows' instances and the list this is all that messages and the player can be led to.
THEOREM WindowsAreSound == Spec => []WindowsSound
<1>1. IInv /\ GivenInv /\ [Next]_vars => IInv' /\ GivenInv'
  BY NextInv, GivenNext
<1>2. IInv /\ GivenInv => WindowsSound
  BY DEF IInv, GivenInv, WindowsSound
<1> QED BY <1>1, <1>2, InitInv, GivenInit, PTL DEF Spec

-----------------------------------------------------------------------------
(* A player that does not pump messages.                                   *)

CalmInv ==
  /\ AssertionsHold /\ NoCallAfterDestroy /\ Shown
  /\ pc \in {"start", "exec"} => Main \in exists

\* An instance that a message comes to was not destroyed.
LEMMA NotDestroyed ==
  ASSUME IInv, NEW p \in AllPlugins, memory[p] = "allocated", pc \in {"exec", "loop"},
         busy # <<"destroy", p>>
  PROVE  destroyed[p] = 0
<1>1. CASE p \in listed
  BY <1>1 DEF IInv, ListedSound
<1>2. CASE p = Viewer
  BY <1>1, <1>2 DEF IInv, ViewerSound
<1>3. CASE p \in Plugins /\ p \notin listed
  BY <1>3 DEF IInv, ClientsSound, TypeOK
<1> QED BY <1>1, <1>2, <1>3 DEF AllPlugins

LEMMA CalmNext == ASSUME Pumps = FALSE PROVE IInv /\ CalmInv /\ [Next]_vars => CalmInv'
<1> SUFFICES ASSUME IInv, CalmInv, [Next]_vars PROVE CalmInv'
  OBVIOUS
<1> USE DEF CalmInv, AssertionsHold, NoCallAfterDestroy
<1>1. ASSUME NEW w \in AllWindows, Size(w) PROVE CalmInv'
  <2>1. pc = "loop" /\ busy = Idle /\ w \in exists /\ long[w] # Null /\ Resizes(long[w])
    BY <1>1 DEF Size, MayReceive
  <2>2. memory[long[w]] = "allocated" /\ long[w] \in AllPlugins
    BY <2>1 DEF IInv, LongSound, TypeOK
  <2>3. m_embed[long[w]] /\ destroyed[long[w]] = 0
    BY <2>1, <2>2, NotDestroyed DEF Shown, Resizes, Idle
  <2> QED BY <1>1, <2>1, <2>3 DEF Size, Tell, Shown, objectVars, windowVars
<1>2. ASSUME NEW w \in AllWindows, About(w) PROVE CalmInv'
  BY <1>2 DEF About, Attached, Shown, MayReceive, IInv, TypeOK, FlagsSound, LongSound, windowVars,
     playerVars
<1>3. ASSUME NEW w \in AllWindows, Close(w) PROVE CalmInv'
  BY <1>3 DEF Close, DetachWindow, Detached, Shown, MayReceive, IInv, TypeOK, playerVars
<1>4. ASSUME NEW p \in Plugins, RpcNew(p) PROVE CalmInv'
  BY <1>4 DEF RpcNew, MayCall, Construct, Shown, windowVars
<1>5. ASSUME NEW p \in Plugins, NEW ok \in BOOLEAN, RpcNewEnd(p, ok) PROVE CalmInv'
  BY <1>5 DEF RpcNewEnd, Delete, Owns, Shown, IInv, TypeOK, objectVars, windowVars
<1>6. ASSUME NEW p \in Plugins, RpcSetWindow(p) PROVE CalmInv'
  <2>1. pc = "loop" /\ busy = Idle /\ memory[p] = "allocated" /\ p \in AllPlugins
    BY <1>6 DEF RpcSetWindow, MayCall, Known, AllPlugins
  <2>2. destroyed[p] = 0
    BY <2>1, NotDestroyed DEF Idle
  <2>3. Shown'
    BY <1>6, <2>1, NameAssumption
       DEF RpcSetWindow, SetWindow, GeckoWindowNew, Shown, IInv, TypeOK, ParentsSound
  <2>4. SetAsserts(p)
    BY <1>6, <2>1, <2>3, NameAssumption
       DEF RpcSetWindow, SetWindow, SetAsserts, Shows, GeckoWindowNew, Shown, IInv, TypeOK,
           ParentsSound, FlagsSound
  <2> QED BY <1>6, <2>1, <2>2, <2>3, <2>4 DEF RpcSetWindow, SetWindow, Tell
<1>7. ASSUME NEW p \in Plugins, RpcDestroy(p) PROVE CalmInv'
  BY <1>7 DEF RpcDestroy, Shown, objectVars, windowVars
<1>8. ASSUME NEW p \in Plugins, RpcDestroyEnd(p) PROVE CalmInv'
  BY <1>8 DEF RpcDestroyEnd, Delete, Owns, Shown, IInv, TypeOK, playerVars
<1>9. CASE NoUrl
  BY <1>9 DEF NoUrl, Shown, objectVars, windowVars, playerVars
<1>10. CASE Exec
  BY <1>10 DEF Exec, Construct, Shown, windowVars
<1>11. ASSUME NEW ok \in BOOLEAN, ExecEnd(ok) PROVE CalmInv'
  <2>1. pc = "exec" /\ m_parent[Viewer] \in exists /\ memory[Viewer] = "allocated"
        /\ busy = <<"new", Viewer>> /\ Viewer \in AllPlugins
    BY <1>11 DEF ExecEnd, IInv, ViewerSound, AllPlugins
  <2>2. destroyed[Viewer] = 0
    BY <2>1, NotDestroyed
  <2> QED BY <1>11, <2>1, <2>2 DEF ExecEnd, Tell, Shown, IInv, TypeOK
<1>12. CASE Quit
  BY <1>12 DEF Quit, Shown, objectVars, windowVars, playerVars
<1>13. ASSUME NEW p \in AllPlugins, ShutdownOne(p) PROVE CalmInv'
  BY <1>13 DEF ShutdownOne, Shown, objectVars, windowVars
<1>14. CASE Shutdown
  BY <1>14 DEF Shutdown, Shown, objectVars, windowVars, playerVars
<1>15. CASE UNCHANGED vars
  BY <1>15 DEF vars, Shown, objectVars, windowVars, playerVars
<1> QED BY <1>1, <1>2, <1>3, <1>4, <1>5, <1>6, <1>7, <1>8, <1>9, <1>10, <1>11, <1>12, <1>13,
           <1>14, <1>15 DEF Next

LEMMA CalmInit == Init => CalmInv
BY DEF Init, CalmInv, AssertionsHold, NoCallAfterDestroy, Shown

\* The assertions of SetWindow and Resize hold if the player does not pump messages in its calls.
THEOREM NoAssertionFails == ASSUME Pumps = FALSE PROVE Spec => []AssertionsHold
<1>1. IInv /\ CalmInv /\ [Next]_vars => IInv' /\ CalmInv'
  BY NextInv, CalmNext
<1>2. CalmInv => AssertionsHold
  BY DEF CalmInv
<1> QED BY <1>1, <1>2, InitInv, CalmInit, PTL DEF Spec

\* Nor does it hear of an instance again after its destroy (NPP_Destroy, NPPluginShutdown).
THEOREM DestroyIsLast == ASSUME Pumps = FALSE PROVE Spec => []NoCallAfterDestroy
<1>1. IInv /\ CalmInv /\ [Next]_vars => IInv' /\ CalmInv'
  BY NextInv, CalmNext
<1>2. CalmInv => NoCallAfterDestroy
  BY DEF CalmInv
<1> QED BY <1>1, <1>2, InitInv, CalmInit, PTL DEF Spec

-----------------------------------------------------------------------------
(***************************************************************************)
(* PlayerThread: the lock is deleted last, and the end of the program      *)
(* always reaches the thread.                                              *)
(***************************************************************************)

\* h_lock is with the thread that is at a place between entering and leaving it; player_cleanup
\* goes on to delete it only after the thread has ended.
LockSound ==
  /\ lock = "player" <=> player = "head"
  /\ lock = "deleted" <=> main = "done"
  /\ main = "done" => player = "ended"

\* The player thread ends after h_quit only.
QuitSound ==
  /\ h_quit <=> main # "idle"
  /\ player = "ended" => h_quit
  /\ ~handle => player = "ended"

\* The inductive invariant: with the event, as it stands.
EndInv == PlayerTypeOK /\ LockSound /\ QuitSound /\ WakeUpDue

LEMMA EndInit == PlayerInit => EndInv
BY DEF PlayerInit, EndInv, PlayerTypeOK, LockSound, QuitSound, WakeUpDue

LEMMA EndNext == EndInv /\ [PlayerNext]_queueVars => EndInv'
<1> SUFFICES ASSUME EndInv, [PlayerNext]_queueVars PROVE EndInv'
  OBVIOUS
<1> USE DEF EndInv, PlayerTypeOK, LockSound, QuitSound, WakeUpDue
<1>1. CASE Cleanup
  BY <1>1 DEF Cleanup
<1>2. CASE QuitAnnounce
  BY <1>2 DEF QuitAnnounce, QuitEvent
<1>3. CASE DeleteLock
  BY <1>3 DEF DeleteLock, Joined
<1>4. CASE Enter
  BY <1>4 DEF Enter
<1>5. CASE Empty
  BY <1>5 DEF Empty
<1>6. CASE Woken
  BY <1>6 DEF Woken
<1>7. CASE Drain
  BY <1>7 DEF Drain
<1>8. CASE EndThread
  BY <1>8 DEF EndThread
<1>9. CASE UNCHANGED queueVars
  BY <1>9 DEF queueVars
<1> QED BY <1>1, <1>2, <1>3, <1>4, <1>5, <1>6, <1>7, <1>8, <1>9 DEF PlayerNext, MainStep, PlayerStep

LEMMA EndInvariant == PlayerSpec => []EndInv
BY EndInit, EndNext, PTL DEF PlayerSpec

\* player_cleanup deletes h_lock only when the player thread has left it for the last time, and
\* the thread never waits for an event nobody is about to set while the program ends: h_quit,
\* written after it looked and before it waits, leaves the event set.
THEOREM ThreadEndIsSound == PlayerSpec => []EndSound
<1>1. EndInv => EndSound
  BY DEF EndInv, LockSound, EndSound, DeletedLast
<1> QED BY <1>1, EndInvariant, PTL
=============================================================================
