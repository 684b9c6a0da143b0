---------------------------- MODULE Host_proofs -----------------------------
(***************************************************************************)
(* Proofs about the hosts of the plugin: how npprunner loads it, and the   *)
(* script objects both hosts share with it.                                *)
(***************************************************************************)
EXTENDS PluginHost, NpObjects, FiniteSetTheorems, TLAPS

-----------------------------------------------------------------------------
(***************************************************************************)
(* PluginHost: what is mapped, open and initialised fits together, for any *)
(* files, paths and addresses.                                             *)
(***************************************************************************)

\* Opening a path maps one more module, or none.
LEMMA OpenLemma ==
  ASSUME NEW path, Open(path), maps \subseteq Handles, maps = {}
  PROVE  \/ /\ Loadable(path) /\ m_plugin' \in Handles /\ m_plugin' # Null
            /\ np' = m_plugin' /\ maps' = {m_plugin'}
         \/ ~Loadable(path) /\ m_plugin' = Null /\ np' = np /\ maps' = {}
BY NullAssumption DEF Open

\* The initial states satisfy the invariant.
LEMMA InitIndInv == Init => IndInv
BY DEF Init, IndInv, TypeOK, HandleMatched, Session, IsInited, HasObject, InPlayer, PcValues

\* IndInv is preserved by every step.
LEMMA NextIndInv == IndInv /\ [Next]_vars => IndInv'
<1> SUFFICES ASSUME IndInv, [Next]_vars PROVE IndInv'
  OBVIOUS
<1> USE NullAssumption DEF IndInv, TypeOK, HandleMatched, Session, IsInited, HasObject,
                           InPlayer, PcValues, Aborted, loaderVars, hostVars
<1>1. CASE StaticInit
  <2>1. PICK path \in Paths :
          /\ plugin_path' = IF EnvPath = Null THEN path ELSE Null
          /\ Open(path)
    BY <1>1 DEF StaticInit
  <2>2. maps = {} /\ pc' = "main_loop" /\ UNCHANGED <<files, inited, hostVars>>
    BY <1>1 DEF StaticInit
  <2> QED BY <2>1, <2>2, <1>1, OpenLemma DEF StaticInit
<1>2. CASE StaticFini
  BY <1>2 DEF StaticFini, Unloaded
<1>3. CASE Run
  <2>1. CASE m_plugin = Null
    <3>1. Open(plugin_path) /\ maps = {}
      BY <1>3, <2>1 DEF Run
    <3> QED BY <1>3, <3>1, <2>1, OpenLemma DEF Run
  <2>2. CASE m_plugin # Null
    BY <1>3, <2>2 DEF Run
  <2> QED BY <2>1, <2>2
<1>4. ASSUME NEW ok \in BOOLEAN, Initialized(ok) PROVE IndInv'
  BY <1>4 DEF Initialized
<1>5. CASE New
  BY <1>5 DEF New
<1>6. ASSUME NEW ok \in BOOLEAN, SetWindow(ok) PROVE IndInv'
  BY <1>6 DEF SetWindow
<1>7. CASE Stop
  BY <1>7 DEF Stop
<1>8. CASE Destroyed
  BY <1>8 DEF Destroyed, ObjectsLeft
<1>9. CASE ShutDown
  BY <1>9 DEF ShutDown, AfterShutdown
<1>10. CASE DlClose
  BY <1>10 DEF DlClose, Unloaded
<1>11. CASE Stopped
  BY <1>11 DEF Stopped
<1>12. CASE Quit
  BY <1>12 DEF Quit
<1>13. ASSUME NEW p \in Paths, NEW k \in Kinds, Replace(p, k) PROVE IndInv'
  BY <1>13 DEF Replace
<1>14. CASE UNCHANGED vars
  BY <1>14 DEF vars
<1> QED BY <1>1, <1>2, <1>3, <1>4, <1>5, <1>6, <1>7, <1>8, <1>9, <1>10, <1>11, <1>12, <1>13,
           <1>14 DEF Next

\* The invariant holds in every reachable state.
THEOREM SpecIndInv == Spec => []IndInv
BY InitIndInv, NextIndInv, PTL DEF Spec

\* The state has its types.
THEOREM SpecTypeOK == Spec => []TypeOK
<1>1. IndInv => TypeOK
  BY DEF IndInv
<1> QED BY <1>1, SpecIndInv, PTL

\* The module mapped is always the one the shim's pointers are in.
THEOREM SpecHandleMatched == Spec => []HandleMatched
<1>1. IndInv => HandleMatched
  BY DEF IndInv
<1> QED BY <1>1, SpecIndInv, PTL

\* The button tells the truth about the player.
THEOREM SpecPlayingMatched == Spec => []PlayingMatched
<1>1. IndInv => PlayingMatched
  BY DEF IndInv, Session, PlayingMatched, IsInited, HasObject
<1> QED BY <1>1, SpecIndInv, PTL

\* Module, function pointers, instance and button agree, however often the button is pressed.
THEOREM SpecHostSound == Spec => []HostSound
BY SpecTypeOK, SpecHandleMatched, SpecPlayingMatched, PTL DEF HostSound

\* Nothing is unmapped while it is in use.
THEOREM SpecUnmappedUnused == Spec => UnmappedUnused
<1>1. IndInv /\ [Next]_vars => [\A h \in maps \ maps' : h \notin inited /\ objects = {}]_vars
  <2> SUFFICES ASSUME IndInv, Next, NEW h \in maps \ maps'
               PROVE  h \notin inited /\ objects = {}
    OBVIOUS
  <2>1. pc \in {"static_fini", "dlclose"}
    <3>1. CASE StaticInit \/ Run
      <4>1. PICK path : Open(path) \/ maps' = maps
        BY <3>1 DEF StaticInit, Run
      <4> QED BY <4>1 DEF Open
    <3>2. CASE StaticFini \/ DlClose
      BY <3>2 DEF StaticFini, DlClose
    <3> QED BY <3>1, <3>2 DEF Next, Initialized, New, SetWindow, Stop, Destroyed, ShutDown,
                              Stopped, Quit, Replace, loaderVars
  <2> QED BY <2>1 DEF IndInv, Session, IsInited, HasObject
<1> QED BY <1>1, SpecIndInv, PTL DEF Spec, UnmappedUnused

\* With the search under $HOME, a player that can be loaded is loaded at every press.
THEOREM SpecSetupLoads == EnvPath = Null => (Spec => []SetupLoads)
<1> SUFFICES ASSUME EnvPath = Null PROVE Spec => []SetupLoads
  OBVIOUS
<1> DEFINE Inv == /\ pc # "static_init" => plugin_path \in Paths
                  /\ pc = "load_failed" => ~Loadable(plugin_path)
<1>1. Init => Inv
  BY DEF Init
<1>2. IndInv /\ Inv /\ [Next]_vars => Inv'
  <2> SUFFICES ASSUME IndInv, Inv, [Next]_vars PROVE Inv'
    OBVIOUS
  <2>1. CASE StaticInit
    BY <2>1 DEF StaticInit
  <2>2. CASE Run
    <3>1. CASE m_plugin = Null
      <4>1. Open(plugin_path) /\ maps = {} /\ maps \subseteq Handles
        BY <2>2, <3>1 DEF Run, IndInv, HandleMatched, TypeOK
      <4> QED BY <2>2, <4>1, OpenLemma DEF Run, Loadable
    <3>2. CASE m_plugin # Null
      BY <2>2, <3>2 DEF Run
    <3> QED BY <3>1, <3>2
  <2>3. CASE pc \notin Aborted /\ pc' # "static_init" /\ pc' # "load_failed"
             /\ pc # "static_init" /\ UNCHANGED plugin_path
    BY <2>3
  <2>4. CASE UNCHANGED <<pc, plugin_path>> /\ pc # "load_failed"
    BY <2>4
  <2>5. CASE UNCHANGED vars
    BY <2>5 DEF vars, loaderVars, Loadable
  <2> QED BY <2>1, <2>2, <2>3, <2>4, <2>5
          DEF Next, StaticFini, Initialized, New, SetWindow, Stop, Destroyed, ShutDown, DlClose,
              Stopped, Quit, Replace, loaderVars, Aborted
<1>3. Inv => SetupLoads
  BY NullAssumption DEF SetupLoads, PlayerPath, Loadable
<1> QED BY <1>1, <1>2, <1>3, SpecIndInv, PTL DEF Spec

-----------------------------------------------------------------------------
(***************************************************************************)
(* NpObjects: reference counts are exact and nothing dangles, whatever the *)
(* player keeps and gives back, for any number of objects, instances and   *)
(* variants.                                                               *)
(***************************************************************************)

\* References of the player, and of the host, to an object.
PlayerRefs(p) == held[p] + Cardinality(InVariant(p))
HostRefs(p) == Cardinality(WindowsOf(p)) + Cardinality(LocationOwners(p)) + lost[p]

\* What a variant may be, and the variants that own a string.
VariantValues == {Void, [type |-> "String", o |-> NoObject]} \cup [type : {"Object"}, o : NPObjects]
StringVariants == {v \in Slots : var[v].type = "String"}

\* Only window objects have a location, only they are kept for an instance, and an instance has one
\* (the host's, in nswinviewr) while it is alive.
WindowSound ==
  /\ \A o \in NPObjects : kind[o] # "window" => loc[o] = NoObject
  /\ \A i \in Owners : winref[i] # NoObject => kind[winref[i]] = "window"
  /\ PerInstance => \A i \in Instances : i \in alive <=> winref[i] # NoObject
  /\ ~PerInstance => (alive # {} => winref[TheHost] # NoObject)

\* The inductive invariant of the objects.
ObjInv == ObjTypeOK /\ CountsExact /\ NoDangling /\ StringsOwned /\ WindowSound

\* How the size of a set changes with one element, and when it is zero.
LEMMA OneMore ==
  ASSUME NEW S, IsFiniteSet(S), NEW x, x \notin S
  PROVE  Cardinality(S \cup {x}) = Cardinality(S) + 1
BY FS_AddElement

LEMMA OneLess ==
  ASSUME NEW S, IsFiniteSet(S), NEW x \in S
  PROVE  Cardinality(S \ {x}) = Cardinality(S) - 1 /\ Cardinality(S) > 0
<1>1. Cardinality(S) \in Nat /\ Cardinality(S) # 0
  BY FS_CardinalityType, FS_EmptySet
<1> QED BY <1>1, FS_RemoveElement

LEMMA SizeOf ==
  ASSUME NEW S, IsFiniteSet(S)
  PROVE  Cardinality(S) \in Nat /\ (Cardinality(S) = 0 <=> S = {})
BY FS_CardinalityType, FS_EmptySet

\* The sets of referrers are finite, their sizes are numbers, and zero for the empty set only.
LEMMA RefsFinite ==
  ASSUME ObjInv, NEW p \in NPObjects
  PROVE  /\ IsFiniteSet(InVariant(p)) /\ IsFiniteSet(WindowsOf(p)) /\ IsFiniteSet(LocationOwners(p))
         /\ Cardinality(InVariant(p)) \in Nat /\ Cardinality(WindowsOf(p)) \in Nat
         /\ Cardinality(LocationOwners(p)) \in Nat
         /\ Cardinality(InVariant(p)) = 0 <=> InVariant(p) = {}
         /\ Cardinality(WindowsOf(p)) = 0 <=> WindowsOf(p) = {}
         /\ Cardinality(LocationOwners(p)) = 0 <=> LocationOwners(p) = {}
         /\ held[p] \in Nat /\ lost[p] \in Nat /\ count[p] \in Nat
         /\ PlayerRefs(p) \in Nat /\ HostRefs(p) \in Nat
         /\ count[p] = PlayerRefs(p) + HostRefs(p)
<1>1. IsFiniteSet(Owners)
  BY FiniteAssumption, FS_Singleton DEF Owners
<1>2. InVariant(p) \subseteq Slots /\ WindowsOf(p) \subseteq Owners /\ LocationOwners(p) \subseteq NPObjects
  BY DEF InVariant, WindowsOf, LocationOwners
<1>3. IsFiniteSet(InVariant(p)) /\ IsFiniteSet(WindowsOf(p)) /\ IsFiniteSet(LocationOwners(p))
  BY <1>1, <1>2, FiniteAssumption, FS_Subset
<1>4. /\ Cardinality(InVariant(p)) \in Nat /\ Cardinality(WindowsOf(p)) \in Nat
      /\ Cardinality(LocationOwners(p)) \in Nat
      /\ Cardinality(InVariant(p)) = 0 <=> InVariant(p) = {}
      /\ Cardinality(WindowsOf(p)) = 0 <=> WindowsOf(p) = {}
      /\ Cardinality(LocationOwners(p)) = 0 <=> LocationOwners(p) = {}
  BY <1>3, SizeOf
<1>5. held[p] \in Nat /\ lost[p] \in Nat /\ count[p] \in Nat
  <2>1. MaxHeld[host] \in Nat
    BY HostAssumption DEF ObjInv, ObjTypeOK
  <2>2. held[p] \in 0..MaxHeld[host] /\ lost[p] \in Nat /\ count[p] \in Nat
    BY DEF ObjInv, ObjTypeOK
  <2> QED BY <2>1, <2>2
<1>6. count[p] = held[p] + Cardinality(InVariant(p)) + Cardinality(WindowsOf(p))
                   + Cardinality(LocationOwners(p)) + lost[p]
  BY DEF ObjInv, CountsExact
<1> QED BY <1>3, <1>4, <1>5, <1>6 DEF PlayerRefs, HostRefs

\* An object nobody refers to is free, and the other way round.
LEMMA Unreferenced ==
  ASSUME ObjInv, NEW p \in NPObjects, ~Live(p)
  PROVE  /\ count[p] = 0 /\ held[p] = 0 /\ lost[p] = 0 /\ InVariant(p) = {}
         /\ WindowsOf(p) = {} /\ LocationOwners(p) = {} /\ loc[p] = NoObject
<1>1. count[p] = 0
  BY RefsFinite DEF ObjInv, NoDangling
<1>2. loc[p] = NoObject
  BY DEF ObjInv, WindowSound, Live
<1>3. /\ count[p] = PlayerRefs(p) + HostRefs(p) /\ PlayerRefs(p) \in Nat /\ HostRefs(p) \in Nat
      /\ held[p] \in Nat /\ lost[p] \in Nat /\ Cardinality(InVariant(p)) \in Nat
      /\ Cardinality(WindowsOf(p)) \in Nat /\ Cardinality(LocationOwners(p)) \in Nat
  BY RefsFinite
<1>4. /\ held[p] = 0 /\ lost[p] = 0 /\ Cardinality(InVariant(p)) = 0
      /\ Cardinality(WindowsOf(p)) = 0 /\ Cardinality(LocationOwners(p)) = 0
  <2>1. PlayerRefs(p) = 0 /\ HostRefs(p) = 0
    BY <1>1, <1>3
  <2>2. held[p] = 0 /\ Cardinality(InVariant(p)) = 0
    <3>1. held[p] \in Nat /\ Cardinality(InVariant(p)) \in Nat
      BY <1>3
    <3>2. held[p] + Cardinality(InVariant(p)) = 0
      BY <2>1 DEF PlayerRefs
    <3> QED BY <3>1, <3>2
  <2>3. Cardinality(WindowsOf(p)) = 0 /\ Cardinality(LocationOwners(p)) = 0 /\ lost[p] = 0
    <3>1. /\ Cardinality(WindowsOf(p)) \in Nat /\ Cardinality(LocationOwners(p)) \in Nat
          /\ lost[p] \in Nat
      BY <1>3
    <3>2. Cardinality(WindowsOf(p)) + Cardinality(LocationOwners(p)) + lost[p] = 0
      BY <2>1 DEF HostRefs
    <3> QED BY <3>1, <3>2
  <2> QED BY <2>2, <2>3
<1> QED BY <1>1, <1>2, <1>4, RefsFinite

\* The window of an instance that is alive.
LEMMA AliveWindow ==
  ASSUME ObjInv, NEW i \in alive
  PROVE  WindowOf(i) \in NPObjects /\ kind[WindowOf(i)] = "window"
<1>1. i \in Instances /\ TheHost \in {TheHost}
  BY DEF ObjInv, ObjTypeOK
<1>2. WindowOf(i) # NoObject /\ (IF PerInstance THEN i ELSE TheHost) \in Owners
  BY <1>1 DEF ObjInv, WindowSound, WindowOf, Owners
<1> QED BY <1>2 DEF ObjInv, WindowSound, ObjTypeOK, WindowOf

-----------------------------------------------------------------------------
\* A reference of the player is given back: whatever it was, NPN_ReleaseObject leaves the counts of all
\* objects exact, and frees what has no reference any more with what hangs on it.
LEMMA ReleaseSound ==
  ASSUME ObjInv, NEW o \in NPObjects, ReleaseObject(o), UNCHANGED <<host, winref, alive, lost>>,
         PlayerRefs(o) > 0,
         \A p \in NPObjects : PlayerRefs(p)' = PlayerRefs(p) - (IF p = o THEN 1 ELSE 0)
  PROVE  /\ kind' \in [NPObjects -> Classes \cup {"free"}]
         /\ count' \in [NPObjects -> Nat]
         /\ loc' \in [NPObjects -> NPObjects \cup {NoObject}]
         /\ CountsExact' /\ NoDangling' /\ WindowSound'
<1> DEFINE gone == Freed(o)
           l == loc[o]
<1>1. /\ kind \in [NPObjects -> Classes \cup {"free"}] /\ count \in [NPObjects -> Nat]
      /\ loc \in [NPObjects -> NPObjects \cup {NoObject}] /\ NoObject \notin NPObjects
      /\ winref \in [Owners -> NPObjects \cup {NoObject}]
  BY NoObjectAssumption DEF ObjInv, ObjTypeOK
<1>2. /\ kind' = [p \in NPObjects |-> IF p \in gone THEN "free" ELSE kind[p]]
      /\ count' = [p \in NPObjects |-> IF p = o THEN count[p] - 1
                                       ELSE IF o \in gone /\ p = l THEN count[p] - 1 ELSE count[p]]
      /\ loc' = [p \in NPObjects |-> IF p \in gone THEN NoObject ELSE loc[p]]
  BY DEF ReleaseObject
<1>3. /\ count[o] > 0 /\ Live(o) /\ count[o] = PlayerRefs(o) + HostRefs(o)
      /\ PlayerRefs(o) \in Nat /\ HostRefs(o) \in Nat /\ count[o] \in Nat
  <2>1. /\ count[o] = PlayerRefs(o) + HostRefs(o) /\ PlayerRefs(o) \in Nat /\ HostRefs(o) \in Nat
        /\ count[o] \in Nat
    BY RefsFinite
  <2>2. count[o] > 0
    BY <2>1
  <2> QED BY <2>1, <2>2 DEF ObjInv, NoDangling
<1>4. ASSUME l # NoObject
      PROVE  /\ l \in NPObjects /\ l # o /\ kind[o] = "window" /\ kind[l] = "location" /\ loc[l] = NoObject
             /\ o \in LocationOwners(l) /\ count[l] > 0 /\ count[l] \in Nat
  <2>1. l \in NPObjects
    BY <1>1, <1>4
  <2>2. kind[o] = "window"
    BY <1>4 DEF ObjInv, WindowSound
  <2>3. kind[l] = "location"
    BY <2>2 DEF ObjInv, NoDangling
  <2>4. loc[l] = NoObject /\ Live(l)
    BY <2>1, <2>3 DEF ObjInv, WindowSound, Live
  <2>5. count[l] > 0
    BY <2>1, <2>4 DEF ObjInv, NoDangling
  <2> QED BY <1>1, <2>1, <2>2, <2>3, <2>4, <2>5 DEF LocationOwners
<1>5. o \in gone <=> count[o] = 1
  <2>1. CASE count[o] = 1
    BY <2>1 DEF Freed
  <2>2. CASE count[o] # 1
    BY <2>2 DEF Freed
  <2> QED BY <2>1, <2>2
<1>6. ASSUME NEW p \in NPObjects, p # o PROVE p \in gone <=> o \in gone /\ p = l /\ count[p] = 1
  BY <1>1, <1>4, <1>5, <1>6 DEF Freed
\* What is freed has no reference of the host, but for the window its location belonged to.
<1>7. ASSUME o \in gone PROVE WindowsOf(o) = {} /\ LocationOwners(o) = {}
  <2>1. HostRefs(o) = 0
    BY <1>3, <1>5, <1>7
  <2>2. Cardinality(WindowsOf(o)) = 0 /\ Cardinality(LocationOwners(o)) = 0
    BY <2>1, RefsFinite DEF HostRefs
  <2> QED BY <2>2, RefsFinite
<1>8. ASSUME NEW p \in NPObjects, p \in gone, p # o PROVE WindowsOf(p) = {} /\ LocationOwners(p) = {o}
  <2>1. p = l /\ count[p] = 1 /\ o \in gone /\ o \in LocationOwners(p) /\ l # NoObject
    BY <1>1, <1>4, <1>6, <1>8
  <2>2. /\ IsFiniteSet(LocationOwners(p)) /\ Cardinality(LocationOwners(p)) \in Nat
        /\ Cardinality(WindowsOf(p)) \in Nat /\ lost[p] \in Nat
        /\ count[p] = PlayerRefs(p) + HostRefs(p) /\ PlayerRefs(p) \in Nat
        /\ (Cardinality(WindowsOf(p)) = 0 <=> WindowsOf(p) = {})
    BY RefsFinite
  <2>3. Cardinality(LocationOwners(p)) > 0
    BY <2>1, <2>2, OneLess
  <2>4. Cardinality(LocationOwners(p)) = 1 /\ Cardinality(WindowsOf(p)) = 0
    BY <2>1, <2>2, <2>3 DEF HostRefs
  <2>5. Cardinality(LocationOwners(p) \ {o}) = 0 /\ IsFiniteSet(LocationOwners(p) \ {o})
    BY <2>1, <2>2, <2>4, OneLess, FS_RemoveElement
  <2>6. LocationOwners(p) \ {o} = {}
    BY <2>5, SizeOf
  <2> QED BY <2>1, <2>2, <2>4, <2>6
<1>9. o \in gone /\ l # NoObject => l \in NPObjects
  BY <1>4
<1>10. ASSUME NEW p \in NPObjects
       PROVE  LocationOwners(p)' = IF o \in gone /\ p = l THEN LocationOwners(p) \ {o} ELSE LocationOwners(p)
  <2>1. ASSUME NEW w \in NPObjects
        PROVE  loc'[w] = p <=> loc[w] = p /\ ~(o \in gone /\ p = l /\ w = o)
    <3>1. CASE w = o
      BY <1>1, <1>2, <3>1
    <3>2. CASE w # o /\ w \in gone
      <4>1. loc[w] = NoObject
        BY <1>1, <1>4, <1>6, <3>2
      <4> QED BY <1>1, <1>2, <3>2, <4>1
    <3>3. CASE w # o /\ w \notin gone
      BY <1>2, <3>3
    <3> QED BY <3>1, <3>2, <3>3
  <2>2. LocationOwners(p)' = {w \in NPObjects : loc'[w] = p}
    BY DEF LocationOwners
  <2> QED BY <2>1, <2>2 DEF LocationOwners
<1>11. \A p \in NPObjects : WindowsOf(p)' = WindowsOf(p)
  BY DEF WindowsOf, Owners, PerInstance
<1>12. ASSUME NEW p \in NPObjects
       PROVE  /\ count'[p] \in Nat
              /\ count'[p] = PlayerRefs(p)' + HostRefs(p)'
              /\ count'[p] = 0 <=> (p \in gone \/ count[p] = 0)
  <2>1. /\ count[p] = PlayerRefs(p) + HostRefs(p) /\ PlayerRefs(p) \in Nat /\ HostRefs(p) \in Nat
        /\ count[p] \in Nat /\ IsFiniteSet(LocationOwners(p)) /\ Cardinality(LocationOwners(p)) \in Nat
        /\ Cardinality(WindowsOf(p)) \in Nat /\ lost[p] \in Nat
    BY RefsFinite
  <2>2. PlayerRefs(p)' = PlayerRefs(p) - (IF p = o THEN 1 ELSE 0)
    OBVIOUS
  <2>3. HostRefs(p)' = Cardinality(WindowsOf(p)) + Cardinality(LocationOwners(p)') + lost[p]
    BY <1>11 DEF HostRefs
  <2>4. CASE p = o
    <3>1. ~(o \in gone /\ p = l)
      BY <1>1, <1>4, <2>4
    <3>2. HostRefs(p)' = HostRefs(p)
      BY <1>10, <2>3, <3>1 DEF HostRefs
    <3>3. count'[p] = count[p] - 1
      BY <1>2, <2>4
    <3> QED BY <1>3, <1>5, <2>1, <2>2, <2>4, <3>2, <3>3
  <2>5. CASE p # o /\ o \in gone /\ p = l
    <3>1. o \in LocationOwners(p) /\ count[p] > 0
      BY <1>1, <1>4, <2>5
    <3>2. Cardinality(LocationOwners(p)') = Cardinality(LocationOwners(p)) - 1
      BY <1>10, <2>1, <2>5, <3>1, OneLess
    <3>3. count'[p] = count[p] - 1
      BY <1>2, <2>5
    <3>4. HostRefs(p)' = HostRefs(p) - 1
      BY <2>1, <2>3, <3>2 DEF HostRefs
    <3>5. p \in gone <=> count[p] = 1
      BY <1>6, <2>5
    <3> QED BY <2>1, <2>2, <2>5, <3>1, <3>3, <3>4, <3>5
  <2>6. CASE p # o /\ ~(o \in gone /\ p = l)
    <3>1. count'[p] = count[p] /\ p \notin gone
      BY <1>2, <1>6, <2>6
    <3>2. HostRefs(p)' = HostRefs(p)
      BY <1>10, <2>3, <2>6 DEF HostRefs
    <3> QED BY <2>1, <2>2, <2>6, <3>1, <3>2
  <2> QED BY <2>4, <2>5, <2>6
<1> HIDE DEF gone, l
<1>13. /\ kind' \in [NPObjects -> Classes \cup {"free"}] /\ count' \in [NPObjects -> Nat]
       /\ loc' \in [NPObjects -> NPObjects \cup {NoObject}]
  <2>1. kind' \in [NPObjects -> Classes \cup {"free"}]
    BY <1>1, <1>2
  <2>2. loc' \in [NPObjects -> NPObjects \cup {NoObject}]
    BY <1>1, <1>2
  <2>3. \A p \in NPObjects : count'[p] \in Nat
    BY <1>12
  <2>4. count' = [p \in NPObjects |-> count'[p]]
    BY <1>2
  <2> QED BY <2>1, <2>2, <2>3, <2>4
<1>14. CountsExact'
  <2> SUFFICES ASSUME NEW p \in NPObjects
               PROVE count'[p] = held'[p] + Cardinality(InVariant(p)') + Cardinality(WindowsOf(p)')
                                 + Cardinality(LocationOwners(p)') + lost'[p]
    BY DEF CountsExact
  <2>1. /\ count'[p] = PlayerRefs(p)' + HostRefs(p)'
        /\ PlayerRefs(p)' = held'[p] + Cardinality(InVariant(p)')
        /\ HostRefs(p)' = Cardinality(WindowsOf(p)') + Cardinality(LocationOwners(p)') + lost'[p]
    BY <1>12 DEF PlayerRefs, HostRefs
  <2>2. /\ Cardinality(WindowsOf(p)') \in Int /\ Cardinality(LocationOwners(p)') \in Int /\ lost'[p] \in Int
    <3>1. /\ IsFiniteSet(LocationOwners(p)) /\ Cardinality(LocationOwners(p)) \in Int
          /\ Cardinality(WindowsOf(p)) \in Int /\ lost[p] \in Int
      BY RefsFinite
    <3>2. IsFiniteSet(LocationOwners(p)') /\ WindowsOf(p)' = WindowsOf(p)
      BY <1>10, <1>11, <3>1, FS_RemoveElement, FS_Subset
    <3> QED BY <3>1, <3>2, SizeOf
  <2>3. held'[p] + Cardinality(InVariant(p)') \in Int
    <3>1. PlayerRefs(p) \in Int /\ PlayerRefs(p)' = PlayerRefs(p) - (IF p = o THEN 1 ELSE 0)
      BY RefsFinite
    <3> QED BY <3>1, <2>1
  <2> QED BY <2>1, <2>2, <2>3
<1>15. WindowSound'
  <2>1. \A p \in NPObjects : kind'[p] # "window" => loc'[p] = NoObject
    BY <1>1, <1>2 DEF ObjInv, WindowSound
  <2>2. \A i \in Owners : winref[i] # NoObject => kind'[winref[i]] = "window"
    <3> TAKE i \in Owners
    <3> HAVE winref[i] # NoObject
    <3>1. winref[i] \in NPObjects /\ i \in WindowsOf(winref[i]) /\ kind[winref[i]] = "window"
      BY <1>1 DEF WindowsOf, ObjInv, WindowSound
    <3>2. winref[i] \notin gone
      BY <3>1, <1>7, <1>8
    <3> QED BY <1>2, <3>1, <3>2
  <2> QED BY <2>1, <2>2 DEF ObjInv, WindowSound, Owners, PerInstance
<1>16. NoDangling'
  <2>1. \A p \in NPObjects : Live(p)' <=> count'[p] > 0
    <3> TAKE p \in NPObjects
    <3>1. Live(p)' <=> ~(p \in gone \/ kind[p] = "free")
      BY <1>2 DEF Live
    <3>2. kind[p] = "free" <=> count[p] = 0
      BY <1>1 DEF ObjInv, NoDangling, Live
    <3> QED BY <1>12, <3>1, <3>2
  <2>2. ASSUME NEW p \in NPObjects, kind'[p] = "window"
        PROVE  loc'[p] # NoObject /\ kind'[loc'[p]] = "location"
    <3>1. p \notin gone /\ kind[p] = "window"
      BY <1>2, <2>2
    <3>2. loc[p] # NoObject /\ kind[loc[p]] = "location" /\ loc'[p] = loc[p] /\ loc[p] \in NPObjects
      BY <1>1, <1>2, <3>1 DEF ObjInv, NoDangling
    <3>3. loc[p] \notin gone
      <4>1. SUFFICES ASSUME loc[p] \in gone PROVE FALSE
        OBVIOUS
      <4>2. p \in LocationOwners(loc[p])
        BY DEF LocationOwners
      <4>3. CASE loc[p] = o
        BY <1>7, <4>1, <4>2, <4>3
      <4>4. CASE loc[p] # o
        <5>1. LocationOwners(loc[p]) = {o}
          BY <1>8, <3>2, <4>1, <4>4
        <5>2. p = o /\ o \in gone
          BY <1>6, <3>2, <4>1, <4>2, <4>4, <5>1
        <5> QED BY <3>1, <5>2
      <4> QED BY <4>3, <4>4
    <3> QED BY <1>2, <3>2, <3>3
  <2>3. ASSUME NEW i \in alive PROVE kind'[WindowOf(i)'] = "window"
    <3>1. WindowOf(i) \in NPObjects /\ kind[WindowOf(i)] = "window" /\ WindowOf(i)' = WindowOf(i)
      BY AliveWindow DEF WindowOf, PerInstance
    <3>2. i \in Instances
      BY DEF ObjInv, ObjTypeOK
    <3>3. \E j \in Owners : winref[j] = WindowOf(i)
      BY <3>2 DEF WindowOf, Owners
    <3>4. WindowsOf(WindowOf(i)) # {}
      BY <3>3 DEF WindowsOf
    <3>5. WindowOf(i) \notin gone
      BY <1>7, <1>8, <3>1, <3>4
    <3> QED BY <1>2, <3>1, <3>5
  <2> QED BY <2>1, <2>2, <2>3 DEF NoDangling
<1> QED BY <1>13, <1>14, <1>15, <1>16

-----------------------------------------------------------------------------
\* The variants after v is filled, or emptied.
LEMMA VariantFilled ==
  ASSUME ObjInv, NEW v \in Slots, var[v] = Void, NEW r \in NPObjects,
         var' = [var EXCEPT ![v] = [type |-> "Object", o |-> r]]
  PROVE  /\ \A p \in NPObjects : Cardinality(InVariant(p)') = Cardinality(InVariant(p)) + (IF p = r THEN 1 ELSE 0)
         /\ StringVariants' = StringVariants
<1>1. var \in [Slots -> VariantValues]
  BY DEF ObjInv, ObjTypeOK, VariantValues
<1>2. ASSUME NEW p \in NPObjects
      PROVE InVariant(p)' = IF p = r THEN InVariant(p) \cup {v} ELSE InVariant(p)
  BY <1>1 DEF InVariant, Void
<1>3. v \notin InVariant(r)
  BY DEF InVariant, Void
<1>4. \A p \in NPObjects : IsFiniteSet(InVariant(p)) /\ Cardinality(InVariant(p)) \in Nat
  BY RefsFinite
<1>5. Cardinality(InVariant(r) \cup {v}) = Cardinality(InVariant(r)) + 1
  BY <1>3, <1>4, OneMore
<1>6. StringVariants' = StringVariants
  BY <1>1 DEF StringVariants, Void
<1> QED BY <1>2, <1>4, <1>5, <1>6

LEMMA VariantEmptied ==
  ASSUME ObjInv, NEW v \in Slots, var' = [var EXCEPT ![v] = Void]
  PROVE  /\ \A p \in NPObjects : Cardinality(InVariant(p)')
              = Cardinality(InVariant(p)) - (IF var[v].type = "Object" /\ p = var[v].o THEN 1 ELSE 0)
         /\ StringVariants' = IF var[v].type = "String" THEN StringVariants \ {v} ELSE StringVariants
         /\ var[v].type = "Object" =>
              var[v].o \in NPObjects /\ v \in InVariant(var[v].o) /\ Cardinality(InVariant(var[v].o)) > 0
<1>1. var \in [Slots -> VariantValues]
  BY DEF ObjInv, ObjTypeOK, VariantValues
<1>2. var[v].type = "Object" => var[v].o \in NPObjects /\ var[v] = [type |-> "Object", o |-> var[v].o]
  BY <1>1 DEF VariantValues, Void
<1>3. var[v].type = "Object" => v \in InVariant(var[v].o)
  BY <1>2 DEF InVariant
<1>4. \A p \in NPObjects : v \in InVariant(p) => var[v].type = "Object" /\ var[v].o = p
  BY DEF InVariant
<1>5. \A p \in NPObjects : InVariant(p)' = InVariant(p) \ {v}
  BY <1>1 DEF InVariant, Void
<1>6. \A p \in NPObjects : IsFiniteSet(InVariant(p)) /\ Cardinality(InVariant(p)) \in Nat
  BY RefsFinite
<1>7. \A p \in NPObjects : v \in InVariant(p) =>
        Cardinality(InVariant(p) \ {v}) = Cardinality(InVariant(p)) - 1 /\ Cardinality(InVariant(p)) > 0
  BY <1>6, OneLess
<1>8. \A p \in NPObjects : v \notin InVariant(p) => InVariant(p) \ {v} = InVariant(p)
  OBVIOUS
<1>9. \A p \in NPObjects : v \in InVariant(p) <=> var[v].type = "Object" /\ var[v].o = p
  BY <1>3, <1>4
<1>10. \A p \in NPObjects : Cardinality(InVariant(p)')
         = Cardinality(InVariant(p)) - (IF var[v].type = "Object" /\ p = var[v].o THEN 1 ELSE 0)
  <2> TAKE p \in NPObjects
  <2>1. CASE v \in InVariant(p)
    BY <1>5, <1>7, <1>9, <2>1
  <2>2. CASE v \notin InVariant(p)
    BY <1>5, <1>6, <1>8, <1>9, <2>2
  <2> QED BY <2>1, <2>2
<1>11. StringVariants' = IF var[v].type = "String" THEN StringVariants \ {v} ELSE StringVariants
  BY <1>1 DEF StringVariants, Void
<1> QED BY <1>2, <1>3, <1>7, <1>10, <1>11

\* The window object and its location are made where no object lived.
LEMMA WindowCreated ==
  ASSUME ObjInv, NEW i \in Owners, winref[i] = NoObject, NEW w \in NPObjects, NEW l \in NPObjects,
         CreateWindow(i, w, l), UNCHANGED <<host, held, var, strings, lost>>
  PROVE  /\ kind' \in [NPObjects -> Classes \cup {"free"}] /\ count' \in [NPObjects -> Nat]
         /\ loc' \in [NPObjects -> NPObjects \cup {NoObject}]
         /\ winref' \in [Owners -> NPObjects \cup {NoObject}]
         /\ winref' = [winref EXCEPT ![i] = w]
         /\ CountsExact'
         /\ \A o \in NPObjects : Live(o)' <=> count'[o] > 0
         /\ \A o \in NPObjects : kind'[o] = "window" => loc'[o] # NoObject /\ kind'[loc'[o]] = "location"
         /\ \A o \in NPObjects : kind'[o] # "window" => loc'[o] = NoObject
         /\ \A j \in Owners : winref'[j] # NoObject => kind'[winref'[j]] = "window"
<1>1. /\ kind \in [NPObjects -> Classes \cup {"free"}] /\ count \in [NPObjects -> Nat]
      /\ loc \in [NPObjects -> NPObjects \cup {NoObject}] /\ NoObject \notin NPObjects
      /\ winref \in [Owners -> NPObjects \cup {NoObject}]
  BY NoObjectAssumption DEF ObjInv, ObjTypeOK
<1>2. /\ w # l /\ kind' = [kind EXCEPT ![w] = "window", ![l] = "location"]
      /\ count' = [count EXCEPT ![w] = 1, ![l] = 1]
      /\ loc' = [loc EXCEPT ![w] = l] /\ winref' = [winref EXCEPT ![i] = w]
      /\ ~Live(w) /\ ~Live(l)
  BY DEF CreateWindow
<1>3. /\ held[w] = 0 /\ lost[w] = 0 /\ InVariant(w) = {} /\ WindowsOf(w) = {} /\ LocationOwners(w) = {}
      /\ held[l] = 0 /\ lost[l] = 0 /\ InVariant(l) = {} /\ WindowsOf(l) = {} /\ LocationOwners(l) = {}
      /\ loc[w] = NoObject /\ loc[l] = NoObject
  BY <1>2, Unreferenced
<1>4. /\ kind' \in [NPObjects -> Classes \cup {"free"}] /\ count' \in [NPObjects -> Nat]
      /\ loc' \in [NPObjects -> NPObjects \cup {NoObject}]
      /\ winref' \in [Owners -> NPObjects \cup {NoObject}]
  BY <1>1, <1>2 DEF Classes
<1>5. CountsExact'
  <2> SUFFICES ASSUME NEW p \in NPObjects
               PROVE count'[p] = held[p] + Cardinality(InVariant(p)') + Cardinality(WindowsOf(p)')
                                 + Cardinality(LocationOwners(p)') + lost[p]
    BY DEF CountsExact
  <2>1. InVariant(p)' = InVariant(p)
    BY DEF InVariant
  <2>2. WindowsOf(p)' = IF p = w THEN {i} ELSE WindowsOf(p)
    <3>1. WindowsOf(p)' = {j \in Owners : winref'[j] = p}
      BY DEF WindowsOf, Owners, PerInstance
    <3>2. \A j \in Owners : winref'[j] = IF j = i THEN w ELSE winref[j]
      BY <1>1, <1>2
    <3> QED BY <1>1, <1>3, <3>1, <3>2 DEF WindowsOf
  <2>3. LocationOwners(p)' = IF p = l THEN {w} ELSE LocationOwners(p)
    <3>1. \A q \in NPObjects : loc'[q] = IF q = w THEN l ELSE loc[q]
      BY <1>1, <1>2
    <3> QED BY <1>1, <1>3, <3>1 DEF LocationOwners
  <2>4. Cardinality({i}) = 1 /\ Cardinality({w}) = 1 /\ Cardinality({}) = 0
    BY FS_Singleton, FS_EmptySet
  <2>5. CASE p = w
    BY <1>1, <1>2, <1>3, <2>1, <2>2, <2>3, <2>4, <2>5
  <2>6. CASE p = l
    BY <1>1, <1>2, <1>3, <2>1, <2>2, <2>3, <2>4, <2>6
  <2>7. CASE p # w /\ p # l
    <3>1. count'[p] = count[p]
      BY <1>1, <1>2, <2>7
    <3> QED BY <2>1, <2>2, <2>3, <2>7, <3>1 DEF ObjInv, CountsExact
  <2> QED BY <2>5, <2>6, <2>7
<1>6. \A o \in NPObjects : Live(o)' <=> count'[o] > 0
  BY <1>1, <1>2 DEF ObjInv, NoDangling, Live
<1>7. \A o \in NPObjects : kind'[o] = "window" => loc'[o] # NoObject /\ kind'[loc'[o]] = "location"
  <2> TAKE o \in NPObjects
  <2> HAVE kind'[o] = "window"
  <2>1. CASE o = w
    BY <1>1, <1>2, <2>1
  <2>2. CASE o # w
    <3>1. kind[o] = "window" /\ loc'[o] = loc[o] /\ loc[o] # NoObject /\ kind[loc[o]] = "location"
      BY <1>1, <1>2, <2>2 DEF ObjInv, NoDangling
    <3>2. loc[o] \in NPObjects /\ loc[o] # w /\ loc[o] # l
      BY <1>1, <1>2, <3>1 DEF Live
    <3> QED BY <1>1, <1>2, <3>1, <3>2
  <2> QED BY <2>1, <2>2
<1>8. \A o \in NPObjects : kind'[o] # "window" => loc'[o] = NoObject
  BY <1>1, <1>2, <1>3 DEF ObjInv, WindowSound
<1>9. \A j \in Owners : winref'[j] # NoObject => kind'[winref'[j]] = "window"
  <2> TAKE j \in Owners
  <2>1. CASE j = i
    BY <1>1, <1>2, <2>1
  <2>2. CASE j # i
    <3>1. winref'[j] = winref[j]
      BY <1>1, <1>2, <2>2
    <3>2. winref[j] # NoObject => winref[j] \in NPObjects /\ kind[winref[j]] = "window"
      BY <1>1 DEF ObjInv, WindowSound
    <3> QED BY <1>1, <1>2, <3>1, <3>2 DEF Live
  <2> QED BY <2>1, <2>2
<1> QED BY <1>2, <1>4, <1>5, <1>6, <1>7, <1>8, <1>9

LEMMA ObjInitInv == ObjInit => ObjInv
<1> SUFFICES ASSUME ObjInit PROVE ObjInv
  OBVIOUS
<1> USE NoObjectAssumption DEF ObjInit
<1>1. ObjTypeOK
  BY HostAssumption DEF ObjTypeOK, Void, Owners
<1>2. CountsExact
  <2>1. \A o \in NPObjects : InVariant(o) = {} /\ WindowsOf(o) = {} /\ LocationOwners(o) = {}
    BY DEF InVariant, WindowsOf, LocationOwners, Void
  <2> QED BY <2>1, FS_EmptySet DEF CountsExact
<1>3. NoDangling
  BY DEF NoDangling, Live
<1>4. StringsOwned
  <2>1. {v \in Slots : var[v].type = "String"} = {}
    BY DEF Void
  <2> QED BY <2>1, FS_EmptySet DEF StringsOwned
<1>5. WindowSound
  BY DEF WindowSound, Owners, PerInstance
<1> QED BY <1>1, <1>2, <1>3, <1>4, <1>5 DEF ObjInv

\* A step that leaves classes, locations and windows alone keeps what is said of them, as long as no
\* count falls.
LEMMA KindsKept ==
  ASSUME ObjInv, UNCHANGED <<host, kind, loc, winref, alive>>,
         \A o \in NPObjects : count'[o] = count[o] \/ (count[o] > 0 /\ count'[o] > 0)
  PROVE  NoDangling' /\ WindowSound'
<1>1. NoDangling'
  BY DEF ObjInv, NoDangling, Live, WindowOf, PerInstance
<1>2. WindowSound'
  BY DEF ObjInv, WindowSound, Owners, PerInstance
<1> QED BY <1>1, <1>2

\* One more reference to r, by whatever refers to it.
LEMMA Counted ==
  ASSUME ObjInv, NEW r \in NPObjects, Live(r), count' = Retained(r),
         UNCHANGED <<host, kind, loc, winref, alive>>,
         \A p \in NPObjects : held'[p] + Cardinality(InVariant(p)') + lost'[p]
            = held[p] + Cardinality(InVariant(p)) + lost[p] + (IF p = r THEN 1 ELSE 0),
         \A p \in NPObjects : held'[p] \in Nat /\ Cardinality(InVariant(p)') \in Nat /\ lost'[p] \in Nat
  PROVE  count' \in [NPObjects -> Nat] /\ CountsExact' /\ NoDangling' /\ WindowSound'
<1>1. count \in [NPObjects -> Nat] /\ count[r] > 0
  BY DEF ObjInv, ObjTypeOK, NoDangling
<1>2. \A p \in NPObjects : count'[p] = IF p = r THEN count[p] + 1 ELSE count[p]
  BY <1>1 DEF Retained
<1>3. count' \in [NPObjects -> Nat]
  BY <1>1 DEF Retained
<1>4. NoDangling' /\ WindowSound'
  BY <1>1, <1>2, KindsKept
<1>5. CountsExact'
  <2> SUFFICES ASSUME NEW p \in NPObjects
               PROVE count'[p] = held'[p] + Cardinality(InVariant(p)') + Cardinality(WindowsOf(p)')
                                 + Cardinality(LocationOwners(p)') + lost'[p]
    BY DEF CountsExact
  <2>1. WindowsOf(p)' = WindowsOf(p) /\ LocationOwners(p)' = LocationOwners(p)
    BY DEF WindowsOf, LocationOwners, Owners, PerInstance
  <2>2. /\ Cardinality(InVariant(p)) \in Nat /\ Cardinality(WindowsOf(p)) \in Nat
        /\ Cardinality(LocationOwners(p)) \in Nat /\ held[p] \in Nat /\ lost[p] \in Nat
    BY RefsFinite
  <2>3. count[p] = held[p] + Cardinality(InVariant(p)) + Cardinality(WindowsOf(p))
                   + Cardinality(LocationOwners(p)) + lost[p]
    BY DEF ObjInv, CountsExact
  <2> QED BY <1>2, <2>1, <2>2, <2>3
<1> QED BY <1>3, <1>4, <1>5

\* An object the player reaches is alive.
LEMMA ReachedLives ==
  ASSUME ObjInv, NEW o \in NPObjects, Reaches(o)
  PROVE  Live(o) /\ PlayerRefs(o) > 0
<1>1. /\ held[o] \in Nat /\ Cardinality(InVariant(o)) \in Nat
      /\ Cardinality(InVariant(o)) = 0 <=> InVariant(o) = {}
      /\ PlayerRefs(o) \in Nat /\ HostRefs(o) \in Nat /\ count[o] = PlayerRefs(o) + HostRefs(o)
  BY RefsFinite
<1>2. held[o] + Cardinality(InVariant(o)) > 0
  BY <1>1 DEF Reaches
<1>3. PlayerRefs(o) > 0
  BY <1>2 DEF PlayerRefs
<1>4. count[o] > 0
  BY <1>1, <1>3
<1> QED BY <1>3, <1>4 DEF ObjInv, NoDangling

\* The references the player has in variants do not change with the other variables.
LEMMA VariantsKept ==
  ASSUME UNCHANGED var
  PROVE  /\ \A p \in NPObjects : InVariant(p)' = InVariant(p)
         /\ (StringsOwned /\ UNCHANGED strings) => StringsOwned'
BY DEF InVariant, StringsOwned

\* A window is made, for an instance or for the host.
LEMMA CreateWindowSound ==
  ASSUME ObjInv, NEW i \in Owners, winref[i] = NoObject, NEW w \in NPObjects, NEW l \in NPObjects,
         CreateWindow(i, w, l), UNCHANGED <<host, held, var, strings, lost>>,
         IF PerInstance THEN alive' = alive \cup {i} ELSE alive' = alive
  PROVE  ObjInv'
<1>1. /\ kind' \in [NPObjects -> Classes \cup {"free"}] /\ count' \in [NPObjects -> Nat]
      /\ loc' \in [NPObjects -> NPObjects \cup {NoObject}]
      /\ winref' \in [Owners -> NPObjects \cup {NoObject}]
      /\ winref' = [winref EXCEPT ![i] = w]
      /\ CountsExact'
      /\ \A o \in NPObjects : Live(o)' <=> count'[o] > 0
      /\ \A o \in NPObjects : kind'[o] = "window" => loc'[o] # NoObject /\ kind'[loc'[o]] = "location"
      /\ \A o \in NPObjects : kind'[o] # "window" => loc'[o] = NoObject
      /\ \A j \in Owners : winref'[j] # NoObject => kind'[winref'[j]] = "window"
  BY WindowCreated
<1>2. /\ ObjTypeOK /\ WindowSound /\ w # NoObject /\ winref \in [Owners -> NPObjects \cup {NoObject}]
      /\ PerInstance' = PerInstance /\ Owners' = Owners /\ alive \subseteq Instances
  BY NoObjectAssumption DEF ObjInv, ObjTypeOK, PerInstance, Owners
<1>3. \A j \in Owners : winref'[j] = IF j = i THEN w ELSE winref[j]
  BY <1>1, <1>2
<1>4. ObjTypeOK'
  <2>1. alive' \subseteq Instances
    BY <1>2 DEF Owners
  <2> QED BY <1>1, <1>2, <2>1 DEF ObjTypeOK
<1>5. WindowSound'
  <2>1. PerInstance => \A j \in Instances : j \in alive' <=> winref'[j] # NoObject
    BY <1>2, <1>3 DEF WindowSound, Owners
  <2>2. ~PerInstance => winref'[TheHost] # NoObject
    BY <1>2, <1>3 DEF Owners
  <2> QED BY <1>1, <1>2, <2>1, <2>2 DEF WindowSound
<1>6. NoDangling'
  <2>1. ASSUME NEW j \in alive' PROVE kind'[WindowOf(j)'] = "window"
    <3>1. j \in Instances
      BY <1>2 DEF Owners
    <3>2. WindowOf(j)' = winref'[IF PerInstance THEN j ELSE TheHost]
      BY <1>2 DEF WindowOf
    <3>3. (IF PerInstance THEN j ELSE TheHost) \in Owners /\ winref'[IF PerInstance THEN j ELSE TheHost] # NoObject
      BY <1>2, <1>3, <3>1 DEF WindowSound, Owners
    <3> QED BY <1>1, <3>2, <3>3
  <2> QED BY <1>1, <2>1 DEF NoDangling
<1>7. StringsOwned'
  BY VariantsKept DEF ObjInv
<1> QED BY <1>1, <1>4, <1>5, <1>6, <1>7 DEF ObjInv

\* A pointer to r is given to the player.
LEMMA HeldSoundly ==
  ASSUME ObjInv, NEW r \in NPObjects, Live(r), held[r] < MaxHeld[host], count' = Retained(r),
         held' = [held EXCEPT ![r] = @ + 1],
         UNCHANGED <<host, kind, loc, winref, alive, var, strings, lost>>
  PROVE  ObjInv'
<1>1. MaxHeld[host] \in Nat /\ held \in [NPObjects -> 0..MaxHeld[host]]
  BY HostAssumption DEF ObjInv, ObjTypeOK
<1>2. \A p \in NPObjects : held[p] \in Nat /\ Cardinality(InVariant(p)) \in Nat /\ lost[p] \in Nat
  BY RefsFinite
<1>3. \A p \in NPObjects : held'[p] = held[p] + (IF p = r THEN 1 ELSE 0)
  BY <1>1, <1>2
<1>4. held' \in [NPObjects -> 0..MaxHeld[host]]
  BY <1>1, <1>2
<1>5. \A p \in NPObjects : InVariant(p)' = InVariant(p)
  BY VariantsKept
<1>6. count' \in [NPObjects -> Nat] /\ CountsExact' /\ NoDangling' /\ WindowSound'
  BY <1>2, <1>3, <1>5, Counted
<1>7. ObjTypeOK'
  BY <1>4, <1>6 DEF ObjInv, ObjTypeOK, Owners, PerInstance
<1> QED BY <1>6, <1>7, VariantsKept DEF ObjInv

LEMMA ObjNextInv == ObjInv /\ [ObjNext]_objVars => ObjInv'
<1> SUFFICES ASSUME ObjInv, [ObjNext]_objVars PROVE ObjInv'
  OBVIOUS
<1>0. /\ ObjTypeOK /\ CountsExact /\ NoDangling /\ StringsOwned /\ WindowSound
      /\ NoObject \notin NPObjects /\ NoObject \notin Instances /\ MaxHeld[host] \in Nat \ {0}
      /\ \A p \in NPObjects : Cardinality(InVariant(p)) \in Nat /\ held[p] \in Nat /\ lost[p] \in Nat
  <2>1. MaxHeld[host] \in Nat \ {0}
    BY HostAssumption DEF ObjInv, ObjTypeOK
  <2>2. \A p \in NPObjects : Cardinality(InVariant(p)) \in Nat /\ held[p] \in Nat /\ lost[p] \in Nat
    BY RefsFinite
  <2> QED BY <2>1, <2>2, NoObjectAssumption DEF ObjInv
<1>1. ASSUME Start PROVE ObjInv'
  <2>1. PICK w \in NPObjects, l \in NPObjects : CreateWindow(TheHost, w, l)
    BY <1>1 DEF Start
  <2>2. ~PerInstance /\ winref[TheHost] = NoObject /\ TheHost \in Owners
        /\ UNCHANGED <<host, alive, held, var, strings, lost>>
    BY <1>1 DEF Start, Owners
  <2> QED BY <2>1, <2>2, CreateWindowSound
<1>2. ASSUME NEW i \in Instances, NewInstance(i) PROVE ObjInv'
  <2>1. CASE PerInstance
    <3>1. PICK w \in NPObjects, l \in NPObjects : CreateWindow(i, w, l)
      BY <1>2, <2>1 DEF NewInstance
    <3>2. /\ i \in Owners /\ i \notin alive /\ alive' = alive \cup {i}
          /\ UNCHANGED <<host, held, var, strings, lost>>
      BY <1>2, <2>1 DEF NewInstance, Owners
    <3>3. winref[i] = NoObject
      BY <1>0, <2>1, <3>2 DEF WindowSound
    <3> QED BY <2>1, <3>1, <3>2, <3>3, CreateWindowSound
  <2>2. CASE ~PerInstance
    <3>1. /\ UNCHANGED <<host, kind, count, loc, winref, held, var, strings, lost>>
          /\ alive' = alive \cup {i} /\ winref[TheHost] # NoObject
      BY <1>2, <2>2 DEF NewInstance
    <3>2. PerInstance' = PerInstance /\ Owners' = Owners /\ Owners = {TheHost}
      BY <2>2, <3>1 DEF PerInstance, Owners
    <3>3. ObjTypeOK' /\ WindowSound'
      BY <1>0, <2>2, <3>1, <3>2 DEF ObjTypeOK, WindowSound
    <3>4. CountsExact' /\ StringsOwned'
      BY <1>0, <3>1, <3>2 DEF CountsExact, StringsOwned, InVariant, WindowsOf, LocationOwners
    <3>5. \A j \in alive' : WindowOf(j)' = winref[TheHost]
      BY <2>2, <3>1, <3>2 DEF WindowOf
    <3>6. NoDangling'
      BY <1>0, <3>1, <3>2, <3>5 DEF NoDangling, Live, WindowSound
    <3> QED BY <3>3, <3>4, <3>6 DEF ObjInv
  <2> QED BY <2>1, <2>2
<1>3. ASSUME NEW i \in Instances, Shutdown(i) PROVE ObjInv'
  <2>0. /\ i \in alive /\ alive' = alive \ {i} /\ UNCHANGED <<host, kind, count, loc, held, var, strings>>
        /\ PerInstance' = PerInstance /\ Owners' = Owners
        /\ \A p \in NPObjects : InVariant(p)' = InVariant(p) /\ LocationOwners(p)' = LocationOwners(p)
        /\ StringsOwned'
    BY <1>0, <1>3, VariantsKept DEF Shutdown, PerInstance, Owners, LocationOwners
  <2>1. CASE PerInstance
    <3> DEFINE o == winref[i]
    <3>1. /\ i \in Owners /\ o \in NPObjects
          /\ lost' = [lost EXCEPT ![o] = @ + 1] /\ winref' = [winref EXCEPT ![i] = NoObject]
      <4>1. i \in Owners /\ o # NoObject
        BY <1>0, <2>0, <2>1 DEF WindowSound, Owners
      <4> QED BY <1>0, <1>3, <2>1, <4>1 DEF Shutdown, ObjTypeOK
    <3>2. /\ lost \in [NPObjects -> Nat] /\ winref \in [Owners -> NPObjects \cup {NoObject}]
      BY <1>0 DEF ObjTypeOK
    <3>3. ObjTypeOK'
      BY <1>0, <2>0, <3>1, <3>2 DEF ObjTypeOK
    <3>4. \A j \in Owners : winref'[j] = IF j = i THEN NoObject ELSE winref[j]
      BY <3>1, <3>2
    <3>5. WindowSound'
      BY <1>0, <2>0, <2>1, <3>4 DEF WindowSound, Owners
    <3>6. NoDangling'
      <4>1. \A j \in alive' : j \in alive /\ WindowOf(j)' = WindowOf(j)
        BY <1>0, <2>0, <2>1, <3>4 DEF WindowOf, Owners, ObjTypeOK
      <4> QED BY <1>0, <2>0, <4>1 DEF NoDangling, Live
    <3>7. CountsExact'
      <4> SUFFICES ASSUME NEW p \in NPObjects
                   PROVE count[p] = held[p] + Cardinality(InVariant(p)) + Cardinality(WindowsOf(p)')
                                    + Cardinality(LocationOwners(p)) + lost'[p]
        BY <2>0 DEF CountsExact
      <4>1. count[p] = held[p] + Cardinality(InVariant(p)) + Cardinality(WindowsOf(p))
                       + Cardinality(LocationOwners(p)) + lost[p]
        BY <1>0 DEF CountsExact
      <4>2. /\ Cardinality(InVariant(p)) \in Nat /\ Cardinality(WindowsOf(p)) \in Nat
            /\ Cardinality(LocationOwners(p)) \in Nat /\ held[p] \in Nat /\ lost[p] \in Nat
            /\ IsFiniteSet(WindowsOf(p))
        BY RefsFinite
      <4>3. WindowsOf(p)' = {j \in Owners : winref'[j] = p}
        BY <2>0 DEF WindowsOf
      <4>4. CASE p = o
        <5>1. i \in WindowsOf(p)
          BY <3>1, <4>4 DEF WindowsOf
        <5>2. WindowsOf(p)' = WindowsOf(p) \ {i}
          BY <1>0, <3>4, <4>3 DEF WindowsOf
        <5>3. Cardinality(WindowsOf(p)') = Cardinality(WindowsOf(p)) - 1
          BY <4>2, <5>1, <5>2, OneLess
        <5>4. lost'[p] = lost[p] + 1
          BY <3>1, <3>2, <4>4
        <5> QED BY <4>1, <4>2, <5>3, <5>4
      <4>5. CASE p # o
        <5>1. WindowsOf(p)' = WindowsOf(p)
          BY <1>0, <3>4, <4>3, <4>5 DEF WindowsOf
        <5>2. lost'[p] = lost[p]
          BY <3>1, <3>2, <4>5
        <5> QED BY <4>1, <5>1, <5>2
      <4> QED BY <4>4, <4>5
    <3> QED BY <2>0, <3>3, <3>5, <3>6, <3>7 DEF ObjInv
  <2>2. CASE ~PerInstance
    <3>1. UNCHANGED <<winref, lost>>
      BY <1>3, <2>2 DEF Shutdown
    <3>2. ObjTypeOK' /\ WindowSound'
      BY <1>0, <2>0, <2>2, <3>1 DEF ObjTypeOK, WindowSound
    <3>3. CountsExact'
      BY <1>0, <2>0, <3>1 DEF CountsExact, WindowsOf
    <3>4. NoDangling'
      BY <1>0, <2>0, <3>1 DEF NoDangling, Live, WindowOf
    <3> QED BY <2>0, <3>2, <3>3, <3>4 DEF ObjInv
  <2> QED BY <2>1, <2>2
<1>4. ASSUME NEW i \in Instances, GetWindowValue(i) PROVE ObjInv'
  <2>1. WindowOf(i) \in NPObjects /\ kind[WindowOf(i)] = "window"
    BY <1>4, AliveWindow DEF GetWindowValue
  <2>2. Live(WindowOf(i))
    BY <2>1 DEF Live
  <2> QED BY <1>4, <2>1, <2>2, HeldSoundly DEF GetWindowValue
<1>5. ASSUME NEW o \in NPObjects, CreateScript(o) PROVE ObjInv'
  <2>1. /\ ~Live(o) /\ kind' = [kind EXCEPT ![o] = "script"] /\ count' = [count EXCEPT ![o] = 1]
        /\ held' = [held EXCEPT ![o] = 1] /\ UNCHANGED <<host, loc, winref, alive, var, strings, lost>>
        /\ PerInstance' = PerInstance /\ Owners' = Owners
    BY <1>5 DEF CreateScript, PerInstance, Owners
  <2>2. /\ held[o] = 0 /\ lost[o] = 0 /\ InVariant(o) = {} /\ WindowsOf(o) = {} /\ LocationOwners(o) = {}
        /\ loc[o] = NoObject
    BY <2>1, Unreferenced
  <2>3. /\ kind \in [NPObjects -> Classes \cup {"free"}] /\ count \in [NPObjects -> Nat]
        /\ loc \in [NPObjects -> NPObjects \cup {NoObject}]
        /\ held \in [NPObjects -> 0..MaxHeld[host]]
        /\ winref \in [Owners -> NPObjects \cup {NoObject}]
    BY <1>0 DEF ObjTypeOK
  <2>4. ObjTypeOK'
    BY <1>0, <2>1, <2>3 DEF ObjTypeOK, Classes
  <2>5. CountsExact'
    <3>1. \A p \in NPObjects : /\ InVariant(p)' = InVariant(p) /\ WindowsOf(p)' = WindowsOf(p)
                               /\ LocationOwners(p)' = LocationOwners(p)
      BY <2>1 DEF InVariant, WindowsOf, LocationOwners
    <3>2. \A p \in NPObjects : p # o => count'[p] = count[p] /\ held'[p] = held[p]
      BY <2>1, <2>3
    <3>3. count'[o] = 1 /\ held'[o] = 1
      BY <2>1, <2>3
    <3>4. Cardinality({}) = 0
      BY FS_EmptySet
    <3> SUFFICES ASSUME NEW p \in NPObjects
                 PROVE count'[p] = held'[p] + Cardinality(InVariant(p)) + Cardinality(WindowsOf(p))
                                   + Cardinality(LocationOwners(p)) + lost[p]
      BY <2>1, <3>1 DEF CountsExact
    <3>5. CASE p = o
      BY <2>2, <3>3, <3>4, <3>5
    <3>6. CASE p # o
      BY <1>0, <3>2, <3>6 DEF CountsExact
    <3> QED BY <3>5, <3>6
  <2>6. WindowSound'
    <3>1. \A j \in Owners : winref[j] # NoObject => winref[j] \in NPObjects /\ winref[j] # o
      BY <1>0, <2>1, <2>3 DEF WindowSound, Live
    <3> QED BY <1>0, <2>1, <2>2, <2>3, <3>1 DEF WindowSound
  <2>7. NoDangling'
    <3>1. \A p \in NPObjects : Live(p)' <=> count'[p] > 0
      BY <1>0, <2>1, <2>3 DEF NoDangling, Live
    <3>2. \A p \in NPObjects : kind'[p] = "window" => loc'[p] # NoObject /\ kind'[loc'[p]] = "location"
      BY <1>0, <2>1, <2>3 DEF NoDangling, Live
    <3>3. \A j \in alive' : kind'[WindowOf(j)'] = "window"
      <4> TAKE j \in alive'
      <4>1. WindowOf(j) \in NPObjects /\ kind[WindowOf(j)] = "window" /\ WindowOf(j)' = WindowOf(j)
        BY <2>1, AliveWindow DEF WindowOf
      <4> QED BY <2>1, <2>3, <4>1 DEF Live
    <3> QED BY <3>1, <3>2, <3>3 DEF NoDangling
  <2> QED BY <1>0, <2>1, <2>4, <2>5, <2>6, <2>7, VariantsKept DEF ObjInv
<1>6. ASSUME NEW o \in NPObjects, Retain(o) PROVE ObjInv'
  BY <1>6, ReachedLives, HeldSoundly DEF Retain
<1>7. ASSUME NEW o \in NPObjects, Release(o) PROVE ObjInv'
  <2>1. /\ held[o] > 0 /\ held' = [held EXCEPT ![o] = @ - 1] /\ ReleaseObject(o)
        /\ UNCHANGED <<host, winref, alive, var, strings, lost>>
    BY <1>7 DEF Release
  <2>2. /\ \A p \in NPObjects : held'[p] = held[p] - (IF p = o THEN 1 ELSE 0)
        /\ held' \in [NPObjects -> 0..MaxHeld[host]]
    BY <1>0, <2>1 DEF ObjTypeOK
  <2>3. PlayerRefs(o) > 0
    BY <2>1, ReachedLives DEF Reaches
  <2>4. \A p \in NPObjects : PlayerRefs(p)' = PlayerRefs(p) - (IF p = o THEN 1 ELSE 0)
    <3>1. \A p \in NPObjects : InVariant(p)' = InVariant(p)
      BY <2>1, VariantsKept
    <3> QED BY <1>0, <2>2, <3>1 DEF PlayerRefs
  <2>5. /\ kind' \in [NPObjects -> Classes \cup {"free"}] /\ count' \in [NPObjects -> Nat]
        /\ loc' \in [NPObjects -> NPObjects \cup {NoObject}]
        /\ CountsExact' /\ NoDangling' /\ WindowSound'
    BY <2>1, <2>3, <2>4, ReleaseSound
  <2>6. ObjTypeOK'
    BY <1>0, <2>1, <2>2, <2>5 DEF ObjTypeOK, Owners, PerInstance
  <2> QED BY <1>0, <2>1, <2>5, <2>6, VariantsKept DEF ObjInv
<1>8. ASSUME NEW o \in NPObjects, NEW v \in Slots, NEW name, GetProperty(o, name, v) PROVE ObjInv'
  <2> DEFINE r == IF name = "top" THEN o ELSE loc[o]
  <2>1. /\ Reaches(o) /\ kind[o] = "window" /\ var[v] = Void /\ count' = Retained(r)
        /\ var' = [var EXCEPT ![v] = [type |-> "Object", o |-> r]]
        /\ UNCHANGED <<host, kind, loc, winref, alive, held, strings, lost>>
    BY <1>8 DEF GetProperty
  <2>2. r \in NPObjects /\ Live(r)
    BY <1>0, <2>1 DEF NoDangling, ObjTypeOK, Live
  <2> HIDE DEF r
  <2>3. /\ \A p \in NPObjects : Cardinality(InVariant(p)') = Cardinality(InVariant(p)) + (IF p = r THEN 1 ELSE 0)
        /\ StringVariants' = StringVariants
    BY <2>1, <2>2, VariantFilled
  <2>4. count' \in [NPObjects -> Nat] /\ CountsExact' /\ NoDangling' /\ WindowSound'
    <3>1. \A p \in NPObjects : held'[p] + Cardinality(InVariant(p)') + lost'[p]
            = held[p] + Cardinality(InVariant(p)) + lost[p] + (IF p = r THEN 1 ELSE 0)
      BY <1>0, <2>1, <2>3
    <3>2. \A p \in NPObjects : held'[p] \in Nat /\ Cardinality(InVariant(p)') \in Nat /\ lost'[p] \in Nat
      BY <1>0, <2>1, <2>3
    <3> QED BY <2>1, <2>2, <3>1, <3>2, Counted
  <2>5. StringsOwned'
    BY <1>0, <2>1, <2>3 DEF StringsOwned, StringVariants
  <2>6. ObjTypeOK'
    BY <1>0, <2>1, <2>2, <2>4 DEF ObjTypeOK, Owners, PerInstance
  <2> QED BY <2>4, <2>5, <2>6 DEF ObjInv
<1>9. ASSUME NEW o \in NPObjects, NEW v \in Slots, InvokeToString(o, v) PROVE ObjInv'
  <2>1. /\ var[v] = Void /\ var' = [var EXCEPT ![v] = [type |-> "String", o |-> NoObject]]
        /\ strings' = strings + 1
        /\ UNCHANGED <<host, kind, count, loc, winref, alive, held, lost>>
    BY <1>9 DEF InvokeToString
  <2>2. var \in [Slots -> VariantValues] /\ strings \in Nat
    BY <1>0 DEF ObjTypeOK, VariantValues
  <2>3. \A p \in NPObjects : InVariant(p)' = InVariant(p)
    BY <2>1, <2>2 DEF InVariant, Void
  <2>4. StringsOwned'
    <3>1. StringVariants' = StringVariants \cup {v} /\ v \notin StringVariants /\ StringVariants \subseteq Slots
      BY <2>1, <2>2 DEF StringVariants, Void
    <3>2. IsFiniteSet(StringVariants)
      BY <3>1, FiniteAssumption, FS_Subset
    <3>3. Cardinality(StringVariants') = Cardinality(StringVariants) + 1
      BY <3>1, <3>2, OneMore
    <3> QED BY <1>0, <2>1, <3>3 DEF StringsOwned, StringVariants
  <2>5. CountsExact'
    BY <1>0, <2>1, <2>3 DEF CountsExact, WindowsOf, LocationOwners, Owners, PerInstance
  <2>6. NoDangling' /\ WindowSound'
    BY <2>1, KindsKept
  <2>7. ObjTypeOK'
    BY <1>0, <2>1, <2>2 DEF ObjTypeOK, VariantValues, Owners, PerInstance
  <2> QED BY <2>4, <2>5, <2>6, <2>7 DEF ObjInv
<1>10. ASSUME NEW v \in Slots, ReleaseVariantValue(v) PROVE ObjInv'
  <2>1. /\ var' = [var EXCEPT ![v] = Void] /\ UNCHANGED <<host, winref, alive, held, lost>>
        /\ IF var[v].type = "Object" THEN ReleaseObject(var[v].o) ELSE UNCHANGED <<kind, count, loc>>
        /\ strings' = IF var[v].type = "String" THEN strings - 1 ELSE strings
    BY <1>10 DEF ReleaseVariantValue, Released
  <2>2. /\ \A p \in NPObjects : Cardinality(InVariant(p)')
             = Cardinality(InVariant(p)) - (IF var[v].type = "Object" /\ p = var[v].o THEN 1 ELSE 0)
        /\ StringVariants' = IF var[v].type = "String" THEN StringVariants \ {v} ELSE StringVariants
        /\ var[v].type = "Object" =>
             var[v].o \in NPObjects /\ v \in InVariant(var[v].o) /\ Cardinality(InVariant(var[v].o)) > 0
    BY <2>1, VariantEmptied
  <2>3. /\ kind' \in [NPObjects -> Classes \cup {"free"}] /\ count' \in [NPObjects -> Nat]
        /\ loc' \in [NPObjects -> NPObjects \cup {NoObject}]
        /\ CountsExact' /\ NoDangling' /\ WindowSound'
    <3>1. CASE var[v].type = "Object"
      <4> DEFINE o == var[v].o
      <4>1. o \in NPObjects /\ ReleaseObject(o) /\ v \in InVariant(o)
        BY <2>1, <2>2, <3>1
      <4> HIDE DEF o
      <4>2. PlayerRefs(o) > 0
        BY <4>1, ReachedLives DEF Reaches
      <4>3. \A p \in NPObjects : PlayerRefs(p)' = PlayerRefs(p) - (IF p = o THEN 1 ELSE 0)
        BY <1>0, <2>1, <2>2, <3>1 DEF PlayerRefs, o
      <4> QED BY <2>1, <4>1, <4>2, <4>3, ReleaseSound
    <3>2. CASE var[v].type # "Object"
      <4>1. UNCHANGED <<kind, count, loc>>
        BY <2>1, <3>2
      <4>2. \A p \in NPObjects : Cardinality(InVariant(p)') = Cardinality(InVariant(p))
        BY <1>0, <2>2, <3>2
      <4>3. CountsExact'
        BY <1>0, <2>1, <4>1, <4>2 DEF CountsExact, WindowsOf, LocationOwners, Owners, PerInstance
      <4> QED BY <1>0, <2>1, <4>1, <4>3, KindsKept DEF ObjTypeOK
    <3> QED BY <3>1, <3>2
  <2>4. StringsOwned' /\ strings' \in Nat
    <3>1. StringVariants \subseteq Slots /\ IsFiniteSet(StringVariants) /\ strings = Cardinality(StringVariants)
      BY <1>0, FiniteAssumption, FS_Subset DEF StringsOwned, StringVariants
    <3>2. strings' = Cardinality(StringVariants') /\ strings' \in Nat
      <4>1. CASE var[v].type = "String"
        <5>1. v \in StringVariants
          BY <4>1 DEF StringVariants
        <5>2. Cardinality(StringVariants \ {v}) = Cardinality(StringVariants) - 1
              /\ Cardinality(StringVariants) > 0 /\ Cardinality(StringVariants) \in Nat
          BY <3>1, <5>1, OneLess, SizeOf
        <5> QED BY <2>1, <2>2, <3>1, <4>1, <5>2
      <4>2. CASE var[v].type # "String"
        BY <1>0, <2>1, <2>2, <3>1, <4>2 DEF ObjTypeOK
      <4> QED BY <4>1, <4>2
    <3> QED BY <3>2 DEF StringsOwned, StringVariants
  <2>5. ObjTypeOK'
    <3>1. var' \in [Slots -> VariantValues]
      BY <1>0, <2>1 DEF ObjTypeOK, VariantValues
    <3> QED BY <1>0, <2>1, <2>3, <2>4, <3>1 DEF ObjTypeOK, VariantValues, Owners, PerInstance
  <2> QED BY <2>3, <2>4, <2>5 DEF ObjInv
<1>11. ASSUME NEW i \in Instances, NEW o \in NPObjects, Test(i, o) PROVE ObjInv'
  <2>1. /\ kind[o] = "script" /\ count' = Retained(o) /\ lost' = [lost EXCEPT ![o] = @ + 1]
        /\ UNCHANGED <<host, kind, loc, winref, alive, held, var, strings>>
    BY <1>11 DEF Test, Retained
  <2>2. lost' \in [NPObjects -> Nat] /\ \A p \in NPObjects : lost'[p] = lost[p] + (IF p = o THEN 1 ELSE 0)
    BY <1>0, <2>1 DEF ObjTypeOK
  <2>3. \A p \in NPObjects : InVariant(p)' = InVariant(p)
    BY <2>1, VariantsKept
  <2>4. count' \in [NPObjects -> Nat] /\ CountsExact' /\ NoDangling' /\ WindowSound'
    <3>1. Live(o)
      BY <2>1 DEF Live
    <3> QED BY <1>0, <2>1, <2>2, <2>3, <3>1, Counted
  <2>5. ObjTypeOK'
    BY <1>0, <2>1, <2>2, <2>4 DEF ObjTypeOK, Owners, PerInstance
  <2> QED BY <1>0, <2>1, <2>4, <2>5, VariantsKept DEF ObjInv
<1>12. CASE UNCHANGED objVars
  <2>1. /\ UNCHANGED <<host, kind, count, loc, winref, alive, held, var, strings, lost>>
        /\ PerInstance' = PerInstance /\ Owners' = Owners
    BY <1>12 DEF objVars, PerInstance, Owners
  <2>2. ObjTypeOK' /\ WindowSound'
    BY <1>0, <2>1 DEF ObjTypeOK, WindowSound
  <2>3. CountsExact' /\ StringsOwned'
    BY <1>0, <2>1 DEF CountsExact, InVariant, WindowsOf, LocationOwners, StringsOwned
  <2>4. NoDangling'
    BY <1>0, <2>1 DEF NoDangling, Live, WindowOf
  <2> QED BY <2>2, <2>3, <2>4 DEF ObjInv
<1> QED BY <1>1, <1>2, <1>3, <1>4, <1>5, <1>6, <1>7, <1>8, <1>9, <1>10, <1>11, <1>12 DEF ObjNext

\* The inductive invariant holds in every behaviour.
LEMMA ObjInvariant == ObjSpec => []ObjInv
  BY ObjInitInv, ObjNextInv, PTL DEF ObjSpec

\* NPN_RetainObject, NPN_ReleaseObject and NPN_ReleaseVariantValue keep every reference count exact: no
\* object is freed while something refers to it, none is left when nothing does, and no string is
\* freed twice or forgotten, for any player that gives back what it was given.
THEOREM ObjectsAreSound == ObjSpec => []ObjectsSound
<1>1. ObjInv => ObjectsSound
  BY DEF ObjInv, ObjectsSound
<1> QED BY <1>1, ObjInvariant, PTL
=============================================================================
