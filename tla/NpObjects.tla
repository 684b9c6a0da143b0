----------------------------- MODULE NpObjects -----------------------------
(***************************************************************************)
(* The script objects of the two hosts: reference counts (NPN_CreateObject,*)
(* NPN_RetainObject, NPN_ReleaseObject), the window object with its        *)
(* location (npp_script.cpp), and the NPVariants that carry references and *)
(* strings to the player.  npprunner makes a window object for every       *)
(* instance; nswinviewr makes one for all, when it starts.                 *)
(*                                                                         *)
(* The player is external and keeps the NPAPI rules: it gives back only    *)
(* references that it was given, each once, and uses an object only while  *)
(* it holds one.  Object addresses are used again after they are freed.    *)
(***************************************************************************)
EXTENDS Integers, FiniteSets

CONSTANTS NPObjects,    \* addresses an NPObject may have
          Instances,    \* plugin instances (NPP)
          Slots,        \* NPVariants of the player
          MaxHeld,      \* bound: references the player holds on one object
          NoObject

ASSUME NoObjectAssumption == NoObject \notin NPObjects \cup Instances \cup Slots

Hosts == {"npprunner", "nswinviewr"}
ASSUME HostAssumption == MaxHeld \in [Hosts -> Nat \ {0}]
ASSUME FiniteAssumption == IsFiniteSet(NPObjects) /\ IsFiniteSet(Instances) /\ IsFiniteSet(Slots)

VARIABLES
  host,     \* the program, one of Hosts
  kind,     \* the class of each object, "free" where none lives
  count,    \* referenceCount
  loc,      \* mLocation of a window object
  winref,   \* the window object of an instance, or of the host
  alive,    \* instances between newp and destroy
  held,     \* references the player holds by pointer
  var,      \* its variants
  strings,  \* string buffers allocated for variants
  lost      \* references of the host that no code gives back

objVars == <<host, kind, count, loc, winref, alive, held, var, strings, lost>>

Classes == {"window", "location", "script"}
Void == [type |-> "Void", o |-> NoObject]
Live(o) == kind[o] # "free"

\* The window object NPN_GetValue returns: object->winref, or __window_object.
TheHost == "host"
PerInstance == host = "npprunner"
Owners == IF PerInstance THEN Instances ELSE {TheHost}
WindowOf(i) == winref[IF PerInstance THEN i ELSE TheHost]

ObjInit ==
  /\ host \in Hosts
  /\ kind = [o \in NPObjects |-> "free"]
  /\ count = [o \in NPObjects |-> 0]
  /\ loc = [o \in NPObjects |-> NoObject]
  /\ winref = [i \in Owners |-> NoObject]
  /\ alive = {}
  /\ held = [o \in NPObjects |-> 0]
  /\ var = [v \in Slots |-> Void]
  /\ strings = 0
  /\ lost = [o \in NPObjects |-> 0]

-----------------------------------------------------------------------------
\* NPN_CreateObject(getWindowClass()) for owner i: the constructor of the window w creates its
\* location l, each with one reference.
CreateWindow(i, w, l) ==
  /\ w # l /\ ~Live(w) /\ ~Live(l)
  /\ kind' = [kind EXCEPT ![w] = "window", ![l] = "location"]
  /\ count' = [count EXCEPT ![w] = 1, ![l] = 1]
  /\ loc' = [loc EXCEPT ![w] = l]
  /\ winref' = [winref EXCEPT ![i] = w]

\* plugin_New; in nswinviewr the window is there already.
NewInstance(i) ==
  /\ i \notin alive
  /\ ~PerInstance => winref[TheHost] # NoObject
  /\ alive' = alive \cup {i}
  /\ IF PerInstance THEN \E w, l \in NPObjects : CreateWindow(i, w, l)
     ELSE UNCHANGED <<kind, count, loc, winref>>
  /\ UNCHANGED <<host, held, var, strings, lost>>

\* NPPluginInitialize of nswinviewr.
Start ==
  /\ ~PerInstance /\ winref[TheHost] = NoObject
  /\ \E w, l \in NPObjects : CreateWindow(TheHost, w, l)
  /\ UNCHANGED <<host, alive, held, var, strings, lost>>

\* plugin_Shutdown frees the plugin_object with its winref, whose reference nobody has any more.
Shutdown(i) ==
  /\ i \in alive
  /\ alive' = alive \ {i}
  /\ IF PerInstance
     THEN /\ lost' = [lost EXCEPT ![winref[i]] = @ + 1]
          /\ winref' = [winref EXCEPT ![i] = NoObject]
     ELSE UNCHANGED <<lost, winref>>
  /\ UNCHANGED <<host, kind, count, loc, held, var, strings>>

-----------------------------------------------------------------------------
(* Calls of the player.                                                    *)

InVariant(o) == {v \in Slots : var[v] = [type |-> "Object", o |-> o]}
Reaches(o) == held[o] > 0 \/ InVariant(o) # {}

Retained(o) == [count EXCEPT ![o] = @ + 1]

\* NPN_GetValue(NPNVWindowNPObject) counts the reference it gives.
GetWindowValue(i) ==
  /\ i \in alive
  /\ LET o == WindowOf(i)
     IN /\ held[o] < MaxHeld[host]
        /\ count' = Retained(o)
        /\ held' = [held EXCEPT ![o] = @ + 1]
  /\ UNCHANGED <<host, kind, loc, winref, alive, var, strings, lost>>

\* NPN_CreateObject with a class of the player.
CreateScript(o) ==
  /\ alive # {} /\ ~Live(o)
  /\ kind' = [kind EXCEPT ![o] = "script"]
  /\ count' = [count EXCEPT ![o] = 1]
  /\ held' = [held EXCEPT ![o] = 1]
  /\ UNCHANGED <<host, loc, winref, alive, var, strings, lost>>

Retain(o) ==
  /\ Reaches(o) /\ held[o] < MaxHeld[host]
  /\ count' = Retained(o)
  /\ held' = [held EXCEPT ![o] = @ + 1]
  /\ UNCHANGED <<host, kind, loc, winref, alive, var, strings, lost>>

\* Mutant of Freed: the count is compared before it is decremented.
FreedEarly(o) == IF count[o] > 2 THEN {} ELSE {o}

\* The objects one reference less on o deallocates: a window object takes its location along
\* when that is its last reference.
Freed(o) ==
  IF count[o] # 1 THEN {}
  ELSE {o} \cup {l \in {loc[o]} \ {NoObject} : count[l] = 1}

\* NPN_ReleaseObject(o), with the destructor it may run.
ReleaseObject(o) ==
  LET gone == Freed(o)
  IN /\ kind' = [p \in NPObjects |-> IF p \in gone THEN "free" ELSE kind[p]]
     /\ count' = [p \in NPObjects |-> IF p = o THEN count[p] - 1
                                    ELSE IF o \in gone /\ p = loc[o] THEN count[p] - 1
                                    ELSE count[p]]
     /\ loc' = [p \in NPObjects |-> IF p \in gone THEN NoObject ELSE loc[p]]

Release(o) ==
  /\ held[o] > 0
  /\ held' = [held EXCEPT ![o] = @ - 1]
  /\ ReleaseObject(o)
  /\ UNCHANGED <<host, winref, alive, var, strings, lost>>

\* WindowObject::GetProperty: "location" and "top", each with a reference of its own.
GetProperty(o, name, v) ==
  /\ Reaches(o) /\ kind[o] = "window" /\ var[v] = Void
  /\ LET r == IF name = "top" THEN o ELSE loc[o]
     IN /\ count' = Retained(r)
        /\ var' = [var EXCEPT ![v] = [type |-> "Object", o |-> r]]
  /\ UNCHANGED <<host, kind, loc, winref, alive, held, strings, lost>>

\* LocationObject::Invoke of toString: a string on the heap.
InvokeToString(o, v) ==
  /\ Reaches(o) /\ kind[o] = "location" /\ var[v] = Void
  /\ var' = [var EXCEPT ![v] = [type |-> "String", o |-> NoObject]]
  /\ strings' = strings + 1
  /\ UNCHANGED <<host, kind, count, loc, winref, alive, held, lost>>

\* What NPN_ReleaseVariantValue leaves in the variant.
Released(v) == Void

\* NPN_ReleaseVariantValue, which may be called on a variant that was released before.
ReleaseVariantValue(v) ==
  /\ var' = [var EXCEPT ![v] = Released(v)]
  /\ IF var[v].type = "Object" THEN ReleaseObject(var[v].o) ELSE UNCHANGED <<kind, count, loc>>
  /\ strings' = IF var[v].type = "String" THEN strings - 1 ELSE strings
  /\ UNCHANGED <<host, winref, alive, held, lost>>

\* plugin_Test (DoTest): the player gives its script object with a reference for the host, which
\* reads TextData, releases the string and forgets the object.
Test(i, o) ==
  /\ i \in alive /\ kind[o] = "script" /\ held[o] > 0 /\ lost[o] < MaxHeld[host]
  /\ count' = [count EXCEPT ![o] = @ + 1]
  /\ lost' = [lost EXCEPT ![o] = @ + 1]
  /\ UNCHANGED <<host, kind, loc, winref, alive, held, var, strings>>

ObjNext ==
  \/ Start
  \/ \E i \in Instances : NewInstance(i) \/ Shutdown(i) \/ GetWindowValue(i)
  \/ \E o \in NPObjects : CreateScript(o) \/ Retain(o) \/ Release(o)
  \/ \E o \in NPObjects, v \in Slots :
       \/ \E name \in {"location", "top"} : GetProperty(o, name, v)
       \/ InvokeToString(o, v)
  \/ \E v \in Slots : ReleaseVariantValue(v)
  \/ \E i \in Instances, o \in NPObjects : Test(i, o)

ObjSpec == ObjInit /\ [][ObjNext]_objVars

-----------------------------------------------------------------------------
(* Properties.                                                             *)

\* Type invariant.
ObjTypeOK ==
  /\ host \in Hosts
  /\ kind \in [NPObjects -> Classes \cup {"free"}]
  /\ count \in [NPObjects -> Nat]
  /\ loc \in [NPObjects -> NPObjects \cup {NoObject}]
  /\ winref \in [Owners -> NPObjects \cup {NoObject}]
  /\ alive \subseteq Instances
  /\ held \in [NPObjects -> 0..MaxHeld[host]]
  /\ var \in [Slots -> {Void, [type |-> "String", o |-> NoObject]}
                         \cup [type : {"Object"}, o : NPObjects]]
  /\ strings \in Nat
  /\ lost \in [NPObjects -> Nat]

WindowsOf(o) == {i \in Owners : winref[i] = o}
LocationOwners(o) == {w \in NPObjects : loc[w] = o}

\* referenceCount is the number of references there are: the player's pointers and variants, the
\* host's window object, the window a location belongs to, and those the host has lost.  No more
\* (a leak) and no less (an early free), through every nesting of release and destructor.
CountsExact ==
  \A o \in NPObjects :
    count[o] = held[o] + Cardinality(InVariant(o)) + Cardinality(WindowsOf(o))
                 + Cardinality(LocationOwners(o)) + lost[o]

\* Whatever is reachable is alive, and an object without references is gone: the window object
\* outlives the instance it was made for.
NoDangling ==
  /\ \A o \in NPObjects : Live(o) <=> count[o] > 0
  /\ \A o \in NPObjects : kind[o] = "window" =>
       /\ loc[o] # NoObject
       /\ kind[loc[o]] = "location"
  /\ \A i \in alive : kind[WindowOf(i)] = "window"

\* Every string buffer is owned by one variant: none is freed twice or forgotten, even if a
\* variant is released again.
StringsOwned == strings = Cardinality({v \in Slots : var[v].type = "String"})

\* The object model of both hosts, whatever the player keeps and gives back.
ObjectsSound == ObjTypeOK /\ CountsExact /\ NoDangling /\ StringsOwned
=============================================================================
