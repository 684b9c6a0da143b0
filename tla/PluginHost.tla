----------------------------- MODULE PluginHost -----------------------------
(***************************************************************************)
(* npprunner's host (npprunner.cpp, plugin_Setup, plugin_New and           *)
(* plugin_Shutdown of netscape.cpp) on top of the loader shim it is linked *)
(* with (rtld-npp/plugin.cpp).  A static object of the shim loads the      *)
(* Flash player before main; the "run" button initialises it and makes an  *)
(* instance, a second press destroys the instance, shuts the player down   *)
(* and unloads it, and a third press loads it again.                       *)
(*                                                                         *)
(* The handlers are modelled in steps, one from each call into the player  *)
(* to the next.  The module being loaded is a handle, an address that is   *)
(* used again after it was unmapped.  A file is "none", "bad" (elf_dlopen  *)
(* refuses it) or "good" (it loads and has the four NP_ symbols).          *)
(***************************************************************************)
EXTENDS Naturals, Sequences

CONSTANTS Handles,      \* addresses a loaded module may have
          Objects,      \* addresses malloc may return for a plugin_object
          Paths,        \* files a player may be in
          Candidates,   \* flashplayer_paths under $HOME, in order
          EnvPath,      \* LD_FLASHPLAYER_PATH, Null when it is not set
          Changing,     \* files somebody installs or removes meanwhile
          Null

ASSUME NullAssumption == Null \notin Handles \cup Objects \cup Paths
ASSUME PathAssumption == /\ Candidates \in Seq(Paths) /\ Candidates # <<>>
                         /\ EnvPath \in Paths \cup {Null}
                         /\ Changing \subseteq Paths

VARIABLES
  files,        \* what is in each path
  \* plugin.cpp
  plugin_path,  \* Null while it is the empty string
  m_plugin,
  np,           \* the module the np_ function pointers point into
  maps,         \* modules mapped
  \* the player
  inited,       \* modules whose NP_Initialize succeeded and that were not shut down
  \* npprunner.cpp and netscape.cpp
  playing, ndata,
  objects,      \* plugin_objects allocated
  quitting,     \* gtk_main has returned
  pc

loaderVars == <<plugin_path, m_plugin, np, maps>>
hostVars == <<playing, ndata, objects, quitting>>
vars == <<files, loaderVars, inited, hostVars, pc>>

Kinds == {"none", "bad", "good"}

Init ==
  /\ files \in [Paths -> Kinds]
  /\ plugin_path = Null
  /\ m_plugin = Null
  /\ np = Null
  /\ maps = {}
  /\ inited = {}
  /\ playing = FALSE
  /\ ndata = Null
  /\ objects = {}
  /\ quitting = FALSE
  /\ pc = "static_init"

-----------------------------------------------------------------------------
(* plugin.cpp                                                              *)

\* The first candidate that exists, or the last one.
IsChosen(path) ==
  \E i \in 1..Len(Candidates) :
    /\ path = Candidates[i]
    /\ \A j \in 1..(i - 1) : files[Candidates[j]] = "none"
    /\ files[path] # "none" \/ i = Len(Candidates)

\* Mutant of Loadable: a module is loaded only once.
LoadableOnce(path) == path # Null /\ files[path] = "good" /\ np = Null

\* elf_dlopen succeeds; open("") fails.
Loadable(path) == path # Null /\ files[path] = "good"

\* m_plugin = elf_dlopen(path); setup_api_ptr(m_plugin).
Open(path) ==
  IF Loadable(path)
  THEN \E h \in Handles \ maps :
         /\ m_plugin' = h
         /\ np' = h
         /\ maps' = maps \cup {h}
  ELSE m_plugin' = Null /\ UNCHANGED <<np, maps>>

\* The constructor of the static PluginInitFini; plugin_path is filled in by the search only.
StaticInit ==
  /\ pc = "static_init"
  /\ \E path \in Paths :
       /\ IF EnvPath = Null THEN IsChosen(path) ELSE path = EnvPath
       /\ plugin_path' = IF EnvPath = Null THEN path ELSE Null
       /\ Open(path)
  /\ pc' = "main_loop"
  /\ UNCHANGED <<files, inited, hostVars>>

\* Mutant of Unloaded: the handle is not closed.
StillMapped == maps

\* What is mapped after elf_dlclose(m_plugin).
Unloaded == maps \ {m_plugin}

\* Its destructor, run by exit.
StaticFini ==
  /\ pc = "static_fini"
  /\ maps' = Unloaded
  /\ pc' = "exit"
  /\ UNCHANGED <<files, plugin_path, m_plugin, np, inited, hostVars>>

-----------------------------------------------------------------------------
(* The "run" button and the end of the program.                            *)

\* First press: plugin_Setup calls the shim's NP_Initialize and asserts that it succeeds.
Run ==
  /\ pc = "main_loop" /\ ~playing
  /\ IF m_plugin = Null THEN Open(plugin_path) ELSE UNCHANGED <<m_plugin, np, maps>>
  /\ pc' = IF m_plugin' = Null THEN "load_failed" ELSE "NP_Initialize"
  /\ UNCHANGED <<files, plugin_path, inited, hostVars>>

\* The player's NP_Initialize returns; plugin_New allocates the plugin_object and calls newp.
Initialized(ok) ==
  /\ pc = "NP_Initialize"
  /\ IF ok
     THEN /\ inited' = inited \cup {np}
          /\ \E o \in Objects \ objects : ndata' = o /\ objects' = objects \cup {o}
          /\ pc' = "newp"
     ELSE pc' = "init_failed" /\ UNCHANGED <<inited, ndata, objects>>
  /\ UNCHANGED <<files, loaderVars, playing, quitting>>

\* newp returns; whatever it says, setwindow is called.
New ==
  /\ pc = "newp"
  /\ pc' = "setwindow"
  /\ UNCHANGED <<files, loaderVars, inited, hostVars>>

\* setwindow returns; it is asserted to have succeeded.
SetWindow(ok) ==
  /\ pc = "setwindow"
  /\ IF ok THEN pc' = "main_loop" /\ playing' = TRUE
           ELSE pc' = "window_failed" /\ UNCHANGED playing
  /\ UNCHANGED <<files, loaderVars, inited, ndata, objects, quitting>>

\* Second press: plugin_Shutdown calls destroy.
Stop ==
  /\ pc = "main_loop" /\ playing
  /\ pc' = "destroy"
  /\ UNCHANGED <<files, loaderVars, inited, hostVars>>

\* free(object).
ObjectsLeft == objects \ {ndata}

\* destroy returns; NP_Shutdown is called.
Destroyed ==
  /\ pc = "destroy"
  /\ objects' = ObjectsLeft
  /\ pc' = IF m_plugin = Null THEN "stopped" ELSE "NP_Shutdown"
  /\ UNCHANGED <<files, loaderVars, inited, playing, ndata, quitting>>

\* Mutant of AfterShutdown: the player's NP_Shutdown is not called.
AfterShutdownNothing == inited

\* The modules initialised once np_shutdown has returned.
AfterShutdown == inited \ {np}

ShutDown ==
  /\ pc = "NP_Shutdown"
  /\ inited' = AfterShutdown
  /\ pc' = "dlclose"
  /\ UNCHANGED <<files, loaderVars, hostVars>>

\* The shim closes the handle after np_shutdown.
DlClose ==
  /\ pc = "dlclose"
  /\ maps' = Unloaded
  /\ m_plugin' = Null
  /\ pc' = "stopped"
  /\ UNCHANGED <<files, plugin_path, np, inited, hostVars>>

\* plugin_Shutdown returns to the button's handler or to main.
Stopped ==
  /\ pc = "stopped"
  /\ playing' = FALSE
  /\ pc' = IF quitting THEN "static_fini" ELSE "main_loop"
  /\ UNCHANGED <<files, loaderVars, inited, ndata, objects, quitting>>

\* The window is closed: gtk_main returns, and main shuts a playing instance down.
Quit ==
  /\ pc = "main_loop"
  /\ quitting' = TRUE
  /\ pc' = IF playing THEN "destroy" ELSE "static_fini"
  /\ UNCHANGED <<files, loaderVars, inited, playing, ndata, objects>>

\* Somebody installs or removes a player: external.
Replace(p, kind) ==
  /\ p \in Changing /\ kind # files[p]
  /\ files' = [files EXCEPT ![p] = kind]
  /\ UNCHANGED <<loaderVars, inited, hostVars, pc>>

Aborted == {"load_failed", "init_failed", "window_failed"}

Next == \/ StaticInit \/ StaticFini
        \/ Run \/ (\E ok \in BOOLEAN : Initialized(ok)) \/ New
        \/ \E ok \in BOOLEAN : SetWindow(ok)
        \/ Stop \/ Destroyed \/ ShutDown \/ DlClose \/ Stopped
        \/ Quit
        \/ pc \notin Aborted \cup {"exit"} /\ \E p \in Paths, k \in Kinds : Replace(p, k)

Spec == Init /\ [][Next]_vars

-----------------------------------------------------------------------------
(* Properties.                                                             *)

\* The player executes code in these states.
InPlayer == {"NP_Initialize", "newp", "setwindow", "destroy", "NP_Shutdown"}
PcValues == InPlayer \cup Aborted
            \cup {"static_init", "main_loop", "dlclose", "stopped", "static_fini", "exit"}

\* Type invariant; only a mapped module can be initialised.
TypeOK ==
  /\ files \in [Paths -> Kinds]
  /\ plugin_path \in Paths \cup {Null}
  /\ m_plugin \in Handles \cup {Null}
  /\ np \in Handles \cup {Null}
  /\ maps \subseteq Handles
  /\ inited \subseteq maps
  /\ playing \in BOOLEAN /\ quitting \in BOOLEAN
  /\ ndata \in Objects \cup {Null}
  /\ objects \subseteq Objects
  /\ pc \in PcValues

\* However often the button is pressed, the module mapped is the one m_plugin names and the
\* np_ pointers point into, it is mapped whenever the player is called, and none is mapped
\* once the program has ended (NP_Initialize, NP_Shutdown, PluginInitFini).
HandleMatched ==
  /\ maps = IF m_plugin = Null \/ pc = "exit" THEN {} ELSE {m_plugin}
  /\ m_plugin # Null => np = m_plugin
  /\ pc \in InPlayer => m_plugin # Null

\* A module is unmapped only when it is shut down and its instance gone (dlclose must not
\* overtake destroy or NP_Shutdown).
UnmappedUnused ==
  [][\A h \in maps \ maps' : h \notin inited /\ objects = {}]_vars

\* Back in the main loop the player is initialised and has its one plugin_object exactly when
\* the button says it is playing (callback, main).
PlayingMatched ==
  pc = "main_loop" =>
    /\ inited = IF playing THEN {m_plugin} ELSE {}
    /\ objects = IF playing THEN {ndata} ELSE {}

\* The three together: the module, the pointers into it, the instance and the button agree.
HostSound == TypeOK /\ HandleMatched /\ PlayingMatched

\* The path announced when the program started ("load flash player: %s").
PlayerPath == IF EnvPath # Null THEN EnvPath ELSE plugin_path

\* assert(err == NPERR_NO_ERROR) in plugin_Setup: loading fails only when the player's file
\* cannot be loaded, however often it was loaded and unloaded before.
SetupLoads == pc = "load_failed" => files[PlayerPath] # "good"

-----------------------------------------------------------------------------
(* The inductive invariant of PluginHost_proofs.                           *)

\* Between two presses of the button the module is initialised from the return of its
\* NP_Initialize to that of its NP_Shutdown, and has its plugin_object from newp to destroy.
HasObject == pc \in {"newp", "setwindow", "window_failed", "destroy"}
             \/ (pc = "main_loop" /\ playing)
IsInited == HasObject \/ pc = "NP_Shutdown"

Session ==
  /\ inited = IF IsInited THEN {m_plugin} ELSE {}
  /\ objects = IF HasObject THEN {ndata} ELSE {}
  /\ IsInited \/ pc = "dlclose" => m_plugin # Null
  /\ pc = "static_init" => m_plugin = Null /\ ~playing
  /\ pc \in {"NP_Initialize", "newp", "setwindow"} => ~playing

IndInv == TypeOK /\ HandleMatched /\ Session
=============================================================================
