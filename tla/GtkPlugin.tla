----------------------------- MODULE GtkPlugin -----------------------------
(***************************************************************************)
(* The password entry of plugin-gtk: its instances (npp_gate.cpp), the     *)
(* GTK entry in the browser's window and the text it answers with          *)
(* (plugin.cpp), and the script objects the page holds (npp_script.cpp).   *)
(*                                                                         *)
(* The text is encrypted in blocks into an array of fixed size.  A         *)
(* character is the entry it was typed into and its place in the text; a   *)
(* block is the characters that went into it.  The cipher itself is the    *)
(* module Des.  A GtkEntry is named by the CPlugin whose init made it.     *)
(*                                                                         *)
(* The browser keeps to NPAPI: no call for an instance before newp, and no *)
(* call of an object of an instance that was destroyed.  It may be late:   *)
(* NPP_SetWindow and NPP_Destroy may come for a destroyed instance.        *)
(***************************************************************************)
EXTENDS Integers, Sequences

CONSTANTS Npps, Plugins, Scripts,
          Windows,   \* sockets of the browser
          NULL,
          BlockLen,  \* sizeof input (8)
          OutLen,    \* sizeof d_output (80)
          MaxText    \* bound: characters of the text

ASSUME GateAssumption == NULL \notin Npps \cup Plugins \cup Windows
ASSUME TextAssumption == BlockLen \in Nat \ {0} /\ OutLen \in Nat /\ OutLen % BlockLen = 0 /\ MaxText \in Nat

VARIABLES
  npp,       \* each instance for the browser: "none", "live", "destroyed"
  pdata,
  memory,    \* of each CPlugin: "none", "allocated", "deleted"
  m_pNPInstance, m_bInitialized,
  plugs,     \* sockets each CPlugin has put a plug into, in order
  text,      \* characters in each entry
  m_npp, m_plugin,  \* of each object; NULL before it is made
  asked,     \* the object whose dupText runs
  entry,     \* the entry dupText reads, NULL for none
  plain,     \* characters of its text passed so far, -1 outside
  output,    \* blocks in d_output
  cipher     \* the last answer: of which instance, and whether its window was set; the
             \* entry, the length of its text and the blocks written

pluginVars == <<npp, pdata, memory, m_pNPInstance, m_bInitialized, plugs, m_npp, m_plugin>>
dupVars == <<asked, entry, plain, output, cipher>>
gateVars == <<pluginVars, text, dupVars>>

GateInit ==
  /\ npp = [i \in Npps |-> "none"]
  /\ pdata = [i \in Npps |-> NULL]
  /\ memory = [p \in Plugins |-> "none"]
  /\ m_pNPInstance = [p \in Plugins |-> NULL]
  /\ m_bInitialized = [p \in Plugins |-> FALSE]
  /\ plugs = [p \in Plugins |-> <<>>]
  /\ text = [p \in Plugins |-> 0]
  /\ m_npp = [o \in Scripts |-> NULL] /\ m_plugin = [o \in Scripts |-> NULL]
  /\ asked = NULL /\ entry = NULL /\ plain = -1 /\ output = <<>>
  /\ cipher = [of |-> NULL, shown |-> FALSE, entry |-> NULL, len |-> 0, blocks |-> <<>>]

-----------------------------------------------------------------------------
(* Instances (npp_gate.cpp).                                               *)

NPP_New(i, p) ==
  /\ plain = -1
  /\ npp[i] = "none" /\ memory[p] = "none"
  /\ npp' = [npp EXCEPT ![i] = "live"]
  /\ pdata' = [pdata EXCEPT ![i] = p]
  /\ memory' = [memory EXCEPT ![p] = "allocated"]
  /\ m_pNPInstance' = [m_pNPInstance EXCEPT ![p] = i]
  /\ UNCHANGED <<m_bInitialized, plugs, m_npp, m_plugin, text, dupVars>>

\* pdata after NPP_Destroy.
Cleared(i) == [pdata EXCEPT ![i] = NULL]

NPP_Destroy(i) ==
  /\ plain = -1
  /\ npp[i] # "none"
  /\ npp' = [npp EXCEPT ![i] = "destroyed"]
  /\ IF pdata[i] = NULL THEN UNCHANGED <<pdata, memory, m_bInitialized>>
     ELSE /\ pdata' = Cleared(i)
          /\ m_bInitialized' = [m_bInitialized EXCEPT ![pdata[i]] = FALSE]
          /\ memory' = [memory EXCEPT ![pdata[i]] = "deleted"]
  /\ UNCHANGED <<m_pNPInstance, plugs, m_npp, m_plugin, text, dupVars>>

\* The window of this NPP_SetWindow is the one init uses.
Inits(p, w) == ~m_bInitialized[p] /\ w # NULL

NPP_SetWindow(i, w) ==
  /\ plain = -1
  /\ npp[i] # "none" /\ pdata[i] # NULL
  /\ Inits(pdata[i], w)
  /\ plugs' = [plugs EXCEPT ![pdata[i]] = Append(@, w)]
  /\ m_bInitialized' = [m_bInitialized EXCEPT ![pdata[i]] = TRUE]
  /\ UNCHANGED <<npp, pdata, memory, m_pNPInstance, m_npp, m_plugin, text, dupVars>>

\* script_CreateObject.
CreateObject(i, o) ==
  /\ plain = -1
  /\ npp[i] = "live" /\ m_npp[o] = NULL
  /\ m_npp' = [m_npp EXCEPT ![o] = i]
  /\ m_plugin' = [m_plugin EXCEPT ![o] = pdata[i]]
  /\ UNCHANGED <<npp, pdata, memory, m_pNPInstance, m_bInitialized, plugs, text, dupVars>>

\* The user types or erases a character in the entry of p, until there are n.
Type(p, n) ==
  /\ plain = -1
  /\ m_bInitialized[p]
  /\ n \in {text[p] - 1, text[p] + 1} \cap (0..MaxText)
  /\ text' = [text EXCEPT ![p] = n]
  /\ UNCHANGED <<pluginVars, dupVars>>

-----------------------------------------------------------------------------
(* TextData of an object: dupText.                                         *)

\* The entries an m_entry may point to: its own once init has made it.  Nothing sets m_entry before:
\* it is any entry then, or GTK finds none there.  (GTK may also end the process: nothing follows.)
Entries(p) == IF m_bInitialized[p] THEN {p} ELSE Plugins \cup {NULL}

\* The page asks an object of a live instance, with a window or without.
GetTextData(o) ==
  /\ plain = -1
  /\ m_npp[o] # NULL /\ npp[m_npp[o]] = "live"
  /\ asked' = o
  /\ entry' \in Entries(m_plugin[o])
  /\ plain' = 0 /\ output' = <<>>
  /\ UNCHANGED <<pluginVars, text, cipher>>

\* Characters in the entry that is read.
Length == IF entry = NULL THEN 0 ELSE text[entry]

\* The n-th character of entry e, and the end of a text.
Char(e, n) == [of |-> e, at |-> n]
End == [of |-> NULL, at |-> 0]

\* plain after j characters of a block: it stays at the end of the text.
Passed(j) == IF plain + j <= Length THEN plain + j ELSE Length

\* The j-th character of the block.
Character(j) == IF Passed(j - 1) < Length THEN Char(entry, Passed(j - 1) + 1) ELSE End

\* Mutant of More: the end of the text is seen after a block of it.
MoreLate == plain <= Length /\ Len(output) * BlockLen < OutLen

\* There is text left, and room in d_output.
More == plain < Length /\ Len(output) * BlockLen < OutLen

\* One block is filled and encrypted.
EncryptBlock ==
  /\ plain >= 0 /\ More
  /\ output' = Append(output, [j \in 1..BlockLen |-> Character(j)])
  /\ plain' = Passed(BlockLen)
  /\ UNCHANGED <<pluginVars, text, asked, entry, cipher>>

\* The blocks are written behind a template, as digits.
Answer ==
  /\ plain >= 0 /\ ~More
  /\ cipher' = [of |-> m_npp[asked], shown |-> m_bInitialized[m_plugin[asked]],
                entry |-> entry, len |-> Length, blocks |-> output]
  /\ asked' = NULL /\ entry' = NULL /\ plain' = -1 /\ output' = <<>>
  /\ UNCHANGED <<pluginVars, text>>

GateNext ==
  \/ \E i \in Npps :
       \/ \E p \in Plugins : NPP_New(i, p)
       \/ NPP_Destroy(i)
       \/ \E w \in Windows \cup {NULL} : NPP_SetWindow(i, w)
       \/ \E o \in Scripts : CreateObject(i, o)
  \/ \E p \in Plugins, n \in 0..MaxText : Type(p, n)
  \/ \E o \in Scripts : GetTextData(o)
  \/ EncryptBlock \/ Answer

GateSpec == GateInit /\ [][GateNext]_gateVars

-----------------------------------------------------------------------------
(* Properties.                                                             *)

\* Type invariant; in particular d_output holds the blocks.
GateTypeOK ==
  /\ npp \in [Npps -> {"none", "live", "destroyed"}]
  /\ pdata \in [Npps -> Plugins \cup {NULL}]
  /\ memory \in [Plugins -> {"none", "allocated", "deleted"}]
  /\ m_pNPInstance \in [Plugins -> Npps \cup {NULL}]
  /\ m_bInitialized \in [Plugins -> BOOLEAN]
  /\ m_npp \in [Scripts -> Npps \cup {NULL}] /\ m_plugin \in [Scripts -> Plugins \cup {NULL}]
  /\ text \in [Plugins -> 0..MaxText]
  /\ entry \in Plugins \cup {NULL} /\ plain \in -1..Length
  /\ Len(output) * BlockLen <= OutLen

\* Calls that come late find no deleted CPlugin: what an instance points to is its own, allocated, and
\* only a live instance points anywhere.
PdataSound ==
  \A i \in Npps : pdata[i] # NULL =>
    npp[i] = "live" /\ memory[pdata[i]] = "allocated" /\ m_pNPInstance[pdata[i]] = i

\* The m_plugin an object has kept since it was made is still that of its instance, and not deleted,
\* whenever the page may ask the object.
ObjectsSound ==
  \A o \in Scripts : m_npp[o] # NULL /\ npp[m_npp[o]] = "live" =>
    memory[m_plugin[o]] = "allocated" /\ m_pNPInstance[m_plugin[o]] = m_npp[o]

\* However often the browser sets a window, an instance has one entry, in the first window: what the
\* page reads is what the user sees.
OneEntry == \A p \in Plugins : Len(plugs[p]) <= 1

\* Among several instances each answers with the text of its own entry, once its window was set.
OwnText == cipher.shown => cipher.entry \in Plugins /\ m_pNPInstance[cipher.entry] = cipher.of

\* The answer has the characters of the entry's text once each and in order, the last block filled up
\* with zeros and no block for zeros only; a text that is longer than d_output is cut there.
TextWhole ==
  LET kept == IF cipher.len < OutLen THEN cipher.len ELSE OutLen IN
  /\ Len(cipher.blocks) = (kept + BlockLen - 1) \div BlockLen
  /\ \A b \in DOMAIN cipher.blocks, j \in 1..BlockLen :
       LET at == (b - 1) * BlockLen + j IN
       cipher.blocks[b][j] = IF at <= kept THEN Char(cipher.entry, at) ELSE End

\* The entry of every instance is its own, and the instance answers with the text in it.
EntrySound == GateTypeOK /\ PdataSound /\ ObjectsSound /\ OneEntry /\ OwnText /\ TextWhole
=============================================================================
