# A verification of libflashcross

libflashcross runs the Linux Flash player outside a browser. `npprunner` is a small GTK program
that plays the browser's part of NPAPI; it is linked with `rtld-npp`, a shim that loads the player
with an ELF loader of its own (on FreeBSD) and forwards the four `NP_` entry points. `nswinviewr`
is the Windows counterpart of npprunner. `plugin-gtk` and `plugin-wrap` are plugins rather than
hosts.

This directory holds TLA+ models of the program, TLC runs that check them on small instances, and
proofs that TLAPS checks for instances of every size. `PROJECT.json` maps each definition to the
lines it stands for. Source paths below are relative to `src/`.

## 1. Inventory

| Component | State it keeps | Operations | Talks to | What makes it hard | What makes it correct |
|---|---|---|---|---|---|
| **npprunner URL streams** `npprunner/npn_stream.cpp`, `npn_network.cpp` | `__stream_list`; per socket the descriptor, `m_tag`, `SF_` flags, `last_error`; per protocol stream `m_ref`, `PF_` flags, `m_chunk`, `m_header`, `m_waitp`; per NPNetStream `m_protop`, `NF_CREATED`, `m_offset` | GetURLNotify, PostURLNotify, redirect, `plugin_NetworkNotify`, `on_read`, `on_write`, `OnRead`, destruction | GDK input sources, plugin callbacks, the network | reentrant requests, redirects under a running handler, descriptors and addresses reused, partial sends and reads, resets | exact references, an exact descriptor table, the body in order, NPAPI call order, every request ends |
| **npprunner host** `npprunner/npprunner.cpp`, `netscape.cpp` | `playing`, `npp.ndata`, plugin objects | run/stop button, quit, `plugin_Setup`, `plugin_New`, `plugin_Shutdown` | loader shim, player, URL streams | long sequences of presses, calls that fail | player and instance exist exactly while the button says so |
| **Loader shim** `rtld-npp/plugin.cpp` | `m_plugin`, `plugin_path`, `np_` pointers | static constructor and destructor, `NP_Initialize`, `NP_Shutdown` | host above, ELF loader below | load before main, unload, load again | pointers never outlive the mapping in use; a player in place loads again |
| **npprunner object model** `npprunner/npp_*.cpp`, `NPN_` functions of `netscape.cpp` | `referenceCount` of NPObjects, the window object of each instance | Create/Retain/Release, variants, window script object | player | counts shared by host and plugin | no object is used after its last release, none leaks |
| **ELF loader** `rtld-npp/rtld.c` | mapping, `dl_handles`, relocations | `elf_dlopen`, `elf_dlsym`, `elf_dlclose`, lazy binding | kernel, fixups | lookup order, hash chains, partial failure | a symbol resolves to the fixup if there is one; nothing leaks |
| **Fixups** `rtld-npp/rtld_fixup.c`, `linux.c` | leaked-mutex slot and errno of each thread, library counters | pthread_mutex, socket calls, getaddrinfo, dlopen and dlclose as the player sees them | player, libc, kernel | threads, structures and constants of another layout, results nobody looks at | nothing is freed in use or forgotten; what the player asks for is what the kernel gets |
| **Flash support library** `rtld-npp/flashsupport.c` | sound instance: descriptor, thread, signal | Open, Close, Latency, sound thread | player, `/dev/dsp` | thread and owner race at close | the thread is gone before its instance is freed |
| **nswinviewr URL streams** `nswinviewr/npnetstream.cpp`, `nputils.cpp` | as npprunner, plus windows, `_invoking`, a thread for videos | `WM_NETN` messages, start and end of the thread | Winsock messages, plugin | edge-triggered events, two threads | as npprunner; the thread ends before its lock is deleted |
| **nswinviewr RPC** `nswinviewr/rpcvm.cpp`, `shell.cpp` | packet buffer, `total`, `callref` | `rpc_dispatch`, `rpc_call` | socket, plugin | packets cut anywhere, several clients, clients that are reset | each packet is executed once, in order |
| **nswinviewr host** `nswinviewr/netscape.cpp`, `npplugin.cpp` and rest | window flags, instance list, the long of each window | Attach, SetWindow, Detach, Destroy, command line | plugin, Win32, RPC | windows closed in the middle of a call, instances left behind | a message finds the instance of its window; destroy once each |
| **plugin-gtk** `plugin-gtk/*.cpp` | instance, GTK plug, script object | NPP_ functions | browser | script objects and late calls, several instances | no use after NPP_Destroy; each answers with its own text |
| **DES library** `plugin-gtk/des.cpp` | key schedule | `des_set_key`, `des3_set_*`, `des_crypt`, `des3_crypt` | plugin-gtk | orders of subkeys | decryption inverts encryption |
| **plugin-wrap** | none | trace and forward | | | |

Interaction in one paragraph: before `main`, the shim's static object loads the player. The button
calls `plugin_Setup` (shim, then the player's `NP_Initialize`) and `plugin_New`, which ends with a
URL request. From then on everything the player does through NPAPI happens on the GTK thread:
GDK calls `plugin_NetworkNotify` for a descriptor, which leads through the socket and the protocol
stream to an NPNetStream, which calls the plugin, which may ask for more URLs before it returns.
Stopping destroys the instance, shuts the player down and unmaps it.

The hazards, each at its line, are in `PROJECT.json`.

## 2. Modules

| Module | Models | Checked by |
|---|---|---|
| `NPStreamAPI` | abstract: what NPAPI promises a plugin about one URL request | instantiated in `NetStream`, `WinStream` |
| `NetStream` | `npn_stream.cpp`, `npn_network.cpp` | `MCNetStream`, `NetStream_proofs` |
| `WinStream` | the URL streams of `nswinviewr/npnetstream.cpp` on window messages | `MCWinStream`, `WinStream_proofs` |
| `PluginHost` | `npprunner.cpp`, the life cycle in `netscape.cpp`, `rtld-npp/plugin.cpp` | `MCPluginHost`, `MCHost`, `Host_proofs` |
| `NpObjects` | NPObjects, window objects and variants of both hosts | `MCHost`, `Host_proofs` |
| `WinPlugin` | the instances of nswinviewr and their windows | `MCViewer`, `Viewer_proofs` |
| `PlayerThread` | the thread for videos at the end of `npnetstream.cpp`, from start to end | `MCViewer`, `Viewer_proofs` |
| `RpcVm` | `rpc_dispatch` of `nswinviewr/rpcvm.cpp`, its messages in `shell.cpp` | `MCRpcVm`, `RpcVm_proofs` |
| `OssSound` | the OSS sound output of `rtld-npp/flashsupport.c` | `MCOssSound`, `OssSound_proofs` |
| `ElfLoader` | `elf_dlopen`, `elf_dlmmap`, `elf_dlclose` of `rtld.c` | `MCElf`, `Rtld_proofs` |
| `ElfBinding` | `elf_dlsym`, `find_symdef`, relocation, lazy binding of `rtld.c` | `MCElf`, `Rtld_proofs` |
| `ElfHash` | `elf_hash` of `rtld.c` against the ABI's | `MCElf`, `Rtld_proofs` |
| `FixupMutex` | the mutexes of `rtld_fixup.c` | `MCFixups`, `Rtld_proofs` |
| `FixupSockets` | the socket calls, addresses and errno of `rtld_fixup.c` | `MCFixups`, `Rtld_proofs` |
| `GtkPlugin` | the password entry of `plugin-gtk` | `MCGtk`, `Gtk_proofs` |
| `Des` | `plugin-gtk/des.cpp` | `MCGtk`, `Gtk_proofs` |

A `_proofs` module extends the modules of one program: `Host_proofs` those of npprunner,
`Viewer_proofs` those of nswinviewr, `Rtld_proofs` those of rtld-npp that the player runs on,
`Gtk_proofs` those of plugin-gtk; the others, the one they are named after. `MCHost`, `MCViewer`,
`MCElf`, `MCFixups` and `MCGtk` put parts that share no state and no object of the program into one
run: a variable `part` is chosen in the initial state, the part it names takes all the steps, and
the others rest as they were initialised. The states of such a run are the sum of those of its
parts, not the product, and a property of one part says nothing of a behaviour of another.

### NetStream

All of the code runs on one thread. `pc` and `frame` are that thread's stack: `pc = "idle"` is the
main loop, `"read"` and `"send"` are the two halves of `plugin_NetworkNotify`, `"onread"` is
`NPNetStream::OnRead` entered through `NOTIFY(m_waitp)`, and `"newstream"`, `"writeready"`,
`"write"`, `"destroystream"`, `"urlnotify"` mean that the plugin is executing that call. A handler is
thus cut exactly where control leaves the code. In between, only the plugin's own requests
(`GetURL`, allowed in `PluginTurn`) and the network (`Network`) can move.

| Action | Code |
|---|---|
| `GetURL` | `NPN_GetURLNotify`, `NPN_PostURLNotify`: construct, connect, `set_request`, `startup`, `rel` |
| `Notify` | GDK calls `plugin_NetworkNotify` with the ready conditions of the input |
| `ReadHalf` | `socket_stream::on_read`, `proto_stream::on_read` (`RecvChunk`, `HeaderDone`, `BodyStart`) |
| `WriteHalf` | `socket_stream::on_write` (`AfterConnect`), `proto_stream::on_write` (`SendRequest`) |
| `Redirect`, `RedirectFails` | the first block of `OnRead`, `RedirectURLNotify` |
| `Proceed`, `NewStream`, `WriteReady` (with `RecvData`), `Write` | the rest of `OnRead` |
| `DestroyStream`, `URLNotify` | `NPNetStream::~NPNetStream`, from `recv_wrapper` |
| `Accept`, `Answer`, `Arrive`, `Close`, `Reset` | the network and the servers (external) |

A `proto_stream` and its `socket_stream` have one identity, since each owns the other. Identities
are addresses and are reused after deletion, and so are descriptors: that is what makes a dangling
pointer or a stale table entry visible. `Turnover` is the only place where objects come and go, so
that a constructor, a destructor and both at once (a redirect, where the new socket is open before
the old one is closed) read alike.

Abstractions. Data is counted in units and a response is a record (header length, body length,
whether its Content-Length reaches 120000, whether it redirects); header parsing is the comparison
of lengths. `ChunkLen` stands for the 1024 bytes of `m_chunk`, `Look` for the 12 bytes wanted past
the header, `MaxReady` for the 64K of `m_cache`. A request fails before it changes anything
visible (bad URL, `connect` refused at once), so failure is the absence of the action. Content-Length
itself and MIME types are passed to the plugin and decide nothing else. The reason passed to
`urlnotify` is always `NPRES_DONE` and is left out.

### NPStreamAPI

One request moves through the phases none, pending, newstream, open, write, destroystream,
urlnotify. `ImplementsAPI` maps `phase` to the place of the handler and `NF_CREATED`, and `written`
to `m_offset`. Both stream modules are proved to implement it.

### PluginHost

`pc` again marks where control is outside the code: in a call of the player, in the GTK main loop,
or at a failed assertion (`load_failed`, `init_failed`, `window_failed`, from which the program does
not go on). `StaticInit` and `StaticFini` are the shim's static object, `Run` to `SetWindow` the
first press of the button, `Stop` to `Stopped` the second, `Quit` the end of `gtk_main`. Files may be
installed and removed at any time (`Replace`, external). A file is missing, refused by `elf_dlopen`,
or good; a file without one of the `NP_` symbols stops the program in an assertion before main and
is not modelled. `newp`'s error is ignored by the code, so `New` has one outcome.

### OssSound

The only module with real threads. The player's thread (`pc`, `cur`) goes through
`FPX_SoundOutput_Open` and `FPX_SoundOutput_Close` one system call at a time; each sound thread
(`tpc`) goes through `oss_thread`: fill, enter write, write returns, look at `signal`. All of these
interleave. `held` is what the player was given by Open and has not closed. Threads and descriptors
are reused. `late` counts the writes a thread began after its signal was set (saturating at
`LateCap = 2`, one more than the property allows); it is history only. Open may fail at each step;
`pthread_create`'s positive error passes the code's test, so Open then returns an instance without a
thread.

### RpcVm

`pktbuf` holds its first `total` bytes; a byte is the packet it was sent in and its place there, so
that "what is executed is what was sent" can be said. `Recv`, `RecvClose` and `RecvFails` are the
window message `WM_DEAE` with data, at the end of the connection and with an error; the loop of
`rpc_dispatch` is `Execute` until `Done`. `Recv` contains the assertion on the buffer and `Done` the
one on the length: `pc` then names the assertion and the server has stopped. Clients are external;
they write whole packets, as many as they like before an answer, and may close at any time
(`Leave`). With `Breaks`, a client may also die while it sends, so that only a part of what it wrote
arrives (`Cut`), and `recv` may fail at any time (a reset, or a message with nothing left to read):
`WndProc` closes the socket in all of these cases and resets nothing, so that `pktbuf` may keep a part
of a packet. The history variable `spoilt` says that it did.

### WinStream

The Windows counterpart of NetStream, with the same cuts of the handler. What differs is how it is
woken. `queue` is the window's queue of `WM_NETN` messages, and `armed` the events for which Winsock
may post another: a read event is armed again by `recv`, a write event by a `send` that would block,
and `FD_CLOSE` comes once. `OnRead`, `OnWrite` and `OnUnknown` take the message at the head; a message
whose handle has been closed, and perhaps given to another socket, is marked `stale` (at most
`MaxStale` of them). `FD_CONNECT` is not modelled because the code ignores it, which makes a refused
connection invisible (`Refuse`). `Wrap` is `proto_stream_wrapper` for videos: `inner[w]` is the
wrapped stream, which keeps the waiter, and `w`'s own handle is never connected. `Source` follows a
wrapper to the socket the data comes from.

### NpObjects

`count` is `referenceCount`; the other variables are the places a reference can be in: the player's
pointers (`held`) and variants (`var`), the window object of an instance (npprunner) or of the host
(nswinviewr), chosen by `host`, the location of a window, and `lost`, those the host has and never
gives back (`plugin_Shutdown` frees the plugin_object with its `winref`, `plugin_Test` forgets the
object). `ReleaseObject` contains the destructor it may run. The player is external and gives back
what it got, once; it may release a variant twice.

### WinPlugin

One action for each call of a client through `rpc_call` (newp, setwindow, destroy), for each window
message, and for the viewer's own instance (`Exec`, `Shutdown`). With `Pumps`, the player dispatches
messages inside newp and destroy; the other actions then come in between (`busy`). `long[w]` is
`GWL_USERDATA`, `told[p]` is what the last setwindow gave the player, and `late` the instances that
were called after their destroy.

### PlayerThread

In the program no video is ever queued: `play_video` has one call, which stands in an `#if 0`
(`npnetstream.cpp:637-646`). The list, the external player and the waits for it are dead code and are
not modelled. What runs is a thread that waits for `h_event`, and `player_cleanup`, which tells it to
end. Each step goes from one call that may wait, or that the other thread sees, to the next. `handle`
is the thread's handle, which `_endthread` closes before `player_cleanup` waits for it or after.

### ElfLoader, ElfBinding, ElfHash

`ElfLoader` keeps memory byte by byte and protection page by page; a file is the list of its
segments. Each system call succeeds or fails, and `torn` remembers the loads whose range
`elf_dlmmap` reserved and did not give back. `ElfBinding` has symbol tables with chains and buckets,
the relocations of both architectures in order, and threads (`ImageThreads`) that enter
`_rtld_fixup` at once; other libraries bring symbols into the global scope meanwhile (`Appear`).
`WellFormed` and `FileWellFormed` say what a link editor guarantees: of a hash table, that chains
lead to lower symbols, and that a symbol is the first of its bucket or follows one of the same
bucket, where buckets are those of the link editor's hash (`LinkHash`). The loader looks up with its
own (`Hash`); that the two agree is not assumed, since `ElfHash` shows that on amd64 they do not for
some longer names. A relocation of a kind the loader passes over (`R_386_NONE`,
`R_386_TLS_DTPMOD32`, anything unknown on amd64) is "left", one that fails i386's `assert(0)` is
"unknown". `ElfHash` computes the loader's hash with the bits above 31 that an `unsigned long` keeps,
next to the ABI's, bit by bit; `EntryPoints` are the four names that `rtld-npp/plugin.cpp` looks up.

### FixupMutex, FixupSockets

`FixupMutex`: a mutex is an object that native `pthread_mutex_destroy` refuses to free while it is
locked. `Destroy` begins the replacement; `Park`, `Reclaim`, `LockParked` and `UnlockParked` are its
native calls, between which other threads run. `locks` is what the player believes it holds, `owner`
and `depth` what the native library knows: they differ for a mutex of the default kind that its own
thread parked. `FixupSockets`: a call of the player is one action, with success or any error the
kernel may give in the socket's state; `linux_errno` is kept for each thread. An address is its first
two bytes, its length and the rest: FreeBSD has a length and the family there, Linux the family in
two bytes. `convert_linux_address` and `KernelAddress` move the family from one place to the other, and
`connect` refuses an address that is not 16 bytes long, which an IPv6 entry never is. An address list
has its two pointers in one of two orders. `last` is history: the last translated error of a failed
call of the thread since it cleared errno.

### GtkPlugin, Des

`GtkPlugin`: the NPP functions, `TextData` of the script objects, and `dupText`, one block at a time.
Each CPlugin has the entry its `init` made, with a text of its own; a character is the entry and its
place in the text. A script object keeps the CPlugin of its instance from when it was made
(`m_plugin`). The browser is external: it may call for an instance it destroyed, but does not use a
script object of one. It may ask for `TextData` before the first window, which the code does not
check: `m_entry` was never set then, and `Entries` is any entry, or none that GTK accepts. `Des`: 32-bit halves are functions from bit numbers; the moves under masks of `DES_IP` and
`DES_FP` are modelled bit by bit, a subkey is its key and its number, and the S-boxes are the
constant operator `F`. `trace` is history: the halves before each round of encrypt.

## 3. Runs

| Run | Instance | Checks |
|---|---|---|
| `net_safety` | 2 streams, 2 connections, 2 descriptors, ChunkLen 2, symmetry | `StreamsSound` `WriteHalfSameSocket` `DeliveryInOrder` `ErrorHasCause` `ErrorTearsDown` `DestroyedWhenDelivered` |
| `net_live` | 1 stream, 2 connections (a redirect holds two), ChunkLen 3, `FairSpec` | `ImplementsAPI` `RequestsEnd` |
| `host` | 2 candidate files that change, 2 handles, 2 plugin_objects; 5 NPObjects, 2 instances, 2 variants, symmetry | `HostSound` `SetupLoads` `UnmappedUnused`; `ObjectsSound` |
| `host_env` | `LD_FLASHPLAYER_PATH` set, files constant | a violation of `SetupLoads`: see Findings |
| `sound` | 2 instances, 2 threads, 2 descriptors, `FairSpec` | `InstancesSound` `AtMostOneLateWrite` `CloseReturns` |
| `rpc` | 1 connection, used by one client after another, which may break off; packets of 3, 4, 5 bytes with a length word of 2, `FairSpec` | `PacketsWhole` `AssertionsHoldUnlessSpoilt` `RequestsServed` |
| `rpc_pair` | 2 connections, none of which breaks off | a violation of `AssertionsHold`: see Findings |
| `win_stream` | 1 stream, 2 proto_streams, 2 handles, 1 stale message, 4 responses, `FairSpec` | `StreamsSound` `DeliverySound` `ErrorHasCause` `ImplementsAPI` `RequestsEnd` |
| `viewer` | 2 client instances and the viewer's, 2 windows and the program's; the 2 threads at the end of the program | `WindowsSound` `DestroyedOnce`; `EndSound` `CleanupReturns` |
| `elf` | files of 2 segments on 4 pages of 4 bytes, 2 loads; images of up to 4 symbols, 1 to 3 buckets, two hashes that differ for one name, 2 threads; 260 names | `LoaderSound` `ImageAsDescribed`; `BindingSound`; `HashSound` |
| `fixups` | 2 threads, 3 mutexes, 4 inits, depth 2; 2 threads, 6 calls on a socket and a list | `MutexSound` `DestroyReturns`; `SocketsSound` |
| `gtk` | 2 instances, 2 windows, 2 objects, blocks of 2 characters, texts up to 5 with room for 4; 6 blocks, 2 keys | `EntrySound`; `DecryptInverts` `CipherSound` |

A property with `Sound` in its name is the conjunction of the named invariants that belong together;
each is stated in a comment above it. What they say:

* NetStream. `StreamsSound`: connections and streams point at each other one to one, reference counts
  are exact, `__stream_list` is exactly the open sockets. `WriteHalfSameSocket`: the second half of an
  event finds the first half's socket or none. `DeliveryInOrder`: `write` is always given the body at
  `m_offset`. `ErrorHasCause`: a connection is declared broken only by a reset, an early end, or a
  header that does not fit (that the last is on the list is what the code does, not what one would
  wish). `ErrorTearsDown`: a broken connection ends its stream at once, or another event that will is
  due. `DestroyedWhenDelivered`: an open stream ends only after all that arrived was written, unless
  the plugin cut a write short or sending failed. `ImplementsAPI`, `RequestsEnd`: the plugin's view.
* WinStream. The same, with wrappers and messages. `DeliverySound` adds `LastEventUsed`: a stream for
  which no message will come any more is one the plugin put off, a redirect that cannot be followed,
  or one that overran `m_chunk`. `ErrorHasCause` shows the other consequence of window messages: a
  stale one for a handle that is in use again breaks a connection that is not made yet.
* PluginHost. `HostSound`: m_plugin, the mapping, the function pointers, the instance and the button
  agree. `UnmappedUnused`: nothing is unmapped in use. `SetupLoads`: the assertion of `plugin_Setup`.
* NpObjects. `ObjectsSound`: every count is the number of references, whatever is reachable lives, and
  each string has one owner.
* OssSound. `InstancesSound`: a thread's instance is allocated and its device open; no instance is lost
  or freed twice; a thread runs for as long as the player has its instance, and Close waits for one
  that was told to stop and was not joined before. `AtMostOneLateWrite`, `CloseReturns`: the end of a
  thread.
* RpcVm. `PacketsWhole`: what is executed and answered is the oldest request of the client the answer
  goes to, less than a packet is kept, and a client that closed after whole packets leaves nothing
  behind. `AssertionsHoldUnlessSpoilt`, `RequestsServed`. All three speak of the time until a
  connection has ended with a part of a packet in `pktbuf` (`spoilt`): they show that nothing else
  mixes packets up for one client after another. After it, the next client's packet is read behind
  that part: see Findings.
* WinPlugin. `WindowsSound`: a message finds the instance of its window, the list has no deleted
  instance, the player is given windows that exist. `DestroyedOnce`.
* PlayerThread. `EndSound`: the lock is deleted after the thread has left it for the last time, and
  when the thread waits after `h_quit` was set, without the lock, its event is set or about to be.
  `CleanupReturns`.
* ElfLoader. `LoaderSound`: nothing is left of a load that failed or was closed, but the ranges of
  `torn` loads; what runs is whole. `ImageAsDescribed`: memory is what the headers say, except zero
  pages behind a file part that ends on a page boundary.
* ElfBinding. `BindingSound`: lookup answers exactly for a name that the table defines in the bucket
  the loader's hash selects, and so not for one whose bucket differs. Words and PLT slots hold the
  definition that counts: the replacement, the image's own, the global scope's, and 0 for a weak
  symbol only without any of them. `R_X86_64_64` loses its addend and some kinds are passed over. The
  program is ended only for a symbol without a definition the loader can find, a section or local
  symbol it refuses, or a kind i386 does not know.
* ElfHash. `HashSound`: the low 28 bits are the ABI's, and the bucket is, for the entry points and for
  names of up to six characters; longer names may differ.
* FixupMutex. `MutexSound`: nothing is freed in use, what the player destroyed is kept in one place,
  at most one per thread is kept, and the replacement leaves no mutex locked. `DestroyReturns`, but
  for the deadlocks `Stuck` describes.
* FixupSockets. `SocketsSound`: the kernel's `connect` gets the address that was meant, address lists
  come back as they were made, `O_NONBLOCK` stays once the player asked for it, and errno is that of
  the thread's last failed call with a translated error. SO_ERROR answers the pending error if it is
  one of the five that are translated. Otherwise it answers that errno, which is wrong: a refused
  connection (`ECONNREFUSED`) is reported as connected if errno is 0, and a good one with the error of
  an earlier call (often `EINPROGRESS`) if the player has not cleared it. The property says exactly
  this, and no more.
* GtkPlugin. `EntrySound`: no CPlugin is used after it was deleted, by a late call or a script object,
  an instance has one entry, and once its window was set it answers with the text of that entry, once
  and in order, as far as d_output goes. Before, it may answer with any text.
* Des. `DecryptInverts`; `CipherSound`: Triple-DES with equal keys is DES, and `DES_IP` is the
  standard's permutation.

**Bounds.** The smallest sizes at which every case happens. NetStream: two streams and two connections
give a request made from inside another's callback, a redirect, and reuse of an address and a
descriptor by a later object; only a redirect at the same time as another request would need a
third connection, which the proofs cover for ownership and the table. `ReqLen = 2` makes a send
partial. The response sets contain a header shorter than, equal to and longer than `m_chunk`, a long
response whose look-ahead does and does not fit, a body that is cut between chunk and socket, and a
redirect. `MaxReady = 2` makes writeready answer 0, less than, and as much as there is. WinStream has
one stream: two proto_streams are needed for it already (a redirect, or a video with its wrapper),
and its handles are used again by its own later requests; two requests at a time are not checked
there. Two sound threads let one instance be opened while the thread of another runs; instances share
no state, and the proofs cover any number. In `rpc`, `BufSize = 12` is the smallest buffer that holds
what is left of the longest packet and a full `recv` of 7 bytes, so that the assertion is met at its
limit; 7 bytes hold two packets and a cut one; a length word of two bytes is the shortest that can be
cut. In `viewer`, two clients and the viewer make the list longer than one on either side of what is
taken out. In `elf`, file and zero parts
end on, before and after a page boundary, and two loads let the traces of the first be seen in the
second. In `fixups`, three mutexes let each of two threads have one parked while both want the third,
and the fourth init uses an address again; six calls are a connect, its errors and an address list
from beginning to end. Two families are enough, as a family is either in its place or not. NPObjects: two windows with their locations and an object of the player;
`MaxHeld` is 1 for npprunner and 2 for nswinviewr, and variants hold more. In `gtk`, texts have none, a
part, the whole of each of the two blocks that have room, and one character more; the blocks of the cipher differ in every pair of bits.

**Deadlock** is checked in the net runs and in `sound`. It is off where the program or the
computation ends (`host`, `viewer`, `elf`, `fixups`, `gtk`), where the server stops at an assertion
(`rpc`), and in `win_stream`, where a stream may hang in the named cases.

**Fairness** and where it comes from:

* NetStream, `WF(Handler)`: a handler that was entered runs on; there is one thread and no blocking
  call in it. `SF(Notify)` per connection and kind of condition: GLib polls every source and
  dispatches every one that is ready at the same priority in turn; a source whose readiness comes and
  goes because the dispatcher is busy elsewhere is still found ready again and again, hence strong.
  A connect is accepted or refused: TCP's connect times out. A server that was sent the whole request
  (`Connection: close` is in it) closes in the end; among the answers a plugin gets, not every one is
  a redirect. The plugin does not answer 0 to `writeready` for ever.
* WinStream: the same of servers and plugin; `WF(Dispatch)`, as the window's queue is taken in order;
  Winsock posts what it owes (`WF` of `PostWrite`, `PostClose`).
* OssSound: `WF` of Close's own steps and of each sound thread (the kernel schedules both; a write to
  the device returns, since the device plays on or was reset). Nothing is assumed of Open.
* RpcVm: `WF(Execute)`, `WF(Done)` (the calls into the plugin return) and `SF`, per connection, of
  receiving and of closing at the end: Windows posts another message when data is left after a
  `recv`, and one for the end. Nothing is assumed of the clients, nor of errors.
* PlayerThread: `WF` of each thread; nothing but the thread itself takes the lock.
* FixupMutex: `SF` of the replacement's steps, because the mutex it waits for is taken and given back,
  and a waiting thread is not kept out for ever; the player unlocks what it locked.

Both versions of `RequestsEnd` exclude by name the states the code leaves hanging. In NetStream: a
redirect that cannot be followed (retried at each event, never given up) and a request whose first
send took only a part (the write interest is gone). A first send that fails is not excluded: that
request ends. In WinStream: a refused connection and, once the last event of the connection has been
seen, a plugin that answered `writeready` with 0 and for which nothing posts another message, a
redirect that cannot be followed, and a response that overran `m_chunk` before the request was out.
None of them
contradicts a document of the repository, so they are hazards and not findings.

## 4. Proofs

All proofs are of the specification without fairness, for any finite or infinite values of the sets
among the constants, except where a theorem assumes more. The assumptions on the constants are named
where they are declared, and TLC evaluates them in the runs.

**NetStream.** `IndInv == TypeOK /\ Ownership /\ SocketTable /\ Bounds /\ FrameOK`. `Ownership`
alone is not inductive: `URLNotify` deletes `m_protop[frame.s]` and must know that the frame's
stream is live and that its connection is the one the handler came through (`FrameOK`).
`SocketTable` needs `Ownership` (reference count 1 is what closes a socket) and `FrameOK` needs
`SocketTable` (the descriptor of a running handler cannot be given away while its socket is
registered). `Bounds` keeps the counters natural. One lemma shows what `Turnover` does to the three
table-like parts together; each action is then a step, and requests made from inside a call
into the plugin are just another use of `Turnover`. `StreamsSound` and `WriteHalfSameSocket` follow.

**NetStream implements NPStreamAPI.** On top of `IndInv`, `CallOrder` says what the handler's place
implies about `NF_CREATED`, `m_offset` and the length being written. Each action is shown to map to
one abstract action or to a stutter. The mapped formulas are kept opaque (an operator per abstract
action applied to explicit functions) until a leaf needs them.

**The data of NetStream.** `DataInv` adds, for each connection, what has been read and what is in
`m_chunk` (`ReadingOK`), that its input waits for reads and that a broken one is readable
(`EventsOK`), and that a broken stream which is not open is only left alone if its input waits for
writes too (`BlockOK`); for each stream, that what was written and is being written is the response up
to `Position`; for the handler, what its place says of both (`HandlerOK`). It is inductive relative to
`IndInv` and `CallOrder`. `DeliveryInOrder`, `ErrorHasCause`, `ErrorTearsDown` and
`DestroyedWhenDelivered` follow. `ErrorTearsDown` needs `BlockOK` and nothing less: which event is due
depends on the interest that `block()` left when the connection was still whole.

**WinStream.** `IndInv` has a part about who refers to whom (`LinksOK`: references, handles, wrappers,
waiters), and then speaks of each proto_stream and each stream alone, with its own messages in
`queue`. The message part is the new one: until the header is complete, `FD_CLOSE` is armed or queued,
and `FD_READ` is queued for what has arrived, ahead of any `FD_CLOSE`. That is why the last data are
looked at before the connection is declared broken, and with `LastOK` it gives `LastEventUsed`: only
the streams named there wait for a message that does not come. One lemma says what any step of one
stream leaves of the others (`OneStep`), another what a `Turnover` does. The streams, their delivery,
the action property `ErrorHasCause` and the refinement of NPStreamAPI follow, for any number of
streams, and so for two requests at a time, which no run of this module has. `IndInv` was checked with
TLC on the instance of `win_stream` first.

**PluginHost.** `IndInv == TypeOK /\ HandleMatched /\ Session`; `Session` says from which call of the
player to which the module is initialised and the object allocated. `SetupLoads` is proved for
`EnvPath = Null`, and the run `host_env` shows that the hypothesis is needed.

**OssSound.** `IndInv == TypeOK /\ OwnerOK /\ DeviceOK /\ ThreadOK /\ SignalOK /\ LateOK`.
`ThreadOwnsInstance` alone is not inductive: that `Free` and `CloseDevice` leave no thread behind
depends on the thread recorded in the instance being the one that runs on it (`ThreadOK`), which depends
on an instance being in one hand at a time (`OwnerOK`) and on descriptors not being shared (`DeviceOK`).
`SignalOK` is the converse of `ThreadOK`, that the thread an instance names is there until it is joined,
and says that it ends only after signal was set: `SpecStopsForClose` is the part of `CloseReturns` that
needs no fairness. `LateOK` says where a thread can be when its one late write has begun: in it or after
it, never before it.

**NpObjects.** `CountsExact` compares a counter with a sum of cardinalities: pointers, variants, windows
and what is lost. Each action changes the cardinality of one of these sets by one, or moves an element
from one to another; `WindowSound` says which object is the window of an instance, so that releasing
it releases its location, and a location has none of its own. The sets of objects, instances and
variants are assumed finite, as they are in memory.

**RpcVm.** What is in `pktbuf` followed by what is under way is cut into the packets the client waits
for: `Framed` says so by giving the first position of each packet. `recv` moves the boundary between
the two, `Execute` takes the first packet away, and the lengths of the packets before a position add up
without a recursive sum. That a complete packet has its length word there to be read follows by
looking at the least packet that would be an exception. A connection that is cut waits for a packet of
which only a part will come; when it is closed, either `pktbuf` is empty and the next client starts
afresh, or `spoilt` holds and nothing is claimed. `WholePackets` and `AssertionsNeverFail` are proved
for one connection (`OneConn`), which clients may use one after the other. `WholeClientsNeverAbort`
adds that without `Breaks` nothing is ever spoilt, so that the assertions hold without a condition.
`rpc_pair` shows that `OneConn` is needed.

**WinPlugin.** `WindowsAreSound` and `AllDestroyed` hold whether or not the player pumps messages. The
invariant ties the long of a window, the `m_parent` and flags of an instance, the list and the history
of newp and destroy together; that the player is given only windows that exist is a second invariant
on top of it. For a player that pumps no messages a third one adds that nothing moves while the
program is in a call, from which the code's assertions (`NoAssertionFails`) and `DestroyIsLast` follow;
TLC shows both to fail without the hypothesis.

**PlayerThread.** `ThreadEndIsSound` is the safety behind `CleanupReturns`: what the thread has not seen
of `h_quit` is announced by an event that is set, or that the window's thread is about to set. The
invariant adds who is in the lock.

**FixupMutex.** The invariant says for each place of a thread in the replacement what it holds and
that what it holds is in no other thread's slot or hands. `MutexesAreSound` includes the bound on the
leak, a comparison of cardinalities by an injection of the kept mutexes into the threads, for which
the set of threads must be finite. `HeldForThePlayer` says why the wait for a parked mutex ends when the
player unlocks it: no call of the replacement holds one for longer than between its own lock and
unlock.

**FixupSockets.** In the invariant, `FreedAsAllocated` is replaced by what it follows from: every address
list the player holds came from getaddrinfo, has its pointers exchanged, entry by entry, and each
address in Linux's layout (`ListsSound`). That of freeaddrinfo exchanges them back, and `KernelAddress`
puts the family back for the entries that are 16 bytes long, for lists of any length and content.
`Noted` types what the player was told by getsockopt and the flags it has read and is about to change.

**ElfLoader.** `HeldSound` and `HandlesSound` say at each place of a load what it holds, and that a range
is its own until it is given back or is in `torn`. `MemorySound` says that the segments mapped so far
are in memory as described and that nothing was written from the first page of the next one on. Mapping
a segment never touches what is below its first page: the lemmas about `TRUNC_PAGE` and `ROUND_PAGE`
show that for every page size, from what a link editor guarantees of the order of segments.

**ElfBinding.** `Resolution` says what `find_symdef` comes to for every well-formed table, name and order
of definitions. The walk along a chain is a function from steps to symbols; it exists because chains
lead downwards, it finds nothing but definitions, as the least step that did otherwise would show, and
it misses none of its bucket: the highest symbol of a bucket that no walk reached would have to follow a
higher one. A definition the link editor put into another bucket than the loader looks in is never
found (`LookupElsewhere`).
The invariant `BindInv` says, at each phase, that the words not relocated yet have what the file put
there, and that the words of the PLT, and what a thread has in `sym_temp` before it writes it there,
are among `SlotValues`. Whichever of the threads that resolve a slot at once writes last, the slot
leads to a definition of its own symbol.

**ElfHash.** `HashIsSound` has no hypotheses: it is about every set of names and of table sizes. That
the low bits agree compares an addition with one done bit by bit. The bits of a sum satisfy the
equations of its carries (`Carries`), and the ABI's carries are determined by them from the lowest up:
a least place where the two differed would contradict its own equation (`Upwards`, `Ripple`). That
nothing is kept above bit 31 for short names follows from a bound on the hash of `pos` characters, 33
times `16^pos - 1` (`Short`). For the four entry points no bound helps: the value after each of their
characters is computed, and none carries into bit 32 (`OnTrail`).

**GtkPlugin.** Each instance's CPlugin has one plug exactly while it is initialised (`PlugsSound`). While
`dupText` runs, the characters passed are those in `d_output`, up to the end of the text
(`OutputSound`), for every length of block, buffer and text, and it runs for a CPlugin of the asked
object's instance (`AskedSound`), because an instance that lives has the CPlugin it always had.

**Des.** `Decryption` is proved for any round function: `DES_FP` undoes `DES_IP` (each move under a
mask, and each rotation, undoes itself or the other), a round is its own inverse whatever `F` is, and
round q of decrypt uses the subkeys of round `Rounds - 1 - q` of encrypt, for one, two and three keys. The
invariant compares the halves of decrypt with `trace`, swapped.

`CipherIsSound` adds what the cipher is. With equal keys the second third of the rounds of Triple-DES
undoes the first and the third repeats it, so that the invariant can fold the trace at rounds 16 and
32. `DES_IP` is followed for each of its 64 bits through the five moves, and is the standard's
permutation.

**Model-checked only.** Every invariant and every action property that a passing run checks is stated
by a theorem. The liveness properties (`RequestsEnd` of both stream modules, `CloseReturns`,
`RequestsServed`, `CleanupReturns`, `DestroyReturns`) are beyond this prover, and so is
ENABLED: that a step is possible where fairness asks for it is seen by TLC only.

## 5. Findings

* **The player named by LD_FLASHPLAYER_PATH cannot be started twice** (`host_env`). That branch of the
  shim's constructor returns before `plugin_path` is filled in (`rtld-npp/plugin.cpp:124-130`). After a
  stop has unloaded the player, the next press of the button loads the empty path and fails
  `assert(err == NPERR_NO_ERROR)` in `plugin_Setup` (`npprunner/netscape.cpp:404`).
* **Two RPC clients are mixed up** (`rpc_pair`). `rpc_dispatch` collects the bytes of every connection
  in one static buffer (`nswinviewr/rpcvm.cpp:138`), although the listener takes several. When `recv`
  cuts a packet of one client and data of the other comes next, the length read is none that was sent,
  and `assert (total < 4 || off < sizeof pktbuf)` (`nswinviewr/rpcvm.cpp:155`) can fail. The same
  happens to one client after another when the first is reset or dies in the middle of a packet:
  `nswinviewr/shell.cpp:168` closes its socket on any error of `recv` and nothing resets `pktbuf` and
  `total`, so its bytes stand in front of the next client's. With `Breaks` set, `AssertionsHold` fails in
  the instance of `rpc` too; the run checks the properties up to that point.

## 6. Not modelled

* The text of URLs and headers, MIME types, and the command line of nswinviewr: pure functions of
  strings. A request has a good URL or none, a header is its length and what it says.
* dlopen and dlclose of `rtld_fixup.c`, and the search for a dependency by name: a dependency is
  found or not. `sigaction` of `linux.c` is in no table the loader uses. Replacements that forward.
* The SSL functions of `flashsupport.c` (one call of OpenSSL each), ALSA and V4L1, which are not
  compiled, and `alsalib.c`, which is not built.
* The queue of videos and the external player of `npnetstream.cpp:774-871`: dead code, since the one
  call of `play_video` stands in an `#if 0` (`npnetstream.cpp:637-646`).
* What a misread RPC packet executes, after a connection ended in the middle of a packet.
* The popup stack and identifiers of the hosts, which nothing reads or which are constants; the
  encoding of RPC arguments, for which the repository has no client.
* The S-boxes and permuted choices of DES, which are a constant function of the model, and its CBC
  functions, which nobody calls. Window layout; the calls of npn_gate.cpp and nputils.cpp, which
  forward.
* plugin-wrap: patches code once and forwards.
* Streams that outlive their instance (see the plan); two requests at a time in WinStream; nested
  message loops inside stream callbacks, which both programs forbid by an assertion.

## 7. Plan

1. Streams outliving the instance: NetStream's streams with PluginHost's shutdown (`CloseAllStream`
   does nothing).
2. WinStream with two requests at a time in a run, for its liveness; its safety is proved for any
   number.
