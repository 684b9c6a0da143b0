----------------------------- MODULE ElfLoader -----------------------------
(***************************************************************************)
(* Loading and unloading a Linux shared object (rtld.c: elf_dlopen,        *)
(* elf_dlmmap, the first half of digest_dynamic, elf_dlclose).             *)
(*                                                                         *)
(* An image is what the headers say of a file: its loadable segments in    *)
(* the order of their addresses, the number of its DT_NEEDED entries, and  *)
(* whether its headers are within the first page.  Addresses are the       *)
(* p_vaddr ones; memory is kept byte by byte, protection page by page.     *)
(* Every system call may fail.  A load that failed in the middle leaves    *)
(* its traces in fds, objs and regions, which count what every elf_dlopen  *)
(* holds.                                                                  *)
(***************************************************************************)
EXTENDS Integers, Sequences, FiniteSets

CONSTANTS Files,    \* the files a caller may name
          PageSize,
          Pages,     \* bound: pages of the address space of an image
          MaxLoads   \* bound: calls of elf_dlopen

Prots == SUBSET {"R", "W", "X"}
Addrs == 0 .. Pages * PageSize - 1
Segments == [vaddr : Addrs, filesz : Nat, memsz : Nat, prot : Prots]

TRUNC_PAGE(a) == a - (a % PageSize)
ROUND_PAGE(a) == TRUNC_PAGE(a + PageSize - 1)

\* What a link editor produces: segments in ascending order that share no page.
FileWellFormed(f) ==
  /\ f.segs \in Seq(Segments) /\ f.segs # <<>>
  /\ \A k \in DOMAIN f.segs :
       LET s == f.segs[k] IN
       /\ s.filesz <= s.memsz
       /\ s.vaddr + s.memsz <= Pages * PageSize
       /\ \A l \in 1..(k - 1) :
            ROUND_PAGE(f.segs[l].vaddr + f.segs[l].memsz) <= TRUNC_PAGE(s.vaddr)

ASSUME SizeAssumption == PageSize \in Nat \ {0} /\ Pages \in Nat \ {0} /\ MaxLoads \in Nat
ASSUME FileAssumption ==
  /\ Files # {}
  /\ \A f \in Files : FileWellFormed(f) /\ f.needed \in Nat /\ f.whole \in BOOLEAN

VARIABLES
  at,       \* where the caller of the loader is
  file,    \* the image being loaded, or loaded
  loads,    \* calls of elf_dlopen so far; the number of the current one
  fds,      \* loads whose file descriptor is open
  objs,     \* loads whose Obj_Entry is allocated
  regions,  \* loads whose address range is reserved
  torn,     \* loads that ended in elf_dlmmap after the range was reserved
  prot,     \* protection of the pages of the current load
  data,     \* what each byte holds: 0 is zero, k a byte of segment k, -1 another byte of the file
  seg,      \* segments mapped
  handles   \* dl_handles: the number of each dependency that was opened, 0 for the others

memVars == <<prot, data, seg>>
loadVars == <<at, file, loads, fds, objs, regions, torn, memVars, handles>>

PageNos == 0 .. Pages - 1
NoPages == [p \in PageNos |-> {}]
NoData == [a \in Addrs |-> 0]

LoadInit ==
  /\ at = "idle" /\ loads = 0 /\ file = (CHOOSE im \in Files : TRUE)
  /\ fds = {} /\ objs = {} /\ regions = {} /\ torn = {}
  /\ prot = NoPages /\ data = NoData /\ seg = 0
  /\ handles = <<>>

-----------------------------------------------------------------------------
(* elf_dlopen.                                                             *)

\* open; without a descriptor the caller gets NULL.
Open(im, opened) ==
  /\ at = "idle" /\ loads < MaxLoads
  /\ loads' = loads + 1
  /\ file' = im
  /\ IF opened THEN at' = "opened" /\ fds' = fds \cup {loads + 1}
               ELSE UNCHANGED <<at, fds>>
  /\ prot' = NoPages /\ data' = NoData /\ seg' = 0 /\ handles' = <<>>
  /\ UNCHANGED <<objs, regions, torn>>

\* Mutant of Released: a path of elf_dlopen that returns without close(fd).
ReleasedObjOnly(load) == fds' = fds /\ objs' = objs \ {load}

\* The descriptor is closed and the object freed, if there is one.
Released(load) == fds' = fds \ {load} /\ objs' = objs \ {load}

\* The call returns NULL.
Fail ==
  /\ at' = "idle"
  /\ Released(loads)

\* fstat, pread, the checks of the headers and malloc.
Headers(ok) ==
  /\ at = "opened"
  /\ IF ok /\ file.whole
     THEN at' = "headers" /\ objs' = objs \cup {loads} /\ UNCHANGED fds
     ELSE Fail
  /\ UNCHANGED <<file, loads, regions, torn, memVars, handles>>

\* The anonymous mapping that reserves the range from the first segment to the last.
Reserve(ok) ==
  /\ at = "headers"
  /\ IF ok THEN at' = "mapping" /\ regions' = regions \cup {loads} /\ UNCHANGED <<fds, objs>>
           ELSE Fail /\ UNCHANGED regions
  /\ UNCHANGED <<file, loads, torn, memVars, handles>>

FileEnd(s) == s.vaddr + s.filesz
DataLimit(s) == ROUND_PAGE(FileEnd(s))
PagesIn(from, to) == {p \in PageNos : from <= p * PageSize /\ p * PageSize < to}

\* The bytes after segment s is mapped, and what of its last page is not of the file is cleared.
DataWith(k, s) ==
  [a \in Addrs |->
     IF a < TRUNC_PAGE(s.vaddr) \/ a >= DataLimit(s) THEN data[a]
     ELSE IF s.filesz # s.memsz /\ a >= FileEnd(s) THEN 0
     ELSE IF s.vaddr <= a /\ a < FileEnd(s) THEN k ELSE -1]

\* Mutant of HasBss: the pages past the last of the file are given their protection only for a
\* segment that can be written.
HasBssIfWritable(s) == s.filesz # s.memsz /\ DataLimit(s) > FileEnd(s) /\ "W" \in s.prot

\* The end of the file's bytes is not on a page boundary, so that the rest is prepared.
HasBss(s) == s.filesz # s.memsz /\ DataLimit(s) > FileEnd(s)

\* The protections after segment s: its file pages can be written whatever the headers say; the
\* page that was cleared and those after it are as the headers say.
ProtWith(s) ==
  [p \in PageNos |->
     IF HasBss(s) /\ "W" \notin s.prot /\ p * PageSize = TRUNC_PAGE(FileEnd(s)) THEN s.prot
     ELSE IF p \in PagesIn(TRUNC_PAGE(s.vaddr), DataLimit(s)) THEN s.prot \cup {"W"}
     ELSE IF HasBss(s) /\ p \in PagesIn(DataLimit(s), ROUND_PAGE(s.vaddr + s.memsz)) THEN s.prot
     ELSE prot[p]]

\* The next segment.  A mapping of no bytes is refused by mmap; ok is the outcome of the calls.
\* Either failure returns without giving the range back.
MapSegment(ok) ==
  /\ at = "mapping" /\ seg < Len(file.segs)
  /\ LET s == file.segs[seg + 1] IN
     IF ok /\ DataLimit(s) > TRUNC_PAGE(s.vaddr)
     THEN /\ data' = DataWith(seg + 1, s)
          /\ prot' = ProtWith(s)
          /\ seg' = seg + 1
          /\ UNCHANGED <<at, fds, objs, torn>>
     ELSE Fail /\ torn' = torn \cup {loads} /\ UNCHANGED memVars
  /\ UNCHANGED <<file, loads, regions, handles>>

\* elf_dlmmap returns and the descriptor is closed.
Mapped ==
  /\ at = "mapping" /\ seg = Len(file.segs)
  /\ at' = "mapped"
  /\ fds' = fds \ {loads}
  /\ UNCHANGED <<file, loads, objs, regions, torn, memVars, handles>>

\* Every DT_NEEDED entry has been seen.
NeededDone == Len(handles) >= file.needed

\* digest_dynamic opens each dependency in turn; one that cannot be found is left out.
OpenNeeded(found) ==
  /\ at = "mapped" /\ ~NeededDone
  /\ handles' = Append(handles, IF found THEN Len(handles) + 1 ELSE 0)
  /\ UNCHANGED <<at, file, loads, fds, objs, regions, torn, memVars>>

\* Relocation (module ElfBinding) and the image's init function; the caller gets the object.
Start ==
  /\ at = "mapped" /\ NeededDone
  /\ at' = "loaded"
  /\ UNCHANGED <<file, loads, fds, objs, regions, torn, memVars, handles>>

-----------------------------------------------------------------------------
(* elf_dlclose.                                                            *)

\* The image's fini function runs.
Finish ==
  /\ at = "loaded"
  /\ at' = "finished"
  /\ UNCHANGED <<file, loads, fds, objs, regions, torn, memVars, handles>>

\* There is a handle left to close.
Remaining == Len(handles) > 0

CloseNeeded ==
  /\ at = "finished" /\ Remaining
  /\ handles' = SubSeq(handles, 1, Len(handles) - 1)
  /\ UNCHANGED <<at, file, loads, fds, objs, regions, torn, memVars>>

Unmap ==
  /\ at = "finished" /\ ~Remaining
  /\ at' = "idle"
  /\ regions' = regions \ {loads}
  /\ objs' = objs \ {loads}
  /\ prot' = NoPages /\ data' = NoData /\ seg' = 0
  /\ UNCHANGED <<file, loads, fds, torn, handles>>

-----------------------------------------------------------------------------
LoadNext ==
  \/ \E im \in Files, ok \in BOOLEAN : Open(im, ok)
  \/ \E ok \in BOOLEAN : Headers(ok)
  \/ \E ok \in BOOLEAN : Reserve(ok)
  \/ \E ok \in BOOLEAN : MapSegment(ok)
  \/ Mapped
  \/ \E found \in BOOLEAN : OpenNeeded(found)
  \/ Start
  \/ Finish
  \/ CloseNeeded
  \/ Unmap

LoadSpec == LoadInit /\ [][LoadNext]_loadVars

-----------------------------------------------------------------------------
(* Properties.                                                             *)

Loads == 1..MaxLoads

\* Type invariant; only the current load has a descriptor or an object.
LoadTypeOK ==
  /\ at \in {"idle", "opened", "headers", "mapping", "mapped", "loaded", "finished"}
  /\ file \in Files
  /\ loads \in 0..MaxLoads
  /\ fds \in SUBSET {loads} /\ objs \in SUBSET {loads}
  /\ regions \in SUBSET Loads /\ torn \in SUBSET Loads
  /\ prot \in [PageNos -> Prots]
  /\ data \in [Addrs -> Int]
  /\ seg \in Nat
  /\ handles \in Seq(Nat)

\* When no image is loaded nothing of one is left: no descriptor, object or dependency, however
\* the loads ended; and no address range, except those of the loads that elf_dlmmap gave up
\* after it had reserved the range (its error returns do not unmap it).
NothingLeft ==
  at = "idle" => /\ fds = {} /\ objs = {}
                 /\ handles = <<>>
                 /\ regions = torn

\* Bytes of the segment past the file's whose pages elf_dlmmap never makes accessible: those of
\* a segment whose file part ends on a page boundary.
Forgotten(s) == DataLimit(s) = FileEnd(s)

\* The code of the image finds every segment as the headers describe it: the bytes of the file,
\* zeros after them, and the protections asked for; all of it still so after the later segments
\* were mapped.  The exception are the zero pages of a segment whose file part ends exactly on a
\* page boundary: they keep the protection of the reservation and cannot be accessed.
ImageAsDescribed ==
  at = "loaded" =>
    \A k \in DOMAIN file.segs :
      LET s == file.segs[k] IN
      \A a \in s.vaddr .. (s.vaddr + s.memsz - 1) :
        /\ data[a] = (IF a < FileEnd(s) THEN k ELSE 0)
        /\ IF a >= FileEnd(s) /\ Forgotten(s) THEN prot[a \div PageSize] = {}
           ELSE s.prot \subseteq prot[a \div PageSize]

\* Code of the image can run only in a whole image: its range, its object and every dependency
\* that was opened are there from the init function to the end of the fini function.
WholeWhileRunning ==
  at = "loaded" => /\ loads \in regions /\ loads \in objs /\ loads \notin fds
                   /\ Len(handles) = file.needed

\* Nothing is left behind by a load, and what runs is whole.
LoaderSound == LoadTypeOK /\ NothingLeft /\ WholeWhileRunning
=============================================================================
