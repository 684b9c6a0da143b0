----------------------------- MODULE ElfBinding -----------------------------
(***************************************************************************)
(* Symbol lookup, relocation and lazy binding of a loaded image (rtld.c:   *)
(* elf_dlsym, find_symdef, elf_dlreloc, _rtld_fixup).                      *)
(*                                                                         *)
(* Once the image is relocated its code runs on several threads: a call    *)
(* through a PLT slot that is not bound enters _rtld_fixup, which looks    *)
(* the symbol up, and writes the slot in a later step.  Meanwhile other    *)
(* libraries are opened and their symbols appear in the global scope.      *)
(*                                                                         *)
(* Addresses are numbers: an image's symbol is at Base + its value, the    *)
(* PLT's own code for slot s at Base + Stub[s].                            *)
(***************************************************************************)
EXTENDS Integers, Sequences, FiniteSets

CONSTANTS
  Names,      \* symbol names
  Hash,       \* elf_hash of each, as the loader computes it
  LinkHash,   \* the hash the link editor laid the tables out by; see module ElfHash
  Images,     \* symbol tables and relocations; see WellFormed
  Fixups,     \* Fixups[n] is the address fixup_lookup answers for n, 0 if none
  Globals,    \* Globals[n] is the address of n in the global scope once it is there
  Base,       \* relocbase
  ImageThreads  \* the threads that run its code

VARIABLES
  image,   \* the image
  global,  \* names that are in the global scope
  phase,   \* "data", "plt", "run", or how the process ended: "abort", "exit"
  done,    \* relocations of the phase processed so far
  slots,   \* contents of the relocated words
  temp,    \* sym_temp.st_value of each thread
  binding, \* binding[t] is the PLT entry thread t is binding, 0 if none
  target,  \* where the last call of each thread went, 0 before the first
  early    \* history: the names that were in the global scope when the image was relocated

bindVars == <<image, global, phase, done, slots, temp, binding, target, early>>

-----------------------------------------------------------------------------
(* Lookup.                                                                 *)

Types == {"func", "tls", "other", "section"}
Binds == {"local", "global", "weak"}

\* A symbol of the image; "func" stands for STT_FUNC, STT_NOTYPE and STT_OBJECT.
Symbols == [name : Names, bind : Binds, type : Types, value : Nat, defined : BOOLEAN]

nchains(im) == IF im.hash THEN Len(im.symtab) + 1 ELSE 0

\* The symbol is taken: a function or variable that has a value and a section, or a TLS symbol
\* that has a section.
Matches(s, name) ==
  /\ s.type = "tls" \/ (s.type = "func" /\ s.value # 0)
  /\ s.defined
  /\ s.name = name

\* The walk of a chain from symbol i.
Walk(im, i, name) ==
  LET walk[j \in 0..Len(im.symtab)] ==
        IF j = 0 THEN 0
        ELSE IF Matches(im.symtab[j], name) THEN Base + im.symtab[j].value
        ELSE walk[im.chains[j]]
  IN  walk[i]

\* The first symbol of the chain that the loader looks name up in.
Bucket(im, name) == im.buckets[(Hash[name] % Len(im.buckets)) + 1]

\* The bucket, counted from 0, in whose chain the link editor put symbol i.
LinkBucket(im, i) == LinkHash[im.symtab[i].name] % Len(im.buckets)

\* elf_dlsym: the address of name in the image, 0 if it is not there.
elf_dlsym(im, name) == IF im.hash THEN Walk(im, Bucket(im, name), name) ELSE 0

\* A relocation: its symbol, the addend if it is a RELA entry, and what its word holds in the file.
\* "left" stands for the kinds the loader passes over (R_386_NONE, R_386_TLS_DTPMOD32, and what it
\* does not know on amd64), "unknown" for those it does not know on i386.
Relocations ==
  [kind : {"relative", "64", "glob_dat", "relative32", "32", "left", "unknown"},
   sym : Nat, addend : Nat, inplace : Nat]

Relative(r) == r.kind \in {"relative", "relative32"}
LooksUp(r) == r.kind \in {"64", "glob_dat", "32"}

\* The symbol table of an image: a chain goes down to its end, and holds the symbols of one of the
\* link editor's buckets and no others; every symbol is in one, as the first or after another.  A
\* relocation that looks a symbol up names one of the table, an entry of the PLT a function that is
\* neither local nor a section; no symbol is in the PLT's own code.
WellFormed(im) ==
  /\ im.symtab \in Seq(Symbols) /\ im.hash \in BOOLEAN
  /\ im.chains \in Seq(Nat) /\ Len(im.chains) = Len(im.symtab)
  /\ im.buckets \in Seq(0..Len(im.symtab)) /\ im.buckets # <<>>
  /\ im.data \in Seq(Relocations) /\ im.plt \in Seq(DOMAIN im.symtab)
  /\ \A j \in DOMAIN im.chains : im.chains[j] < j
  /\ \A b \in DOMAIN im.buckets : im.buckets[b] # 0 => LinkBucket(im, im.buckets[b]) = b - 1
  /\ \A j \in DOMAIN im.chains :
       im.chains[j] # 0 => LinkBucket(im, im.chains[j]) = LinkBucket(im, j)
  /\ \A i \in DOMAIN im.symtab :
       im.buckets[LinkBucket(im, i) + 1] = i \/ \E j \in DOMAIN im.symtab : im.chains[j] = i
  /\ \A r \in DOMAIN im.data : LooksUp(im.data[r]) => im.data[r].sym \in DOMAIN im.symtab
  /\ \A p \in DOMAIN im.plt :
       im.symtab[im.plt[p]].bind # "local" /\ im.symtab[im.plt[p]].type # "section"
  /\ \A i \in DOMAIN im.symtab : im.symtab[i].value = 0 \/ im.symtab[i].value > Len(im.plt)

ASSUME NameAssumption ==
  /\ Hash \in [Names -> Nat] /\ LinkHash \in [Names -> Nat]
  /\ Fixups \in [Names -> Nat] /\ Globals \in [Names -> Nat \ {0}]
  /\ Base \in Nat \ {0}
ASSUME ImageAssumption == \A im \in Images : WellFormed(im)

\* What find_symdef comes to: an address, NULL, or a failed assertion.
Found(addr) == [end |-> "found", addr |-> addr]
Missing == [end |-> "missing", addr |-> 0]
Asserts == [end |-> "assert", addr |-> 0]

\* A symbol that may stay undefined.
AsWeak(ref) == ref.bind = "weak"

find_symdef(im, symnum, in_plt) ==
  LET ref == im.symtab[symnum]
      name == ref.name
  IN  IF symnum >= nchains(im) THEN Missing
      ELSE IF ref.type = "section" THEN Asserts
      ELSE IF ref.bind = "local" THEN IF ref.value = 0 THEN Asserts ELSE Found(Base + ref.value)
      ELSE IF Fixups[name] # 0 THEN Found(Fixups[name])
      ELSE IF elf_dlsym(im, name) # 0 THEN Found(elf_dlsym(im, name))
      ELSE IF name \in global THEN Found(Globals[name])
      ELSE IF AsWeak(ref) THEN Found(0)
      ELSE IF in_plt THEN Missing ELSE Asserts

-----------------------------------------------------------------------------
(* elf_dlreloc.  Word r is that of data relocation r, word Len(data) + p   *)
(* that of PLT entry p.                                                    *)

PltWord(im, p) == Len(im.data) + p
Stub(p) == p  \* offset of the PLT's code for entry p
Words(im) == 1..(Len(im.data) + Len(im.plt))

BindInit ==
  /\ image \in Images
  /\ global \in SUBSET Names
  /\ phase = "data" /\ done = 0
  /\ slots = [w \in Words(image) |->
                IF w <= Len(image.data) THEN image.data[w].inplace ELSE Stub(w - Len(image.data))]
  /\ temp = [t \in ImageThreads |-> 0]
  /\ binding = [t \in ImageThreads |-> 0]
  /\ target = [t \in ImageThreads |-> 0]
  /\ early = global

\* The word that relocation r leaves where it found old.  The case of R_X86_64_64 falls through
\* to R_X86_64_GLOB_DAT, which writes the address again without the addend.
DataValue(r, old, addr) ==
  CASE r.kind = "relative" -> Base + r.addend
    [] r.kind \in {"64", "glob_dat"} -> addr
    [] r.kind = "relative32" -> old + Base
    [] r.kind = "32" -> old + addr
    [] r.kind = "left" -> old

\* The next relocation of .rela.dyn or .rel.dyn.  NULL and a failed assertion both abort, and so
\* does a kind that i386 does not know.
RelocateData ==
  /\ phase = "data" /\ done < Len(image.data)
  /\ LET r == image.data[done + 1]
         def == CASE LooksUp(r) -> find_symdef(image, r.sym, FALSE)
                  [] r.kind = "unknown" -> Asserts
                  [] OTHER -> Found(0)
     IN  IF def.end = "found"
         THEN /\ slots' = [slots EXCEPT ![done + 1] = DataValue(r, @, def.addr)]
              /\ done' = done + 1
              /\ UNCHANGED phase
         ELSE phase' = "abort" /\ UNCHANGED <<slots, done>>
  /\ UNCHANGED <<image, global, temp, binding, target, early>>

\* Where the loop over the PLT starts.
FirstEntry == 0

\* Every PLT word is moved by the load address before any is bound.
RebasePlt ==
  /\ phase = "data" /\ done = Len(image.data)
  /\ slots' = [w \in Words(image) |-> IF w > Len(image.data) THEN slots[w] + Base ELSE slots[w]]
  /\ phase' = "plt" /\ done' = FirstEntry
  /\ UNCHANGED <<image, global, temp, binding, target, early>>

\* The next PLT entry is bound, if its symbol is found now.
BindEagerly ==
  /\ phase = "plt" /\ done < Len(image.plt)
  /\ LET def == find_symdef(image, image.plt[done + 1], TRUE) IN
     IF def.end = "assert" THEN phase' = "abort" /\ UNCHANGED <<slots, done>>
     ELSE /\ slots' = IF def.end = "found"
                      THEN [slots EXCEPT ![PltWord(image, done + 1)] = def.addr] ELSE slots
          /\ done' = done + 1
          /\ UNCHANGED phase
  /\ UNCHANGED <<image, global, temp, binding, target, early>>

Relocated ==
  /\ phase = "plt" /\ done = Len(image.plt)
  /\ phase' = "run"
  /\ UNCHANGED <<image, global, done, slots, temp, binding, target, early>>

-----------------------------------------------------------------------------
(* The image runs.                                                         *)

Unbound(p) == slots[PltWord(image, p)] = Base + Stub(p)

\* A call through a bound slot.
Call(t, p) ==
  /\ phase = "run" /\ binding[t] = 0 /\ ~Unbound(p)
  /\ target' = [target EXCEPT ![t] = slots[PltWord(image, p)]]
  /\ UNCHANGED <<image, global, phase, done, slots, temp, binding, early>>

\* Mutant of Keep: sym_temp is one static for all threads.
KeepShared(t, addr) == [u \in ImageThreads |-> addr]

\* The answer of find_symdef is kept in the thread's sym_temp.
Keep(t, addr) == [temp EXCEPT ![t] = addr]

\* A call through a slot that is not bound enters _rtld_fixup and looks the symbol up.
EnterFixup(t, p) ==
  /\ phase = "run" /\ binding[t] = 0 /\ Unbound(p)
  /\ LET def == find_symdef(image, image.plt[p], TRUE) IN
     IF def.end = "missing" THEN phase' = "exit" /\ UNCHANGED <<temp, binding>>
     ELSE /\ temp' = Keep(t, def.addr)
          /\ binding' = [binding EXCEPT ![t] = p]
          /\ UNCHANGED phase
  /\ UNCHANGED <<image, global, done, slots, target, early>>

\* The slot is written, and the function called.
Bind(t) ==
  /\ phase = "run" /\ binding[t] # 0
  /\ slots' = [slots EXCEPT ![PltWord(image, binding[t])] = temp[t]]
  /\ target' = [target EXCEPT ![t] = temp[t]]
  /\ binding' = [binding EXCEPT ![t] = 0]
  /\ UNCHANGED <<image, global, phase, done, temp, early>>

\* A library that defines n is opened with RTLD_GLOBAL.
Appear(n) ==
  /\ phase = "run" /\ n \notin global
  /\ global' = global \cup {n}
  /\ UNCHANGED <<image, phase, done, slots, temp, binding, target, early>>

BindNext ==
  \/ RelocateData \/ RebasePlt \/ BindEagerly \/ Relocated
  \/ \E t \in ImageThreads, p \in DOMAIN image.plt : Call(t, p) \/ EnterFixup(t, p)
  \/ \E t \in ImageThreads : Bind(t)
  \/ \E n \in Names : Appear(n)

BindSpec == BindInit /\ [][BindNext]_bindVars

-----------------------------------------------------------------------------
(* Properties.                                                             *)

\* Type invariant; the scope only grows, and only once the image runs.
BindTypeOK ==
  /\ image \in Images
  /\ global \in SUBSET Names /\ early \subseteq global
  /\ phase \in {"data", "plt", "run", "abort", "exit"}
  /\ phase \in {"data", "plt"} => early = global
  /\ done \in 0..(IF phase \in {"plt", "run", "exit"} THEN Len(image.plt) ELSE Len(image.data))
  /\ slots \in [Words(image) -> Nat]
  /\ temp \in [ImageThreads -> Nat]
  /\ binding \in [ImageThreads -> 0..Len(image.plt)]
  /\ target \in [ImageThreads -> Nat]

\* Symbols of the table that define name.
Candidates(im, name) ==
  {i \in DOMAIN im.symtab :
     LET s == im.symtab[i] IN
     s.name = name /\ s.defined /\ (s.type = "tls" \/ (s.type = "func" /\ s.value # 0))}

\* The loader looks for name in the chain where the link editor put it.
SameBucket(im, name) == Hash[name] % Len(im.buckets) = LinkHash[name] % Len(im.buckets)

\* The addresses at which the image's own table defines name, for a loader that can find them.
Own(im, name) ==
  IF SameBucket(im, name) THEN {Base + im.symtab[i].value : i \in Candidates(im, name)} ELSE {}

\* elf_dlsym answers for a name exactly when the table defines it in the bucket that the loader's
\* hash selects, and then with the address of a symbol that defines it: no chain hides a definition,
\* no other symbol is taken for it, and a hash that selects another bucket finds nothing.
LookupSound ==
  image.hash =>
    \A n \in Names :
      IF Own(image, n) = {} THEN elf_dlsym(image, n) = 0 ELSE elf_dlsym(image, n) \in Own(image, n)

\* The definition that counts of a symbol, while the names of scope are in the global scope: the
\* replacement for FreeBSD, the image's own, that of the global scope, 0 for a weak symbol without
\* any of them.  There is none for another symbol, nor for any in an image without DT_HASH.
Definitions(im, symnum, scope) ==
  LET ref == im.symtab[symnum]
      name == ref.name
  IN  IF ~im.hash THEN {}
      ELSE IF ref.bind = "local" THEN {Base + ref.value}
      ELSE IF Fixups[name] # 0 THEN {Fixups[name]}
      ELSE IF Own(im, name) # {} THEN Own(im, name)
      ELSE IF name \in scope THEN {Globals[name]}
      ELSE IF ref.bind = "weak" THEN {0} ELSE {}

\* What data word w may hold once it is relocated: S + A or B + A, with the definition that counted
\* then for S.  The addend A is that of the RELA entry, or what the word held; there is none in
\* R_X86_64_GLOB_DAT, and that of R_X86_64_64 is lost.  A word whose kind is passed over is left.
DataValues(w) ==
  LET r == image.data[w]
      S == CASE LooksUp(r) -> Definitions(image, r.sym, early)
             [] Relative(r) -> {Base}
             [] OTHER -> {0}
      A == CASE r.kind = "relative" -> r.addend
             [] r.kind \in {"64", "glob_dat"} -> 0
             [] OTHER -> r.inplace
  IN  {s + A : s \in S}

\* Every data word that was relocated holds what the ABI asks for, but for the addend of an
\* R_X86_64_64 and the kinds that are passed over.
DataRelocated ==
  \A w \in 1..(IF phase = "data" THEN done ELSE Len(image.data)) :
    phase # "abort" => slots[w] \in DataValues(w)

\* What PLT word p may hold: the definition that counted when the image was relocated, a weak
\* symbol's 0 included.  If there was none then: the one that counts now, or the PLT's own code.
SlotValues(p) ==
  LET was == Definitions(image, image.plt[p], early) IN
  IF was # {} THEN was ELSE Definitions(image, image.plt[p], global) \cup {Base + Stub(p)}

\* Once the image runs, every PLT word leads to the definition of its own symbol, or to the PLT's
\* code that will look for it; whichever thread bound it, at whatever moment.
PltSound ==
  phase = "run" => \A p \in DOMAIN image.plt : slots[PltWord(image, p)] \in SlotValues(p)

\* Symbol symnum has no definition that the loader could find, so far.
Undefined(symnum) ==
  LET n == image.symtab[symnum].name IN
  image.hash => Fixups[n] = 0 /\ Own(image, n) = {} /\ n \notin global

\* The loader ends the program only for a symbol that it can find nowhere (every symbol, if the
\* image has no DT_HASH table): by an assertion for a data word of a symbol that is not weak, in the
\* middle of a call for a function.  Else by an assertion for a section, for a local symbol without
\* a value, and for a kind of relocation that i386 does not know.
EndsOnlyUndefined ==
  /\ phase = "exit" => \E p \in DOMAIN image.plt : Unbound(p) /\ Undefined(image.plt[p])
  /\ phase = "abort" =>
       LET r == image.data[done + 1]
           ref == image.symtab[r.sym]
       IN  \/ r.kind = "unknown"
           \/ LooksUp(r) /\ (\/ Undefined(r.sym) /\ (image.hash => ref.bind # "weak")
                             \/ ref.type = "section" \/ (ref.bind = "local" /\ ref.value = 0))

\* Every reference of an image, whoever resolves it and when, leads where it should.
BindingSound == BindTypeOK /\ LookupSound /\ DataRelocated /\ PltSound /\ EndsOnlyUndefined
=============================================================================
