------------------------------- MODULE MCElf -------------------------------
(* The three parts of rtld.c, one of which works in each behaviour: the    *)
(* loader on pages of four bytes, with file and zero parts that end on,    *)
(* before and after page boundaries; the binding of images with one to     *)
(* three names; the hash of the shim's four entry points and of names of   *)
(* eight letters, one of which, "yiiiicYy", carries into bit 32.           *)
EXTENDS ElfLoader, ElfBinding, ElfHash

VARIABLE part  \* "load", "bind" or "hash": the part that is at work

----------------------------------------------------------------------------
Text(vaddr, size) == [vaddr |-> vaddr, filesz |-> size, memsz |-> size, prot |-> {"R", "X"}]
Data(vaddr, filesz, memsz, p) == [vaddr |-> vaddr, filesz |-> filesz, memsz |-> memsz, prot |-> p]

MCFiles ==
  LET segs == {<<Text(0, t), Data(d, f, m, p)>> :
                 t \in {3, 4}, d \in {4, 6, 9}, f \in {0, 1, 2, 4}, m \in {0, 1, 2, 4, 8, 10},
                 p \in {{"R", "W"}, {"R"}}}
  IN  {im \in [segs : segs, needed : {0, 2}, whole : BOOLEAN] :
         /\ im.segs[2].filesz <= im.segs[2].memsz
         /\ im.segs[2].vaddr + im.segs[2].memsz <= Pages * PageSize
         /\ ~im.whole => im.needed = 0 /\ im.segs[2] = Data(4, 1, 1, {"R"})}

----------------------------------------------------------------------------
MCNames == {"f", "g", "h"}
\* Two hashes of "h": one bucket of one or two, but not of three.
MCLinkHash == [n \in MCNames |-> CASE n = "f" -> 4 [] n = "g" -> 3 [] n = "h" -> 6]
MCHash == [MCLinkHash EXCEPT !["h"] = 22]
MCFixups == [n \in MCNames |-> IF n = "f" THEN 901 ELSE 0]
MCGlobals == [n \in MCNames |-> CASE n = "f" -> 801 [] n = "g" -> 802 [] n = "h" -> 803]

Sym(name, bind, type, value, defined) ==
  [name |-> name, bind |-> bind, type |-> type, value |-> value, defined |-> defined]
Rel(kind, sym, addend, inplace) == [kind |-> kind, sym |-> sym, addend |-> addend, inplace |-> inplace]

\* What the image says of one name.
Choices(n, v) ==
  {Sym(n, "global", "func", v, TRUE), Sym(n, "global", "func", 0, FALSE), Sym(n, "weak", "func", 0, FALSE),
   Sym(n, "global", "tls", 0, TRUE), Sym(n, "global", "other", v, TRUE)}

\* The hash table the link editor builds, a chain from the last symbol to the first.
Last(S) == IF S = {} THEN 0 ELSE CHOOSE i \in S : \A j \in S : j <= i
Table(symtab, n, rels, plt, hash) ==
  LET inBucket(b, i) == MCLinkHash[symtab[i].name] % n = b - 1 IN
  [symtab |-> symtab, hash |-> hash, data |-> rels, plt |-> plt,
   buckets |-> [b \in 1..n |-> Last({i \in DOMAIN symtab : inBucket(b, i)})],
   chains |-> [i \in DOMAIN symtab |->
                 Last({j \in 1..(i - 1) : MCLinkHash[symtab[j].name] % n = MCLinkHash[symtab[i].name] % n})]]

LocalF == <<Sym("f", "local", "func", 40, TRUE)>>

MCImages ==
  {Table(<<Sym("f", "global", "func", 10, v[1] = 1), g, h>> \o LocalF, v[1],
         <<Rel("relative", 1, 5, 0), Rel("64", v[2], 3, 0), Rel("glob_dat", 4, 0, 0)>>,
         <<1, 2, 3>>, TRUE) :
     g \in Choices("g", 20), h \in Choices("h", 30), v \in {<<1, 1>>, <<1, 2>>, <<2, 2>>}}
  \cup
  {Table(<<Sym("f", "global", "func", 10, TRUE), Sym("g", "global", "tls", 0, TRUE), h>>, 3,
         <<Rel("left", 0, 5, 7), Rel("glob_dat", s, 0, 0)>>, <<3>>, TRUE) :
     h \in Choices("h", 30), s \in {1, 3}}
  \cup
  {Table(<<g, Sym("h", "global", "section", 0, TRUE)>>, 3,
         <<Rel("relative32", 0, 0, 7), Rel("32", s, 0, 7), Rel(k, 0, 0, 7)>>, <<1>>, hash) :
     g \in {Sym("g", "global", "func", 20, TRUE), Sym("g", "weak", "func", 0, FALSE)},
     s \in {1, 2}, k \in {"left", "unknown"}, hash \in BOOLEAN}

----------------------------------------------------------------------------
Letters == {121, 105, 99, 89}
MCStrings == EntryPoints \cup {<<121, 105, 105, 105, a, b, c, d>> : a, b, c, d \in Letters}

----------------------------------------------------------------------------
AllVars == <<part, loadVars, bindVars, hashVars>>

\* One image and one string stand for the parts that rest.
OneImage == CHOOSE im \in Images : TRUE
OneString == CHOOSE s \in Strings : TRUE

Init ==
  /\ part \in {"load", "bind", "hash"}
  /\ \/ part = "bind"
     \/ part # "bind" /\ image = OneImage /\ global = {}
  /\ \/ part = "hash"
     \/ part # "hash" /\ str = OneString
  /\ LoadInit /\ BindInit /\ HashInit

Next ==
  \/ part = "load" /\ LoadNext /\ UNCHANGED <<part, bindVars, hashVars>>
  \/ part = "bind" /\ BindNext /\ UNCHANGED <<part, loadVars, hashVars>>
  \/ part = "hash" /\ HashNext /\ UNCHANGED <<part, loadVars, bindVars>>

Spec == Init /\ [][Next]_AllVars
============================================================================
