---------------------------- MODULE FixupSockets ----------------------------
(***************************************************************************)
(* The replacements of the socket calls for the Linux player               *)
(* (rtld_fixup.c): connect, send and recv, getsockopt, fcntl, getaddrinfo  *)
(* and freeaddrinfo, and the errno of the player (linux_errno), which only *)
(* they write.  Five error numbers are translated; any other failure       *)
(* leaves the errno of an earlier call.                                    *)
(*                                                                         *)
(* An error is its name.  An address is its first two bytes, its length    *)
(* and the rest (port and host): FreeBSD keeps the length in the first     *)
(* byte and the family in the second, Linux the family in both.            *)
(***************************************************************************)
EXTENDS Integers, Sequences, FiniteSets

CONSTANTS Callers,   \* threads of the player that call
          Sockets,
          Lists,     \* address lists the player may hold
          Failures,  \* errors a connection may end with
          MaxCalls   \* bound: calls of the player

\* The errors save_linux_error translates; every other value is returned as it is.
Translated == {"EINPROGRESS", "EALREADY", "EISCONN", "EINVAL", "EAGAIN"}

ASSUME FailureAssumption == "0" \notin Failures
ASSUME CallsAssumption == MaxCalls \in Nat

VARIABLES
  linux_errno,  \* errno of each thread as the player sees it, "0" for none
  status,       \* of each socket in the kernel: "idle", "connecting", "connected", "failed"
  so_error,     \* its pending error
  flags,        \* its status flags: subset of {"O_NONBLOCK", "O_ASYNC"}
  wants,        \* the player has made it non-blocking
  last,         \* history: the last translated error of a failed call of each thread since it
                \* cleared errno, "0" if there was none
  told,         \* the last getsockopt(SO_ERROR): answer, the truth, and last at that time
  read,         \* the flags each thread got from fcntl(F_GETFL) to change them
  list,         \* entries of each address list, <<>> if there is none
  reached,      \* what the kernel's connect was given, with the address that was meant
  calls         \* calls so far

kernelVars == <<status, so_error, flags>>
socketVars == <<linux_errno, last, kernelVars, wants, told, read, list, reached, calls>>

\* The families, as FreeBSD numbers them; AF_INET is the same on Linux.
AF_INET == 2
AF_INET6 == 28

\* An address in FreeBSD's layout, and in Linux's; an IPv6 address is 28 bytes long.
Length(family) == IF family = AF_INET THEN 16 ELSE 28
BsdAddress(family, rest) == [b0 |-> Length(family), b1 |-> family, len |-> Length(family), rest |-> rest]
LinuxAddress(family, rest) == [b0 |-> family, b1 |-> 0, len |-> Length(family), rest |-> rest]

\* An entry of a list: where its two pointers point, the address, and the address that was meant.
Entry(canon, addr, bytes) == [canon |-> canon, addr |-> addr, bytes |-> bytes, meant |-> bytes]
Untold == [socket |-> "none", answer |-> "0", truth |-> "0", earlier |-> "0"]

SocketInit ==
  /\ linux_errno = [t \in Callers |-> "0"]
  /\ status = [s \in Sockets |-> "idle"]
  /\ so_error = [s \in Sockets |-> "0"]
  /\ flags = [s \in Sockets |-> {}]
  /\ wants = [s \in Sockets |-> FALSE]
  /\ last = [t \in Callers |-> "0"]
  /\ told = [t \in Callers |-> Untold]
  /\ read = [t \in Callers |-> [socket |-> "none", flags |-> {}]]
  /\ list = [l \in Lists |-> <<>>]
  /\ reached = {}
  /\ calls = 0

Called == calls < MaxCalls /\ calls' = calls + 1

-----------------------------------------------------------------------------
(* errno.                                                                  *)

\* save_linux_error: linux_errno after the error.
Saved(t, error) ==
  IF error \in Translated THEN [linux_errno EXCEPT ![t] = error] ELSE linux_errno

\* A call of thread t fails with the error.
Fails(t, error) ==
  /\ linux_errno' = Saved(t, error)
  /\ last' = IF error \in Translated THEN [last EXCEPT ![t] = error] ELSE last

\* The player sets errno to 0 before a call.
ClearErrno(t) ==
  /\ linux_errno[t] # "0"
  /\ linux_errno' = [linux_errno EXCEPT ![t] = "0"]
  /\ last' = [last EXCEPT ![t] = "0"]
  /\ UNCHANGED <<kernelVars, wants, told, read, list, reached, calls>>

-----------------------------------------------------------------------------
(* Addresses.                                                              *)

\* getaddrinfo: the entries as FreeBSD allocates them, then the two pointers swapped and the
\* address put into the Linux layout, entry by entry.
Swapped(e) == [e EXCEPT !.canon = e.addr, !.addr = e.canon]

\* convert_linux_address: the family, one byte before, becomes two, the lower first.
convert_linux_address(a) == [b0 |-> a.b1, b1 |-> 0, len |-> a.len, rest |-> a.rest]
Converted(e) == [Swapped(e) EXCEPT !.bytes = convert_linux_address(e.bytes)]

Native(families) ==
  [i \in DOMAIN families |-> Entry(<<"canon", i>>, <<"addr", i>>, BsdAddress(families[i], i))]

GetAddrInfo(l, families) ==
  /\ Called /\ list[l] = <<>>
  /\ list' = [list EXCEPT ![l] = [i \in DOMAIN families |-> Converted(Native(families)[i])]]
  /\ UNCHANGED <<linux_errno, last, kernelVars, wants, told, read, reached>>

\* freeaddrinfo: the pointers of the list that the native function is given.
Restored(entries) == [i \in DOMAIN entries |-> Swapped(entries[i])]

FreeAddrInfo(l) ==
  /\ Called /\ list[l] # <<>>
  /\ list' = [list EXCEPT ![l] = <<>>]
  /\ UNCHANGED <<linux_errno, last, kernelVars, wants, told, read, reached>>

\* Addresses the player makes up itself, in Linux's layout.
Numeric == LinuxAddress(AF_INET, 0)

\* Mutant of KernelAddress: the family is not put where FreeBSD keeps it.
KernelAddressAsIs(a) == a

\* What connect gives to the kernel: the family where FreeBSD keeps it, if the second byte is none
\* and the first two together, as Linux reads them, are one.
KernelAddress(a) ==
  LET known == {AF_INET, AF_INET6}
      sin_family == a.b0 + 256 * a.b1
  IN  IF a.b1 \notin known /\ sin_family \in known THEN [a EXCEPT !.b1 = sin_family % 256] ELSE a

-----------------------------------------------------------------------------
(* connect, send and getsockopt.                                           *)

\* What the kernel says of a connect; "ok" for success.  It is given 16 bytes, too few for IPv6.
ConnectResults(s, family) ==
  CASE family # AF_INET -> {"EINVAL", "EAFNOSUPPORT"}
    [] OTHER -> CASE status[s] = "idle" ->
                       {"ok"} \cup Failures
                         \cup (IF "O_NONBLOCK" \in flags[s] THEN {"EINPROGRESS"} ELSE {})
                  [] status[s] = "connecting" -> {"EALREADY"}
                  [] status[s] = "connected" -> {"EISCONN"}
                  [] status[s] = "failed" -> {"EINVAL"}

\* A connect to address a, where meant is what a stands for.
Connect(t, s, a, meant, result) ==
  /\ Called
  /\ a.len = 16
  /\ result \in ConnectResults(s, KernelAddress(a).b1)
  /\ reached' = reached \cup {[meant |-> meant, given |-> KernelAddress(a)]}
  /\ status' = [status EXCEPT ![s] =
       CASE result = "ok" -> "connected" [] result = "EINPROGRESS" -> "connecting"
         [] result \in Failures -> "failed" [] OTHER -> @]
  /\ IF result = "ok" THEN UNCHANGED <<linux_errno, last>> ELSE Fails(t, result)
  /\ UNCHANGED <<so_error, flags, wants, told, read, list>>

\* No address, or one of another length (an IPv6 entry of a list, for one), is refused without a call
\* of the kernel.
ConnectRefused(t) ==
  /\ Called
  /\ Fails(t, "EINVAL")
  /\ UNCHANGED <<kernelVars, wants, told, read, list, reached>>

\* The kernel finishes a connect.
Complete(s, result) ==
  /\ status[s] = "connecting"
  /\ status' = [status EXCEPT ![s] = IF result = "0" THEN "connected" ELSE "failed"]
  /\ so_error' = [so_error EXCEPT ![s] = result]
  /\ UNCHANGED <<linux_errno, last, flags, wants, told, read, list, reached, calls>>

\* send, and recv, whose errors are saved in the same way.
Send(t, s, result) ==
  /\ Called
  /\ result \in (IF status[s] = "connected" THEN {"ok", "EAGAIN", "EPIPE"} ELSE {"ENOTCONN"})
  /\ IF result = "ok" THEN UNCHANGED <<linux_errno, last>> ELSE Fails(t, result)
  /\ UNCHANGED <<kernelVars, wants, told, read, list, reached>>

\* Mutant of Answer: linux_errno is read before the error is saved.
AnswerBefore(t, error) == linux_errno[t]

\* What getsockopt(SO_ERROR) answers: linux_errno after save_linux_error.
Answer(t, error) == Saved(t, error)[t]

\* linux_errno after getsockopt(SO_ERROR): saved by its answer, and put back.
After(t, error) == [Saved(t, error) EXCEPT ![t] = linux_errno[t]]

GetSoError(t, s) ==
  /\ Called
  /\ told' = [told EXCEPT ![t] = [socket |-> status[s], answer |-> Answer(t, so_error[s]),
                                  truth |-> so_error[s], earlier |-> last[t]]]
  /\ so_error' = [so_error EXCEPT ![s] = "0"]
  /\ linux_errno' = After(t, so_error[s])
  /\ UNCHANGED <<last, status, flags, wants, read, list, reached>>

-----------------------------------------------------------------------------
(* fcntl.  The player changes a flag in two calls.                         *)

GetFlags(t, s) ==
  /\ Called
  /\ read' = [read EXCEPT ![t] = [socket |-> s, flags |-> flags[s]]]
  /\ UNCHANGED <<linux_errno, last, kernelVars, wants, told, list, reached>>

\* The flags F_SETFL gives to the kernel.
ToNative(fs) == IF "0x800" \in fs THEN (fs \ {"0x800"}) \cup {"O_NONBLOCK"} ELSE fs

\* The flags that were read are written back with Linux's O_NONBLOCK (0x800) set or cleared, or
\* another flag changed.  F_GETFL has answered FreeBSD's O_NONBLOCK, which the player does not
\* know, and keeps.  No other thread has changed them in between.
SetFlags(t, change) ==
  /\ Called /\ read[t].socket \in Sockets
  /\ flags[read[t].socket] = read[t].flags
  /\ LET s == read[t].socket
         fs == CASE change = "set" -> read[t].flags \cup {"0x800"}
                 [] change = "clear" -> read[t].flags \ {"0x800"}
                 [] change = "async" -> read[t].flags \cup {"O_ASYNC"}
     IN  /\ flags' = [flags EXCEPT ![s] = ToNative(fs)]
         /\ wants' = [wants EXCEPT ![s] = @ \/ change = "set"]
  /\ read' = [read EXCEPT ![t].socket = "none"]
  /\ UNCHANGED <<linux_errno, last, status, so_error, told, list, reached>>

-----------------------------------------------------------------------------
Families == {<<AF_INET>>, <<AF_INET6, AF_INET>>}

SocketNext ==
  \/ \E t \in Callers : ClearErrno(t) \/ ConnectRefused(t)
  \/ \E l \in Lists : \/ \E families \in Families : GetAddrInfo(l, families)
                      \/ FreeAddrInfo(l)
  \/ \E t \in Callers, s \in Sockets :
       \/ \E result \in Translated \cup Failures \cup {"ok", "EAFNOSUPPORT"} :
            \/ \E l \in Lists : \E i \in DOMAIN list[l] :
                 Connect(t, s, list[l][i].bytes, list[l][i].meant, result)
            \/ Connect(t, s, Numeric, BsdAddress(AF_INET, 0), result)
       \/ \E result \in {"ok", "EAGAIN", "EPIPE", "ENOTCONN"} : Send(t, s, result)
       \/ GetSoError(t, s)
       \/ GetFlags(t, s)
  \/ \E s \in Sockets, result \in Failures \cup {"0"} : Complete(s, result)
  \/ \E t \in Callers, change \in {"set", "clear", "async"} : SetFlags(t, change)

SocketSpec == SocketInit /\ [][SocketNext]_socketVars

-----------------------------------------------------------------------------
(* Properties.                                                             *)

Errors == Translated \cup Failures \cup {"0"}

\* Type invariant: the player's errno is never a number of FreeBSD's.
SocketTypeOK ==
  /\ linux_errno \in [Callers -> Translated \cup {"0"}]
  /\ status \in [Sockets -> {"idle", "connecting", "connected", "failed"}]
  /\ so_error \in [Sockets -> Errors]
  /\ flags \in [Sockets -> SUBSET {"O_NONBLOCK", "O_ASYNC"}]
  /\ wants \in [Sockets -> BOOLEAN]
  /\ calls \in 0..MaxCalls

\* What getsockopt(SO_ERROR) answers, and that asking changes nothing.  errno is that of the last
\* failed call with a translated error, whatever was asked meanwhile.  The answer is the truth if it
\* is a translated error.  In every other case it is that errno: a socket without an error is
\* reported with the error of an earlier call, until the player clears errno, and one that was
\* refused (ECONNREFUSED) as connected, once it has.
SoErrorTrue ==
  /\ linux_errno = last
  /\ \A t \in Callers :
       told[t].answer = IF told[t].truth \in Translated THEN told[t].truth ELSE told[t].earlier

\* A socket the player has made non-blocking is so in the kernel, whichever flags are changed
\* afterwards: a connect on it does not block the browser.  It cannot be made blocking again.
NonblockKept == \A s \in Sockets : wants[s] => "O_NONBLOCK" \in flags[s]

\* The native freeaddrinfo is given the pointers getaddrinfo allocated, in every entry.
FreedAsAllocated ==
  \A l \in Lists : list[l] # <<>> =>
    \A i \in DOMAIN list[l] :
      Restored(list[l])[i].canon = <<"canon", i>> /\ Restored(list[l])[i].addr = <<"addr", i>>

\* Every address that reaches the kernel's connect is the IPv4 address that was meant, in
\* FreeBSD's layout, whoever put it into Linux's; an IPv6 address never reaches it.
AddressReaches ==
  \A r \in reached :
    r.given.b1 = AF_INET /\ r.meant.b1 = AF_INET /\ r.given.rest = r.meant.rest

\* What the player is told and what it passes to the kernel: errno and SO_ERROR, the mode of a
\* socket, address lists and addresses.
SocketsSound == SocketTypeOK /\ SoErrorTrue /\ NonblockKept /\ FreedAsAllocated /\ AddressReaches
=============================================================================
