------------------------------ MODULE SwrapLocks ------------------------------
(***************************************************************************)
(* socket_wrapper.c: the mutexes, the binding of libc's symbols and fork.  *)
(*                                                                         *)
(* What a call does to the data is left out (SwrapTable, SwrapSocket and   *)
(* SwrapData); here a call is the sequence of the mutexes it takes and the *)
(* libc functions it calls, one sequence for every way it can go.  A       *)
(* thread works off the sequence of its call.  The process followed is the *)
(* one that was started or, after a fork, either of the two: they share no *)
(* mutex.                                                                  *)
(***************************************************************************)
EXTENDS Integers, Sequences, FiniteSets

CONSTANTS
  Threads,       \* threads of the application
  Slots,         \* socket_info slots, each with a mutex (meta.mutex)
  Applications,  \* what applications do, see below
  MaxSignals,    \* signals that interrupt a fork
  MaxDumps,      \* dumps of packets that are within one another
  Free, Lost     \* owners of a mutex: nobody; a thread of the parent process

Calls == {"socket", "plain", "accept", "connect", "bind", "listen", "getname",
          "sockopt", "write", "send", "sendto", "recv", "close", "dup", "dup2", "fork"}

\* libc's functions, one for each group that is called alike: the last stands for
\* listen, getsockname, getsockopt, setsockopt and ioctl.
Syms == {"socket", "accept", "connect", "bind", "send", "recv", "open", "write",
         "close", "dup", "other"}

Globals == {"binding", "sockets", "reset", "firstFree", "autobind", "mtu", "pcap"}
Mutexes == Globals \cup Slots

\* An application makes some calls, starts with some symbols bound, and its
\* capture file cannot be written when the disk is full.  It is "stale" if it closes
\* descriptors behind the library's back: one of them may become the descriptor of
\* the capture file, which libc_open opens without looking for an old index.
ASSUME SwrapLocksAssumption ==
  /\ Applications \subseteq [calls : SUBSET Calls, bound : SUBSET Syms,
                             full : BOOLEAN, stale : BOOLEAN]
  /\ MaxSignals \in Nat /\ MaxDumps \in Nat
  /\ Threads \cap {Free, Lost} = {} /\ Free # Lost
  /\ Slots \cap Globals = {}

VARIABLES
  mutex,     \* the owner of each mutex
  bound,     \* the symbols that are not NULL any more
  sockets,   \* the table of sockets is allocated
  capture,   \* swrap_pcap_get_fd has opened the capture file
  app,       \* the application; never changed
  alive,     \* the threads of the process that is followed
  todo,      \* what is left of each thread's call
  signals    \* signals that have interrupted a fork

vars == <<mutex, bound, sockets, capture, app, alive, todo, signals>>

-----------------------------------------------------------------------------
(* The steps of a call *)

Lock(m) == <<[do |-> "lock", of |-> m]>>
Unlock(m) == <<[do |-> "unlock", of |-> m]>>
Holding(m, body) == Lock(m) \o body \o Unlock(m)
Skip == <<>>

\* The wrapper libc_f.
Libc(f) == <<[do |-> "libc", of |-> f]>>

\* A function of the library, for the slot s where it works on one.
Fn(name, s) == <<[do |-> name, of |-> s]>>
RemoveStale == Fn("remove_stale", "any")
Close == Fn("close", "any")
AddSocketInfo == Fn("add_socket_info", "any")
AutoBind == Fn("auto_bind", "any")
BindAll == Fn("bind_all", "any")

\* Two or three packets are dumped in a row in places; that differs from one in
\* nothing but the number of times the mutex is taken.
Dump == Fn("dump", "any")
WriteCapture == Fn("write_capture", "any")

-----------------------------------------------------------------------------
(* The functions that calls have in common: all the ways they can go *)

\* Without an index nothing but socket_reset_mutex is taken.
RemoveStaleBodies ==
  {Holding("reset", Skip)}
    \cup {Holding("reset", Holding("firstFree", Holding(s, Skip))) : s \in Slots}

\* swrap_close: an unmapped descriptor is closed with no mutex held; the last
\* reference to a socket with a peer is captured.
CloseUnmapped == Holding("reset", Skip) \o Libc("close")

CloseBodies ==
  {CloseUnmapped}
    \cup {Holding("reset", Holding("firstFree", Holding(s, Libc("close") \o d))) :
            s \in Slots, d \in {Skip, Dump}}

\* swrap_add_socket_info; ENFILE leaves before the slot is looked at.
AddSocketInfoBodies ==
  {Holding("firstFree", Skip)}
    \cup {Holding("firstFree", Holding(s, Skip)) : s \in Slots}

\* swrap_auto_bind: with an unsupported family or type it calls nothing.
AutoBindBodies == {Holding("autobind", Skip), Holding("autobind", Libc("bind"))}

\* swrap_pcap_dump_packet: no file name or no packet, or the packet is written.
DumpBodies == {Holding("pcap", Skip), Holding("pcap", Fn("get_fd", "any"))}

\* swrap_pcap_get_fd and the write that follows.  When the header of a new file
\* cannot be written the file is closed, with close() and not with libc_close().
GetFdBodies ==
  LET Opened == Libc("open") \o Fn("opened", "any") \o WriteCapture
      Closes == IF app.stale THEN {Close} ELSE IF app.full THEN {CloseUnmapped} ELSE {}
  IN IF capture THEN {WriteCapture}
     ELSE {Libc("open"), Opened} \cup {Opened \o c \o Fn("closed", "any") : c \in Closes}

\* write(fd, ...) on the capture file is the wrapper of this library: it is libc's
\* unless the descriptor has a stale index, which makes it a send on that slot.
WriteCaptureBodies ==
  {Libc("write")} \cup IF app.stale THEN {Fn("write", s) : s \in Slots} ELSE {}

\* socket_wrapper_init_sockets: the first socket() allocates the table.
InitSockets == Holding("sockets", Fn("test_sockets", "any"))
TestSocketsBodies ==
  {IF sockets THEN Skip ELSE Holding("firstFree", Fn("initialised", "any"))}

-----------------------------------------------------------------------------
(* Opening, naming and connecting a socket *)

\* swrap_socket, after max_lwip_init; an error of libc_socket.
SocketBodies ==
  {InitSockets \o Libc("socket"),
   InitSockets \o Libc("socket") \o RemoveStale \o AddSocketInfo}

\* pipe, socketpair, eventfd, timerfd_create, signalfd, open, openat, fopen.
PlainBodies == {Libc("open"), Libc("open") \o RemoveStale}

\* The parent is not locked while libc_accept waits.
AcceptBodies(s) == {Holding(s, Skip) \o Libc("accept") \o Fn("accepted", s)}

\* Mutant of AcceptedBodies: the descriptor is closed before the unlock.
AcceptedBodiesLocked(s) == {Holding(s, Close), Holding(s, Skip) \o AddSocketInfo}

\* An error; ENOTSOCK; an address that cannot be converted; getsockname fails; no
\* slot is left; done.  Every close comes after the unlock.
AcceptedBodies(s) ==
  {Skip, RemoveStale,
   Holding(s, Skip) \o Close,
   Holding(s, Skip) \o Libc("other") \o Close,
   Holding(s, Skip) \o Libc("other") \o Holding("firstFree", Skip) \o Close,
   Holding(s, Skip) \o Libc("other") \o AddSocketInfo}
    \cup {Holding(s, Skip) \o Libc("other") \o AddSocketInfo \o Holding(c, Dump) :
            c \in Slots}

\* The connect of a datagram socket is deferred.
ConnectBodies(s) ==
  {Holding(s, Skip), Holding(s, AutoBind), Lock(s) \o Fn("connect_bound", s),
   Lock(s) \o AutoBind \o Fn("connect_bound", s)}

ConnectBoundBodies(s) ==
  {Unlock(s), Dump \o Unlock(s), Dump \o Libc("connect") \o Dump \o Unlock(s)}

\* Refused, or the path is bound.
BindBodies(s) == {Holding(s, Skip), Holding(s, Libc("bind"))}

ListenBodies(s) ==
  {Holding(s, AutoBind), Holding(s, Libc("other")), Holding(s, AutoBind \o Libc("other"))}

\* getsockname, getpeername.
GetNameBodies(s) == {Holding(s, Skip)}

\* getsockopt, setsockopt, and ioctl, which captures errors.
SockOptBodies(s) ==
  {Holding(s, Skip), Holding(s, Libc("other")),
   Holding(s, Libc("other") \o Dump), Libc("other")}

-----------------------------------------------------------------------------
(* Sending and receiving: swrap_sendmsg_before and _after,                 *)
(* swrap_recvmsg_before and _after                                         *)

\* Mutant of RefusedBodies: it goes on to "out", where the slot is unlocked again.
RefusedBodiesOut(s) ==
  {Holding(s, Skip), Holding(s, AutoBind) \o RemoveStale \o Unlock(s)}

\* The call goes no further.  When auto-bind fails the slot is unlocked before a
\* stale index is removed; the deferred connect may fail as well.
RefusedBodies(s) ==
  {Holding(s, Skip), Holding(s, AutoBind), Holding(s, AutoBind) \o RemoveStale,
   Holding(s, Libc("connect")), Holding(s, AutoBind \o Libc("connect"))}

\* The MTU of a stream socket; auto-bind and the deferred connect, which does not
\* wait, of a datagram socket.
BeforeBodies(s) ==
  {Holding(s, Holding("mtu", Skip)), Holding(s, Skip), Holding(s, AutoBind),
   Holding(s, Libc("connect")), Holding(s, AutoBind \o Libc("connect"))}

\* No memory; ENOTSOCK, which removes the stale index; the packet is captured.
AfterBodies(s) ==
  {Skip, RemoveStale \o Holding(s, Dump), Holding(s, Skip), Holding(s, Dump)}

Before(s) == Fn("before", s)
After(s) == Fn("after", s)
Refused(s) == Fn("refused", s)

WriteBodies(s) == {Refused(s), Before(s) \o Libc("write") \o After(s)}

\* send, writev, and sendmsg, which locks the slot first.
SendBodies(s) ==
  LET ways == {Refused(s), Before(s) \o Libc("send") \o After(s)}
  IN ways \cup {Holding(s, Skip) \o way : way \in ways}

\* sendto waits with the slot locked; a broadcast does not wait.
SendToBodies(s) ==
  {Refused(s), Before(s) \o Holding(s, Libc("send")) \o After(s),
   Before(s) \o Libc("send") \o Holding(s, Dump)}

\* read, recv, readv, recvfrom, and recvmsg, which locks the slot at the end.  read and
\* readv go on to libc when auto-bind has found the index stale.
RecvBodies(s) ==
  {Refused(s), Holding(s, AutoBind) \o RemoveStale \o Libc("recv"),
   Before(s) \o Libc("recv"), Before(s) \o Libc("recv") \o After(s),
   Before(s) \o Libc("recv") \o After(s) \o Holding(s, Skip)}

-----------------------------------------------------------------------------
(* Other descriptors; fork *)

\* dup and fcntl(F_DUPFD).
DupBodies(s) == {Libc("dup"), Libc("dup") \o Holding(s, Skip) \o RemoveStale}

\* newfd is closed first if it has an index.
Dup2Bodies(s) == {Fn("dup", s), Close \o Fn("dup", s)}

\* Mutant of ForkBodies: the symbols are not bound beforehand.
ForkBodiesUnbound ==
  {Lock("binding") \o Fn("forking", "any") \o Fn("forked", "any")}

\* The handlers registered with pthread_atfork around libc's fork.
ForkBodies == {BindAll \o Lock("binding") \o Fn("forking", "any") \o Fn("forked", "any")}

Bodies(name, s) ==
  CASE name = "remove_stale"    -> RemoveStaleBodies
    [] name = "close"           -> CloseBodies
    [] name = "add_socket_info" -> AddSocketInfoBodies
    [] name = "auto_bind"       -> AutoBindBodies
    [] name = "dump"            -> DumpBodies
    [] name = "get_fd"          -> GetFdBodies
    [] name = "write_capture"   -> WriteCaptureBodies
    [] name = "test_sockets"    -> TestSocketsBodies
    [] name = "socket"          -> SocketBodies
    [] name = "plain"           -> PlainBodies
    [] name = "accept"          -> AcceptBodies(s)
    [] name = "accepted"        -> AcceptedBodies(s)
    [] name = "connect"         -> ConnectBodies(s)
    [] name = "connect_bound"   -> ConnectBoundBodies(s)
    [] name = "bind"            -> BindBodies(s)
    [] name = "listen"          -> ListenBodies(s)
    [] name = "getname"         -> GetNameBodies(s)
    [] name = "sockopt"         -> SockOptBodies(s)
    [] name = "refused"         -> RefusedBodies(s)
    [] name = "before"          -> BeforeBodies(s)
    [] name = "after"           -> AfterBodies(s)
    [] name = "write"           -> WriteBodies(s)
    [] name = "send"            -> SendBodies(s)
    [] name = "sendto"          -> SendToBodies(s)
    [] name = "recv"            -> RecvBodies(s)
    [] name = "dup"             -> DupBodies(s)
    [] name = "dup2"            -> Dup2Bodies(s)
    [] name = "fork"            -> ForkBodies
    [] OTHER                    -> {}

-----------------------------------------------------------------------------
(* The threads *)

Init ==
  /\ app \in Applications
  /\ mutex = [m \in Mutexes |-> Free]
  /\ bound = app.bound
  /\ sockets = FALSE /\ capture = FALSE
  /\ alive = Threads
  /\ todo = [t \in Threads |-> <<>>]
  /\ signals = 0

Busy(t) == todo[t] # <<>>
At(t, do) == Busy(t) /\ Head(todo[t]).do = do
Of(t) == Head(todo[t]).of

\* The thread's step is replaced by the steps p.
Becomes(t, p) == todo' = [todo EXCEPT ![t] = p \o Tail(@)]

Start(t) ==
  /\ t \in alive /\ ~Busy(t)
  /\ \E call \in app.calls, s \in Slots : todo' = [todo EXCEPT ![t] = Fn(call, s)]
  /\ UNCHANGED <<mutex, bound, sockets, capture, app, alive, signals>>

\* swrap_mutex_lock; the mutexes are of type ERRORCHECK except "binding", and an
\* error is only logged: a thread that has the mutex goes on.
LockMutex(t) ==
  LET m == Of(t)
  IN /\ At(t, "lock")
     /\ \/ mutex[m] = Free /\ mutex' = [mutex EXCEPT ![m] = t]
        \/ mutex[m] = t /\ m # "binding" /\ UNCHANGED mutex
     /\ Becomes(t, Skip)
     /\ UNCHANGED <<bound, sockets, capture, app, alive, signals>>

\* swrap_mutex_unlock; the mutex of another thread stays locked (EPERM).
UnlockMutex(t) ==
  LET m == Of(t)
  IN /\ At(t, "unlock")
     /\ mutex' = IF mutex[m] = t \/ m = "binding" THEN [mutex EXCEPT ![m] = Free]
                 ELSE mutex
     /\ Becomes(t, Skip)
     /\ UNCHANGED <<bound, sockets, capture, app, alive, signals>>

\* swrap_bind_symbol_libc and the like, then the call: the symbol is tested
\* without the mutex, and bound under it.
LibcCall(t) ==
  /\ At(t, "libc")
  /\ IF Of(t) \in bound
       THEN Becomes(t, Skip)
       ELSE Becomes(t, Holding("binding", <<[do |-> "bind_symbol", of |-> Of(t)]>>)
                         \o Libc(Of(t)))
  /\ UNCHANGED <<mutex, bound, sockets, capture, app, alive, signals>>

BindSymbol(t) ==
  /\ At(t, "bind_symbol")
  /\ bound' = bound \cup {Of(t)}
  /\ Becomes(t, Skip)
  /\ UNCHANGED <<mutex, sockets, capture, app, alive, signals>>

\* swrap_bind_symbol_all: each symbol in turn that is not bound yet.
BindAllSymbols(t) ==
  LET missing == Syms \ bound
      next == CHOOSE f \in missing : TRUE
  IN /\ At(t, "bind_all")
     /\ IF missing = {}
          THEN Becomes(t, Skip)
          ELSE Becomes(t, Holding("binding", <<[do |-> "bind_symbol", of |-> next]>>)
                            \o BindAll)
     /\ UNCHANGED <<mutex, bound, sockets, capture, app, alive, signals>>

\* The dumps that t is in: more than one if a write to the capture file is taken for
\* a send, which is captured in turn, and so on.
Dumps(t) == Cardinality({i \in DOMAIN todo[t] : <<todo[t][i]>> = Unlock("pcap")})

\* A function of the library goes one of its ways.
Enter(t) ==
  /\ Busy(t)
  /\ At(t, "dump") => Dumps(t) < MaxDumps
  /\ ~\E do \in {"lock", "unlock", "libc", "bind_symbol"} : At(t, do)
  /\ \E p \in Bodies(Head(todo[t]).do, Of(t)) : Becomes(t, p)
  /\ UNCHANGED <<mutex, bound, sockets, capture, app, alive, signals>>

SocketsReady(t) ==
  /\ At(t, "initialised")
  /\ sockets' = TRUE
  /\ Becomes(t, Skip)
  /\ UNCHANGED <<mutex, bound, capture, app, alive, signals>>

\* What swrap_pcap_get_fd keeps in its static variable.
CaptureFile(t) ==
  /\ At(t, "opened") \/ At(t, "closed")
  /\ capture' = At(t, "opened")
  /\ Becomes(t, Skip)
  /\ UNCHANGED <<mutex, bound, sockets, app, alive, signals>>

\* libc's fork, seen from the parent, or from the child, where only the thread
\* that called it goes on and the mutexes of the others stay as they were.
ForkProcess(t) ==
  /\ At(t, "forking")
  /\ \/ /\ Becomes(t, Skip)
        /\ UNCHANGED <<mutex, alive>>
     \/ /\ alive' = {t}
        /\ todo' = [u \in Threads |-> IF u = t THEN Tail(todo[t]) ELSE <<>>]
        /\ mutex' = [m \in Mutexes |-> IF mutex[m] \in {t, Free} THEN mutex[m]
                                       ELSE Lost]
  /\ UNCHANGED <<bound, sockets, capture, app, signals>>

\* swrap_thread_parent, swrap_thread_child.
ForkDone(t) ==
  /\ At(t, "forked")
  /\ mutex' = [mutex EXCEPT !["binding"] = Free]
  /\ Becomes(t, Skip)
  /\ UNCHANGED <<bound, sockets, capture, app, alive, signals>>

\* A signal interrupts the fork, and its handler makes a call.
Signal(t) ==
  /\ At(t, "forking") \/ At(t, "forked")
  /\ signals < MaxSignals
  /\ signals' = signals + 1
  /\ \E call \in app.calls \ {"fork"}, s \in Slots :
       todo' = [todo EXCEPT ![t] = Fn(call, s) \o @]
  /\ UNCHANGED <<mutex, bound, sockets, capture, app, alive>>

Step(t) == \/ LockMutex(t) \/ UnlockMutex(t) \/ LibcCall(t) \/ BindSymbol(t)
           \/ BindAllSymbols(t) \/ Enter(t) \/ SocketsReady(t)
           \/ CaptureFile(t) \/ ForkProcess(t) \/ ForkDone(t)

Next == \E t \in Threads : Start(t) \/ Step(t) \/ Signal(t)

Spec == Init /\ [][Next]_vars

-----------------------------------------------------------------------------
(* Correctness *)

\* The variables keep their types.
TypeOK ==
  /\ mutex \in [Mutexes -> Threads \cup {Free, Lost}]
  /\ bound \subseteq Syms
  /\ alive \subseteq Threads
  /\ sockets \in BOOLEAN /\ capture \in BOOLEAN
  /\ app \in Applications
  /\ signals \in 0..MaxSignals

Blocked(t) == /\ At(t, "lock")
              /\ mutex[Of(t)] # Free
              /\ mutex[Of(t)] = t => Of(t) = "binding"

\* A handler that interrupts the fork of t waits for a mutex.
HandlerBlocked(t) == Blocked(t) /\ mutex["binding"] = t

\* The library's own use of its wrappers on the capture file does no harm: the header
\* can be written, and no index is left over for the file's descriptor.
CaptureSafe == ~app.full /\ ~app.stale

\* No call waits for ever inside the library: whoever waits for a mutex waits for a
\* thread that is inside a call, and no threads wait for one another in a circle, so
\* in the end there is one that goes on, in libc at worst, and will unlock.  The
\* order in which some twenty functions take mutexes, their early returns and their
\* error paths must all agree on this.  Four exceptions, in which the code really can
\* wait for ever: a mutex that another thread had when the process was forked
\* (ChildCallsReturn); close() when the header of the capture file cannot be written,
\* and write() on the capture file when its descriptor has a stale index, which both
\* take mutexes of the table with pcap_dump_mutex held (not CaptureSafe); and a signal
\* handler that interrupts a fork, which can wait for a thread that waits for the
\* mutex the fork holds.
WaitsEnd ==
  CaptureSafe =>
    /\ \A t \in alive :
         Blocked(t) => \/ mutex[Of(t)] = Lost
                       \/ mutex[Of(t)] \in alive /\ Busy(mutex[Of(t)])
    /\ \A circle \in (SUBSET alive) \ {{}} :
         (\A t \in circle : Blocked(t) /\ mutex[Of(t)] \in circle)
           => \E t \in circle : HandlerBlocked(t)

\* The order in which mutexes are taken; those of the slots are alike.
Order == <<"sockets", "reset", "firstFree", "slot", "pcap", "binding">>
Rank(m) ==
  CHOOSE i \in DOMAIN Order :
    Order[i] = IF m \in Slots THEN "slot"
               ELSE IF m \in {"autobind", "mtu"} THEN "pcap" ELSE m

\* Mutexes are taken in one order, whatever the call and however it goes, so no
\* number of threads can wait in a circle; no thread takes one twice, or unlocks
\* one it has not.  swrap_mutex_lock and swrap_mutex_unlock only log such errors:
\* the thread would go on without mutual exclusion.  (With "binding" taken, only
\* a handler that interrupts a fork goes on to others.)  When the disk is full or the
\* capture file's descriptor has a stale index the code breaks the order.
LocksOrdered ==
  CaptureSafe =>
    \A t \in alive :
      /\ At(t, "unlock") => mutex[Of(t)] = t
      /\ At(t, "lock") =>
           \A m \in Mutexes \ {"binding"} : mutex[m] = t => Rank(m) < Rank(Of(t))

\* swrap_thread_prepare: neither the thread that forks, with the handler that
\* interrupts it, nor the child ever finds a symbol that only they could bind.
ForkPrepared ==
  \A t \in alive :
    (At(t, "lock") /\ Of(t) = "binding")
      => mutex["binding"] \in (alive \ {t}) \cup {Free}

\* "If we hold a lock and the application forks, then the child is not able to
\* unlock the mutex and we are in a deadlock. This should prevent such deadlocks":
\* no thread of the child waits for a mutex that was taken when the process was
\* forked.
ChildCallsReturn ==
  \A t \in alive : At(t, "lock") => mutex[Of(t)] # Lost

=============================================================================
