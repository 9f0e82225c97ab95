------------------------------ MODULE SwrapTable ------------------------------
(***************************************************************************)
(* socket_wrapper.c: the table of socket_info slots that all descriptors   *)
(* of a process share.  A slot is on the free list or reference counted;   *)
(* socket_fds_idx maps descriptor numbers to slots.  Threads of the        *)
(* application call socket, accept, close, dup, dup2, fcntl(F_DUPFD),      *)
(* signalfd and calls that return other descriptors.                       *)
(*                                                                         *)
(* A step is a libc call, an access to socket_fds_idx (which no lock       *)
(* protects) or a critical section: what runs under the mutex of a slot    *)
(* touches nothing that is not protected, so it is one step, enabled when  *)
(* the mutexes it takes are free.                                          *)
(***************************************************************************)
EXTENDS Integers, FiniteSets, FiniteSetsExt, Functions

CONSTANTS
  Threads,      \* threads of the application
  NumFds,       \* descriptor numbers
  NumSlots,     \* socket_info_max
  Applications, \* what applications do: the calls and the limit of descriptors
  Disciplined,  \* no thread closes or replaces a descriptor another one uses
  NoThread      \* owner of a free mutex

AllOps == {"socket", "accept", "close", "dup", "dupfd", "dup2", "signalfd",
           "plain", "hidden"}

ASSUME SwrapTableAssumption ==
  /\ NumFds \in Nat \ {0} /\ NumSlots \in Nat \ {0}
  /\ Applications \subseteq [ops : SUBSET AllOps, limit : 1..NumFds]
  /\ Disciplined \in BOOLEAN
  /\ NoThread \notin Threads /\ IsFiniteSet(Threads)

Fds == 0..(NumFds - 1)
Slots == 0..(NumSlots - 1)

\* Sockets of the kernel, and what else a descriptor may refer to.  It is
\* Overlooked when the library gave its number out without a look at the index
\* that number may have (or copied it from one it had not looked at).
Sockets == 1..(NumFds + NumSlots)
Plain == -1
Overlooked == -2
Closed == 0

VARIABLES
  \* the kernel
  file,         \* what each descriptor number refers to
  \* the library
  fdIdx,        \* socket_fds_idx
  info,         \* the socket each slot's socket_info describes
  refcount,     \* meta.refcount of each slot
  nextFree,     \* meta.next_free of each slot
  firstFree,    \* first_free
  resetMutex,   \* socket_reset_mutex
  ffMutex,      \* first_free_mutex
  \* the application
  app,          \* which one it is; never changed
  held,         \* the descriptors it was given and has not closed
  pc,           \* where each thread is
  call          \* the arguments and local variables of the running call

tableVars == <<info, refcount, nextFree, firstFree>>
vars == <<file, fdIdx, info, refcount, nextFree, firstFree, resetMutex, ffMutex,
          app, held, pc, call>>

NoCall == [op |-> "none", fd |-> -1, new |-> -1, idx |-> -1, target |-> -1,
           slot |-> -1]

-----------------------------------------------------------------------------
(* socket_wrapper_init_sockets: all slots on the free list, in order. *)

Init ==
  /\ file = [f \in Fds |-> Closed]
  /\ fdIdx = [f \in Fds |-> -1]
  /\ info = [i \in Slots |-> 0]
  /\ refcount = [i \in Slots |-> 0]
  /\ nextFree = [i \in Slots |-> IF i = NumSlots - 1 THEN -1 ELSE i + 1]
  /\ firstFree = 0
  /\ resetMutex = NoThread /\ ffMutex = NoThread
  /\ app \in Applications /\ held = {}
  /\ pc = [t \in Threads |-> "idle"]
  /\ call = [t \in Threads |-> NoCall]

-----------------------------------------------------------------------------
(* Helpers *)

At(t, label) == pc[t] = label
Goto(t, label) == pc' = [pc EXCEPT ![t] = label]

FreeFds == {f \in Fds : f < app.limit /\ file[f] = Closed}
LowestFd == Min(FreeFds)
NewSocket == Min(Sockets \ (Range(file) \cup Range(info)))

\* A call of t begins.  In a disciplined application no other call runs while
\* dup2 gives a descriptor number a new meaning.
Begin(t, op) ==
  /\ At(t, "idle")
  /\ op \in app.ops
  /\ Disciplined => \A u \in Threads \ {t} :
                     "dup2" \in {op, call[u].op} => At(u, "idle")

\* The call of t returns; the application now holds the descriptors of S too.
Return(t, S) ==
  /\ held' = held \cup S
  /\ call' = [call EXCEPT ![t] = NoCall]
  /\ Goto(t, "idle")

\* No call that is running was given f.
Unused(f) == \A t \in Threads : call[t].fd # f

\* The application passes f to a call that makes f refer to something else, or
\* that drops the index of f; no other call gets f before it returns.
GivesUp(f) ==
  /\ f \in held
  /\ Disciplined => Unused(f)

\* Mutant of DropReference: the slot of the last reference is not given back.
DropReferenceOnly(i) ==
  /\ refcount' = [refcount EXCEPT ![i] = @ - 1]
  /\ UNCHANGED <<info, nextFree, firstFree>>

\* swrap_dec_refcount, and back to the free list at zero (swrap_close,
\* swrap_remove_stale).
DropReference(i) ==
  /\ refcount' = [refcount EXCEPT ![i] = @ - 1]
  /\ IF refcount[i] > 1
       THEN UNCHANGED <<nextFree, firstFree>>
       ELSE /\ nextFree' = [nextFree EXCEPT ![i] = firstFree]
            /\ firstFree' = i
  /\ UNCHANGED info

-----------------------------------------------------------------------------
(* swrap_remove_stale(target) *)

AfterStale(t) ==
  CASE call[t].op = "socket"                     -> "create"
    [] call[t].op \in {"dup", "dupfd", "dup2"}   -> "set"
    [] call[t].op \in {"plain", "signalfd", "accept"} -> "done"

\* Without an index for the descriptor there is nothing to do; otherwise
\* socket_reset_mutex stays locked.
StaleFind(t) ==
  LET i == fdIdx[call[t].target]
  IN /\ At(t, "stale")
     /\ resetMutex = NoThread
     /\ IF i = -1 THEN /\ Goto(t, AfterStale(t))
                       /\ UNCHANGED <<resetMutex, call>>
                  ELSE /\ resetMutex' = t
                       /\ call' = [call EXCEPT ![t].slot = i]
                       /\ Goto(t, "staleReset")
     /\ UNCHANGED <<file, fdIdx, tableVars, ffMutex, held>>

\* Mutant of StaleReset: the index stays.
StaleResetNot(t) ==
  /\ At(t, "staleReset")
  /\ Goto(t, "staleDrop")
  /\ UNCHANGED <<file, fdIdx, tableVars, resetMutex, ffMutex, held, call>>

\* reset_socket_info_index, then first_free_mutex.
StaleReset(t) ==
  /\ At(t, "staleReset")
  /\ fdIdx' = [fdIdx EXCEPT ![call[t].target] = -1]
  /\ Goto(t, "staleDrop")
  /\ UNCHANGED <<file, tableVars, resetMutex, ffMutex, held, call>>

StaleDrop(t) ==
  /\ At(t, "staleDrop")
  /\ ffMutex = NoThread
  /\ DropReference(call[t].slot)
  /\ resetMutex' = NoThread
  /\ Goto(t, AfterStale(t))
  /\ UNCHANGED <<file, fdIdx, ffMutex, held, call>>

\* The calls that end with it.
Done(t) ==
  /\ At(t, "done")
  /\ Return(t, {call[t].new})
  /\ UNCHANGED <<file, fdIdx, tableVars, resetMutex, ffMutex>>

-----------------------------------------------------------------------------
(* swrap_create_socket(new) *)

\* swrap_add_socket_info: first_free_mutex is locked; ENFILE when there is no
\* slot left, after which socket() returns -1 and accept() closes the new
\* descriptor first.
Create(t) ==
  /\ At(t, "create")
  /\ ffMutex = NoThread
  /\ IF firstFree # -1
       THEN /\ ffMutex' = t
            /\ Goto(t, "take")
            /\ UNCHANGED <<held, call>>
       ELSE IF call[t].op = "accept"
              THEN /\ call' = [call EXCEPT ![t].target = call[t].new]
                   /\ Goto(t, "close")
                   /\ UNCHANGED <<held, ffMutex>>
              ELSE /\ Return(t, {})
                   /\ UNCHANGED ffMutex
  /\ UNCHANGED <<file, fdIdx, tableVars, resetMutex>>

\* The head of the free list is taken and its reference count incremented.
Take(t) ==
  LET i == firstFree
  IN /\ At(t, "take")
     /\ firstFree' = nextFree[i]
     /\ info' = [info EXCEPT ![i] = file[call[t].new]]
     /\ refcount' = [refcount EXCEPT ![i] = @ + 1]
     /\ ffMutex' = NoThread
     /\ call' = [call EXCEPT ![t].idx = i]
     /\ Goto(t, "set")
     /\ UNCHANGED <<file, fdIdx, nextFree, resetMutex, held>>

\* set_socket_info_index(new, idx), under no lock, and return new.
SetIndex(t) ==
  /\ At(t, "set")
  /\ fdIdx' = [fdIdx EXCEPT ![call[t].new] = call[t].idx]
  /\ Return(t, {call[t].new})
  /\ UNCHANGED <<file, tableVars, resetMutex, ffMutex>>

-----------------------------------------------------------------------------
(* swrap_socket, and the calls that return other descriptors: pipe, eventfd, *)
(* timerfd_create, open and swrap_signalfd                                  *)

LibcSocket(t) ==
  /\ Begin(t, "socket")
  /\ FreeFds # {}
  /\ file' = [file EXCEPT ![LowestFd] = NewSocket]
  /\ call' = [call EXCEPT ![t] = [NoCall EXCEPT !.op = "socket",
                                                !.new = LowestFd,
                                                !.target = LowestFd]]
  /\ Goto(t, "stale")
  /\ UNCHANGED <<fdIdx, tableVars, resetMutex, ffMutex, held>>

LibcPlain(t) ==
  /\ Begin(t, "plain")
  /\ FreeFds # {}
  /\ file' = [file EXCEPT ![LowestFd] = Plain]
  /\ call' = [call EXCEPT ![t] = [NoCall EXCEPT !.op = "plain",
                                                !.new = LowestFd,
                                                !.target = LowestFd]]
  /\ Goto(t, "stale")
  /\ UNCHANGED <<fdIdx, tableVars, resetMutex, ffMutex, held>>

\* signalfd(-1): swrap_remove_stale gets the argument, which has no index,
\* instead of the new descriptor.
LibcSignalfd(t) ==
  /\ Begin(t, "signalfd")
  /\ FreeFds # {}
  /\ file' = [file EXCEPT ![LowestFd] = Overlooked]
  /\ held' = held \cup {LowestFd}
  /\ UNCHANGED <<fdIdx, tableVars, resetMutex, ffMutex, pc, call>>

\* Calls on f, no socket, that end with swrap_remove_stale(f): signalfd() of a
\* signalfd, and accept() when f has an index, since libc says ENOTSOCK.
CallNotSocket(t, op, f) ==
  /\ op \in {"signalfd", "accept"}
  /\ Begin(t, op)
  /\ GivesUp(f)
  /\ file[f] \in {Plain, Overlooked}
  /\ op = "accept" => fdIdx[f] # -1
  /\ held' = held \ {f}
  /\ call' = [call EXCEPT ![t] = [NoCall EXCEPT !.op = op, !.new = f,
                                                !.target = f]]
  /\ Goto(t, "stale")
  /\ UNCHANGED <<file, fdIdx, tableVars, resetMutex, ffMutex>>

-----------------------------------------------------------------------------
(* swrap_close(target) *)

CallClose(t, f) ==
  /\ Begin(t, "close")
  /\ GivesUp(f)
  /\ held' = held \ {f}
  /\ call' = [call EXCEPT ![t] = [NoCall EXCEPT !.op = "close", !.fd = f,
                                                !.target = f]]
  /\ Goto(t, "close")
  /\ UNCHANGED <<file, fdIdx, tableVars, resetMutex, ffMutex>>

\* Where a call goes on after swrap_close: dup2 closes newfd on its way.
AfterClose(t) == IF call[t].op = "dup2" THEN "libcdup" ELSE "closed"

\* A descriptor that is not ours is closed once the mutex is unlocked again.
CloseFind(t) ==
  LET i == fdIdx[call[t].target]
  IN /\ At(t, "close")
     /\ resetMutex = NoThread
     /\ IF i = -1 THEN /\ Goto(t, "libcclose")
                       /\ UNCHANGED <<resetMutex, call>>
                  ELSE /\ resetMutex' = t
                       /\ call' = [call EXCEPT ![t].slot = i]
                       /\ Goto(t, "closeReset")
     /\ UNCHANGED <<file, fdIdx, tableVars, ffMutex, held>>

LibcClose(t) ==
  /\ At(t, "libcclose")
  /\ file' = [file EXCEPT ![call[t].target] = Closed]
  /\ Goto(t, AfterClose(t))
  /\ UNCHANGED <<fdIdx, tableVars, resetMutex, ffMutex, held, call>>

\* Mutant of CloseReset: the index stays.
CloseResetNot(t) ==
  /\ At(t, "closeReset")
  /\ Goto(t, "closeDrop")
  /\ UNCHANGED <<file, fdIdx, tableVars, resetMutex, ffMutex, held, call>>

\* reset_socket_info_index, then first_free_mutex.
CloseReset(t) ==
  /\ At(t, "closeReset")
  /\ fdIdx' = [fdIdx EXCEPT ![call[t].target] = -1]
  /\ Goto(t, "closeDrop")
  /\ UNCHANGED <<file, tableVars, resetMutex, ffMutex, held, call>>

\* libc_close and the release of the reference.
CloseDrop(t) ==
  /\ At(t, "closeDrop")
  /\ ffMutex = NoThread
  /\ file' = [file EXCEPT ![call[t].target] = Closed]
  /\ DropReference(call[t].slot)
  /\ resetMutex' = NoThread
  /\ Goto(t, AfterClose(t))
  /\ UNCHANGED <<fdIdx, ffMutex, held, call>>

ReturnClosed(t) ==
  /\ At(t, "closed")
  /\ Return(t, {})
  /\ UNCHANGED <<file, fdIdx, tableVars, resetMutex, ffMutex>>

-----------------------------------------------------------------------------
(* swrap_dup, swrap_vfcntl(F_DUPFD), swrap_dup2 *)

\* The index is read before anything else.
CallDup(t, op, f) ==
  /\ op \in {"dup", "dupfd"}
  /\ Begin(t, op)
  /\ f \in held
  /\ call' = [call EXCEPT ![t] = [NoCall EXCEPT !.op = op, !.fd = f,
                                                !.idx = fdIdx[f]]]
  /\ Goto(t, "libcdup")
  /\ UNCHANGED <<file, fdIdx, tableVars, resetMutex, ffMutex, held>>

\* newfd is any number, open or not, below the limit (above it libc refuses and
\* nothing changes).  It is closed first if it is ours, but not when fd is not.
CallDup2(t, f, n) ==
  /\ Begin(t, "dup2")
  /\ f \in held /\ f # n /\ n < app.limit
  /\ held' = held \ {n}
  /\ call' = [call EXCEPT ![t] = [NoCall EXCEPT !.op = "dup2", !.fd = f,
                                                !.idx = fdIdx[f], !.new = n,
                                                !.target = n]]
  /\ Goto(t, IF fdIdx[f] # -1 /\ fdIdx[n] # -1 THEN "close" ELSE "libcdup")
  /\ UNCHANGED <<file, fdIdx, tableVars, resetMutex, ffMutex>>

\* The numbers libc may return for the call of t.
DupTargets(t) ==
  CASE call[t].op = "dup2"  -> {call[t].new}
    [] call[t].op = "dup"   -> IF FreeFds = {} THEN {} ELSE {LowestFd}
    [] call[t].op = "dupfd" -> FreeFds

\* libc_dup, libc_dup2, libc_vfcntl: -1 when fd is closed or there is no number
\* to return.  When fd is not ours the new number is returned as it is, with the
\* index it may have.
LibcDup(t) ==
  /\ At(t, "libcdup")
  /\ \/ /\ file[call[t].fd] = Closed \/ DupTargets(t) = {}
        /\ Return(t, {})
        /\ UNCHANGED file
     \/ /\ file[call[t].fd] # Closed
        /\ \E n \in DupTargets(t) :
             IF call[t].idx = -1
               THEN /\ file' = [file EXCEPT ![n] = Overlooked]
                    /\ Return(t, {n})
               ELSE /\ file' = [file EXCEPT ![n] = file[call[t].fd]]
                    /\ call' = [call EXCEPT ![t].new = n, ![t].target = n]
                    /\ Goto(t, "inc")
                    /\ UNCHANGED held
  /\ UNCHANGED <<fdIdx, tableVars, resetMutex, ffMutex>>

\* Mutant of IncRefcount: the copy is not counted.
IncRefcountNot(t) ==
  /\ At(t, "inc")
  /\ Goto(t, "stale")
  /\ UNCHANGED <<file, fdIdx, tableVars, resetMutex, ffMutex, held, call>>

\* swrap_inc_refcount under the mutex of the slot the index named.
IncRefcount(t) ==
  /\ At(t, "inc")
  /\ refcount' = [refcount EXCEPT ![call[t].idx] = @ + 1]
  /\ Goto(t, "stale")
  /\ UNCHANGED <<file, fdIdx, info, nextFree, firstFree, resetMutex, ffMutex,
                 held, call>>

-----------------------------------------------------------------------------
(* swrap_accept *)

\* For what is no socket see CallNotSocket.
CallAccept(t, f) ==
  /\ Begin(t, "accept")
  /\ f \in held /\ file[f] \in Sockets
  /\ fdIdx[f] # -1
  /\ call' = [call EXCEPT ![t] = [NoCall EXCEPT !.op = "accept", !.fd = f]]
  /\ Goto(t, "libcaccept")
  /\ UNCHANGED <<file, fdIdx, tableVars, resetMutex, ffMutex, held>>

\* libc_accept: a new connection; an error; or ENOTSOCK (the descriptor was
\* replaced meanwhile), after which its index is dropped as stale.
LibcAccept(t) ==
  /\ At(t, "libcaccept")
  /\ \/ /\ file[call[t].fd] \in Sockets
        /\ FreeFds # {}
        /\ file' = [file EXCEPT ![LowestFd] = NewSocket]
        /\ call' = [call EXCEPT ![t].new = LowestFd]
        /\ Goto(t, "copy")
        /\ UNCHANGED held
     \/ /\ file[call[t].fd] \in Sockets \cup {Closed}
        /\ Return(t, {})
        /\ UNCHANGED file
     \/ /\ file[call[t].fd] \in {Plain, Overlooked}
        /\ call' = [call EXCEPT ![t].new = call[t].fd, ![t].target = call[t].fd]
        /\ Goto(t, "stale")
        /\ UNCHANGED <<file, held>>
  /\ UNCHANGED <<fdIdx, tableVars, resetMutex, ffMutex>>

\* The addresses are converted and the parent's family, type and protocol copied,
\* under its mutex; when an address cannot be converted the new descriptor is
\* closed again.
CopyParent(t) ==
  /\ At(t, "copy")
  /\ \/ /\ Goto(t, "create")
        /\ UNCHANGED call
     \/ /\ call' = [call EXCEPT ![t].target = call[t].new]
        /\ Goto(t, "close")
  /\ UNCHANGED <<file, fdIdx, tableVars, resetMutex, ffMutex, held>>

-----------------------------------------------------------------------------
(* A descriptor is closed by code that does not call our close(): fclose,   *)
(* closefrom, a library bound to libc (external).                           *)

HiddenClose(f) ==
  /\ "hidden" \in app.ops
  /\ GivesUp(f)
  /\ file' = [file EXCEPT ![f] = Closed]
  /\ held' = held \ {f}
  /\ UNCHANGED <<fdIdx, tableVars, resetMutex, ffMutex, pc, call>>

-----------------------------------------------------------------------------
\* A call begins.
Start(t) == \/ LibcSocket(t) \/ LibcPlain(t) \/ LibcSignalfd(t)
            \/ \E f \in Fds, op \in {"signalfd", "accept"} : CallNotSocket(t, op, f)
            \/ \E f \in Fds : CallClose(t, f)
            \/ \E f \in Fds, op \in {"dup", "dupfd"} : CallDup(t, op, f)
            \/ \E f, n \in Fds : CallDup2(t, f, n)
            \/ \E f \in Fds : CallAccept(t, f)

\* A call goes on.
Continue(t) == \/ StaleFind(t) \/ StaleReset(t) \/ StaleDrop(t) \/ Done(t)
               \/ Create(t) \/ Take(t) \/ SetIndex(t)
               \/ CloseFind(t) \/ LibcClose(t) \/ CloseReset(t) \/ CloseDrop(t)
               \/ ReturnClosed(t)
               \/ LibcDup(t) \/ IncRefcount(t)
               \/ LibcAccept(t) \/ CopyParent(t)

Next == /\ \/ \E t \in Threads : Start(t) \/ Continue(t)
           \/ \E f \in Fds : HiddenClose(f)
        /\ UNCHANGED app

Spec == Init /\ [][Next]_vars

-----------------------------------------------------------------------------
(* Correctness *)

\* The kernel's and the library's tables and the calls keep their types.
TypeOK ==
  /\ file \in [Fds -> Sockets \cup {Plain, Overlooked, Closed}]
  /\ fdIdx \in [Fds -> Slots \cup {-1}]
  /\ info \in [Slots -> Sockets \cup {0}]
  /\ refcount \in [Slots -> Int]
  /\ nextFree \in [Slots -> Slots \cup {-1}]
  /\ firstFree \in Slots \cup {-1}
  /\ {resetMutex, ffMutex} \subseteq Threads \cup {NoThread}
  /\ app \in Applications /\ held \subseteq Fds
  /\ \A t \in Threads : /\ call[t].op \in AllOps \cup {"none"}
                        /\ call[t].idx \in Slots \cup {-1}

\* The first n + 1 links of the free list.
FreeChain ==
  LET chain[n \in 0..NumSlots] ==
        IF n = 0 THEN firstFree
        ELSE IF chain[n - 1] = -1 THEN -1 ELSE nextFree[chain[n - 1]]
  IN chain

\* The free list holds every slot without references, and no other, once: it
\* does not loop, lose slots or hand out one that is in use (swrap_close,
\* swrap_remove_stale and swrap_add_socket_info together).
FreeListExact ==
  LET free == {i \in Slots : refcount[i] = 0}
      chain == {FreeChain[n] : n \in 0..NumSlots} \ {-1}
  IN /\ chain = free
     /\ FreeChain[Cardinality(free)] = -1

\* References a running call has taken and not yet entered in socket_fds_idx,
\* or removed from it and not yet dropped.
Pending(t, i) ==
  \/ pc[t] = "set" /\ call[t].idx = i
  \/ pc[t] \in {"staleDrop", "closeDrop"} /\ call[t].slot = i

InDup(t, i) ==
  /\ call[t].op \in {"dup", "dupfd", "dup2"}
  /\ pc[t] \in {"stale", "staleReset", "staleDrop"}
  /\ call[t].idx = i

\* The reference count of a slot is the number of descriptors it serves, at
\* every moment of every call: what an early return or a lost update would break.
RefcountExact ==
  "hidden" \notin app.ops => \A i \in Slots :
    refcount[i] = Cardinality({f \in Fds : fdIdx[f] = i})
                    + Cardinality({t \in Threads : Pending(t, i)})
                    + Cardinality({t \in Threads : InDup(t, i)})

\* A slot some descriptor maps to is never on the free list, even when
\* descriptors disappear behind the library's back.
MappedSlotsLive ==
  \A i \in Slots :
    refcount[i] >= Cardinality({f \in Fds : fdIdx[f] = i})

\* The sockets the application holds are described by the right socket_info,
\* whatever the numbers they got were before: two sockets never share one, dup()ed
\* descriptors always do.  What socket_wrapper got from pipe, eventfd,
\* timerfd_create or open and looked at has none.  Nothing is said of the
\* Overlooked: dup, dup2 and F_DUPFD of what is no socket and signalfd return a
\* number without dropping its index, dup2 in spite of its "dup2() does an
\* implicit close of newfd, which we need to emulate".
RightInfo ==
  \A f \in held :
    /\ file[f] \in Sockets => fdIdx[f] # -1 /\ info[fdIdx[f]] = file[f]
    /\ file[f] = Plain => fdIdx[f] = -1

=============================================================================
