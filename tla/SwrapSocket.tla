------------------------------ MODULE SwrapSocket ------------------------------
(***************************************************************************)
(* socket_wrapper.c: what happens to one internet socket on top of a unix  *)
(* socket.  An internet name stands for a path in socket_wrapper_dir; bind *)
(* and auto-bind create paths, connect, accept and the datagram calls      *)
(* translate between names and paths.  The sockets belong to one process,  *)
(* whose threads use different ones at the same time.                      *)
(*                                                                         *)
(* A call holds the mutex of its socket_info, so it is identified by its   *)
(* socket; a step is a libc call with the code around it.  sendto releases *)
(* the mutex once on its way.  si is the library's state, sk and dir are   *)
(* the kernel's (external).  IPv4 only: AF_INET6 has no broadcast and is   *)
(* the same otherwise.                                                     *)
(***************************************************************************)
EXTENDS Integers, Sequences, FiniteSets, FiniteSetsExt

CONSTANTS
  Socks,         \* socket_info slots
  Ifaces,        \* interfaces, 1..MAX_WRAPPED_INTERFACES
  DefaultIface,  \* socket_wrapper_default_iface()
  MaxOpen,       \* how many sockets of each type are open at a time
  Mixed,         \* whether there are sockets of both types
  NumThreads,    \* threads of the application
  BindNames,     \* the names it passes to bind()
  ConnectTargets, \* the names it passes to connect()
  SendTargets,   \* the names it passes to sendto()
  AllocPorts,    \* the ports bind() chooses from (5001..9999)
  FirstAuto,     \* the first port auto-bind uses (10000)
  LastAuto,      \* where it starts again (60000)
  MaxSockets,    \* SOCKET_MAX_SOCKETS
  Backlog,       \* what a unix socket queues
  Disciplined,   \* the application uses names as it should, see Proper
  None,          \* no name, path or socket
  Dead           \* a socket that was closed

\* 255.255.255.255; an address outside 127.0.0.0/24; one inside it with an
\* interface number that is 0 or too large; 0.0.0.0.
SpecialHosts == {"any", "bcast", "far", "invalid"}

ASSUME SwrapSocketAssumption ==
  /\ IsFiniteSet(Socks)
  /\ DefaultIface \in Ifaces /\ Ifaces \cap SpecialHosts = {}
  /\ NumThreads \in Nat \ {0} /\ MaxOpen \in [{"tcp", "udp"} -> Nat]
  /\ AllocPorts \subseteq Nat \ {0} /\ IsFiniteSet(AllocPorts)
  /\ FirstAuto \in Nat \ {0} /\ LastAuto \in Nat /\ FirstAuto < LastAuto
  /\ \A p \in AllocPorts : p < FirstAuto
  /\ MaxSockets \in Nat \ {0} /\ Backlog \in Nat \ {0}
  /\ {Disciplined, Mixed} \subseteq BOOLEAN
  /\ None \notin Socks /\ Dead \notin Socks /\ None # Dead
AutoPorts == FirstAuto..(LastAuto + MaxSockets - 1)
Ports == AllocPorts \cup AutoPorts
Names == [host : Ifaces \cup SpecialHosts, port : Ports \cup {0}]
Paths == [type : {"tcp", "udp"}, iface : Ifaces, port : Ports]

ASSUME NamesAssumption ==
  /\ None \notin Names \cup Paths \cup Ifaces
  /\ ConnectTargets \subseteq Names /\ SendTargets \subseteq Names
  /\ BindNames \subseteq Names

VARIABLES
  si,             \* socket_info of each slot
  sk,             \* its unix socket
  dir,            \* the socket each path was bound to
  autobindStart,  \* autobind_start
  autobindMutex,  \* autobind_start_mutex
  call,           \* the call that holds the mutex of each socket
  sending         \* sendto after swrap_sendmsg_before

vars == <<si, sk, dir, autobindStart, autobindMutex, call, sending>>

-----------------------------------------------------------------------------
Name(host, port) == [host |-> host, port |-> port]
Unnamed == Name("any", 0)

NoInfo == [type |-> "none", bound |-> FALSE, isServer |-> FALSE,
           connected |-> FALSE, deferConnect |-> FALSE, unAddr |-> None,
           bindname |-> None, myname |-> None, peername |-> None]

\* peer is what a datagram or stream socket is connected to, queue the
\* datagrams, or the connections, that wait to be taken.
NoSocket == [state |-> "closed", path |-> None, peer |-> None, queue |-> <<>>]

NoCall == [pc |-> "idle", then |-> "idle", path |-> None, to |-> None]
NotSending == [active |-> FALSE, path |-> None, bcast |-> 0]

\* autobind_start is first 10000 + getpid() % 50000.
Init ==
  /\ si = [s \in Socks |-> NoInfo]
  /\ sk = [s \in Socks |-> NoSocket]
  /\ dir = [p \in Paths |-> None]
  /\ autobindStart \in FirstAuto..(LastAuto - 1)
  /\ autobindMutex = None
  /\ call = [s \in Socks |-> NoCall]
  /\ sending = [s \in Socks |-> NotSending]

At(s, label) == call[s].pc = label
Open(s) == sk[s].state # "closed"
Running == {s \in Socks : ~At(s, "idle") \/ sending[s].active}
Ready(s) == Open(s) /\ At(s, "idle") /\ Cardinality(Running) < NumThreads
Return(s) == call' = [call EXCEPT ![s] = NoCall]
Goto(s, label) == call' = [call EXCEPT ![s].pc = label]

-----------------------------------------------------------------------------
(* Names and paths *)

Path(type, iface, port) == [type |-> type, iface |-> iface, port |-> port]

\* convert_in_un_remote: None when it fails.  That a path is outside Paths
\* means that no such file exists.
RemotePath(type, to) ==
  IF to.port = 0 \/ to.host \in {"any", "bcast", "far"}
    THEN None
    ELSE Path(type, to.host, to.port)

\* Its third outcome, for which the caller needs "to do more processing".
IsBroadcast(type, to) == type = "udp" /\ to.host = "bcast" /\ to.port # 0

\* The interface convert_in_un_alloc chooses, None when there is none.
BindIface(type, host) ==
  CASE host = "any"                       -> DefaultIface
    [] host = "bcast" /\ type = "udp"     -> DefaultIface
    [] host = "bcast" /\ type # "udp"     -> None
    [] host = "far"                       -> None
    [] OTHER                              -> host

\* convert_un_in
NameOf(path) == IF path = None THEN None ELSE Name(path.iface, path.port)

Bound(p) == IF p \in Paths THEN dir[p] ELSE None

-----------------------------------------------------------------------------
(* swrap_socket *)

\* Bounds: so many sockets of a type at a time, and sockets and paths of one
\* type only unless Mixed.
HasRoom(type) ==
  /\ Cardinality({t \in Socks : si[t].type = type}) < MaxOpen[type]
  /\ Mixed \/ /\ \A t \in Socks : si[t].type \in {"none", type}
              /\ \A p \in Paths : dir[p] # None => p.type = type

CallSocket(s, type) ==
  /\ ~Open(s) /\ At(s, "idle")
  /\ HasRoom(type)
  /\ si' = [si EXCEPT ![s] = [NoInfo EXCEPT !.type = type, !.myname = Unnamed]]
  /\ sk' = [sk EXCEPT ![s] = [NoSocket EXCEPT !.state = "new"]]
  /\ UNCHANGED <<dir, autobindStart, autobindMutex, call, sending>>

-----------------------------------------------------------------------------
(* swrap_auto_bind: where a call goes on is in call[s].then. *)

\* Mutant of BindFirst: nothing is bound.
BindFirstNot(s, label, to) ==
  call' = [call EXCEPT ![s] = [pc |-> label, then |-> label, path |-> None,
                               to |-> to]]

\* A call of s that binds it first if it is not bound.
BindFirst(s, label, to) ==
  call' = [call EXCEPT ![s] = [pc   |-> IF si[s].bound THEN label ELSE "autobind",
                               then |-> label, path |-> None, to |-> to]]

AutobindFirst == IF autobindStart > LastAuto THEN FirstAuto ELSE autobindStart
AutobindFree(type) ==
  {p \in AutobindFirst..(AutobindFirst + MaxSockets - 1) :
     Bound(Path(type, DefaultIface, p)) = None}

\* Mutant of AutobindSearch: the search runs without autobind_start_mutex.
AutobindSearchUnlocked(s) ==
  LET free == AutobindFree(si[s].type)
  IN /\ At(s, "autobind")
     /\ si' = [si EXCEPT ![s].myname = Name(DefaultIface, 0)]
     /\ autobindStart' = AutobindFirst
     /\ IF free = {}
          THEN Return(s)
          ELSE call' = [call EXCEPT
                         ![s].path = Path(si[s].type, DefaultIface, Min(free)),
                         ![s].pc = "autobindBind"]
     /\ UNCHANGED <<sk, dir, autobindMutex, sending>>

\* stat() of one path after the other.  All are in use: ENFILE.
AutobindSearch(s) ==
  LET free == AutobindFree(si[s].type)
  IN /\ At(s, "autobind")
     /\ autobindMutex = None
     /\ si' = [si EXCEPT ![s].myname = Name(DefaultIface, 0)]
     /\ autobindStart' = AutobindFirst
     /\ IF free = {}
          THEN /\ Return(s)
               /\ UNCHANGED autobindMutex
          ELSE /\ call' = [call EXCEPT
                            ![s].path = Path(si[s].type, DefaultIface, Min(free)),
                            ![s].pc = "autobindBind"]
               /\ autobindMutex' = s
     /\ UNCHANGED <<sk, dir, sending>>

\* The unix path is stored "so we can unlink it on close()".
AutobindBind(s) ==
  LET p == call[s].path
  IN /\ At(s, "autobindBind")
     /\ autobindMutex' = None
     /\ IF dir[p] # None
          THEN /\ Return(s)
               /\ UNCHANGED <<si, sk, dir, autobindStart>>
          ELSE /\ dir' = [dir EXCEPT ![p] = s]
               /\ sk' = [sk EXCEPT ![s].path = p]
               /\ si' = [si EXCEPT ![s].bound = TRUE, ![s].unAddr = p,
                                   ![s].myname.port = p.port]
               /\ autobindStart' = p.port + 1
               /\ Goto(s, call[s].then)
     /\ UNCHANGED sending

-----------------------------------------------------------------------------
(* swrap_bind *)

\* For port 0 convert_in_un_alloc takes the first port without a path; 0 if there
\* is none (ENFILE).
ChosenPort(type, iface, port) ==
  LET free == {p \in AllocPorts : dir[Path(type, iface, p)] = None}
  IN IF port # 0 \/ iface \notin Ifaces THEN port
     ELSE IF free = {} THEN 0
     ELSE Min(free)

\* The application binds a fresh socket, one at a time, to a name that no open
\* socket uses, one from auto-bind's range while nothing is auto-bound and not
\* before close() has unlinked it: swrap_bind takes no autobind_start_mutex.
Proper(s, a) ==
  LET iface == BindIface(si[s].type, a.host)
  IN /\ ~si[s].bound /\ si[s].bindname = None
     /\ \A t \in Socks : call[t].pc \notin {"unlink", "bind"}
     /\ a.port # 0 => Bound(Path(si[s].type, iface, a.port)) \notin Socks
     /\ a.port \in AutoPorts =>
          \A t \in Socks : /\ call[t].pc \notin {"autobind", "autobindBind"}
                           /\ si[t].unAddr # Path(si[s].type, iface, a.port)

\* It closes a socket that it could not bind, and has none auto-bound while it
\* binds another to a port of that range.
MayAutobind(s) ==
  Disciplined /\ ~si[s].bound =>
    /\ si[s].bindname = None
    /\ \A t \in Socks : call[t].pc \in {"unlink", "bind"}
                          => call[t].path.port \notin AutoPorts

\* Mutant of CallBind: the port chosen is entered in myname only.
CallBindMynameOnly(s, a) ==
  LET iface == BindIface(si[s].type, a.host)
      port == ChosenPort(si[s].type, iface, a.port)
  IN /\ Ready(s)
     /\ Disciplined => Proper(s, a)
     /\ si' = [si EXCEPT ![s].myname = Name(a.host, port),
                         ![s].bindname = IF iface # None /\ @ = None
                                           THEN Name(iface, a.port) ELSE @]
     /\ call' = IF iface \in Ifaces /\ port # 0
                  THEN [call EXCEPT ![s].pc = "unlink",
                                    ![s].path = Path(si[s].type, iface, port)]
                  ELSE call
     /\ UNCHANGED <<sk, dir, autobindStart, autobindMutex, sending>>

\* myname is set before anything can fail; bindname, for connect(), once the
\* interface is known, even if it is refused next.
CallBind(s, a) ==
  LET iface == BindIface(si[s].type, a.host)
      port == ChosenPort(si[s].type, iface, a.port)
  IN /\ Ready(s)
     /\ Disciplined => Proper(s, a)
     /\ si' = [si EXCEPT
                ![s].myname = Name(a.host, port),
                ![s].bindname = IF iface = None THEN @
                                ELSE IF @ = None THEN Name(iface, port)
                                ELSE IF a.port = 0 /\ port # 0
                                       THEN [@ EXCEPT !.port = port]
                                ELSE @]
     /\ call' = IF iface \in Ifaces /\ port # 0
                  THEN [call EXCEPT ![s].pc = "unlink",
                                    ![s].path = Path(si[s].type, iface, port)]
                  ELSE call
     /\ UNCHANGED <<sk, dir, autobindStart, autobindMutex, sending>>

UnlinkFirst(s) ==
  /\ At(s, "unlink")
  /\ dir' = [dir EXCEPT ![call[s].path] = None]
  /\ Goto(s, "bind")
  /\ UNCHANGED <<si, sk, autobindStart, autobindMutex, sending>>

\* EADDRINUSE, or EINVAL for a unix socket that has a path.
LibcBind(s) ==
  LET p == call[s].path
  IN /\ At(s, "bind")
     /\ IF dir[p] # None \/ sk[s].path # None
          THEN UNCHANGED <<si, sk, dir>>
          ELSE /\ dir' = [dir EXCEPT ![p] = s]
               /\ sk' = [sk EXCEPT ![s].path = p]
               /\ si' = [si EXCEPT ![s].bound = TRUE]
     /\ Return(s)
     /\ UNCHANGED <<autobindStart, autobindMutex, sending>>

-----------------------------------------------------------------------------
(* swrap_listen *)

\* A datagram socket would only be bound, as by CallRecv.
CallListen(s) ==
  /\ Ready(s) /\ si[s].type = "tcp"
  /\ MayAutobind(s)
  /\ sk[s].state # "listen"
  /\ BindFirst(s, "listen", None)
  /\ UNCHANGED <<si, sk, dir, autobindStart, autobindMutex, sending>>

LibcListen(s) ==
  /\ At(s, "listen")
  /\ sk' = IF sk[s].state = "new"
             THEN [sk EXCEPT ![s].state = "listen"]
             ELSE sk
  /\ Return(s)
  /\ UNCHANGED <<si, dir, autobindStart, autobindMutex, sending>>

-----------------------------------------------------------------------------
(* swrap_connect *)

CallConnect(s, to) ==
  /\ Ready(s)
  /\ MayAutobind(s)
  /\ BindFirst(s, "connect", to)
  /\ UNCHANGED <<si, sk, dir, autobindStart, autobindMutex, sending>>

\* Mutant of Connected: the name stays the one given to bind().
ConnectedKeepName(info, to) ==
  [info EXCEPT !.connected = TRUE, !.peername = to, !.bindname = None]

\* The names after a successful connect: the outgoing name is the one of the
\* interface the socket is bound on.
Connected(info, to) ==
  [info EXCEPT !.connected = TRUE,
               !.peername = to,
               !.myname = IF info.bindname # None THEN info.bindname ELSE @,
               !.bindname = None]

\* Mutant of ConnectDatagram: only the first connect is deferred.
ConnectDatagramOnce(s) ==
  LET to == call[s].to
  IN /\ At(s, "connect") /\ si[s].type = "udp"
     /\ si' = IF RemotePath("udp", to) = None
                THEN si
                ELSE [si EXCEPT ![s] = [Connected(@, to) EXCEPT
                                          !.deferConnect = @ \/ ~si[s].connected]]
     /\ Return(s)
     /\ UNCHANGED <<sk, dir, autobindStart, autobindMutex, sending>>

\* A datagram socket is connected later, by its first send.
ConnectDatagram(s) ==
  LET to == call[s].to
  IN /\ At(s, "connect") /\ si[s].type = "udp"
     /\ si' = IF RemotePath("udp", to) = None
                THEN si
                ELSE [si EXCEPT ![s] = [Connected(@, to) EXCEPT
                                          !.deferConnect = TRUE]]
     /\ Return(s)
     /\ UNCHANGED <<sk, dir, autobindStart, autobindMutex, sending>>

\* libc_connect: the connection waits in the listener's queue.  ENOENT,
\* ECONNREFUSED, EAGAIN for a full queue, EISCONN, EINVAL for a listener.
ConnectStream(s) ==
  LET q == Bound(RemotePath("tcp", call[s].to))
  IN /\ At(s, "connect") /\ si[s].type = "tcp"
     /\ IF q \in Socks /\ sk[s].state = "new" /\ sk[q].state = "listen"
           /\ Len(sk[q].queue) < Backlog
          THEN /\ sk' = [sk EXCEPT ![s].state = "connected",
                                   ![q].queue = Append(@, [from |-> s,
                                                           path |-> sk[s].path])]
               /\ Goto(s, "connected")
          ELSE /\ Return(s)
               /\ UNCHANGED sk
     /\ UNCHANGED <<si, dir, autobindStart, autobindMutex, sending>>

ConnectedStream(s) ==
  /\ At(s, "connected")
  /\ si' = [si EXCEPT ![s] = Connected(@, call[s].to)]
  /\ Return(s)
  /\ UNCHANGED <<sk, dir, autobindStart, autobindMutex, sending>>

-----------------------------------------------------------------------------
(* swrap_accept: c is the new socket. *)

AcceptFrom(s, c) ==
  LET conn == Head(sk[s].queue)
  IN /\ Ready(s) /\ sk[s].state = "listen" /\ sk[s].queue # <<>>
     /\ ~Open(c) /\ At(c, "idle")
     /\ sk' = [t \in Socks |->
                 CASE t = s -> [sk[t] EXCEPT !.queue = Tail(@)]
                   [] t = c -> [NoSocket EXCEPT !.state = "connected",
                                                !.path = sk[s].path,
                                                !.peer = conn.from]
                   [] t = conn.from -> [sk[t] EXCEPT !.peer = c]
                   [] OTHER -> sk[t]]
     /\ si' = [si EXCEPT ![c] = [NoInfo EXCEPT !.type = si[s].type,
                                               !.bound = TRUE,
                                               !.isServer = TRUE,
                                               !.connected = TRUE,
                                               !.peername = NameOf(conn.path),
                                               !.myname = NameOf(sk[s].path)]]
     /\ UNCHANGED <<dir, autobindStart, autobindMutex, call, sending>>

-----------------------------------------------------------------------------
(* swrap_sendto and swrap_recvfrom on datagram sockets *)

\* unix_may_send: a connected socket takes datagrams from its peer only.
Takes(q, s) == sk[q].peer \in {None, s}

\* A new peer; the datagrams of an earlier one are thrown away.
Repeer(sock, q) ==
  [sock EXCEPT !.peer = q,
               !.queue = IF sock.peer \in {None, q} THEN @ ELSE <<>>]

\* swrap_sendmsg_before, until the socket is bound: a connected socket sends to
\* its peer, whatever to is.
CallSend(s, to) ==
  /\ Ready(s) /\ si[s].type = "udp"
  /\ MayAutobind(s)
  /\ ~sending[s].active
  /\ IF si[s].connected
       THEN BindFirst(s, "send", None)
       ELSE /\ RemotePath("udp", to) # None \/ IsBroadcast("udp", to)
            /\ BindFirst(s, "send", to)
  /\ UNCHANGED <<si, sk, dir, autobindStart, autobindMutex, sending>>

\* Its end: the deferred connect, if one is due, then the mutex is released.
SendBefore(s) ==
  LET to == call[s].to
      q == Bound(RemotePath("udp", si[s].peername))
      due == si[s].deferConnect
      refused == due /\ ~(q \in Socks /\ Takes(q, s))
  IN /\ At(s, "send")
     /\ sk' = IF due /\ ~refused THEN [sk EXCEPT ![s] = Repeer(@, q)] ELSE sk
     /\ si' = IF refused THEN si ELSE [si EXCEPT ![s].deferConnect = FALSE]
     /\ sending' =
          IF refused THEN sending
          ELSE [sending EXCEPT
                 ![s] = [active |-> TRUE,
                         path |-> IF to = None THEN None
                                  ELSE RemotePath("udp", to),
                         bcast |-> IF to # None /\ IsBroadcast("udp", to)
                                     THEN to.port ELSE 0]]
     /\ Return(s)
     /\ UNCHANGED <<dir, autobindStart, autobindMutex>>

Datagram(s) == [from |-> s, path |-> sk[s].path]

\* libc_sendto: a connected socket sends without an address.  A dead peer is
\* reported once, and forgotten.
LibcSendto(s) ==
  LET q == IF si[s].connected THEN sk[s].peer ELSE Bound(sending[s].path)
  IN /\ At(s, "idle") /\ sending[s].active /\ sending[s].bcast = 0
     /\ sk' = IF q \in Socks
                THEN IF Takes(q, s) /\ Len(sk[q].queue) < Backlog
                       THEN [sk EXCEPT ![q].queue = Append(@, Datagram(s))]
                       ELSE sk
                ELSE IF si[s].connected /\ q = Dead
                       THEN [sk EXCEPT ![s] = Repeer(@, None)]
                       ELSE sk
     /\ sending' = [sending EXCEPT ![s] = NotSending]
     /\ UNCHANGED <<si, dir, autobindStart, autobindMutex, call>>

\* A broadcast is sent to the port on every interface, errors ignored.
SendBroadcast(s) ==
  LET reached == {q \in Socks : \E i \in Ifaces :
                    /\ dir[Path("udp", i, sending[s].bcast)] = q
                    /\ Takes(q, s) /\ Len(sk[q].queue) < Backlog}
  IN /\ sending[s].active /\ sending[s].bcast # 0
     /\ sk' = [q \in Socks |-> IF q \in reached
                                 THEN [sk[q] EXCEPT !.queue = Append(@, Datagram(s))]
                                 ELSE sk[q]]
     /\ sending' = [sending EXCEPT ![s] = NotSending]
     /\ UNCHANGED <<si, dir, autobindStart, autobindMutex, call>>

\* swrap_recvmsg_before
CallRecv(s) ==
  /\ Ready(s) /\ si[s].type = "udp"
  /\ MayAutobind(s)
  /\ ~si[s].bound
  /\ BindFirst(s, "idle", None)
  /\ UNCHANGED <<si, sk, dir, autobindStart, autobindMutex, sending>>

\* libc_recvfrom, under no mutex.
LibcRecvfrom(s) ==
  /\ Open(s) /\ si[s].type = "udp" /\ sk[s].queue # <<>>
  /\ sk' = [sk EXCEPT ![s].queue = Tail(@)]
  /\ UNCHANGED <<si, dir, autobindStart, autobindMutex, call, sending>>

-----------------------------------------------------------------------------
(* swrap_close, of the last descriptor *)

\* What others know of s when its unix socket is gone; where its datagrams came
\* from no longer matters.
Forget(v, s) == IF v = s THEN Dead ELSE v
ForgetSource(e, s) ==
  IF e.from # s THEN e
  ELSE [from |-> Dead, path |-> IF si[s].type = "udp" THEN None ELSE e.path]

CallClose(s) ==
  /\ Ready(s) /\ ~sending[s].active
  /\ sk' = [t \in Socks |->
              IF t = s THEN NoSocket
              ELSE [sk[t] EXCEPT
                      !.peer = Forget(@, s),
                      !.queue = [i \in DOMAIN @ |-> ForgetSource(@[i], s)]]]
  /\ dir' = [p \in Paths |-> Forget(dir[p], s)]
  /\ Goto(s, "unlinkLast")
  /\ UNCHANGED <<si, autobindStart, autobindMutex, sending>>

UnlinkLast(s) ==
  /\ At(s, "unlinkLast")
  /\ dir' = IF si[s].unAddr = None THEN dir
            ELSE [dir EXCEPT ![si[s].unAddr] = None]
  /\ si' = [si EXCEPT ![s] = NoInfo]
  /\ Return(s)
  /\ UNCHANGED <<sk, autobindStart, autobindMutex, sending>>

-----------------------------------------------------------------------------
Next ==
  \E s \in Socks :
    \/ \E type \in {"tcp", "udp"} : CallSocket(s, type)
    \/ AutobindSearch(s) \/ AutobindBind(s)
    \/ \E a \in BindNames : CallBind(s, a)
    \/ UnlinkFirst(s) \/ LibcBind(s)
    \/ CallListen(s) \/ LibcListen(s)
    \/ \E to \in ConnectTargets : CallConnect(s, to)
    \/ ConnectDatagram(s) \/ ConnectStream(s) \/ ConnectedStream(s)
    \/ \E c \in Socks : AcceptFrom(s, c)
    \/ \E to \in SendTargets : CallSend(s, to)
    \/ SendBefore(s) \/ LibcSendto(s) \/ SendBroadcast(s)
    \/ CallRecv(s) \/ LibcRecvfrom(s)
    \/ CallClose(s) \/ UnlinkLast(s)

Spec == Init /\ [][Next]_vars

-----------------------------------------------------------------------------
(* Correctness *)

\* The library's and the kernel's state and the running calls keep their types.
TypeOK ==
  /\ si \in [Socks -> [type : {"none", "tcp", "udp"}, bound : BOOLEAN,
                       isServer : BOOLEAN, connected : BOOLEAN,
                       deferConnect : BOOLEAN,
                       unAddr : Paths \cup {None},
                       bindname : Names \cup {None},
                       myname : Names \cup {None},
                       peername : Names \cup {None}]]
  /\ \A s \in Socks :
       /\ sk[s].path \in Paths \cup {None}
       /\ sk[s].peer \in Socks \cup {None, Dead}
       /\ Len(sk[s].queue) <= Backlog
       /\ call[s].path \in Paths \cup {None}
  /\ dir \in [Paths -> Socks \cup {None, Dead}]
  /\ autobindStart \in FirstAuto..(LastAuto + MaxSockets)
  /\ autobindMutex \in Socks \cup {None}

\* What getsockname() returns for a bound socket leads its peers to that socket:
\* after bind() to port 0 or to 0.0.0.0, after auto-bind, and after connect(),
\* which replaces the name "so getsockname() returns correct information", and
\* whatever sockets are closed in between.
NameLeadsBack ==
  \A s \in Socks :
    Open(s) /\ At(s, "idle") /\ si[s].bound /\ ~si[s].isServer
      => Bound(Path(si[s].type, BindIface(si[s].type, si[s].myname.host),
                    si[s].myname.port)) = s

\* The two ends of a connection agree on their names once connect() has
\* returned: accept() sees the client's path before connect() settles its name.
PeersAgree ==
  \A c, s \in Socks :
    sk[c].peer = s /\ sk[s].peer = c /\ si[c].isServer /\ At(s, "idle")
      => /\ si[c].peername = si[s].myname
         /\ RemotePath("tcp", si[s].peername) = sk[c].path
         /\ si[c].myname = NameOf(sk[c].path)

\* A datagram socket that has carried out its deferred connect() is connected to
\* the socket that getpeername() names, also after it was connected again.
ConnectedToPeername ==
  \A s \in Socks :
    si[s].type = "udp" /\ ~si[s].deferConnect /\ sk[s].peer \in Socks
      => sk[sk[s].peer].path = RemotePath("udp", si[s].peername)

\* Whoever receives a datagram or accepts a connection can answer: the name it
\* gets leads to the sender, if that is still open.  Every sender is bound first.
SourcesAnswerable ==
  \A q \in Socks : \A i \in DOMAIN sk[q].queue :
    LET e == sk[q].queue[i]
    IN e.from \in Socks => Bound(e.path) = e.from

\* Auto-bind fails only when each of the MaxSockets ports it tries is that of an
\* auto-bound socket or one that the application passes to bind(), which leaves
\* its path behind: the paths of closed auto-bound sockets are gone, and what
\* stat() finds free is free when it is bound.
AutobindSucceeds ==
  \A s \in Socks :
    /\ At(s, "autobind") /\ AutobindFree(si[s].type) = {}
         => \A p \in AutobindFirst..(AutobindFirst + MaxSockets - 1) :
              \/ \E t \in Socks : si[t].unAddr = Path(si[s].type, DefaultIface, p)
              \/ \E a \in BindNames : a.port = p
    /\ At(s, "autobindBind") => dir[call[s].path] = None

=============================================================================
