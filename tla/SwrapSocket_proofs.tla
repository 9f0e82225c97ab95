--------------------------- MODULE SwrapSocket_proofs ---------------------------
(***************************************************************************)
(* Proofs about SwrapSocket, for any number of sockets and threads, any    *)
(* interfaces, names and ranges of ports.                                  *)
(***************************************************************************)
EXTENDS SwrapSocket, SequenceTheorems, FiniteSetTheorems, TLAPS

-----------------------------------------------------------------------------
(* Types *)

Types == {"tcp", "udp"}
Labels == {"idle", "autobind", "autobindBind", "unlink", "bind", "listen",
           "connect", "connected", "send", "unlinkLast"}
Remotes == [type : Types, iface : Ifaces \cup SpecialHosts, port : Ports]

Infos == [type : {"none", "tcp", "udp"}, bound : BOOLEAN, isServer : BOOLEAN,
          connected : BOOLEAN, deferConnect : BOOLEAN, unAddr : Paths \cup {None},
          bindname : Names \cup {None}, myname : Names \cup {None},
          peername : Names \cup {None}]
Entries == [from : Socks \cup {Dead}, path : Paths \cup {None}]
Queues == {q \in Seq(Entries) : Len(q) <= Backlog}
UnixSockets == [state : {"closed", "new", "listen", "connected"},
                path : Paths \cup {None}, peer : Socks \cup {None, Dead},
                queue : Queues]
Calls == [pc : Labels, then : Labels, path : Paths \cup {None}, to : Names \cup {None}]
Sendings == [active : BOOLEAN, path : Remotes \cup {None}, bcast : Ports \cup {0}]

TypeInv ==
  /\ si \in [Socks -> Infos]
  /\ sk \in [Socks -> UnixSockets]
  /\ dir \in [Paths -> Socks \cup {None, Dead}]
  /\ autobindStart \in FirstAuto..(LastAuto + MaxSockets)
  /\ autobindMutex \in Socks \cup {None}
  /\ call \in [Socks -> Calls]
  /\ sending \in [Socks -> Sendings]

-----------------------------------------------------------------------------
(* The inductive invariant *)

\* What the call of a socket has been asked for, once the socket is bound.
Going(s) ==
  IF call[s].pc \in {"autobind", "autobindBind"} THEN call[s].then ELSE call[s].pc

\* A port that bind() may take.
BindPort(p) == p \in AllocPorts \/ \E a \in BindNames : a.port = p

\* Where the call of a socket is, and what it has made sure of.
CallOf(s) ==
  /\ Going(s) = "listen" => si[s].type = "tcp"
  /\ Going(s) = "send" => si[s].type = "udp"
  /\ Going(s) = "connect" => call[s].to \in Names
  /\ At(s, "autobind") => ~si[s].bound
                          /\ call[s].then \in {"idle", "listen", "connect", "send"}
  /\ At(s, "autobindBind") =>
       /\ ~si[s].bound /\ call[s].then \in {"idle", "listen", "connect", "send"}
       /\ call[s].path \in Paths
       /\ call[s].path.type = si[s].type /\ call[s].path.iface = DefaultIface
       /\ call[s].path.port \in AutoPorts
       /\ si[s].myname = Name(DefaultIface, 0)
  /\ At(s, "unlink") \/ At(s, "bind") =>
       /\ call[s].path \in Paths
       /\ call[s].path.type = si[s].type /\ BindPort(call[s].path.port)
  /\ call[s].pc \in {"listen", "connect", "connected", "send"} => si[s].bound
  /\ At(s, "connected") => /\ si[s].type = "tcp" /\ call[s].to \in Names
                           /\ sk[s].state = "connected" /\ ~si[s].isServer
  /\ sending[s].active => si[s].bound /\ si[s].type = "udp"
  /\ sending[s].path \in Paths => sending[s].path.type = "udp"
  /\ At(s, "autobindBind") <=> autobindMutex = s

\* A socket_info slot and its unix socket.
SocketOf(s) ==
  /\ Open(s) => /\ ~At(s, "unlinkLast") /\ si[s].type \in Types
                /\ si[s].bound <=> sk[s].path # None
                /\ si[s].unAddr \in {None, sk[s].path}
                /\ si[s].myname \in Names
  /\ ~Open(s) => /\ sk[s] = NoSocket /\ ~sending[s].active
                 /\ At(s, "idle") \/ At(s, "unlinkLast")
                 /\ At(s, "idle") => si[s] = NoInfo
  /\ sk[s].path # None => sk[s].path.type = si[s].type
  /\ sk[s].state = "listen" => si[s].type = "tcp" /\ si[s].bound /\ ~si[s].isServer
  /\ si[s].type = "udp" => sk[s].state \in {"new", "closed"} /\ ~si[s].isServer
  /\ si[s].isServer => si[s].bound /\ sk[s].state \in {"connected", "closed"}
  /\ si[s].unAddr # None => si[s].unAddr.port \in AutoPorts
  /\ sk[s].queue # <<>> /\ si[s].type = "tcp" => sk[s].state = "listen"
  /\ si[s].deferConnect \/ si[s].connected => si[s].peername \in Names \cup {None}
  /\ si[s].deferConnect => si[s].peername \in Names

\* A path leads to an open socket that knows it, and was chosen by auto-bind for a
\* socket that is not gone, or has a port that bind() may take.
PathOf(p) ==
  /\ dir[p] \in Socks => sk[dir[p]].path = p
  /\ dir[p] # None => BindPort(p.port) \/ \E t \in Socks : si[t].unAddr = p

\* The peer of a socket.
PeerOf(s) ==
  sk[s].peer \in Socks =>
    /\ sk[sk[s].peer].path # None
    /\ si[sk[s].peer].type = si[s].type
    /\ si[s].type = "udp" /\ ~si[s].deferConnect =>
         sk[sk[s].peer].path = RemotePath("udp", si[s].peername)

\* A datagram or connection in the queue of q.
Sender(q, t, p) ==
  /\ p # None /\ p = sk[t].path
  /\ si[t].type = si[q].type /\ ~si[t].isServer
  /\ si[t].type = "tcp" => sk[t].state = "connected"
QueueOf(q) ==
  \A i \in 1..Len(sk[q].queue) :
    LET e == sk[q].queue[i] IN e.from \in Socks => Sender(q, e.from, e.path)

Inv ==
  /\ TypeInv
  /\ \A s \in Socks : CallOf(s) /\ SocketOf(s) /\ PeerOf(s) /\ QueueOf(s)
  /\ \A p \in Paths : PathOf(p)

\* With a disciplined application: a bind() is under way for s.
Binding(s) == At(s, "unlink") \/ At(s, "bind")

\* The path that stat() found free is free, that of an auto-bound socket leads to
\* it, and bind() takes neither.
AutoOf(s) ==
  /\ At(s, "autobindBind") => dir[call[s].path] = None
  /\ si[s].unAddr # None => dir[si[s].unAddr] = IF Open(s) THEN s ELSE Dead
  /\ Binding(s) =>
       \A t \in Socks :
         /\ si[t].unAddr # call[s].path
         /\ call[s].path.port \in AutoPorts =>
              ~At(t, "autobind") /\ ~At(t, "autobindBind")

AutoInv ==
  /\ \A s \in Socks : AutoOf(s)
  \* No two sockets unlink the same path.
  /\ \A s, t \in Socks : si[s].unAddr # None /\ si[s].unAddr = si[t].unAddr => s = t

\* The names of a socket.
Leads(s, p) ==
  Path(si[s].type, BindIface(si[s].type, si[s].myname.host), si[s].myname.port) = p
NamesOf(s) ==
  Open(s) /\ ~si[s].isServer =>
    /\ si[s].bound =>
         /\ dir[sk[s].path] = s /\ Leads(s, sk[s].path)
         /\ IF si[s].bindname = None THEN si[s].myname = NameOf(sk[s].path)
            ELSE si[s].bindname = NameOf(sk[s].path)
    /\ At(s, "autobind") \/ At(s, "autobindBind") => si[s].bindname = None
    /\ Binding(s) =>
         /\ ~si[s].bound /\ dir[call[s].path] \notin Socks
         /\ At(s, "bind") => dir[call[s].path] = None
         /\ Leads(s, call[s].path) /\ si[s].bindname = NameOf(call[s].path)

\* The client of a connection to p, from libc_connect on.
Client(t, p) ==
  /\ si[t].type = "tcp" /\ sk[t].state = "connected"
  /\ si[t].bound /\ ~si[t].isServer
  /\ IF At(t, "connected") THEN RemotePath("tcp", call[t].to) = p
     ELSE /\ RemotePath("tcp", si[t].peername) = p
          /\ si[t].myname = NameOf(sk[t].path)
\* The connections that wait at q, and the one c was accepted for.
WaitingAt(q) ==
  si[q].type = "tcp" =>
    \A i \in 1..Len(sk[q].queue) :
      LET t == sk[q].queue[i].from IN t \in Socks => Client(t, sk[q].path)
Accepted(c) ==
  Open(c) /\ si[c].isServer =>
    /\ si[c].type = "tcp" /\ si[c].myname = NameOf(sk[c].path)
    /\ call[c].pc \in {"idle", "listen", "connect"}
    /\ sk[c].peer \in Socks =>
         /\ Client(sk[c].peer, sk[c].path)
         /\ si[c].peername = NameOf(sk[sk[c].peer].path)

NameInv ==
  /\ \A s \in Socks : NamesOf(s) /\ WaitingAt(s) /\ Accepted(s)
  /\ \A s, t \in Socks : Binding(s) /\ Binding(t) => s = t

-----------------------------------------------------------------------------
(* Names and paths *)

LEMMA Consts ==
  /\ None \notin Socks /\ Dead \notin Socks /\ None # Dead
  /\ DefaultIface \in Ifaces /\ None \notin Ifaces /\ None \notin Paths /\ None \notin Names
  /\ FirstAuto \in Nat \ {0} /\ LastAuto \in Nat /\ FirstAuto < LastAuto
  /\ MaxSockets \in Nat \ {0} /\ AllocPorts \subseteq Nat \ {0}
BY SwrapSocketAssumption, NamesAssumption

\* The ports of bind() and of auto-bind.
LEMMA PortRanges ==
  /\ AllocPorts \subseteq Ports /\ AutoPorts \subseteq Ports
  /\ \A p \in AllocPorts : p \notin AutoPorts
  /\ \A p \in Ports : p \in Nat \ {0}
  /\ \A p \in AutoPorts : p + 1 \in FirstAuto..(LastAuto + MaxSockets)
BY SwrapSocketAssumption DEF Ports, AutoPorts

LEMMA PathParts ==
  ASSUME NEW p \in Paths
  PROVE  /\ p.type \in Types /\ p.iface \in Ifaces /\ p.port \in Ports
         /\ p = Path(p.type, p.iface, p.port)
         /\ NameOf(p) = Name(p.iface, p.port) /\ NameOf(p) \in Names /\ NameOf(p) # None
<1>1. p.type \in Types /\ p.iface \in Ifaces /\ p.port \in Ports /\ p # None
  BY Consts DEF Paths, Types
<1>2. p = Path(p.type, p.iface, p.port)
  BY DEF Paths, Path
<1>3. NameOf(p) = Name(p.iface, p.port)
  BY <1>1 DEF NameOf
<1>4. NameOf(p) \in Names
  BY <1>1, <1>3 DEF Names, Name
<1> QED BY <1>1, <1>2, <1>3, <1>4, Consts

LEMMA PathType ==
  ASSUME NEW type, NEW iface, NEW port
  PROVE  /\ Path(type, iface, port) \in Paths
              <=> type \in Types /\ iface \in Ifaces /\ port \in Ports
         /\ Path(type, iface, port).type = type
         /\ Path(type, iface, port).iface = iface
         /\ Path(type, iface, port).port = port
BY DEF Path, Paths, Types

LEMMA NameParts ==
  ASSUME NEW a \in Names
  PROVE  /\ a.host \in Ifaces \cup SpecialHosts /\ a.port \in Ports \cup {0}
         /\ a = Name(a.host, a.port)
BY DEF Names, Name

LEMMA NameType ==
  ASSUME NEW host \in Ifaces \cup SpecialHosts, NEW port \in Ports \cup {0}
  PROVE  /\ Name(host, port) \in Names
         /\ Name(host, port).host = host /\ Name(host, port).port = port
BY DEF Names, Name

\* An interface is bound on itself.
LEMMA IfaceItself ==
  ASSUME NEW type \in Types, NEW i \in Ifaces
  PROVE  BindIface(type, i) = i
BY SwrapSocketAssumption DEF BindIface, SpecialHosts

\* Where a name leads.
LEMMA RemoteType ==
  ASSUME NEW type \in Types, NEW to \in Names
  PROVE  /\ RemotePath(type, to) \in Remotes \cup {None}
         /\ RemotePath(type, to) \in Paths => RemotePath(type, to).type = type
<1>1. CASE RemotePath(type, to) = None
  BY <1>1, Consts
<1>2. CASE RemotePath(type, to) # None
  <2>1. RemotePath(type, to) = Path(type, to.host, to.port) /\ to.port # 0
    BY <1>2 DEF RemotePath
  <2>2. RemotePath(type, to) \in Remotes
    BY <2>1, NameParts DEF Remotes, Path
  <2> QED BY <2>1, <2>2, PathType
<1> QED BY <1>1, <1>2

\* The path of an interface's name is the path of the name.
LEMMA RemoteOf ==
  ASSUME NEW p \in Paths
  PROVE  RemotePath(p.type, NameOf(p)) = p
<1>1. p.iface \in Ifaces /\ p.port # 0 /\ p = Path(p.type, p.iface, p.port)
  BY PathParts, PortRanges
<1>2. NameOf(p).host = p.iface /\ NameOf(p).port = p.port
  BY PathParts DEF Name
<1>3. p.iface \notin {"any", "bcast", "far"}
  BY <1>1, SwrapSocketAssumption DEF SpecialHosts
<1> QED BY <1>1, <1>2, <1>3 DEF RemotePath

\* A socket that has a path is open and bound.
LEMMA PathOpen ==
  ASSUME NEW s, SocketOf(s), sk[s].path # None
  PROVE  Open(s) /\ si[s].bound /\ sk[s].path.type = si[s].type
<1>1. Open(s)
  <2>1. sk[s] # NoSocket
    BY DEF NoSocket
  <2> QED BY <2>1 DEF SocketOf
<1> QED BY <1>1 DEF SocketOf

LEMMA BoundPath ==
  ASSUME NEW p, Bound(p) \in Socks
  PROVE  p \in Paths /\ dir[p] = Bound(p)
BY Consts DEF Bound

-----------------------------------------------------------------------------
(* The types of the steps *)

LEMMA TypesOK == TypeInv => TypeOK
BY DEF TypeInv, TypeOK, Infos, UnixSockets, Queues, Calls

LEMMA Records ==
  /\ NoInfo \in Infos /\ NoSocket \in UnixSockets
  /\ NoCall \in Calls /\ NotSending \in Sendings
<1>1. NoInfo \in Infos
  BY DEF NoInfo, Infos
<1>2. <<>> \in Queues
  BY SwrapSocketAssumption, EmptySeq DEF Queues
<1>3. NoSocket \in UnixSockets
  BY <1>2 DEF NoSocket, UnixSockets
<1>4. NoCall \in Calls /\ NotSending \in Sendings
  BY DEF NoCall, Calls, NotSending, Sendings, Labels
<1> QED BY <1>1, <1>3, <1>4

\* The parts of the state of a socket have their types.
LEMMA Fields ==
  ASSUME TypeInv, NEW s \in Socks
  PROVE  /\ si[s] \in Infos /\ sk[s] \in UnixSockets
         /\ call[s] \in Calls /\ sending[s] \in Sendings
         /\ sk[s].queue \in Seq(Entries) /\ Len(sk[s].queue) \in Nat
         /\ Len(sk[s].queue) <= Backlog
<1>1. /\ si[s] \in Infos /\ sk[s] \in UnixSockets
      /\ call[s] \in Calls /\ sending[s] \in Sendings
  BY DEF TypeInv
<1>2. sk[s].queue \in Queues
  BY <1>1 DEF UnixSockets
<1> QED BY <1>1, <1>2, LenProperties DEF Queues

\* A call that starts, returns or goes on.
LEMMA TypeReturn ==
  ASSUME TypeInv, NEW s \in Socks, Return(s)
  PROVE  /\ call' \in [Socks -> Calls]
         /\ call' = [call EXCEPT ![s] = NoCall] /\ call'[s] = NoCall
         /\ \A t \in Socks \ {s} : call'[t] = call[t]
BY Records DEF Return, TypeInv

LEMMA TypeGoto ==
  ASSUME TypeInv, NEW s \in Socks, NEW label \in Labels, Goto(s, label)
  PROVE  /\ call' \in [Socks -> Calls]
         /\ call'[s] = [call[s] EXCEPT !.pc = label]
         /\ \A t \in Socks \ {s} : call'[t] = call[t]
<1>1. [call[s] EXCEPT !.pc = label] \in Calls
  BY Fields DEF Calls
<1> QED BY <1>1 DEF Goto, TypeInv

LEMMA TypeBindFirst ==
  ASSUME TypeInv, NEW s \in Socks, NEW label \in Labels, NEW to \in Names \cup {None},
         BindFirst(s, label, to)
  PROVE  /\ call' \in [Socks -> Calls]
         /\ call'[s] = [pc |-> IF si[s].bound THEN label ELSE "autobind",
                        then |-> label, path |-> None, to |-> to]
         /\ \A t \in Socks \ {s} : call'[t] = call[t]
<1>1. [pc |-> IF si[s].bound THEN label ELSE "autobind",
       then |-> label, path |-> None, to |-> to] \in Calls
  BY DEF Calls, Labels
<1> QED BY <1>1 DEF BindFirst, TypeInv

\* A set of natural numbers has a least element.
LEMMA LeastPort ==
  ASSUME NEW S, S \subseteq Nat, S # {}
  PROVE  Min(S) \in S
<1> DEFINE R == OpToRel(<, Nat)
<1>1. IsWellFoundedOn(R, Nat)
  BY NatLessThanWellFounded
<1>2. \A x, y \in Nat : y < x => <<y, x>> \in R
  BY DEF OpToRel
<1> HIDE DEF R
<1>3. PICK x \in S : \A y \in S : ~(<<y, x>> \in R)
  BY <1>1, WFMin, Zenon
<1>4. ASSUME NEW y \in S PROVE x <= y
  <2>1. x \in Nat /\ y \in Nat
    OBVIOUS
  <2>2. ~(y < x)
    BY <1>2, <1>3, <2>1
  <2> QED BY <2>1, <2>2
<1> QED BY <1>4 DEF Min

-----------------------------------------------------------------------------
(* What each step does to its socket *)

\* The sockets other than s are left alone.
Only(s) ==
  \A t \in Socks \ {s} :
    si'[t] = si[t] /\ sk'[t] = sk[t] /\ call'[t] = call[t] /\ sending'[t] = sending[t]

LEMMA DoCallSocket ==
  ASSUME Inv, NEW s \in Socks, NEW type \in Types, CallSocket(s, type)
  PROVE  /\ TypeInv' /\ Only(s) /\ ~Open(s) /\ At(s, "idle")
         /\ si'[s] = [NoInfo EXCEPT !.type = type, !.myname = Unnamed]
         /\ sk'[s] = [NoSocket EXCEPT !.state = "new"]
         /\ UNCHANGED <<dir, autobindStart, autobindMutex, call, sending>>
<1>0. Unnamed \in Names
  BY NameType DEF Unnamed, SpecialHosts
<1>1. /\ [NoInfo EXCEPT !.type = type, !.myname = Unnamed] \in Infos
      /\ [NoSocket EXCEPT !.state = "new"] \in UnixSockets
  BY <1>0, Records DEF Infos, UnixSockets, Types
<1>2. TypeInv
  BY DEF Inv
<1>3. /\ si' \in [Socks -> Infos] /\ sk' \in [Socks -> UnixSockets]
      /\ si'[s] = [NoInfo EXCEPT !.type = type, !.myname = Unnamed]
      /\ sk'[s] = [NoSocket EXCEPT !.state = "new"]
      /\ \A t \in Socks \ {s} : si'[t] = si[t] /\ sk'[t] = sk[t]
  BY <1>1, <1>2 DEF CallSocket, TypeInv
<1> QED BY <1>2, <1>3 DEF CallSocket, Only, TypeInv

LEMMA FreePort ==
  ASSUME TypeInv, NEW type \in Types, AutobindFree(type) # {}
  PROVE  /\ Path(type, DefaultIface, Min(AutobindFree(type))) \in Paths
         /\ Min(AutobindFree(type)) \in AutoPorts
         /\ dir[Path(type, DefaultIface, Min(AutobindFree(type)))] = None
<1> DEFINE free == AutobindFree(type)
           p == Min(free)
<1>1. AutobindFirst \in FirstAuto..LastAuto
  BY Consts DEF AutobindFirst, TypeInv
<1>2. free \subseteq AutoPorts
  BY <1>1, Consts DEF AutobindFree, AutoPorts
<1>3. free \subseteq Nat
  BY <1>2, PortRanges
<1>4. p \in free
  BY <1>3, LeastPort
<1>5. p \in AutoPorts /\ Path(type, DefaultIface, p) \in Paths
  BY <1>2, <1>4, PathType, Consts, PortRanges
<1>6. Bound(Path(type, DefaultIface, p)) = None
  BY <1>4 DEF AutobindFree
<1> QED BY <1>5, <1>6 DEF Bound

LEMMA DoAutobindSearch ==
  ASSUME Inv, NEW s \in Socks, AutobindSearch(s)
  PROVE  /\ TypeInv' /\ Only(s) /\ At(s, "autobind") /\ autobindMutex = None
         /\ si'[s] = [si[s] EXCEPT !.myname = Name(DefaultIface, 0)]
         /\ UNCHANGED <<sk, dir, sending>>
         /\ \/ call'[s] = NoCall /\ autobindMutex' = None
            \/ \E p \in Paths :
                 /\ p.type = si[s].type /\ p.iface = DefaultIface /\ p.port \in AutoPorts
                 /\ dir[p] = None
                 /\ call'[s] = [call[s] EXCEPT !.path = p, !.pc = "autobindBind"]
                 /\ autobindMutex' = s
<1>1. TypeInv /\ CallOf(s) /\ SocketOf(s)
  BY DEF Inv
<1>2. Open(s) /\ si[s].type \in Types
  BY <1>1 DEF AutobindSearch, SocketOf, At
<1> DEFINE free == AutobindFree(si[s].type)
           p == Path(si[s].type, DefaultIface, Min(free))
<1>3. Name(DefaultIface, 0) \in Names
  BY NameType, Consts
<1>4. /\ [si[s] EXCEPT !.myname = Name(DefaultIface, 0)] \in Infos
  BY <1>1, <1>3, Fields DEF Infos
<1>5. /\ si' \in [Socks -> Infos]
      /\ si'[s] = [si[s] EXCEPT !.myname = Name(DefaultIface, 0)]
      /\ \A t \in Socks \ {s} : si'[t] = si[t]
  BY <1>1, <1>4 DEF AutobindSearch, TypeInv
<1>6. autobindStart' \in FirstAuto..(LastAuto + MaxSockets)
  BY <1>1, Consts DEF AutobindSearch, AutobindFirst, TypeInv
<1>7. CASE free = {}
  <2>1. Return(s) /\ UNCHANGED autobindMutex
    BY <1>7 DEF AutobindSearch
  <2> QED BY <1>1, <1>5, <1>6, <2>1, TypeReturn DEF AutobindSearch, Only, TypeInv
<1>8. CASE free # {}
  <2>1. /\ p \in Paths /\ p.port \in AutoPorts /\ dir[p] = None
        /\ p.type = si[s].type /\ p.iface = DefaultIface
    BY <1>1, <1>2, <1>8, FreePort, PathType
  <2>2. [call[s] EXCEPT !.path = p, !.pc = "autobindBind"] \in Calls
    BY <1>1, <2>1, Fields DEF Calls, Labels
  <2>3. /\ call' = [call EXCEPT ![s].path = p, ![s].pc = "autobindBind"]
        /\ autobindMutex' = s
    BY <1>8 DEF AutobindSearch
  <2> HIDE DEF p, free
  <2>4. /\ call' \in [Socks -> Calls]
        /\ call'[s] = [call[s] EXCEPT !.path = p, !.pc = "autobindBind"]
        /\ \A t \in Socks \ {s} : call'[t] = call[t]
    BY <1>1, <2>2, <2>3 DEF TypeInv
  <2>5. At(s, "autobind") /\ autobindMutex = None /\ UNCHANGED <<sk, dir, sending>>
    BY DEF AutobindSearch
  <2>6. TypeInv' /\ Only(s)
    BY <1>1, <1>5, <1>6, <2>3, <2>4, <2>5 DEF Only, TypeInv
  <2> QED BY <1>5, <2>1, <2>3, <2>4, <2>5, <2>6
<1> QED BY <1>7, <1>8

LEMMA DoAutobindBind ==
  ASSUME Inv, NEW s \in Socks, AutobindBind(s)
  PROVE  /\ TypeInv' /\ Only(s) /\ At(s, "autobindBind") /\ autobindMutex' = None
         /\ sending' = sending
         /\ LET p == call[s].path
            IN \/ dir[p] # None /\ UNCHANGED <<si, sk, dir>> /\ call'[s] = NoCall
               \/ /\ dir[p] = None /\ dir' = [dir EXCEPT ![p] = s]
                  /\ sk'[s] = [sk[s] EXCEPT !.path = p]
                  /\ si'[s] = [si[s] EXCEPT !.bound = TRUE, !.unAddr = p,
                                            !.myname = Name(DefaultIface, p.port)]
                  /\ call'[s] = [call[s] EXCEPT !.pc = call[s].then]
<1>1. TypeInv /\ CallOf(s)
  BY DEF Inv
<1>0. CASE dir[call[s].path] # None
  <2>1. /\ At(s, "autobindBind") /\ autobindMutex' = None /\ sending' = sending
        /\ UNCHANGED <<si, sk, dir, autobindStart>> /\ Return(s)
    BY <1>0 DEF AutobindBind
  <2>2. TypeInv' /\ Only(s)
    BY <1>1, <2>1, TypeReturn DEF TypeInv, Only
  <2> QED BY <1>0, <1>1, <2>1, <2>2, TypeReturn
<1> SUFFICES ASSUME dir[call[s].path] = None
             PROVE  /\ TypeInv' /\ Only(s) /\ At(s, "autobindBind") /\ autobindMutex' = None
                    /\ sending' = sending
                    /\ LET p == call[s].path
                       IN /\ dir[p] = None /\ dir' = [dir EXCEPT ![p] = s]
                          /\ sk'[s] = [sk[s] EXCEPT !.path = p]
                          /\ si'[s] = [si[s] EXCEPT !.bound = TRUE, !.unAddr = p,
                                                    !.myname = Name(DefaultIface, p.port)]
                          /\ call'[s] = [call[s] EXCEPT !.pc = call[s].then]
  BY <1>0
<1>2. /\ call[s].path \in Paths /\ dir[call[s].path] = None
      /\ call[s].path.port \in AutoPorts /\ si[s].myname = Name(DefaultIface, 0)
      /\ At(s, "autobindBind")
  BY <1>1 DEF AutobindBind, CallOf
<1>3. PICK p \in Paths : p = call[s].path
  BY <1>2
<1>4. p.port \in AutoPorts /\ dir[p] = None
  BY <1>2, <1>3
<1>5. /\ dir' = [dir EXCEPT ![p] = s]
      /\ sk' = [sk EXCEPT ![s].path = p]
      /\ si' = [si EXCEPT ![s].bound = TRUE, ![s].unAddr = p, ![s].myname.port = p.port]
      /\ autobindStart' = p.port + 1 /\ autobindMutex' = None
      /\ Goto(s, call[s].then) /\ sending' = sending
  BY <1>3, <1>4 DEF AutobindBind
<1>6. Name(DefaultIface, p.port) \in Names
  BY <1>4, NameType, Consts, PortRanges
<1>7. [si[s].myname EXCEPT !.port = p.port] = Name(DefaultIface, p.port)
  BY <1>2 DEF Name
<1>8. [si[s] EXCEPT !.bound = TRUE, !.unAddr = p, !.myname.port = p.port]
        = [si[s] EXCEPT !.bound = TRUE, !.unAddr = p, !.myname = Name(DefaultIface, p.port)]
  BY <1>1, <1>7, Fields DEF Infos
<1>9. [si[s] EXCEPT !.bound = TRUE, !.unAddr = p, !.myname = Name(DefaultIface, p.port)]
        \in Infos
  BY <1>1, <1>6, Fields DEF Infos
<1>10. [sk[s] EXCEPT !.path = p] \in UnixSockets
  BY <1>1, Fields DEF UnixSockets
<1>11. call[s].then \in Labels
  BY <1>1, Fields DEF Calls
<1>12. /\ call' \in [Socks -> Calls]
       /\ call'[s] = [call[s] EXCEPT !.pc = call[s].then]
       /\ \A t \in Socks \ {s} : call'[t] = call[t]
  BY <1>1, <1>5, <1>11, TypeGoto
<1>13. /\ si' \in [Socks -> Infos] /\ \A t \in Socks \ {s} : si'[t] = si[t]
       /\ si'[s] = [si[s] EXCEPT !.bound = TRUE, !.unAddr = p,
                                 !.myname = Name(DefaultIface, p.port)]
  BY <1>1, <1>5, <1>8, <1>9 DEF TypeInv
<1>14. /\ sk' \in [Socks -> UnixSockets] /\ \A t \in Socks \ {s} : sk'[t] = sk[t]
       /\ sk'[s] = [sk[s] EXCEPT !.path = p]
  BY <1>1, <1>5, <1>10 DEF TypeInv
<1>15. dir' \in [Paths -> Socks \cup {None, Dead}]
  BY <1>1, <1>5 DEF TypeInv
<1>16. autobindStart' \in FirstAuto..(LastAuto + MaxSockets)
  BY <1>4, <1>5, PortRanges
<1>17. TypeInv' /\ Only(s)
  BY <1>1, <1>5, <1>12, <1>13, <1>14, <1>15, <1>16 DEF TypeInv, Only
<1> QED BY <1>2, <1>3, <1>4, <1>5, <1>12, <1>13, <1>14, <1>17

\* The port convert_in_un_alloc takes.
LEMMA PortChosen ==
  ASSUME TypeInv, NEW type \in Types, NEW iface, NEW port \in Ports \cup {0}
  PROVE  /\ ChosenPort(type, iface, port) \in AllocPorts \cup {0, port}
         /\ port # 0 => ChosenPort(type, iface, port) = port
         /\ iface \in Ifaces /\ port = 0 /\ ChosenPort(type, iface, port) # 0
              => dir[Path(type, iface, ChosenPort(type, iface, port))] = None
<1> DEFINE free == {p \in AllocPorts : dir[Path(type, iface, p)] = None}
<1>1. CASE port # 0 \/ iface \notin Ifaces \/ free = {}
  BY <1>1 DEF ChosenPort
<1>2. CASE port = 0 /\ iface \in Ifaces /\ free # {}
  <2>1. ChosenPort(type, iface, port) = Min(free)
    BY <1>2 DEF ChosenPort
  <2>2. Min(free) \in free
    BY <1>2, LeastPort, Consts
  <2> QED BY <1>2, <2>1, <2>2
<1> QED BY <1>1, <1>2

LEMMA IfaceType ==
  ASSUME NEW type \in Types, NEW a \in Names, BindIface(type, a.host) # None
  PROVE  BindIface(type, a.host) \in Ifaces \cup SpecialHosts
BY NameParts, Consts DEF BindIface

\* What a disciplined application sees to when it binds a socket to p.
BindsFresh(p, n, b) ==
  /\ b = NameOf(p) /\ dir[p] \notin Socks
  /\ Path(p.type, BindIface(p.type, n.host), n.port) = p
  /\ \A t \in Socks : ~Binding(t) /\ si[t].unAddr # p
  /\ p.port \in AutoPorts =>
       \A t \in Socks : ~At(t, "autobind") /\ ~At(t, "autobindBind")

LEMMA DoCallBind ==
  ASSUME Inv, NEW s \in Socks, NEW a \in BindNames, CallBind(s, a)
  PROVE  /\ TypeInv' /\ Only(s) /\ Open(s) /\ At(s, "idle")
         /\ UNCHANGED <<sk, dir, autobindStart, autobindMutex, sending>>
         /\ Disciplined => ~si[s].bound
         /\ \E n \in Names, b \in Names \cup {None} :
              /\ si'[s] = [si[s] EXCEPT !.myname = n, !.bindname = b]
              /\ \/ call'[s] = call[s]
                 \/ \E p \in Paths :
                      /\ p.type = si[s].type /\ BindPort(p.port)
                      /\ call'[s] = [call[s] EXCEPT !.pc = "unlink", !.path = p]
                      /\ Disciplined => BindsFresh(p, n, b)
<1> DEFINE type == si[s].type
           iface == BindIface(type, a.host)
           port == ChosenPort(type, iface, a.port)
           n == Name(a.host, port)
           b == IF iface = None THEN si[s].bindname
                ELSE IF si[s].bindname = None THEN Name(iface, port)
                ELSE IF a.port = 0 /\ port # 0 THEN [si[s].bindname EXCEPT !.port = port]
                ELSE si[s].bindname
           p == Path(type, iface, port)
           going == iface \in Ifaces /\ port # 0
<1>1. TypeInv /\ SocketOf(s) /\ Open(s) /\ At(s, "idle")
  BY DEF Inv, CallBind, Ready
<1>2. type \in Types /\ a \in Names /\ a.port \in Ports \cup {0}
  BY <1>1, NamesAssumption, NameParts DEF SocketOf
<1>3. /\ port \in AllocPorts \cup {0, a.port}
      /\ a.port # 0 => port = a.port
      /\ going /\ a.port = 0 => dir[p] = None
  BY <1>1, <1>2, PortChosen
<1>4. port \in Ports \cup {0} /\ a.host \in Ifaces \cup SpecialHosts
  BY <1>2, <1>3, PortRanges, NameParts
<1>5. iface # None => iface \in Ifaces \cup SpecialHosts
  BY <1>2, IfaceType
<1>6. n \in Names /\ n.host = a.host /\ n.port = port
  BY <1>4, NameType
<1>7. si[s].bindname \in Names \cup {None}
  BY <1>1, Fields DEF Infos
<1>8. b \in Names \cup {None}
  <2>1. iface # None => Name(iface, port) \in Names
    BY <1>4, <1>5, NameType
  <2>2. si[s].bindname # None => [si[s].bindname EXCEPT !.port = port] \in Names
    BY <1>4, <1>7 DEF Names
  <2> QED BY <1>7, <2>1, <2>2
<1>9. si' = [si EXCEPT ![s].myname = n, ![s].bindname = b]
  BY DEF CallBind
<1>10. going => p \in Paths /\ p.type = type /\ p.iface = iface /\ p.port = port
  BY <1>2, <1>4, PathType
<1>11. /\ going => call' = [call EXCEPT ![s].pc = "unlink", ![s].path = p]
       /\ ~going => call' = call
       /\ UNCHANGED <<sk, dir, autobindStart, autobindMutex, sending>>
  BY DEF CallBind
<1>12. Disciplined =>
         /\ ~si[s].bound /\ si[s].bindname = None
         /\ \A t \in Socks : ~Binding(t)
         /\ a.port # 0 => Bound(Path(type, iface, a.port)) \notin Socks
         /\ a.port \in AutoPorts =>
              \A t \in Socks : /\ ~At(t, "autobind") /\ ~At(t, "autobindBind")
                               /\ si[t].unAddr # Path(type, iface, a.port)
  BY DEF CallBind, Proper, Binding, At
<1>13. Disciplined /\ going =>
         b = NameOf(p) /\ dir[p] \notin Socks
  <2>1. ASSUME Disciplined, going PROVE b = NameOf(p)
    <3>1. iface # None
      BY <2>1, Consts
    <3>2. b = Name(iface, port)
      BY <1>12, <2>1, <3>1
    <3> QED BY <1>10, <2>1, <3>2, PathParts
  <2>2. ASSUME Disciplined, going PROVE dir[p] \notin Socks
    <3>1. CASE a.port = 0
      BY <1>3, <2>2, <3>1, Consts
    <3>2. CASE a.port # 0
      <4>1. Bound(p) \notin Socks
        BY <1>3, <1>12, <2>2, <3>2
      <4> QED BY <1>10, <2>2, <4>1 DEF Bound
    <3> QED BY <3>1, <3>2
  <2> QED BY <2>1, <2>2
<1>14. Path(type, BindIface(type, n.host), n.port) = p
  BY <1>6
<1>15. going => BindPort(port)
  BY <1>3 DEF BindPort
<1>21. Disciplined /\ going =>
         /\ \A t \in Socks : si[t].unAddr # p
         /\ p.port \in AutoPorts =>
              \A t \in Socks : ~At(t, "autobind") /\ ~At(t, "autobindBind")
  <2> SUFFICES ASSUME Disciplined, going, NEW t \in Socks
               PROVE  /\ si[t].unAddr # p
                      /\ p.port \in AutoPorts =>
                           ~At(t, "autobind") /\ ~At(t, "autobindBind")
    OBVIOUS
  <2>1. p.port = port /\ p \in Paths
    BY <1>10
  <2>2. CASE port \in AutoPorts
    <3>1. a.port = port
      BY <1>3, <2>2, PortRanges
    <3> QED BY <1>12, <2>1, <2>2, <3>1
  <2>3. CASE port \notin AutoPorts
    <3>1. si[t].unAddr # None => si[t].unAddr.port \in AutoPorts
      BY DEF Inv, SocketOf
    <3> QED BY <2>1, <2>3, <3>1, Consts
  <2> QED BY <2>2, <2>3
<1> HIDE DEF b, n, p, going, port, iface
<1>16. /\ si' \in [Socks -> Infos]
       /\ si'[s] = [si[s] EXCEPT !.myname = n, !.bindname = b]
       /\ \A t \in Socks \ {s} : si'[t] = si[t]
  <2>1. [si[s] EXCEPT !.myname = n, !.bindname = b] \in Infos
    BY <1>1, <1>6, <1>8, Fields DEF Infos
  <2> QED BY <1>1, <1>9, <2>1 DEF TypeInv
<1>17. /\ call' \in [Socks -> Calls] /\ \A t \in Socks \ {s} : call'[t] = call[t]
       /\ call'[s] = IF going THEN [call[s] EXCEPT !.pc = "unlink", !.path = p]
                     ELSE call[s]
  <2>1. going => [call[s] EXCEPT !.pc = "unlink", !.path = p] \in Calls
    BY <1>1, <1>10, Fields DEF Calls, Labels
  <2> QED BY <1>1, <1>11, <2>1 DEF TypeInv
<1>18. TypeInv' /\ Only(s)
  BY <1>1, <1>11, <1>16, <1>17 DEF TypeInv, Only
<1>19. CASE ~going
  BY <1>1, <1>6, <1>8, <1>11, <1>12, <1>16, <1>17, <1>18, <1>19
<1>20. CASE going
  <2>1. /\ p \in Paths /\ p.type = type /\ BindPort(p.port)
        /\ call'[s] = [call[s] EXCEPT !.pc = "unlink", !.path = p]
        /\ Disciplined => BindsFresh(p, n, b)
    BY <1>10, <1>12, <1>13, <1>14, <1>15, <1>17, <1>20, <1>21 DEF BindsFresh
  <2> QED BY <1>1, <1>6, <1>8, <1>11, <1>12, <1>16, <1>18, <2>1
<1> QED BY <1>19, <1>20

LEMMA DoUnlinkFirst ==
  ASSUME Inv, NEW s \in Socks, UnlinkFirst(s)
  PROVE  /\ TypeInv' /\ Only(s) /\ At(s, "unlink") /\ call[s].path \in Paths
         /\ UNCHANGED <<si, sk, autobindMutex, sending>>
         /\ dir' = [dir EXCEPT ![call[s].path] = None]
         /\ call'[s] = [call[s] EXCEPT !.pc = "bind"]
<1>1. TypeInv /\ CallOf(s)
  BY DEF Inv
<1>2. call[s].path \in Paths /\ At(s, "unlink")
  BY <1>1 DEF CallOf, UnlinkFirst
<1>3. /\ call' \in [Socks -> Calls]
      /\ call'[s] = [call[s] EXCEPT !.pc = "bind"]
      /\ \A t \in Socks \ {s} : call'[t] = call[t]
  BY <1>1, TypeGoto DEF UnlinkFirst, Labels
<1>4. TypeInv'
  BY <1>1, <1>3 DEF UnlinkFirst, TypeInv
<1> QED BY <1>2, <1>3, <1>4 DEF UnlinkFirst, Only

LEMMA DoLibcBind ==
  ASSUME Inv, NEW s \in Socks, LibcBind(s)
  PROVE  /\ TypeInv' /\ Only(s) /\ At(s, "bind") /\ call[s].path \in Paths
         /\ UNCHANGED <<autobindMutex, sending>>
         /\ call'[s] = NoCall
         /\ LET p == call[s].path
            IN \/ UNCHANGED <<si, sk, dir>> /\ (dir[p] # None \/ sk[s].path # None)
               \/ /\ dir[p] = None /\ sk[s].path = None
                  /\ dir' = [dir EXCEPT ![p] = s]
                  /\ sk'[s] = [sk[s] EXCEPT !.path = p]
                  /\ si'[s] = [si[s] EXCEPT !.bound = TRUE]
<1>1. TypeInv /\ CallOf(s)
  BY DEF Inv
<1>2. PICK p \in Paths : p = call[s].path
  BY <1>1 DEF CallOf, LibcBind
<1>3. /\ At(s, "bind") /\ Return(s)
      /\ UNCHANGED <<autobindStart, autobindMutex, sending>>
  BY DEF LibcBind
<1>4. /\ call' \in [Socks -> Calls] /\ call'[s] = NoCall
      /\ \A t \in Socks \ {s} : call'[t] = call[t]
  BY <1>1, <1>3, TypeReturn
<1>5. CASE dir[p] # None \/ sk[s].path # None
  <2>1. UNCHANGED <<si, sk, dir>>
    BY <1>2, <1>5 DEF LibcBind
  <2>2. TypeInv' /\ Only(s)
    BY <1>1, <1>3, <1>4, <2>1 DEF TypeInv, Only
  <2> QED BY <1>2, <1>3, <1>4, <1>5, <2>1, <2>2
<1>6. CASE dir[p] = None /\ sk[s].path = None
  <2>1. /\ dir' = [dir EXCEPT ![p] = s]
        /\ sk' = [sk EXCEPT ![s].path = p]
        /\ si' = [si EXCEPT ![s].bound = TRUE]
    BY <1>2, <1>6 DEF LibcBind
  <2>2. /\ [si[s] EXCEPT !.bound = TRUE] \in Infos
        /\ [sk[s] EXCEPT !.path = p] \in UnixSockets
    BY <1>1, Fields DEF Infos, UnixSockets
  <2>3. /\ si' \in [Socks -> Infos] /\ sk' \in [Socks -> UnixSockets]
        /\ dir' \in [Paths -> Socks \cup {None, Dead}]
        /\ si'[s] = [si[s] EXCEPT !.bound = TRUE]
        /\ sk'[s] = [sk[s] EXCEPT !.path = p]
        /\ \A t \in Socks \ {s} : si'[t] = si[t] /\ sk'[t] = sk[t]
    BY <1>1, <2>1, <2>2 DEF TypeInv
  <2>4. TypeInv' /\ Only(s)
    BY <1>1, <1>3, <1>4, <2>3 DEF TypeInv, Only
  <2> QED BY <1>2, <1>3, <1>4, <1>6, <2>1, <2>3, <2>4
<1> QED BY <1>5, <1>6

\* A call that starts by binding its socket.
Starts(s, label, to) ==
  /\ TypeInv' /\ Only(s) /\ Open(s) /\ At(s, "idle")
  /\ UNCHANGED <<si, sk, dir, autobindMutex, sending>>
  /\ call'[s] = [pc |-> IF si[s].bound THEN label ELSE "autobind",
                 then |-> label, path |-> None, to |-> to]
  /\ Disciplined /\ ~si[s].bound =>
       /\ si[s].bindname = None
       /\ \A t \in Socks : Binding(t) => call[t].path.port \notin AutoPorts

LEMMA Autobinding ==
  ASSUME NEW s \in Socks, MayAutobind(s)
  PROVE  Disciplined /\ ~si[s].bound =>
           /\ si[s].bindname = None
           /\ \A t \in Socks : Binding(t) => call[t].path.port \notin AutoPorts
BY DEF MayAutobind, Binding, At

LEMMA DoCallListen ==
  ASSUME Inv, NEW s \in Socks, CallListen(s)
  PROVE  Starts(s, "listen", None) /\ si[s].type = "tcp"
<1>1. TypeInv
  BY DEF Inv
<1>2. /\ BindFirst(s, "listen", None) /\ Ready(s) /\ MayAutobind(s) /\ si[s].type = "tcp"
      /\ UNCHANGED <<si, sk, dir, autobindStart, autobindMutex, sending>>
  BY DEF CallListen
<1>3. "listen" \in Labels
  BY DEF Labels
<1>4. TypeInv' /\ Only(s)
  BY <1>1, <1>2, <1>3, TypeBindFirst DEF TypeInv, Only
<1> QED BY <1>1, <1>2, <1>3, <1>4, TypeBindFirst, Autobinding DEF Starts, Ready

LEMMA DoCallConnect ==
  ASSUME Inv, NEW s \in Socks, NEW to \in ConnectTargets, CallConnect(s, to)
  PROVE  Starts(s, "connect", to) /\ to \in Names
<1>1. TypeInv /\ to \in Names
  BY NamesAssumption DEF Inv
<1>2. /\ BindFirst(s, "connect", to) /\ Ready(s) /\ MayAutobind(s)
      /\ UNCHANGED <<si, sk, dir, autobindStart, autobindMutex, sending>>
  BY DEF CallConnect
<1>3. "connect" \in Labels
  BY DEF Labels
<1>4. TypeInv' /\ Only(s)
  BY <1>1, <1>2, <1>3, TypeBindFirst DEF TypeInv, Only
<1> QED BY <1>1, <1>2, <1>3, <1>4, TypeBindFirst, Autobinding DEF Starts, Ready

LEMMA DoCallSend ==
  ASSUME Inv, NEW s \in Socks, NEW to \in SendTargets, CallSend(s, to)
  PROVE  si[s].type = "udp" /\ \E a \in Names \cup {None} : Starts(s, "send", a)
<1>1. TypeInv /\ to \in Names
  BY NamesAssumption DEF Inv
<1>2. PICK a \in Names \cup {None} : BindFirst(s, "send", a)
  BY <1>1 DEF CallSend
<1>3. /\ Ready(s) /\ MayAutobind(s) /\ si[s].type = "udp"
      /\ UNCHANGED <<si, sk, dir, autobindStart, autobindMutex, sending>>
  BY DEF CallSend
<1>4. "send" \in Labels
  BY DEF Labels
<1>5. TypeInv' /\ Only(s)
  BY <1>1, <1>2, <1>3, <1>4, TypeBindFirst DEF TypeInv, Only
<1>6. Starts(s, "send", a)
  BY <1>1, <1>2, <1>3, <1>4, <1>5, TypeBindFirst, Autobinding DEF Starts, Ready
<1> QED BY <1>3, <1>6

LEMMA DoCallRecv ==
  ASSUME Inv, NEW s \in Socks, CallRecv(s)
  PROVE  Starts(s, "idle", None)
<1>1. TypeInv
  BY DEF Inv
<1>2. /\ BindFirst(s, "idle", None) /\ Ready(s) /\ MayAutobind(s)
      /\ UNCHANGED <<si, sk, dir, autobindStart, autobindMutex, sending>>
  BY DEF CallRecv
<1>3. "idle" \in Labels
  BY DEF Labels
<1>4. TypeInv' /\ Only(s)
  BY <1>1, <1>2, <1>3, TypeBindFirst DEF TypeInv, Only
<1> QED BY <1>1, <1>2, <1>3, <1>4, TypeBindFirst, Autobinding DEF Starts, Ready

LEMMA DoLibcListen ==
  ASSUME Inv, NEW s \in Socks, LibcListen(s)
  PROVE  /\ TypeInv' /\ Only(s) /\ At(s, "listen") /\ call'[s] = NoCall
         /\ UNCHANGED <<si, dir, autobindMutex, sending>>
         /\ sk'[s] = IF sk[s].state = "new" THEN [sk[s] EXCEPT !.state = "listen"]
                     ELSE sk[s]
<1>1. TypeInv
  BY DEF Inv
<1>2. /\ At(s, "listen") /\ Return(s)
      /\ UNCHANGED <<si, dir, autobindStart, autobindMutex, sending>>
  BY DEF LibcListen
<1>3. [sk[s] EXCEPT !.state = "listen"] \in UnixSockets
  BY <1>1, Fields DEF UnixSockets
<1>4. /\ sk' \in [Socks -> UnixSockets] /\ \A t \in Socks \ {s} : sk'[t] = sk[t]
      /\ sk'[s] = IF sk[s].state = "new" THEN [sk[s] EXCEPT !.state = "listen"]
                  ELSE sk[s]
  BY <1>1, <1>3 DEF LibcListen, TypeInv
<1>5. TypeInv' /\ Only(s)
  BY <1>1, <1>2, <1>4, TypeReturn DEF TypeInv, Only
<1> QED BY <1>1, <1>2, <1>4, <1>5, TypeReturn

LEMMA ConnectedType ==
  ASSUME NEW info \in Infos, NEW to \in Names
  PROVE  /\ Connected(info, to) \in Infos
         /\ [Connected(info, to) EXCEPT !.deferConnect = TRUE] \in Infos
<1>1. Connected(info, to) \in Infos
  BY DEF Connected, Infos
<1> QED BY <1>1 DEF Infos

LEMMA DoConnectDatagram ==
  ASSUME Inv, NEW s \in Socks, ConnectDatagram(s)
  PROVE  /\ TypeInv' /\ Only(s) /\ At(s, "connect") /\ si[s].type = "udp"
         /\ call[s].to \in Names /\ call'[s] = NoCall
         /\ UNCHANGED <<sk, dir, autobindMutex, sending>>
         /\ \/ si'[s] = si[s]
            \/ si'[s] = [Connected(si[s], call[s].to) EXCEPT !.deferConnect = TRUE]
<1>1. TypeInv /\ CallOf(s)
  BY DEF Inv
<1>2. /\ At(s, "connect") /\ si[s].type = "udp" /\ Return(s)
      /\ UNCHANGED <<sk, dir, autobindStart, autobindMutex, sending>>
  BY DEF ConnectDatagram
<1>3. call[s].to \in Names
  BY <1>1, <1>2 DEF CallOf, Going, At
<1>4. PICK info \in Infos :
        /\ \/ info = si[s]
           \/ info = [Connected(si[s], call[s].to) EXCEPT !.deferConnect = TRUE]
        /\ si' = [si EXCEPT ![s] = info]
  <2>1. CASE RemotePath("udp", call[s].to) = None
    <3>1. si' = [si EXCEPT ![s] = si[s]]
      BY <1>1, <2>1 DEF ConnectDatagram, TypeInv
    <3> QED BY <1>1, <3>1, Fields
  <2>2. CASE RemotePath("udp", call[s].to) # None
    <3>1. si' = [si EXCEPT
                  ![s] = [Connected(si[s], call[s].to) EXCEPT !.deferConnect = TRUE]]
      BY <1>1, <2>2 DEF ConnectDatagram, TypeInv
    <3> QED BY <1>1, <1>3, <3>1, Fields, ConnectedType
  <2> QED BY <2>1, <2>2
<1>5. /\ si' \in [Socks -> Infos] /\ si'[s] = info
      /\ \A t \in Socks \ {s} : si'[t] = si[t]
  BY <1>1, <1>4 DEF TypeInv
<1>6. TypeInv' /\ Only(s)
  BY <1>1, <1>2, <1>5, TypeReturn DEF TypeInv, Only
<1> QED BY <1>1, <1>2, <1>3, <1>4, <1>5, <1>6, TypeReturn

LEMMA DoConnectedStream ==
  ASSUME Inv, NEW s \in Socks, ConnectedStream(s)
  PROVE  /\ TypeInv' /\ Only(s) /\ At(s, "connected") /\ call[s].to \in Names
         /\ UNCHANGED <<sk, dir, autobindMutex, sending>>
         /\ call'[s] = NoCall /\ si'[s] = Connected(si[s], call[s].to)
<1>1. TypeInv /\ CallOf(s)
  BY DEF Inv
<1>2. /\ At(s, "connected") /\ Return(s)
      /\ UNCHANGED <<sk, dir, autobindStart, autobindMutex, sending>>
      /\ si' = [si EXCEPT ![s] = Connected(si[s], call[s].to)]
  BY <1>1 DEF ConnectedStream, TypeInv
<1>3. call[s].to \in Names
  BY <1>1, <1>2 DEF CallOf
<1>4. Connected(si[s], call[s].to) \in Infos
  BY <1>1, <1>3, Fields, ConnectedType
<1>5. /\ si' \in [Socks -> Infos] /\ si'[s] = Connected(si[s], call[s].to)
      /\ \A t \in Socks \ {s} : si'[t] = si[t]
  BY <1>1, <1>2, <1>4 DEF TypeInv
<1>6. TypeInv' /\ Only(s)
  BY <1>1, <1>2, <1>5, TypeReturn DEF TypeInv, Only
<1> QED BY <1>1, <1>2, <1>3, <1>5, <1>6, TypeReturn

\* One more entry in a queue that has room, and one less.
LEMMA Enqueue ==
  ASSUME TypeInv, NEW q \in Socks, NEW e \in Entries, Len(sk[q].queue) < Backlog
  PROVE  /\ [sk[q] EXCEPT !.queue = Append(@, e)] \in UnixSockets
         /\ Len(Append(sk[q].queue, e)) = Len(sk[q].queue) + 1
         /\ \A i \in 1..Len(sk[q].queue) : Append(sk[q].queue, e)[i] = sk[q].queue[i]
         /\ Append(sk[q].queue, e)[Len(sk[q].queue) + 1] = e
<1>1. PICK Q \in Seq(Entries) : Q = sk[q].queue /\ Len(Q) \in Nat /\ Len(Q) < Backlog
  BY Fields
<1>2. Append(Q, e) \in Seq(Entries) /\ Len(Append(Q, e)) = Len(Q) + 1
  BY AppendProperties
<1>3. Append(Q, e) \in Queues
  BY <1>1, <1>2, SwrapSocketAssumption DEF Queues
<1>4. [sk[q] EXCEPT !.queue = Append(Q, e)] \in UnixSockets
  BY <1>3, Fields DEF UnixSockets
<1> QED BY <1>1, <1>2, <1>4, AppendProperties

LEMMA Dequeue ==
  ASSUME TypeInv, NEW q \in Socks, sk[q].queue # <<>>
  PROVE  /\ [sk[q] EXCEPT !.queue = Tail(@)] \in UnixSockets
         /\ Len(sk[q].queue) >= 1 /\ Head(sk[q].queue) = sk[q].queue[1]
         /\ sk[q].queue[1] \in Entries
         /\ Len(Tail(sk[q].queue)) = Len(sk[q].queue) - 1
         /\ \A i \in 1..Len(Tail(sk[q].queue)) : Tail(sk[q].queue)[i] = sk[q].queue[i + 1]
<1>1. PICK Q \in Seq(Entries) : Q = sk[q].queue /\ Len(Q) \in Nat /\ Len(Q) <= Backlog
                                /\ Q # <<>>
  BY Fields
<1>2. Tail(Q) \in Seq(Entries) /\ Len(Tail(Q)) = Len(Q) - 1 /\ Len(Q) >= 1
  BY <1>1, HeadTailProperties, EmptySeq
<1>3. Tail(Q) \in Queues
  BY <1>1, <1>2, SwrapSocketAssumption DEF Queues
<1>4. [sk[q] EXCEPT !.queue = Tail(Q)] \in UnixSockets
  BY <1>3, Fields DEF UnixSockets
<1>5. Head(Q) = Q[1] /\ Q[1] \in Entries
  BY <1>1, <1>2, ElementOfSeq
<1>6. \A i \in 1..Len(Tail(Q)) : Tail(Q)[i] = Q[i + 1]
  BY <1>1, HeadTailProperties
<1> QED BY <1>1, <1>2, <1>4, <1>5, <1>6

LEMMA DoConnectStream ==
  ASSUME Inv, NEW s \in Socks, ConnectStream(s)
  PROVE  /\ TypeInv' /\ At(s, "connect") /\ si[s].type = "tcp" /\ call[s].to \in Names
         /\ UNCHANGED <<si, dir, autobindMutex, sending>>
         /\ \A t \in Socks \ {s} : call'[t] = call[t]
         /\ \/ call'[s] = NoCall /\ UNCHANGED sk
            \/ \E q \in Socks \ {s} :
                 /\ q = Bound(RemotePath("tcp", call[s].to))
                 /\ sk[s].state = "new" /\ sk[q].state = "listen"
                 /\ Len(sk[q].queue) < Backlog
                 /\ sk'[s] = [sk[s] EXCEPT !.state = "connected"]
                 /\ sk'[q] = [sk[q] EXCEPT
                               !.queue = Append(@, [from |-> s, path |-> sk[s].path])]
                 /\ \A t \in Socks \ {s, q} : sk'[t] = sk[t]
                 /\ call'[s] = [call[s] EXCEPT !.pc = "connected"]
<1>1. TypeInv /\ CallOf(s)
  BY DEF Inv
<1>2. /\ At(s, "connect") /\ si[s].type = "tcp"
      /\ UNCHANGED <<si, dir, autobindStart, autobindMutex, sending>>
  BY DEF ConnectStream
<1>3. call[s].to \in Names
  BY <1>1, <1>2 DEF CallOf, Going, At
<1> DEFINE q == Bound(RemotePath("tcp", call[s].to))
           ok == /\ q \in Socks /\ sk[s].state = "new" /\ sk[q].state = "listen"
                 /\ Len(sk[q].queue) < Backlog
<1>4. CASE ~ok
  <2>1. Return(s) /\ UNCHANGED sk
    BY <1>4 DEF ConnectStream
  <2> QED BY <1>1, <1>2, <1>3, <2>1, TypeReturn DEF TypeInv
<1>5. CASE ok
  <2>1. /\ sk' = [sk EXCEPT ![s].state = "connected",
                            ![q].queue = Append(@, [from |-> s, path |-> sk[s].path])]
        /\ Goto(s, "connected")
    BY <1>5 DEF ConnectStream
  <2> HIDE DEF q
  <2>2. q \in Socks \ {s}
    BY <1>5
  <2>3. [from |-> s, path |-> sk[s].path] \in Entries
    BY <1>1, Fields DEF Entries, UnixSockets
  <2>4. /\ [sk[s] EXCEPT !.state = "connected"] \in UnixSockets
        /\ [sk[q] EXCEPT !.queue = Append(@, [from |-> s, path |-> sk[s].path])]
             \in UnixSockets
    BY <1>1, <1>5, <2>2, <2>3, Enqueue, Fields DEF UnixSockets
  <2>5. /\ sk' \in [Socks -> UnixSockets] /\ \A t \in Socks \ {s, q} : sk'[t] = sk[t]
        /\ sk'[s] = [sk[s] EXCEPT !.state = "connected"]
        /\ sk'[q] = [sk[q] EXCEPT
                      !.queue = Append(@, [from |-> s, path |-> sk[s].path])]
    BY <1>1, <2>1, <2>2, <2>4 DEF TypeInv
  <2>6. /\ call' \in [Socks -> Calls] /\ \A t \in Socks \ {s} : call'[t] = call[t]
        /\ call'[s] = [call[s] EXCEPT !.pc = "connected"]
    BY <1>1, <2>1, TypeGoto DEF Labels
  <2>7. TypeInv'
    BY <1>1, <1>2, <2>5, <2>6 DEF TypeInv
  <2> QED BY <1>2, <1>3, <1>5, <2>2, <2>5, <2>6, <2>7 DEF q
<1> QED BY <1>4, <1>5

\* c is the socket of connection e, the first that waited at s.
Accepts(s, c, e) ==
  /\ sk[s].state = "listen" /\ sk[s].queue # <<>> /\ ~Open(c) /\ At(c, "idle")
  /\ UNCHANGED <<dir, autobindMutex, call, sending>>
  /\ e = sk[s].queue[1] /\ e.from \notin {s, c}
  /\ e.from \in Socks =>
       Sender(s, e.from, e.path) /\ sk'[e.from] = [sk[e.from] EXCEPT !.peer = c]
  /\ sk'[s] = [sk[s] EXCEPT !.queue = Tail(@)]
  /\ sk'[c] = [NoSocket EXCEPT !.state = "connected", !.path = sk[s].path,
                               !.peer = e.from]
  /\ \A t \in Socks \ {s, c, e.from} : sk'[t] = sk[t]
  /\ si'[c] = [NoInfo EXCEPT !.type = si[s].type, !.bound = TRUE,
                             !.isServer = TRUE, !.connected = TRUE,
                             !.peername = NameOf(e.path),
                             !.myname = NameOf(sk[s].path)]
  /\ \A t \in Socks \ {c} : si'[t] = si[t]

LEMMA DoAcceptFrom ==
  ASSUME Inv, NEW s \in Socks, NEW c \in Socks, AcceptFrom(s, c)
  PROVE  TypeInv' /\ \E e \in Entries : Accepts(s, c, e)
<1>1. TypeInv /\ SocketOf(s) /\ SocketOf(c) /\ QueueOf(s)
  BY DEF Inv
<1>2. /\ sk[s].state = "listen" /\ sk[s].queue # <<>> /\ ~Open(c) /\ At(c, "idle")
      /\ UNCHANGED <<dir, autobindStart, autobindMutex, call, sending>>
  BY DEF AcceptFrom
<1>3. PICK e \in Entries : e = sk[s].queue[1] /\ e = Head(sk[s].queue)
  BY <1>1, <1>2, Dequeue
<1>4. e.from \in Socks => Sender(s, e.from, e.path)
  BY <1>1, <1>2, <1>3, Dequeue, Fields DEF QueueOf
<1>5. e.from \notin {s, c} /\ s # c /\ si[s].type = "tcp"
  BY <1>1, <1>2, <1>4 DEF Sender, SocketOf, Open
<1> DEFINE new == [NoSocket EXCEPT !.state = "connected", !.path = sk[s].path,
                                   !.peer = e.from]
           info == [NoInfo EXCEPT !.type = si[s].type, !.bound = TRUE,
                                  !.isServer = TRUE, !.connected = TRUE,
                                  !.peername = NameOf(e.path),
                                  !.myname = NameOf(sk[s].path)]
<1>6. /\ sk' = [t \in Socks |->
                  CASE t = s -> [sk[t] EXCEPT !.queue = Tail(@)]
                    [] t = c -> new
                    [] t = e.from -> [sk[t] EXCEPT !.peer = c]
                    [] OTHER -> sk[t]]
      /\ si' = [si EXCEPT ![c] = info]
  BY <1>3 DEF AcceptFrom
<1>7. /\ e.from \in Socks \cup {Dead} /\ e.path \in Paths \cup {None}
      /\ sk[s].path \in Paths \cup {None}
  BY <1>1, Fields DEF Entries, UnixSockets
<1>8. new \in UnixSockets
  BY <1>7, Records DEF UnixSockets, NoSocket
<1>9. NameOf(e.path) \in Names \cup {None} /\ NameOf(sk[s].path) \in Names \cup {None}
  <2>1. NameOf(None) = None
    BY DEF NameOf
  <2> QED BY <1>7, <2>1, PathParts
<1>10. info \in Infos
  BY <1>1, <1>9, Records, Fields DEF Infos, NoInfo
<1> HIDE DEF new, info
<1>11. [sk[s] EXCEPT !.queue = Tail(@)] \in UnixSockets
  BY <1>1, <1>2, Dequeue
<1>12. ASSUME NEW t \in Socks
       PROVE  /\ sk'[t] \in UnixSockets
              /\ t = s => sk'[t] = [sk[s] EXCEPT !.queue = Tail(@)]
              /\ t = c => sk'[t] = new
              /\ t = e.from => sk'[t] = [sk[t] EXCEPT !.peer = c]
              /\ t \notin {s, c, e.from} => sk'[t] = sk[t]
  <2>1. sk[t] \in UnixSockets /\ [sk[t] EXCEPT !.peer = c] \in UnixSockets
    BY <1>1, Fields DEF UnixSockets
  <2> QED BY <1>5, <1>6, <1>8, <1>11, <2>1
<1>13. sk' \in [Socks -> UnixSockets]
  BY <1>6, <1>12
<1>14. /\ si' \in [Socks -> Infos] /\ si'[c] = info
       /\ \A t \in Socks \ {c} : si'[t] = si[t]
  BY <1>1, <1>6, <1>10 DEF TypeInv
<1>15. TypeInv'
  BY <1>1, <1>2, <1>13, <1>14 DEF TypeInv
<1>16. Accepts(s, c, e)
  BY <1>2, <1>3, <1>4, <1>5, <1>12, <1>14 DEF Accepts, new, info
<1> QED BY <1>15, <1>16

LEMMA RepeerType ==
  ASSUME NEW sock \in UnixSockets, NEW q \in Socks \cup {None}
  PROVE  /\ Repeer(sock, q) \in UnixSockets
         /\ Repeer(sock, q).state = sock.state /\ Repeer(sock, q).path = sock.path
         /\ Repeer(sock, q).peer = q
         /\ Repeer(sock, q).queue \in {sock.queue, <<>>}
<1>1. <<>> \in Queues
  BY Records DEF NoSocket, UnixSockets
<1> QED BY <1>1 DEF Repeer, UnixSockets

LEMMA DoSendBefore ==
  ASSUME Inv, NEW s \in Socks, SendBefore(s)
  PROVE  /\ TypeInv' /\ Only(s) /\ At(s, "send") /\ call'[s] = NoCall
         /\ UNCHANGED <<dir, autobindMutex>>
         /\ \/ UNCHANGED <<si, sk, sending>>
            \/ /\ si'[s] = [si[s] EXCEPT !.deferConnect = FALSE]
               /\ sending'[s].active
               /\ sending'[s].path \in Paths => sending'[s].path.type = "udp"
               /\ IF si[s].deferConnect
                    THEN \E q \in Socks :
                           /\ q = Bound(RemotePath("udp", si[s].peername))
                           /\ sk'[s] = Repeer(sk[s], q)
                    ELSE sk'[s] = sk[s]
<1> DEFINE to == call[s].to
           q == Bound(RemotePath("udp", si[s].peername))
           due == si[s].deferConnect
           refused == due /\ ~(q \in Socks /\ Takes(q, s))
           p == IF to = None THEN None ELSE RemotePath("udp", to)
           b == IF to # None /\ IsBroadcast("udp", to) THEN to.port ELSE 0
<1>1. TypeInv /\ CallOf(s)
  BY DEF Inv
<1>2. At(s, "send") /\ Return(s) /\ UNCHANGED <<dir, autobindStart, autobindMutex>>
  BY DEF SendBefore
<1>3. CASE refused
  <2>1. UNCHANGED <<si, sk, sending>>
    BY <1>3 DEF SendBefore
  <2>2. TypeInv' /\ Only(s)
    BY <1>1, <1>2, <2>1, TypeReturn DEF TypeInv, Only
  <2> QED BY <1>1, <1>2, <2>1, <2>2, TypeReturn
<1>4. CASE ~refused
  <2>1. /\ sk' = IF due THEN [sk EXCEPT ![s] = Repeer(@, q)] ELSE sk
        /\ si' = [si EXCEPT ![s].deferConnect = FALSE]
        /\ sending' = [sending EXCEPT ![s] = [active |-> TRUE, path |-> p, bcast |-> b]]
    BY <1>4 DEF SendBefore
  <2>2. due => q \in Socks
    BY <1>4
  <2>3. /\ p \in Remotes \cup {None}
        /\ p \in Paths => p.type = "udp"
    <3>1. to \in Names \cup {None}
      BY <1>1, Fields DEF Calls
    <3>2. "udp" \in Types
      BY DEF Types
    <3> QED BY <3>1, <3>2, RemoteType, Consts
  <2>4. b \in Ports \cup {0}
    <3>1. to \in Names \cup {None}
      BY <1>1, Fields DEF Calls
    <3> QED BY <3>1, NameParts
  <2>5. due <=> si[s].deferConnect
    OBVIOUS
  <2> HIDE DEF p, b, due, q
  <2>6. [active |-> TRUE, path |-> p, bcast |-> b] \in Sendings
    BY <2>3, <2>4 DEF Sendings
  <2>7. [si[s] EXCEPT !.deferConnect = FALSE] \in Infos
    BY <1>1, Fields DEF Infos
  <2>8. due => Repeer(sk[s], q) \in UnixSockets
    BY <1>1, <2>2, Fields, RepeerType
  <2>9. /\ si' \in [Socks -> Infos] /\ sk' \in [Socks -> UnixSockets]
        /\ sending' \in [Socks -> Sendings]
        /\ si'[s] = [si[s] EXCEPT !.deferConnect = FALSE]
        /\ sk'[s] = IF due THEN Repeer(sk[s], q) ELSE sk[s]
        /\ sending'[s] = [active |-> TRUE, path |-> p, bcast |-> b]
        /\ \A t \in Socks \ {s} : si'[t] = si[t] /\ sk'[t] = sk[t]
                                  /\ sending'[t] = sending[t]
    BY <1>1, <2>1, <2>6, <2>7, <2>8 DEF TypeInv
  <2>10. TypeInv' /\ Only(s)
    BY <1>1, <1>2, <2>9, TypeReturn DEF TypeInv, Only
  <2>11. IF si[s].deferConnect
           THEN \E r \in Socks : r = Bound(RemotePath("udp", si[s].peername))
                                 /\ sk'[s] = Repeer(sk[s], r)
           ELSE sk'[s] = sk[s]
    BY <2>2, <2>5, <2>9 DEF q
  <2>12. sending'[s].active /\ (sending'[s].path \in Paths => sending'[s].path.type = "udp")
    BY <2>3, <2>9
  <2> QED BY <1>1, <1>2, <2>9, <2>10, <2>11, <2>12, TypeReturn
<1> QED BY <1>3, <1>4

LEMMA DatagramType ==
  ASSUME TypeInv, NEW s \in Socks
  PROVE  Datagram(s) \in Entries /\ Datagram(s).from = s /\ Datagram(s).path = sk[s].path
BY Fields DEF Datagram, Entries, UnixSockets

LEMMA DoLibcSendto ==
  ASSUME Inv, NEW s \in Socks, LibcSendto(s)
  PROVE  /\ TypeInv' /\ At(s, "idle") /\ sending[s].active /\ sending'[s] = NotSending
         /\ \A t \in Socks \ {s} : sending'[t] = sending[t]
         /\ UNCHANGED <<si, dir, autobindMutex, call>>
         /\ \/ UNCHANGED sk
            \/ \E q \in Socks :
                 /\ q = IF si[s].connected THEN sk[s].peer ELSE Bound(sending[s].path)
                 /\ Len(sk[q].queue) < Backlog
                 /\ sk'[q] = [sk[q] EXCEPT !.queue = Append(@, Datagram(s))]
                 /\ \A t \in Socks \ {q} : sk'[t] = sk[t]
            \/ /\ sk'[s] = Repeer(sk[s], None)
               /\ \A t \in Socks \ {s} : sk'[t] = sk[t]
<1>1. TypeInv
  BY DEF Inv
<1>2. /\ At(s, "idle") /\ sending[s].active
      /\ sending' = [sending EXCEPT ![s] = NotSending]
      /\ UNCHANGED <<si, dir, autobindStart, autobindMutex, call>>
  BY DEF LibcSendto
<1>3. /\ sending' \in [Socks -> Sendings] /\ sending'[s] = NotSending
      /\ \A t \in Socks \ {s} : sending'[t] = sending[t]
  BY <1>1, <1>2, Records DEF TypeInv
<1> DEFINE q == IF si[s].connected THEN sk[s].peer ELSE Bound(sending[s].path)
           ok == q \in Socks /\ Takes(q, s) /\ Len(sk[q].queue) < Backlog
           dead == q \notin Socks /\ si[s].connected /\ q = Dead
<1>4. CASE ok
  <2>1. sk' = [sk EXCEPT ![q].queue = Append(@, Datagram(s))]
    BY <1>4 DEF LibcSendto
  <2>2. q \in Socks /\ Len(sk[q].queue) < Backlog
    BY <1>4
  <2>3. PICK r \in Socks : r = q
    BY <2>2
  <2> HIDE DEF q
  <2>4. [sk[r] EXCEPT !.queue = Append(@, Datagram(s))] \in UnixSockets
    BY <1>1, <2>2, <2>3, Enqueue, DatagramType
  <2>5. /\ sk' \in [Socks -> UnixSockets] /\ \A t \in Socks \ {r} : sk'[t] = sk[t]
        /\ sk'[r] = [sk[r] EXCEPT !.queue = Append(@, Datagram(s))]
    BY <1>1, <2>1, <2>3, <2>4 DEF TypeInv
  <2>6. TypeInv'
    BY <1>1, <1>2, <1>3, <2>5 DEF TypeInv
  <2> QED BY <1>2, <1>3, <2>2, <2>3, <2>5, <2>6 DEF q
<1>5. CASE dead
  <2>1. sk' = [sk EXCEPT ![s] = Repeer(@, None)]
    BY <1>5 DEF LibcSendto
  <2>2. Repeer(sk[s], None) \in UnixSockets
    BY <1>1, Fields, RepeerType
  <2>3. /\ sk' \in [Socks -> UnixSockets] /\ \A t \in Socks \ {s} : sk'[t] = sk[t]
        /\ sk'[s] = Repeer(sk[s], None)
    BY <1>1, <2>1, <2>2 DEF TypeInv
  <2>4. TypeInv'
    BY <1>1, <1>2, <1>3, <2>3 DEF TypeInv
  <2> QED BY <1>2, <1>3, <2>3, <2>4
<1>6. CASE ~ok /\ ~dead
  <2>1. UNCHANGED sk
    BY <1>6 DEF LibcSendto
  <2>2. TypeInv'
    BY <1>1, <1>2, <1>3, <2>1 DEF TypeInv
  <2> QED BY <1>2, <1>3, <2>1, <2>2
<1> QED BY <1>4, <1>5, <1>6

LEMMA DoSendBroadcast ==
  ASSUME Inv, NEW s \in Socks, SendBroadcast(s)
  PROVE  /\ TypeInv' /\ sending[s].active /\ sending'[s] = NotSending
         /\ \A t \in Socks \ {s} : sending'[t] = sending[t]
         /\ UNCHANGED <<si, dir, autobindMutex, call>>
         /\ \A q \in Socks :
              \/ sk'[q] = sk[q]
              \/ /\ \E p \in Paths : p.type = "udp" /\ dir[p] = q
                 /\ Len(sk[q].queue) < Backlog
                 /\ sk'[q] = [sk[q] EXCEPT !.queue = Append(@, Datagram(s))]
<1>1. TypeInv
  BY DEF Inv
<1>2. /\ sending[s].active /\ sending[s].bcast # 0
      /\ sending' = [sending EXCEPT ![s] = NotSending]
      /\ UNCHANGED <<si, dir, autobindStart, autobindMutex, call>>
  BY DEF SendBroadcast
<1>3. /\ sending' \in [Socks -> Sendings] /\ sending'[s] = NotSending
      /\ \A t \in Socks \ {s} : sending'[t] = sending[t]
  BY <1>1, <1>2, Records DEF TypeInv
<1> DEFINE reached == {q \in Socks : \E i \in Ifaces :
                         /\ dir[Path("udp", i, sending[s].bcast)] = q
                         /\ Takes(q, s) /\ Len(sk[q].queue) < Backlog}
<1>4. sk' = [q \in Socks |-> IF q \in reached
                               THEN [sk[q] EXCEPT !.queue = Append(@, Datagram(s))]
                               ELSE sk[q]]
  BY DEF SendBroadcast
<1>5. ASSUME NEW q \in reached
      PROVE  q \in Socks /\ Len(sk[q].queue) < Backlog
             /\ \E p \in Paths : p.type = "udp" /\ dir[p] = q
  <2>1. PICK i \in Ifaces : dir[Path("udp", i, sending[s].bcast)] = q
    OBVIOUS
  <2>2. sending[s].bcast \in Ports
    BY <1>1, <1>2, Fields DEF Sendings
  <2>3. /\ Path("udp", i, sending[s].bcast) \in Paths
        /\ Path("udp", i, sending[s].bcast).type = "udp"
    BY <2>2, PathType DEF Types
  <2> QED BY <2>1, <2>3
<1> HIDE DEF reached
<1>6. ASSUME NEW q \in Socks
      PROVE  /\ sk'[q] \in UnixSockets
             /\ q \in reached => sk'[q] = [sk[q] EXCEPT !.queue = Append(@, Datagram(s))]
             /\ q \notin reached => sk'[q] = sk[q]
  <2>1. CASE q \in reached
    BY <1>1, <1>4, <1>5, <2>1, Enqueue, DatagramType
  <2>2. CASE q \notin reached
    BY <1>1, <1>4, <2>2, Fields
  <2> QED BY <2>1, <2>2
<1>7. sk' \in [Socks -> UnixSockets]
  BY <1>4, <1>6
<1>8. TypeInv'
  BY <1>1, <1>2, <1>3, <1>7 DEF TypeInv
<1> QED BY <1>2, <1>3, <1>5, <1>6, <1>8

LEMMA DoLibcRecvfrom ==
  ASSUME Inv, NEW s \in Socks, LibcRecvfrom(s)
  PROVE  /\ TypeInv' /\ Only(s) /\ sk[s].queue # <<>> /\ Open(s) /\ si[s].type = "udp"
         /\ UNCHANGED <<si, dir, autobindMutex, call, sending>>
         /\ sk'[s] = [sk[s] EXCEPT !.queue = Tail(@)]
<1>1. TypeInv
  BY DEF Inv
<1>2. /\ sk[s].queue # <<>> /\ Open(s) /\ si[s].type = "udp"
      /\ sk' = [sk EXCEPT ![s].queue = Tail(@)]
      /\ UNCHANGED <<si, dir, autobindStart, autobindMutex, call, sending>>
  BY DEF LibcRecvfrom
<1>3. [sk[s] EXCEPT !.queue = Tail(@)] \in UnixSockets
  BY <1>1, <1>2, Dequeue
<1>4. /\ sk' \in [Socks -> UnixSockets] /\ \A t \in Socks \ {s} : sk'[t] = sk[t]
      /\ sk'[s] = [sk[s] EXCEPT !.queue = Tail(@)]
  BY <1>1, <1>2, <1>3 DEF TypeInv
<1>5. TypeInv' /\ Only(s)
  BY <1>1, <1>2, <1>4 DEF TypeInv, Only
<1> QED BY <1>2, <1>4, <1>5

\* A queue whose entries of s are forgotten.
LEMMA ForgetQueue ==
  ASSUME TypeInv, NEW s \in Socks, NEW Q \in Queues,
         NEW R, R = [i \in DOMAIN Q |-> ForgetSource(Q[i], s)]
  PROVE  /\ R \in Queues /\ Len(R) = Len(Q)
         /\ \A i \in 1..Len(Q) : R[i].from # s /\ (R[i].from \in Socks => R[i] = Q[i])
<1>1. Q \in Seq(Entries) /\ Len(Q) \in Nat /\ DOMAIN Q = 1..Len(Q) /\ Len(Q) <= Backlog
  BY LenProperties DEF Queues
<1>2. ASSUME NEW i \in 1..Len(Q)
      PROVE  /\ R[i] \in Entries /\ R[i].from # s
             /\ R[i].from \in Socks => R[i] = Q[i]
  <2>1. PICK e \in Entries : e = Q[i]
    BY <1>1, ElementOfSeq
  <2>2. R[i] = ForgetSource(e, s)
    BY <1>1, <2>1
  <2>3. ForgetSource(e, s) \in Entries
    BY DEF ForgetSource, Entries
  <2>4. ForgetSource(e, s).from # s
        /\ (ForgetSource(e, s).from \in Socks => ForgetSource(e, s) = e)
    BY Consts DEF ForgetSource
  <2> QED BY <2>1, <2>2, <2>3, <2>4
<1>3. R \in [1..Len(Q) -> Entries]
  BY <1>1, <1>2
<1>4. R \in Seq(Entries)
  BY <1>1, <1>3, SeqDef
<1>5. Len(R) = Len(Q)
  <2>1. DOMAIN R = 1..Len(R) /\ Len(R) \in Nat
    BY <1>4, LenProperties
  <2> QED BY <1>1, <2>1
<1> QED BY <1>1, <1>2, <1>4, <1>5 DEF Queues

LEMMA DoCallClose ==
  ASSUME Inv, NEW s \in Socks, CallClose(s)
  PROVE  /\ TypeInv' /\ Open(s) /\ At(s, "idle") /\ ~sending[s].active
         /\ UNCHANGED <<si, autobindMutex, sending>>
         /\ call'[s] = [call[s] EXCEPT !.pc = "unlinkLast"]
         /\ \A t \in Socks \ {s} : call'[t] = call[t]
         /\ \A p \in Paths : dir'[p] = IF dir[p] = s THEN Dead ELSE dir[p]
         /\ sk'[s] = NoSocket
         /\ \A t \in Socks \ {s} :
              /\ sk'[t].state = sk[t].state /\ sk'[t].path = sk[t].path
              /\ sk'[t].peer = IF sk[t].peer = s THEN Dead ELSE sk[t].peer
              /\ Len(sk'[t].queue) = Len(sk[t].queue)
              /\ \A i \in 1..Len(sk[t].queue) :
                   /\ sk'[t].queue[i].from # s
                   /\ sk'[t].queue[i].from \in Socks => sk'[t].queue[i] = sk[t].queue[i]
<1>1. TypeInv
  BY DEF Inv
<1>2. /\ Open(s) /\ At(s, "idle") /\ ~sending[s].active
      /\ UNCHANGED <<si, autobindStart, autobindMutex, sending>>
      /\ dir' = [p \in Paths |-> Forget(dir[p], s)]
      /\ Goto(s, "unlinkLast")
  BY DEF CallClose, Ready
<1>3. /\ call' \in [Socks -> Calls] /\ \A t \in Socks \ {s} : call'[t] = call[t]
      /\ call'[s] = [call[s] EXCEPT !.pc = "unlinkLast"]
  BY <1>1, <1>2, TypeGoto DEF Labels
<1>4. /\ dir' \in [Paths -> Socks \cup {None, Dead}]
      /\ \A p \in Paths : dir'[p] = IF dir[p] = s THEN Dead ELSE dir[p]
  BY <1>1, <1>2 DEF TypeInv, Forget
<1>5. /\ sk' = [t \in Socks |->
                  IF t = s THEN NoSocket
                  ELSE [sk[t] EXCEPT
                          !.peer = Forget(@, s),
                          !.queue = [i \in DOMAIN @ |-> ForgetSource(@[i], s)]]]
  BY DEF CallClose
<1>6. sk'[s] = NoSocket
  BY <1>5
<1>7. ASSUME NEW t \in Socks \ {s}
      PROVE  /\ sk'[t] \in UnixSockets
             /\ sk'[t].state = sk[t].state /\ sk'[t].path = sk[t].path
             /\ sk'[t].peer = IF sk[t].peer = s THEN Dead ELSE sk[t].peer
             /\ Len(sk'[t].queue) = Len(sk[t].queue)
             /\ \A i \in 1..Len(sk[t].queue) :
                  /\ sk'[t].queue[i].from # s
                  /\ sk'[t].queue[i].from \in Socks => sk'[t].queue[i] = sk[t].queue[i]
  <2>1. PICK sock \in UnixSockets : sock = sk[t]
    BY <1>1, Fields
  <2>2. PICK Q \in Queues : Q = sock.queue
    BY DEF UnixSockets
  <2>0. PICK R : R = [i \in DOMAIN Q |-> ForgetSource(Q[i], s)]
    OBVIOUS
  <2>3. sk'[t] = [sock EXCEPT !.peer = Forget(@, s), !.queue = R]
    BY <1>5, <2>0, <2>1, <2>2
  <2>4. /\ R \in Queues /\ Len(R) = Len(Q)
        /\ \A i \in 1..Len(Q) : R[i].from # s /\ (R[i].from \in Socks => R[i] = Q[i])
    BY <1>1, <2>0, ForgetQueue
  <2>5. sk'[t] \in UnixSockets /\ sk'[t].queue = R
    BY <2>3, <2>4 DEF UnixSockets, Forget
  <2>6. /\ sk'[t].state = sock.state /\ sk'[t].path = sock.path
        /\ sk'[t].peer = IF sock.peer = s THEN Dead ELSE sock.peer
    BY <2>3 DEF UnixSockets, Forget
  <2> QED BY <2>1, <2>2, <2>4, <2>5, <2>6
<1>8. sk' \in [Socks -> UnixSockets]
  BY <1>5, <1>6, <1>7, Records
<1>9. TypeInv'
  BY <1>1, <1>2, <1>3, <1>4, <1>8 DEF TypeInv
<1> QED BY <1>2, <1>3, <1>4, <1>6, <1>7, <1>9

LEMMA DoUnlinkLast ==
  ASSUME Inv, NEW s \in Socks, UnlinkLast(s)
  PROVE  /\ TypeInv' /\ Only(s) /\ At(s, "unlinkLast") /\ call'[s] = NoCall
         /\ UNCHANGED <<sk, autobindMutex, sending>>
         /\ si'[s] = NoInfo
         /\ dir' = IF si[s].unAddr = None THEN dir
                   ELSE [dir EXCEPT ![si[s].unAddr] = None]
<1>1. TypeInv
  BY DEF Inv
<1>2. /\ At(s, "unlinkLast") /\ Return(s)
      /\ UNCHANGED <<sk, autobindStart, autobindMutex, sending>>
      /\ si' = [si EXCEPT ![s] = NoInfo]
      /\ dir' = IF si[s].unAddr = None THEN dir
                ELSE [dir EXCEPT ![si[s].unAddr] = None]
  BY DEF UnlinkLast
<1>3. /\ si' \in [Socks -> Infos] /\ si'[s] = NoInfo
      /\ \A t \in Socks \ {s} : si'[t] = si[t]
  BY <1>1, <1>2, Records DEF TypeInv
<1>4. dir' \in [Paths -> Socks \cup {None, Dead}]
  BY <1>1, <1>2 DEF TypeInv
<1>5. TypeInv' /\ Only(s)
  BY <1>1, <1>2, <1>3, <1>4, TypeReturn DEF TypeInv, Only
<1> QED BY <1>1, <1>2, <1>3, <1>5, TypeReturn

-----------------------------------------------------------------------------
(* What a step leaves true of the sockets it does not work on *)

\* A socket that has a path keeps what others may know of it.
Kept(t) ==
  sk[t].path # None =>
    /\ sk'[t].path = sk[t].path
    /\ si'[t].type = si[t].type /\ si'[t].isServer = si[t].isServer
    /\ sk[t].state = "connected" => sk'[t].state = "connected"

LEMMA CallStays ==
  ASSUME NEW t \in Socks, CallOf(t), si'[t] = si[t], call'[t] = call[t],
         sk'[t].state = sk[t].state, sending'[t] = sending[t],
         autobindMutex' = t <=> autobindMutex = t
  PROVE  CallOf(t)'
BY DEF CallOf, Going, At

LEMMA SocketStays ==
  ASSUME NEW t \in Socks, SocketOf(t), si'[t] = si[t], call'[t] = call[t],
         sending'[t].active => sending[t].active,
         \/ sk'[t] = sk[t]
         \/ /\ Open(t) /\ sk'[t].state = sk[t].state /\ sk'[t].path = sk[t].path
            /\ sk'[t].queue # <<>> /\ si[t].type = "tcp" => sk[t].state = "listen"
  PROVE  SocketOf(t)'
<1>1. Open(t)' = Open(t) /\ sk'[t].state = sk[t].state /\ sk'[t].path = sk[t].path
  BY DEF Open
<1>2. \A label : At(t, label)' = At(t, label)
  BY DEF At
<1>3. ~Open(t) => sk'[t] = NoSocket /\ ~sending'[t].active
  BY DEF SocketOf
<1>4. sk'[t].queue # <<>> /\ si[t].type = "tcp" => sk[t].state = "listen"
  BY DEF SocketOf
<1> QED BY <1>1, <1>2, <1>3, <1>4 DEF SocketOf

LEMMA PeerStays ==
  ASSUME NEW t \in Socks, PeerOf(t),
         sk'[t].peer \in Socks =>
           /\ sk'[t].peer = sk[t].peer /\ Kept(sk[t].peer)
           /\ si'[t].type = si[t].type
           /\ si'[t].deferConnect \/ /\ ~si[t].deferConnect
                                     /\ si'[t].peername = si[t].peername
  PROVE  PeerOf(t)'
BY DEF PeerOf, Kept

LEMMA SenderStays ==
  ASSUME NEW q \in Socks, NEW t \in Socks, NEW p, Sender(q, t, p), Kept(t),
         si'[q].type = si[q].type
  PROVE  Sender(q, t, p)'
BY DEF Sender, Kept

\* Every entry of the new queue was in the old one.
LEMMA QueueStays ==
  ASSUME NEW q \in Socks, QueueOf(q),
         \A i \in 1..Len(sk'[q].queue) :
           sk'[q].queue[i].from \in Socks =>
             /\ si'[q].type = si[q].type /\ Kept(sk'[q].queue[i].from)
             /\ \E j \in 1..Len(sk[q].queue) : sk'[q].queue[i] = sk[q].queue[j]
  PROVE  QueueOf(q)'
<1> SUFFICES ASSUME NEW i \in 1..Len(sk'[q].queue), NEW t \in Socks, NEW p,
                    t = sk'[q].queue[i].from, p = sk'[q].queue[i].path
             PROVE  Sender(q, t, p)'
  BY DEF QueueOf, Sender
<1>1. PICK j \in 1..Len(sk[q].queue) : sk'[q].queue[i] = sk[q].queue[j]
  OBVIOUS
<1>2. Sender(q, t, p) /\ Kept(t) /\ si'[q].type = si[q].type
  BY <1>1 DEF QueueOf
<1> QED BY <1>2, SenderStays

LEMMA PathsStay ==
  ASSUME TypeInv, TypeInv', dir' = dir, \A p \in Paths : PathOf(p),
         \A t \in Socks : Kept(t) /\ (si[t].unAddr # None => si'[t].unAddr = si[t].unAddr)
  PROVE  \A p \in Paths : PathOf(p)'
<1> SUFFICES ASSUME NEW p \in Paths PROVE PathOf(p)'
  OBVIOUS
<1>1. dir[p] \in Socks => sk'[dir[p]].path = p
  BY Consts DEF PathOf, Kept
<1>2. dir[p] # None => BindPort(p.port) \/ \E t \in Socks : si'[t].unAddr = p
  BY Consts DEF PathOf
<1> QED BY <1>1, <1>2 DEF PathOf

\* The others of a step of s do not get or lose autobind_start_mutex.
MutexKept(s) ==
  \A t \in Socks \ {s} : autobindMutex' = t <=> autobindMutex = t

\* A step that works on s alone.
LEMMA Local ==
  ASSUME Inv, TypeInv', NEW s \in Socks, Only(s), Kept(s), MutexKept(s),
         CallOf(s)', SocketOf(s)', PeerOf(s)', QueueOf(s)',
         \A p \in Paths : PathOf(p)'
  PROVE  Inv'
<1>1. \A t \in Socks : Kept(t)
  BY DEF Only, Kept
<1>2. ASSUME NEW t \in Socks \ {s}
      PROVE  CallOf(t)' /\ SocketOf(t)' /\ PeerOf(t)' /\ QueueOf(t)'
  <2>1. CallOf(t) /\ SocketOf(t) /\ PeerOf(t) /\ QueueOf(t) /\ TypeInv
    BY DEF Inv
  <2>2. si'[t] = si[t] /\ sk'[t] = sk[t] /\ call'[t] = call[t] /\ sending'[t] = sending[t]
    BY DEF Only
  <2>3. CallOf(t)'
    BY <2>1, <2>2, CallStays DEF MutexKept
  <2>4. SocketOf(t)'
    BY <2>1, <2>2, SocketStays
  <2>5. PeerOf(t)'
    BY <1>1, <2>1, <2>2, PeerStays
  <2>6. QueueOf(t)'
    BY <1>1, <2>1, <2>2, QueueStays
  <2> QED BY <2>3, <2>4, <2>5, <2>6
<1> QED BY <1>2 DEF Inv

\* And leaves its unix socket, the directory and its path alone.
LEMMA Quiet ==
  ASSUME Inv, TypeInv', NEW s \in Socks, Only(s), sk'[s] = sk[s], dir' = dir,
         \A t \in Socks \ {s} : autobindMutex' = t <=> autobindMutex = t,
         si'[s].type = si[s].type, si'[s].isServer = si[s].isServer,
         si'[s].unAddr = si[s].unAddr,
         si'[s].deferConnect \/ /\ ~si[s].deferConnect
                                /\ si'[s].peername = si[s].peername,
         CallOf(s)', SocketOf(s)'
  PROVE  Inv'
<1>1. Kept(s)
  BY DEF Kept
<1>2. \A t \in Socks : Kept(t) /\ (si[t].unAddr # None => si'[t].unAddr = si[t].unAddr)
  BY <1>1 DEF Only, Kept
<1>3. TypeInv /\ PeerOf(s) /\ QueueOf(s) /\ \A p \in Paths : PathOf(p)
  BY DEF Inv
<1>4. PeerOf(s)'
  BY <1>2, <1>3, PeerStays
<1>5. QueueOf(s)'
  BY <1>2, <1>3, QueueStays
<1>6. \A p \in Paths : PathOf(p)'
  BY <1>2, <1>3, PathsStay
<1> QED BY <1>1, <1>4, <1>5, <1>6, Local DEF MutexKept

-----------------------------------------------------------------------------
(* The steps preserve the invariant *)

LEMMA StepStarts ==
  ASSUME Inv, NEW s \in Socks, NEW label \in {"idle", "listen", "connect", "send"},
         NEW to \in Names \cup {None}, Starts(s, label, to),
         label = "listen" => si[s].type = "tcp", label = "send" => si[s].type = "udp",
         label = "connect" => to \in Names
  PROVE  Inv'
<1>1. /\ TypeInv' /\ Only(s) /\ Open(s) /\ At(s, "idle")
      /\ UNCHANGED <<si, sk, dir, autobindMutex, sending>>
      /\ call'[s] = [pc |-> IF si[s].bound THEN label ELSE "autobind",
                     then |-> label, path |-> None, to |-> to]
  BY DEF Starts
<1>2. CallOf(s) /\ SocketOf(s)
  BY DEF Inv
<1>3. CallOf(s)'
  BY <1>1, <1>2 DEF CallOf, Going, At
<1>4. SocketOf(s)'
  BY <1>1, <1>2 DEF SocketOf, Open, At
<1>5. si'[s].deferConnect \/ /\ ~si[s].deferConnect
                             /\ si'[s].peername = si[s].peername
  BY <1>1 DEF Inv, TypeInv, Infos
<1> QED BY <1>1, <1>3, <1>4, <1>5, Quiet

LEMMA StepCallListen ==
  ASSUME Inv, NEW s \in Socks, CallListen(s) PROVE Inv'
BY DoCallListen, StepStarts

LEMMA StepCallConnect ==
  ASSUME Inv, NEW s \in Socks, NEW to \in ConnectTargets, CallConnect(s, to) PROVE Inv'
BY DoCallConnect, StepStarts

LEMMA StepCallSend ==
  ASSUME Inv, NEW s \in Socks, NEW to \in SendTargets, CallSend(s, to) PROVE Inv'
BY DoCallSend, StepStarts

LEMMA StepCallRecv ==
  ASSUME Inv, NEW s \in Socks, CallRecv(s) PROVE Inv'
BY DoCallRecv, StepStarts

LEMMA StepAutobindSearch ==
  ASSUME Inv, NEW s \in Socks, AutobindSearch(s) PROVE Inv'
<1>1. /\ TypeInv' /\ Only(s) /\ At(s, "autobind") /\ autobindMutex = None
      /\ si'[s] = [si[s] EXCEPT !.myname = Name(DefaultIface, 0)]
      /\ UNCHANGED <<sk, dir, sending>>
      /\ \/ call'[s] = NoCall /\ autobindMutex' = None
         \/ \E p \in Paths :
              /\ p.type = si[s].type /\ p.iface = DefaultIface /\ p.port \in AutoPorts
              /\ dir[p] = None
              /\ call'[s] = [call[s] EXCEPT !.path = p, !.pc = "autobindBind"]
              /\ autobindMutex' = s
  BY DoAutobindSearch
<1>2. TypeInv /\ CallOf(s) /\ SocketOf(s)
  BY DEF Inv
<1>3. si[s] \in Infos /\ call[s] \in Calls /\ Name(DefaultIface, 0) \in Names
  BY <1>2, Fields, NameType, Consts
<1>9. /\ si'[s].myname = Name(DefaultIface, 0) /\ si'[s].bound = si[s].bound
      /\ si'[s].type = si[s].type /\ si'[s].isServer = si[s].isServer
      /\ si'[s].unAddr = si[s].unAddr /\ si'[s].connected = si[s].connected
      /\ si'[s].deferConnect = si[s].deferConnect /\ si'[s].peername = si[s].peername
  BY <1>1, <1>3 DEF Infos
<1>4. CallOf(s)'
  <2>1. CASE call'[s] = NoCall /\ autobindMutex' = None
    BY <1>9, <1>1, <1>2, <2>1, Consts DEF CallOf, Going, At, NoCall
  <2>2. ASSUME NEW p \in Paths,
               p.type = si[s].type, p.iface = DefaultIface, p.port \in AutoPorts,
               dir[p] = None, autobindMutex' = s,
               call'[s] = [call[s] EXCEPT !.path = p, !.pc = "autobindBind"]
        PROVE  CallOf(s)'
    <3>1. /\ call'[s].pc = "autobindBind" /\ call'[s].path = p
          /\ call'[s].then = call[s].then /\ call'[s].to = call[s].to
      BY <1>3, <2>2 DEF Calls
    <3>2. /\ ~si[s].bound /\ call[s].then \in {"idle", "listen", "connect", "send"}
          /\ call[s].then = "listen" => si[s].type = "tcp"
          /\ call[s].then = "send" => si[s].type = "udp"
          /\ call[s].then = "connect" => call[s].to \in Names
          /\ ~sending[s].active
          /\ sending[s].path \in Paths => sending[s].path.type = "udp"
      BY <1>1, <1>2 DEF CallOf, Going, At
    <3> QED BY <1>9, <1>1, <2>2, <3>1, <3>2 DEF CallOf, Going, At
  <2> QED BY <1>1, <2>1, <2>2
<1>5. call'[s].pc \in {"idle", "autobindBind"}
  <2>1. CASE call'[s] = NoCall
    BY <2>1 DEF NoCall
  <2>2. ASSUME NEW p \in Paths,
               call'[s] = [call[s] EXCEPT !.path = p, !.pc = "autobindBind"]
        PROVE  call'[s].pc = "autobindBind"
    BY <1>3, <2>2 DEF Calls
  <2> QED BY <1>1, <2>1, <2>2
<1>6. SocketOf(s)'
  <2>1. Open(s) /\ Open(s)' = Open(s) /\ ~At(s, "unlinkLast")'
    BY <1>1, <1>2, <1>5 DEF SocketOf, Open, At
  <2> QED BY <1>9, <1>1, <1>2, <1>3, <2>1 DEF SocketOf
<1>7. \A t \in Socks \ {s} : autobindMutex' = t <=> autobindMutex = t
  BY <1>1, Consts
<1>8. si'[s].deferConnect \/ ~si[s].deferConnect
  BY <1>9, <1>3 DEF Infos
<1> QED BY <1>9, <1>1, <1>4, <1>6, <1>7, <1>8, Quiet

LEMMA StepCallBind ==
  ASSUME Inv, NEW s \in Socks, NEW a \in BindNames, CallBind(s, a) PROVE Inv'
<1>1. /\ TypeInv' /\ Only(s) /\ Open(s) /\ At(s, "idle")
      /\ UNCHANGED <<sk, dir, autobindStart, autobindMutex, sending>>
      /\ \E n \in Names, b \in Names \cup {None} :
           /\ si'[s] = [si[s] EXCEPT !.myname = n, !.bindname = b]
           /\ \/ call'[s] = call[s]
              \/ \E p \in Paths :
                   /\ p.type = si[s].type /\ BindPort(p.port)
                   /\ call'[s] = [call[s] EXCEPT !.pc = "unlink", !.path = p]
  BY DoCallBind
<1>2. TypeInv /\ CallOf(s) /\ SocketOf(s)
  BY DEF Inv
<1>3. si[s] \in Infos /\ call[s] \in Calls
  BY <1>2, Fields
<1>4. PICK n \in Names, b \in Names \cup {None} :
        /\ si'[s] = [si[s] EXCEPT !.myname = n, !.bindname = b]
        /\ \/ call'[s] = call[s]
           \/ \E p \in Paths :
                /\ p.type = si[s].type /\ BindPort(p.port)
                /\ call'[s] = [call[s] EXCEPT !.pc = "unlink", !.path = p]
  BY <1>1
<1>5. CallOf(s)'
  <2>1. CASE call'[s] = call[s]
    BY <1>1, <1>2, <1>3, <1>4, <2>1 DEF CallOf, Going, At, Infos
  <2>2. ASSUME NEW p \in Paths, p.type = si[s].type, BindPort(p.port),
               call'[s] = [call[s] EXCEPT !.pc = "unlink", !.path = p]
        PROVE  CallOf(s)'
    BY <1>1, <1>2, <1>3, <1>4, <2>2 DEF CallOf, Going, At, Infos, Calls
  <2> QED BY <1>4, <2>1, <2>2
<1>6. call'[s].pc \in {"idle", "unlink"}
  BY <1>1, <1>3, <1>4 DEF Calls, At
<1>7. SocketOf(s)'
  <2>1. /\ si'[s].myname = n /\ si'[s].bound = si[s].bound
        /\ si'[s].type = si[s].type /\ si'[s].isServer = si[s].isServer
        /\ si'[s].unAddr = si[s].unAddr /\ si'[s].connected = si[s].connected
        /\ si'[s].deferConnect = si[s].deferConnect /\ si'[s].peername = si[s].peername
    BY <1>3, <1>4 DEF Infos
  <2>2. Open(s)' = Open(s) /\ ~At(s, "unlinkLast")'
    BY <1>1, <1>6 DEF Open, At
  <2> QED BY <1>1, <1>2, <1>3, <2>1, <2>2 DEF SocketOf
<1>8. \A t \in Socks \ {s} : autobindMutex' = t <=> autobindMutex = t
  BY <1>1
<1> QED BY <1>1, <1>3, <1>4, <1>5, <1>7, <1>8, Quiet DEF Infos

LEMMA StepConnectDatagram ==
  ASSUME Inv, NEW s \in Socks, ConnectDatagram(s) PROVE Inv'
<1>1. /\ TypeInv' /\ Only(s) /\ At(s, "connect") /\ si[s].type = "udp"
      /\ call[s].to \in Names /\ call'[s] = NoCall
      /\ UNCHANGED <<sk, dir, autobindMutex, sending>>
      /\ \/ si'[s] = si[s]
         \/ si'[s] = [Connected(si[s], call[s].to) EXCEPT !.deferConnect = TRUE]
  BY DoConnectDatagram
<1>2. TypeInv /\ CallOf(s) /\ SocketOf(s)
  BY DEF Inv
<1>3. si[s] \in Infos
  BY <1>2, Fields
<1>4. /\ si'[s].type = si[s].type /\ si'[s].isServer = si[s].isServer
      /\ si'[s].bound = si[s].bound /\ si'[s].unAddr = si[s].unAddr
      /\ si'[s].deferConnect => si'[s].peername \in Names
      /\ si'[s].peername \in Names \cup {None}
      /\ si'[s].myname \in Names
      /\ si'[s].deferConnect \/ /\ ~si[s].deferConnect
                                /\ si'[s].peername = si[s].peername
  BY <1>1, <1>2, <1>3 DEF Connected, Infos, SocketOf, Open, At
<1>5. CallOf(s)'
  BY <1>1, <1>2, <1>4, Consts DEF CallOf, Going, At, NoCall
<1>6. SocketOf(s)'
  BY <1>1, <1>2, <1>4 DEF SocketOf, Open, At, NoCall
<1> QED BY <1>1, <1>4, <1>5, <1>6, Quiet

LEMMA StepConnectedStream ==
  ASSUME Inv, NEW s \in Socks, ConnectedStream(s) PROVE Inv'
<1>1. /\ TypeInv' /\ Only(s) /\ At(s, "connected") /\ call[s].to \in Names
      /\ UNCHANGED <<sk, dir, autobindMutex, sending>>
      /\ call'[s] = NoCall /\ si'[s] = Connected(si[s], call[s].to)
  BY DoConnectedStream
<1>2. TypeInv /\ CallOf(s) /\ SocketOf(s) /\ PeerOf(s) /\ QueueOf(s)
      /\ \A p \in Paths : PathOf(p)
  BY DEF Inv
<1>3. si[s] \in Infos /\ si[s].type = "tcp"
  BY <1>1, <1>2, Fields DEF CallOf
<1>4. /\ si'[s].type = si[s].type /\ si'[s].isServer = si[s].isServer
      /\ si'[s].bound = si[s].bound /\ si'[s].unAddr = si[s].unAddr
      /\ si'[s].peername \in Names /\ si'[s].myname \in Names
  BY <1>1, <1>2, <1>3 DEF Connected, Infos, SocketOf, Open, At
<1>5. CallOf(s)'
  BY <1>1, <1>2, <1>4, Consts DEF CallOf, Going, At, NoCall
<1>6. SocketOf(s)'
  BY <1>1, <1>2, <1>4 DEF SocketOf, Open, At, NoCall
<1>7. \A t \in Socks : Kept(t) /\ (si[t].unAddr # None => si'[t].unAddr = si[t].unAddr)
  BY <1>1, <1>4 DEF Only, Kept
<1>8. PeerOf(s)'
  BY <1>1, <1>2, <1>3, <1>4, <1>7 DEF PeerOf, Kept
<1>9. QueueOf(s)'
  BY <1>1, <1>2, <1>4, <1>7, QueueStays
<1>10. \A p \in Paths : PathOf(p)'
  BY <1>1, <1>2, <1>7, PathsStay
<1>11. MutexKept(s)
  BY <1>1 DEF MutexKept
<1> QED BY <1>1, <1>4, <1>5, <1>6, <1>7, <1>8, <1>9, <1>10, <1>11, Local

LEMMA StepLibcListen ==
  ASSUME Inv, NEW s \in Socks, LibcListen(s) PROVE Inv'
<1>1. /\ TypeInv' /\ Only(s) /\ At(s, "listen") /\ call'[s] = NoCall
      /\ UNCHANGED <<si, dir, autobindMutex, sending>>
      /\ sk'[s] = IF sk[s].state = "new" THEN [sk[s] EXCEPT !.state = "listen"]
                  ELSE sk[s]
  BY DoLibcListen
<1>2. TypeInv /\ CallOf(s) /\ SocketOf(s) /\ PeerOf(s) /\ QueueOf(s)
      /\ \A p \in Paths : PathOf(p)
  BY DEF Inv
<1>3. si[s].type = "tcp" /\ si[s].bound /\ Open(s)
  BY <1>1, <1>2 DEF CallOf, Going, At, SocketOf
<1>4. /\ sk[s] \in UnixSockets
      /\ sk'[s].path = sk[s].path /\ sk'[s].peer = sk[s].peer
      /\ sk'[s].queue = sk[s].queue
      /\ sk'[s].state = IF sk[s].state = "new" THEN "listen" ELSE sk[s].state
  BY <1>1, <1>2, Fields DEF UnixSockets
<1>5. ~si[s].isServer \/ sk[s].state = "connected"
  BY <1>2, <1>3 DEF SocketOf, Open
<1>6. CallOf(s)'
  BY <1>1, <1>2, <1>4, Consts DEF CallOf, Going, At, NoCall
<1>7. SocketOf(s)'
  BY <1>1, <1>2, <1>3, <1>4, <1>5 DEF SocketOf, Open, At, NoCall
<1>8. \A t \in Socks : Kept(t) /\ (si[t].unAddr # None => si'[t].unAddr = si[t].unAddr)
  BY <1>1, <1>4 DEF Only, Kept
<1>9. si'[s].deferConnect \/ ~si[s].deferConnect
  BY <1>1, <1>2, Fields DEF Infos
<1>10. PeerOf(s)'
  BY <1>1, <1>2, <1>4, <1>8, <1>9, PeerStays
<1>11. QueueOf(s)'
  BY <1>1, <1>2, <1>4, <1>8, QueueStays
<1>12. \A p \in Paths : PathOf(p)'
  BY <1>1, <1>2, <1>8, PathsStay
<1>13. MutexKept(s)
  BY <1>1 DEF MutexKept
<1> QED BY <1>1, <1>6, <1>7, <1>8, <1>10, <1>11, <1>12, <1>13, Local

LEMMA StepCallSocket ==
  ASSUME Inv, NEW s \in Socks, NEW type \in Types, CallSocket(s, type) PROVE Inv'
<1>1. /\ TypeInv' /\ Only(s) /\ ~Open(s) /\ At(s, "idle")
      /\ si'[s] = [NoInfo EXCEPT !.type = type, !.myname = Unnamed]
      /\ sk'[s] = [NoSocket EXCEPT !.state = "new"]
      /\ UNCHANGED <<dir, autobindStart, autobindMutex, call, sending>>
  BY DoCallSocket
<1>2. TypeInv /\ CallOf(s) /\ SocketOf(s) /\ \A p \in Paths : PathOf(p)
  BY DEF Inv
<1>3. /\ ~sending[s].active /\ sk[s].path = None /\ si[s].unAddr = None
  BY <1>1, <1>2 DEF SocketOf, NoSocket, NoInfo
<1>4. /\ si'[s].type = type /\ ~si'[s].bound /\ ~si'[s].isServer
      /\ si'[s].unAddr = None /\ si'[s].myname = Unnamed
      /\ ~si'[s].deferConnect /\ ~si'[s].connected
      /\ sk'[s].state = "new" /\ sk'[s].path = None /\ sk'[s].peer = None
      /\ sk'[s].queue = <<>>
  BY <1>1 DEF NoInfo, NoSocket
<1>5. Unnamed \in Names
  BY NameType DEF Unnamed, SpecialHosts
<1>6. CallOf(s)'
  BY <1>1, <1>2, <1>3 DEF CallOf, Going, At
<1>7. SocketOf(s)'
  BY <1>1, <1>4, <1>5 DEF SocketOf, Open, At
<1>8. \A t \in Socks : Kept(t) /\ (si[t].unAddr # None => si'[t].unAddr = si[t].unAddr)
  BY <1>1, <1>3 DEF Only, Kept
<1>9. PeerOf(s)'
  BY <1>4, Consts DEF PeerOf
<1>10. QueueOf(s)'
  BY <1>4, EmptySeq DEF QueueOf
<1>11. \A p \in Paths : PathOf(p)'
  BY <1>1, <1>2, <1>8, PathsStay
<1>12. MutexKept(s)
  BY <1>1 DEF MutexKept
<1> QED BY <1>1, <1>4, <1>6, <1>7, <1>8, <1>9, <1>10, <1>11, <1>12, Local

LEMMA StepAutobindBind ==
  ASSUME Inv, NEW s \in Socks, AutobindBind(s) PROVE Inv'
<1>1. PICK p \in Paths : p = call[s].path
  BY DoAutobindBind DEF Inv, CallOf
<1>2. /\ TypeInv' /\ Only(s) /\ At(s, "autobindBind") /\ autobindMutex' = None
      /\ sending' = sending
      /\ \/ UNCHANGED <<si, sk, dir>> /\ call'[s] = NoCall
         \/ /\ dir[p] = None /\ dir' = [dir EXCEPT ![p] = s]
            /\ sk'[s] = [sk[s] EXCEPT !.path = p]
            /\ si'[s] = [si[s] EXCEPT !.bound = TRUE, !.unAddr = p,
                                      !.myname = Name(DefaultIface, p.port)]
            /\ call'[s] = [call[s] EXCEPT !.pc = call[s].then]
  BY <1>1, DoAutobindBind
<1>3. TypeInv /\ CallOf(s) /\ SocketOf(s) /\ PeerOf(s) /\ QueueOf(s)
      /\ \A q \in Paths : PathOf(q)
  BY DEF Inv
<1>4. /\ ~si[s].bound /\ call[s].then \in {"idle", "listen", "connect", "send"}
      /\ p.type = si[s].type /\ p.port \in AutoPorts /\ autobindMutex = s
  BY <1>1, <1>2, <1>3 DEF CallOf
<1>16. MutexKept(s)
  BY <1>2, <1>4, Consts DEF MutexKept
<1>17. CASE UNCHANGED <<si, sk, dir>> /\ call'[s] = NoCall
  <2>1. CallOf(s)'
    BY <1>2, <1>3, <1>17, Consts DEF CallOf, Going, At, NoCall
  <2>2. SocketOf(s)'
    BY <1>2, <1>3, <1>17 DEF SocketOf, Open, At, NoCall
  <2>3. si'[s].deferConnect \/ /\ ~si[s].deferConnect
                               /\ si'[s].peername = si[s].peername
    BY <1>3, <1>17, Fields DEF Infos
  <2> QED BY <1>2, <1>16, <1>17, <2>1, <2>2, <2>3, Quiet DEF MutexKept
<1> SUFFICES ASSUME dir[p] = None, dir' = [dir EXCEPT ![p] = s],
                    sk'[s] = [sk[s] EXCEPT !.path = p],
                    si'[s] = [si[s] EXCEPT !.bound = TRUE, !.unAddr = p,
                                           !.myname = Name(DefaultIface, p.port)],
                    call'[s] = [call[s] EXCEPT !.pc = call[s].then]
             PROVE  Inv'
  BY <1>2, <1>17
<1>5. Open(s) /\ sk[s].path = None /\ si[s].unAddr = None /\ ~si[s].isServer
  BY <1>2, <1>3, <1>4 DEF SocketOf, At
<1>6. /\ si[s] \in Infos /\ sk[s] \in UnixSockets /\ call[s] \in Calls
      /\ dir \in [Paths -> Socks \cup {None, Dead}]
  BY <1>3, Fields DEF TypeInv
<1>7. /\ si'[s].bound /\ si'[s].unAddr = p /\ si'[s].type = si[s].type
      /\ si'[s].isServer = si[s].isServer /\ si'[s].connected = si[s].connected
      /\ si'[s].deferConnect = si[s].deferConnect /\ si'[s].peername = si[s].peername
      /\ si'[s].myname = Name(DefaultIface, p.port)
      /\ sk'[s].path = p /\ sk'[s].state = sk[s].state /\ sk'[s].peer = sk[s].peer
      /\ sk'[s].queue = sk[s].queue
      /\ call'[s].pc = call[s].then /\ call'[s].then = call[s].then
      /\ call'[s].to = call[s].to /\ call'[s].path = call[s].path
  BY <1>2, <1>6 DEF Infos, UnixSockets, Calls
<1>8. Name(DefaultIface, p.port) \in Names /\ p # None
  BY <1>4, NameType, Consts, PortRanges
<1>9. CallOf(s)'
  BY <1>2, <1>3, <1>4, <1>7, Consts DEF CallOf, Going, At
<1>10. SocketOf(s)'
  <2>1. Open(s)' /\ ~At(s, "unlinkLast")'
    BY <1>4, <1>5, <1>7 DEF Open, At
  <2>3. sk[s].state # "listen"
    BY <1>3, <1>4 DEF SocketOf
  <2> QED BY <1>2, <1>3, <1>4, <1>5, <1>7, <1>8, <2>1, <2>3 DEF SocketOf, Types
<1>11. Kept(s)
  BY <1>5 DEF Kept
<1>12. \A t \in Socks : Kept(t)
  BY <1>2, <1>11 DEF Only, Kept
<1>13. PeerOf(s)'
  <2>1. si'[s].deferConnect \/ ~si[s].deferConnect
    BY <1>6, <1>7 DEF Infos
  <2> QED BY <1>3, <1>7, <1>12, <2>1, PeerStays
<1>14. QueueOf(s)'
  BY <1>3, <1>7, <1>12, QueueStays
<1>15. ASSUME NEW q \in Paths PROVE PathOf(q)'
  <2>1. CASE q = p
    BY <1>2, <1>6, <1>7, <2>1 DEF PathOf
  <2>2. CASE q # p
    <3>1. dir'[q] = dir[q] /\ q # None
      BY <1>2, <1>6, <2>2, Consts
    <3>2. dir[q] \in Socks => dir[q] # s
      BY <1>3, <1>5, <3>1 DEF PathOf
    <3>3. dir[q] \in Socks => sk'[dir[q]].path = q
      BY <1>2, <1>3, <3>2 DEF PathOf, Only
    <3>4. dir[q] # None => BindPort(q.port) \/ \E t \in Socks : si'[t].unAddr = q
      <4> SUFFICES ASSUME dir[q] # None, ~BindPort(q.port)
                   PROVE  \E t \in Socks : si'[t].unAddr = q
        OBVIOUS
      <4>1. PICK t \in Socks : si[t].unAddr = q
        BY <1>3 DEF PathOf
      <4>2. t # s
        BY <1>5, <3>1, <4>1
      <4> QED BY <1>2, <4>1, <4>2 DEF Only
    <3> QED BY <3>1, <3>3, <3>4 DEF PathOf
  <2> QED BY <2>1, <2>2
<1> QED BY <1>2, <1>7, <1>9, <1>10, <1>11, <1>13, <1>14, <1>15, <1>16, Local

LEMMA StepUnlinkFirst ==
  ASSUME Inv, NEW s \in Socks, UnlinkFirst(s) PROVE Inv'
<1>1. PICK p \in Paths : p = call[s].path
  BY DoUnlinkFirst
<1>2. /\ TypeInv' /\ Only(s) /\ At(s, "unlink")
      /\ UNCHANGED <<si, sk, autobindMutex, sending>>
      /\ dir' = [dir EXCEPT ![p] = None]
      /\ call'[s] = [call[s] EXCEPT !.pc = "bind"]
  BY <1>1, DoUnlinkFirst
<1>3. TypeInv /\ CallOf(s) /\ SocketOf(s) /\ PeerOf(s) /\ QueueOf(s)
      /\ \A q \in Paths : PathOf(q)
  BY DEF Inv
<1>4. /\ BindPort(p.port) /\ p.type = si[s].type
      /\ call[s] \in Calls /\ dir \in [Paths -> Socks \cup {None, Dead}]
      /\ si[s] \in Infos
  BY <1>1, <1>2, <1>3, Fields DEF CallOf, TypeInv
<1>5. /\ call'[s].pc = "bind" /\ call'[s].then = call[s].then
      /\ call'[s].to = call[s].to /\ call'[s].path = p
  BY <1>1, <1>2, <1>4 DEF Calls
<1>6. CallOf(s)'
  BY <1>1, <1>2, <1>3, <1>4, <1>5 DEF CallOf, Going, At
<1>8. SocketOf(s)'
  BY <1>2, <1>3, <1>5 DEF SocketOf, Open, At
<1>9. \A t \in Socks : Kept(t)
  BY <1>2 DEF Kept
<1>10. PeerOf(s)'
  <2>1. si'[s].deferConnect \/ ~si[s].deferConnect
    BY <1>2, <1>4 DEF Infos
  <2> QED BY <1>2, <1>3, <1>9, <2>1, PeerStays
<1>11. QueueOf(s)'
  BY <1>2, <1>3, <1>9, QueueStays
<1>12. ASSUME NEW q \in Paths PROVE PathOf(q)'
  <2>1. dir'[q] = IF q = p THEN None ELSE dir[q]
    BY <1>2, <1>4
  <2> QED BY <1>2, <1>3, <2>1, Consts DEF PathOf
<1>13. MutexKept(s)
  BY <1>2 DEF MutexKept
<1> QED BY <1>2, <1>6, <1>8, <1>9, <1>10, <1>11, <1>12, <1>13, Local

LEMMA StepLibcBind ==
  ASSUME Inv, NEW s \in Socks, LibcBind(s) PROVE Inv'
<1>1. PICK p \in Paths : p = call[s].path
  BY DoLibcBind
<1>2. /\ TypeInv' /\ Only(s) /\ At(s, "bind")
      /\ UNCHANGED <<autobindMutex, sending>> /\ call'[s] = NoCall
      /\ \/ UNCHANGED <<si, sk, dir>>
         \/ /\ dir[p] = None /\ sk[s].path = None
            /\ dir' = [dir EXCEPT ![p] = s]
            /\ sk'[s] = [sk[s] EXCEPT !.path = p]
            /\ si'[s] = [si[s] EXCEPT !.bound = TRUE]
  BY <1>1, DoLibcBind
<1>3. TypeInv /\ CallOf(s) /\ SocketOf(s) /\ PeerOf(s) /\ QueueOf(s)
      /\ \A q \in Paths : PathOf(q)
  BY DEF Inv
<1>4. /\ BindPort(p.port) /\ p.type = si[s].type
      /\ dir \in [Paths -> Socks \cup {None, Dead}]
      /\ si[s] \in Infos /\ sk[s] \in UnixSockets /\ Open(s)
  BY <1>1, <1>2, <1>3, Fields DEF CallOf, TypeInv, SocketOf, At
<1>5. CASE UNCHANGED <<si, sk, dir>>
  <2>1. CallOf(s)'
    BY <1>2, <1>3, <1>5, Consts DEF CallOf, Going, At, NoCall
  <2>2. SocketOf(s)'
    BY <1>2, <1>3, <1>4, <1>5 DEF SocketOf, Open, At, NoCall
  <2>3. si'[s].deferConnect \/ /\ ~si[s].deferConnect
                               /\ si'[s].peername = si[s].peername
    BY <1>4, <1>5 DEF Infos
  <2> QED BY <1>2, <1>5, <2>1, <2>2, <2>3, Quiet
<1>6. CASE /\ dir[p] = None /\ sk[s].path = None
           /\ dir' = [dir EXCEPT ![p] = s]
           /\ sk'[s] = [sk[s] EXCEPT !.path = p]
           /\ si'[s] = [si[s] EXCEPT !.bound = TRUE]
  <2>1. si[s].unAddr = None /\ ~si[s].bound
    BY <1>3, <1>4, <1>6 DEF SocketOf
  <2>2. /\ si'[s].bound /\ si'[s].unAddr = None /\ si'[s].type = si[s].type
        /\ si'[s].isServer = si[s].isServer /\ si'[s].connected = si[s].connected
        /\ si'[s].deferConnect = si[s].deferConnect /\ si'[s].peername = si[s].peername
        /\ si'[s].myname = si[s].myname
        /\ sk'[s].path = p /\ sk'[s].state = sk[s].state /\ sk'[s].peer = sk[s].peer
        /\ sk'[s].queue = sk[s].queue
    BY <1>4, <1>6, <2>1 DEF Infos, UnixSockets
  <2>3. CallOf(s)'
    BY <1>2, <1>3, <2>2, Consts DEF CallOf, Going, At, NoCall
  <2>4. SocketOf(s)'
    BY <1>2, <1>3, <1>4, <2>1, <2>2, Consts DEF SocketOf, Open, At, NoCall
  <2>5. \A t \in Socks : Kept(t)
    BY <1>2, <1>6 DEF Only, Kept
  <2>6. PeerOf(s)'
    <3>1. si'[s].deferConnect \/ ~si[s].deferConnect
      BY <1>4, <2>2 DEF Infos
    <3> QED BY <1>3, <2>2, <2>5, <3>1, PeerStays
  <2>7. QueueOf(s)'
    BY <1>3, <2>2, <2>5, QueueStays
  <2>8. ASSUME NEW q \in Paths PROVE PathOf(q)'
    <3>1. CASE q = p
      BY <1>4, <1>6, <2>2, <3>1 DEF PathOf
    <3>2. CASE q # p
      <4>1. dir'[q] = dir[q] /\ q # None
        BY <1>4, <1>6, <3>2, Consts
      <4>2. dir[q] \in Socks => dir[q] # s
        BY <1>3, <1>6, <4>1 DEF PathOf
      <4>3. dir[q] \in Socks => sk'[dir[q]].path = q
        BY <1>2, <1>3, <4>2 DEF PathOf, Only
      <4>4. ASSUME dir[q] # None, ~BindPort(q.port)
            PROVE  \E t \in Socks : si'[t].unAddr = q
        <5>1. PICK t \in Socks : si[t].unAddr = q
          BY <1>3, <4>4 DEF PathOf
        <5>2. t # s
          BY <2>1, <4>1, <5>1
        <5> QED BY <1>2, <5>1, <5>2 DEF Only
      <4> QED BY <4>1, <4>3, <4>4 DEF PathOf
    <3> QED BY <3>1, <3>2
  <2>9. MutexKept(s)
    BY <1>2 DEF MutexKept
  <2> QED BY <1>2, <2>2, <2>3, <2>4, <2>5, <2>6, <2>7, <2>8, <2>9, Local
<1> QED BY <1>2, <1>5, <1>6

LEMMA StepUnlinkLast ==
  ASSUME Inv, NEW s \in Socks, UnlinkLast(s) PROVE Inv'
<1>1. /\ TypeInv' /\ Only(s) /\ At(s, "unlinkLast") /\ call'[s] = NoCall
      /\ UNCHANGED <<sk, autobindMutex, sending>>
      /\ si'[s] = NoInfo
      /\ dir' = IF si[s].unAddr = None THEN dir ELSE [dir EXCEPT ![si[s].unAddr] = None]
  BY DoUnlinkLast
<1>2. TypeInv /\ CallOf(s) /\ SocketOf(s) /\ \A q \in Paths : PathOf(q)
  BY DEF Inv
<1>3. /\ sk[s] = NoSocket /\ ~Open(s) /\ ~sending[s].active
      /\ dir \in [Paths -> Socks \cup {None, Dead}]
      /\ si[s].unAddr \in Paths \cup {None}
  BY <1>1, <1>2, Fields DEF SocketOf, At, TypeInv, Infos
<1>4. \A q \in Paths : dir'[q] = IF q = si[s].unAddr THEN None ELSE dir[q]
  BY <1>1, <1>3, Consts
<1>5. CallOf(s)'
  BY <1>1, <1>2, <1>3, Consts DEF CallOf, Going, At, NoCall, NoInfo
<1>6. SocketOf(s)'
  BY <1>1, <1>3 DEF SocketOf, Open, At, NoCall, NoInfo, NoSocket
<1>7. Kept(s)
  BY <1>3 DEF Kept, NoSocket
<1>8. PeerOf(s)'
  BY <1>1, <1>3, Consts DEF PeerOf, NoSocket
<1>9. QueueOf(s)'
  BY <1>1, <1>3, EmptySeq DEF QueueOf, NoSocket
<1>10. ASSUME NEW q \in Paths PROVE PathOf(q)'
  <2>1. CASE q = si[s].unAddr
    BY <1>4, <2>1, Consts DEF PathOf
  <2>2. CASE q # si[s].unAddr
    <3>1. dir'[q] = dir[q]
      BY <1>4, <2>2
    <3>2. ASSUME dir[q] # None, ~BindPort(q.port)
          PROVE  \E t \in Socks : si'[t].unAddr = q
      BY <1>1, <1>2, <2>2, <3>2 DEF PathOf, Only
    <3> QED BY <1>1, <1>2, <3>1, <3>2 DEF PathOf
  <2> QED BY <2>1, <2>2
<1>11. MutexKept(s)
  BY <1>1 DEF MutexKept
<1> QED BY <1>1, <1>5, <1>6, <1>7, <1>8, <1>9, <1>10, <1>11, Local DEF NoInfo

LEMMA StepLibcRecvfrom ==
  ASSUME Inv, NEW s \in Socks, LibcRecvfrom(s) PROVE Inv'
<1>1. /\ TypeInv' /\ Only(s) /\ sk[s].queue # <<>> /\ Open(s) /\ si[s].type = "udp"
      /\ UNCHANGED <<si, dir, autobindMutex, call, sending>>
      /\ sk'[s] = [sk[s] EXCEPT !.queue = Tail(@)]
  BY DoLibcRecvfrom
<1>2. TypeInv /\ CallOf(s) /\ SocketOf(s) /\ PeerOf(s) /\ QueueOf(s)
      /\ \A q \in Paths : PathOf(q)
  BY DEF Inv
<1>3. /\ sk[s] \in UnixSockets /\ si[s] \in Infos /\ Len(sk[s].queue) \in Nat
      /\ Len(Tail(sk[s].queue)) = Len(sk[s].queue) - 1 /\ Len(sk[s].queue) >= 1
      /\ \A i \in 1..Len(Tail(sk[s].queue)) : Tail(sk[s].queue)[i] = sk[s].queue[i + 1]
  BY <1>1, <1>2, Fields, Dequeue
<1>4. /\ sk'[s].state = sk[s].state /\ sk'[s].path = sk[s].path
      /\ sk'[s].peer = sk[s].peer /\ sk'[s].queue = Tail(sk[s].queue)
  BY <1>1, <1>3 DEF UnixSockets
<1>5. CallOf(s)'
  BY <1>1, <1>2, <1>4, CallStays DEF Inv, CallOf
<1>6. SocketOf(s)'
  BY <1>1, <1>2, <1>4, SocketStays
<1>7. \A t \in Socks : Kept(t) /\ (si[t].unAddr # None => si'[t].unAddr = si[t].unAddr)
  BY <1>1, <1>4 DEF Only, Kept
<1>8. PeerOf(s)'
  <2>1. si'[s].deferConnect \/ ~si[s].deferConnect
    BY <1>1, <1>3 DEF Infos
  <2> QED BY <1>1, <1>2, <1>4, <1>7, <2>1, PeerStays
<1>9. QueueOf(s)'
  <2>1. ASSUME NEW i \in 1..Len(sk'[s].queue)
        PROVE  \E j \in 1..Len(sk[s].queue) : sk'[s].queue[i] = sk[s].queue[j]
    <3>1. i + 1 \in 1..Len(sk[s].queue) /\ sk'[s].queue[i] = sk[s].queue[i + 1]
      BY <1>3, <1>4
    <3> QED BY <3>1
  <2> QED BY <1>1, <1>2, <1>7, <2>1, QueueStays
<1>10. \A q \in Paths : PathOf(q)'
  BY <1>1, <1>2, <1>7, PathsStay
<1>11. MutexKept(s)
  BY <1>1 DEF MutexKept
<1> QED BY <1>1, <1>5, <1>6, <1>7, <1>8, <1>9, <1>10, <1>11, Local

\* A deferred connect finds the socket that its name leads to.
LEMMA Found ==
  ASSUME Inv, NEW type \in Types, NEW to \in Names, NEW q \in Socks,
         q = Bound(RemotePath(type, to))
  PROVE  /\ RemotePath(type, to) \in Paths /\ dir[RemotePath(type, to)] = q
         /\ sk[q].path = RemotePath(type, to) /\ sk[q].path # None
         /\ si[q].type = type
<1>1. PICK p : p = RemotePath(type, to)
  OBVIOUS
<1>2. p \in Paths /\ dir[p] = q /\ p.type = type
  BY <1>1, BoundPath, RemoteType
<1>3. sk[q].path = p /\ p # None
  BY <1>2, Consts DEF Inv, PathOf
<1>4. si[q].type = type
  BY <1>2, <1>3 DEF Inv, SocketOf
<1> QED BY <1>1, <1>2, <1>3, <1>4

LEMMA StepSendBefore ==
  ASSUME Inv, NEW s \in Socks, SendBefore(s) PROVE Inv'
<1>1. /\ TypeInv' /\ Only(s) /\ At(s, "send") /\ call'[s] = NoCall
      /\ UNCHANGED <<dir, autobindMutex>>
      /\ \/ UNCHANGED <<si, sk, sending>>
         \/ /\ si'[s] = [si[s] EXCEPT !.deferConnect = FALSE]
            /\ sending'[s].active
            /\ sending'[s].path \in Paths => sending'[s].path.type = "udp"
            /\ IF si[s].deferConnect
                 THEN \E q \in Socks :
                        /\ q = Bound(RemotePath("udp", si[s].peername))
                        /\ sk'[s] = Repeer(sk[s], q)
                 ELSE sk'[s] = sk[s]
  BY DoSendBefore
<1>2. TypeInv /\ CallOf(s) /\ SocketOf(s) /\ PeerOf(s) /\ QueueOf(s)
      /\ \A q \in Paths : PathOf(q)
  BY DEF Inv
<1>3. /\ sk[s] \in UnixSockets /\ si[s] \in Infos
      /\ si[s].type = "udp" /\ si[s].bound /\ Open(s)
  BY <1>1, <1>2, Fields DEF CallOf, Going, At, SocketOf
<1>4. CASE UNCHANGED <<si, sk, sending>>
  <2>1. CallOf(s)'
    BY <1>1, <1>2, <1>4, Consts DEF CallOf, Going, At, NoCall
  <2>2. SocketOf(s)'
    BY <1>1, <1>2, <1>3, <1>4 DEF SocketOf, Open, At, NoCall
  <2>3. si'[s].deferConnect \/ /\ ~si[s].deferConnect
                               /\ si'[s].peername = si[s].peername
    BY <1>3, <1>4 DEF Infos
  <2> QED BY <1>1, <1>4, <2>1, <2>2, <2>3, Quiet
<1>5. ASSUME si'[s] = [si[s] EXCEPT !.deferConnect = FALSE],
             sending'[s].active,
             sending'[s].path \in Paths => sending'[s].path.type = "udp",
             IF si[s].deferConnect
               THEN \E q \in Socks :
                      /\ q = Bound(RemotePath("udp", si[s].peername))
                      /\ sk'[s] = Repeer(sk[s], q)
               ELSE sk'[s] = sk[s]
      PROVE  Inv'
  <2>1. /\ si'[s].bound /\ si'[s].type = "udp" /\ si'[s].unAddr = si[s].unAddr
        /\ si'[s].isServer = si[s].isServer /\ si'[s].connected = si[s].connected
        /\ ~si'[s].deferConnect /\ si'[s].peername = si[s].peername
        /\ si'[s].myname = si[s].myname
    BY <1>3, <1>5 DEF Infos
  <2>2. /\ sk'[s].state = sk[s].state /\ sk'[s].path = sk[s].path
        /\ sk'[s].queue \in {sk[s].queue, <<>>}
    BY <1>3, <1>5, RepeerType
  <2>3. CallOf(s)'
    BY <1>1, <1>2, <1>5, <2>1, <2>2, Consts DEF CallOf, Going, At, NoCall
  <2>4. SocketOf(s)'
    BY <1>1, <1>2, <1>3, <2>1, <2>2 DEF SocketOf, Open, At, NoCall
  <2>5. \A t \in Socks : Kept(t) /\ (si[t].unAddr # None => si'[t].unAddr = si[t].unAddr)
    BY <1>1, <1>3, <2>1, <2>2 DEF Only, Kept
  <2>6. PeerOf(s)'
    <3>1. CASE ~si[s].deferConnect
      BY <1>2, <1>3, <1>5, <2>1, <2>5, <3>1, PeerStays
    <3>2. CASE si[s].deferConnect
      <4>1. PICK q \in Socks : /\ q = Bound(RemotePath("udp", si[s].peername))
                               /\ sk'[s] = Repeer(sk[s], q)
        BY <1>5, <3>2
      <4>2. si[s].peername \in Names
        BY <1>2, <3>2 DEF SocketOf
      <4>3. /\ sk[q].path = RemotePath("udp", si[s].peername) /\ sk[q].path # None
            /\ si[q].type = "udp"
        BY <4>1, <4>2, Found DEF Types
      <4>4. sk'[s].peer = q
        BY <1>3, <4>1, RepeerType
      <4>5. sk'[q].path = sk[q].path /\ si'[q].type = "udp"
        BY <2>5, <4>3 DEF Kept
      <4> QED BY <2>1, <4>3, <4>4, <4>5 DEF PeerOf
    <3> QED BY <3>1, <3>2
  <2>7. QueueOf(s)'
    <3>1. CASE sk'[s].queue = sk[s].queue
      BY <1>2, <1>3, <2>1, <2>5, <3>1, QueueStays
    <3>2. CASE sk'[s].queue = <<>>
      BY <3>2, EmptySeq DEF QueueOf
    <3> QED BY <2>2, <3>1, <3>2
  <2>8. \A q \in Paths : PathOf(q)'
    BY <1>1, <1>2, <2>5, PathsStay
  <2>9. MutexKept(s)
    BY <1>1 DEF MutexKept
  <2> QED BY <1>1, <2>1, <2>3, <2>4, <2>5, <2>6, <2>7, <2>8, <2>9, Local
<1> QED BY <1>1, <1>4, <1>5

\* A step that leaves the library's records, the directory and the calls of the
\* others alone, and appends to queues.
LEMMA Queuing ==
  ASSUME Inv, TypeInv', NEW s \in Socks, si' = si, dir' = dir,
         autobindMutex' = autobindMutex,
         \A t \in Socks \ {s} : call'[t] = call[t],
         \A t \in Socks \ {s} : sending'[t] = sending[t],
         CallOf(s)',
         \A t \in Socks :
           /\ Kept(t)
           /\ t # s => sk'[t].state = sk[t].state
           /\ SocketOf(t)' /\ QueueOf(t)'
           /\ sk'[t].peer \in Socks => sk'[t].peer = sk[t].peer
  PROVE  Inv'
<1>1. TypeInv /\ \A p \in Paths : PathOf(p)
  BY DEF Inv
<1>2. ASSUME NEW t \in Socks PROVE CallOf(t)' /\ PeerOf(t)'
  <2>1. CallOf(t) /\ PeerOf(t) /\ (si[t].deferConnect \/ ~si[t].deferConnect)
    BY <1>1, Fields DEF Inv, Infos
  <2>2. CallOf(t)'
    BY <2>1, CallStays DEF CallOf
  <2>3. PeerOf(t)'
    BY <2>1, PeerStays
  <2> QED BY <2>2, <2>3
<1>3. \A p \in Paths : PathOf(p)'
  BY <1>1, PathsStay
<1> QED BY <1>2, <1>3 DEF Inv

\* The entry of a sender that is appended to a queue.
LEMMA Queued ==
  ASSUME Inv, NEW q \in Socks, NEW t \in Socks, Len(sk[q].queue) < Backlog,
         NEW e \in Entries, e.from = t,
         sk'[q].queue = Append(sk[q].queue, e), \A u \in Socks : Kept(u),
         si'[q].type = si[q].type, Sender(q, t, e.path)'
  PROVE  QueueOf(q)'
<1>1. TypeInv /\ QueueOf(q)
  BY DEF Inv
<1>2. PICK Q : Q = sk[q].queue
  OBVIOUS
<1>3. /\ Len(Q) \in Nat /\ Len(Append(Q, e)) = Len(Q) + 1
      /\ \A i \in 1..Len(Q) : Append(Q, e)[i] = Q[i]
      /\ Append(Q, e)[Len(Q) + 1] = e
  BY <1>1, <1>2, Fields, Enqueue
<1>4. ASSUME NEW i \in 1..Len(Append(Q, e)), NEW u \in Socks, NEW p,
             u = Append(Q, e)[i].from, p = Append(Q, e)[i].path
      PROVE  Sender(q, u, p)'
  <2>1. CASE i = Len(Q) + 1
    BY <1>3, <1>4, <2>1
  <2>2. CASE i \in 1..Len(Q)
    <3>1. u = Q[i].from /\ p = Q[i].path
      BY <1>3, <1>4, <2>2
    <3>2. Sender(q, u, p)
      BY <1>1, <1>2, <2>2, <3>1 DEF QueueOf
    <3> QED BY <3>2, SenderStays
  <2> QED BY <1>3, <2>1, <2>2
<1>5. sk'[q].queue = Append(Q, e)
  BY <1>2
<1> QED BY <1>4, <1>5 DEF QueueOf, Sender

LEMMA StepConnectStream ==
  ASSUME Inv, NEW s \in Socks, ConnectStream(s) PROVE Inv'
<1>1. /\ TypeInv' /\ At(s, "connect") /\ si[s].type = "tcp" /\ call[s].to \in Names
      /\ UNCHANGED <<si, dir, autobindMutex, sending>>
      /\ \A t \in Socks \ {s} : call'[t] = call[t]
      /\ \/ call'[s] = NoCall /\ UNCHANGED sk
         \/ \E q \in Socks \ {s} :
              /\ sk[s].state = "new" /\ sk[q].state = "listen"
              /\ Len(sk[q].queue) < Backlog
              /\ sk'[s] = [sk[s] EXCEPT !.state = "connected"]
              /\ sk'[q] = [sk[q] EXCEPT
                            !.queue = Append(@, [from |-> s, path |-> sk[s].path])]
              /\ \A t \in Socks \ {s, q} : sk'[t] = sk[t]
              /\ call'[s] = [call[s] EXCEPT !.pc = "connected"]
  BY DoConnectStream
<1>2. TypeInv /\ CallOf(s) /\ SocketOf(s)
  BY DEF Inv
<1>3. /\ sk[s] \in UnixSockets /\ si[s] \in Infos /\ call[s] \in Calls
      /\ si[s].bound /\ Open(s) /\ sk[s].path # None
  BY <1>1, <1>2, Fields DEF CallOf, At, SocketOf
<1>4. CASE call'[s] = NoCall /\ UNCHANGED sk
  <2>1. CallOf(s)'
    BY <1>1, <1>2, <1>4, Consts DEF CallOf, Going, At, NoCall
  <2>2. SocketOf(s)'
    BY <1>1, <1>2, <1>3, <1>4 DEF SocketOf, Open, At, NoCall
  <2>3. si'[s].deferConnect \/ /\ ~si[s].deferConnect
                               /\ si'[s].peername = si[s].peername
    BY <1>1, <1>3 DEF Infos
  <2> QED BY <1>1, <1>4, <2>1, <2>2, <2>3, Quiet DEF Only
<1>5. ASSUME NEW q \in Socks \ {s},
             sk[s].state = "new", sk[q].state = "listen", Len(sk[q].queue) < Backlog,
             sk'[s] = [sk[s] EXCEPT !.state = "connected"],
             sk'[q] = [sk[q] EXCEPT
                        !.queue = Append(@, [from |-> s, path |-> sk[s].path])],
             \A t \in Socks \ {s, q} : sk'[t] = sk[t],
             call'[s] = [call[s] EXCEPT !.pc = "connected"]
      PROVE  Inv'
  <2>1. sk[q] \in UnixSockets /\ SocketOf(q) /\ QueueOf(s)
    BY <1>2, Fields DEF Inv
  <2>2. PICK e \in Entries : e = [from |-> s, path |-> sk[s].path]
    BY <1>3 DEF Entries, UnixSockets
  <2>3. /\ sk'[s].state = "connected" /\ sk'[s].path = sk[s].path
        /\ sk'[s].peer = sk[s].peer /\ sk'[s].queue = sk[s].queue
        /\ sk'[q].state = "listen" /\ sk'[q].path = sk[q].path
        /\ sk'[q].peer = sk[q].peer /\ sk'[q].queue = Append(sk[q].queue, e)
    BY <1>3, <1>5, <2>1, <2>2 DEF UnixSockets
  <2>4. /\ call'[s].pc = "connected" /\ call'[s].to = call[s].to
        /\ call'[s].then = call[s].then /\ call'[s].path = call[s].path
    BY <1>3, <1>5 DEF Calls
  <2>5. ~si[s].isServer /\ sk[s].queue = <<>> /\ si[q].type = "tcp"
    BY <1>1, <1>2, <1>5, <2>1 DEF SocketOf
  <2>6. CallOf(s)'
    BY <1>1, <1>2, <1>3, <2>3, <2>4, <2>5 DEF CallOf, Going, At
  <2>7. \A t \in Socks : Kept(t)
    BY <1>1, <1>5, <2>3 DEF Kept
  <2>8. SocketOf(s)'
    BY <1>1, <1>2, <1>3, <2>3, <2>4, <2>5 DEF SocketOf, Open, At
  <2>9. ASSUME NEW t \in Socks PROVE SocketOf(t)'
    <3>1. CASE t = s
      BY <2>8, <3>1
    <3>2. CASE t = q
      BY <1>1, <1>5, <2>1, <2>3, <3>2, SocketStays DEF Open
    <3>3. CASE t \notin {s, q}
      BY <1>1, <1>5, <3>3, SocketStays DEF Inv
    <3> QED BY <3>1, <3>2, <3>3
  <2>10. QueueOf(q)'
    <3>1. Sender(q, s, e.path)'
      BY <1>1, <1>3, <2>2, <2>3, <2>5 DEF Sender
    <3> QED BY <1>1, <1>5, <2>2, <2>3, <2>7, <3>1, Queued
  <2>11. ASSUME NEW t \in Socks PROVE QueueOf(t)'
    <3>1. CASE t = q
      BY <2>10, <3>1
    <3>2. CASE t # q
      <4>1. sk'[t].queue = sk[t].queue /\ QueueOf(t)
        BY <1>5, <2>3, <3>2 DEF Inv
      <4> QED BY <1>1, <2>7, <4>1, QueueStays
    <3> QED BY <3>1, <3>2
  <2>12. ASSUME NEW t \in Socks
         PROVE  /\ t # s => sk'[t].state = sk[t].state
                /\ sk'[t].peer = sk[t].peer
    <3>1. CASE t = s
      BY <2>3, <3>1
    <3>2. CASE t = q
      BY <1>5, <2>3, <3>2
    <3>3. CASE t \notin {s, q}
      BY <1>5, <3>3
    <3> QED BY <3>1, <3>2, <3>3
  <2> QED BY <1>1, <2>6, <2>7, <2>9, <2>11, <2>12, Queuing
<1> QED BY <1>1, <1>4, <1>5

\* What a path of a datagram socket, or a peer of one, leads to.
LEMMA LeadsToDatagram ==
  ASSUME Inv, NEW q \in Socks, NEW p \in Paths, p.type = "udp", dir[p] = q
  PROVE  si[q].type = "udp" /\ Open(q)
<1>1. SocketOf(q) /\ sk[q].path = p /\ p # None
  BY Consts DEF Inv, PathOf
<1> QED BY <1>1, PathOpen

LEMMA SendsToDatagram ==
  ASSUME Inv, NEW s \in Socks, sending[s].active, NEW q \in Socks,
         q = IF si[s].connected THEN sk[s].peer ELSE Bound(sending[s].path)
  PROVE  si[q].type = "udp" /\ Open(q)
<1>1. TypeInv /\ CallOf(s) /\ SocketOf(q) /\ PeerOf(s)
  BY DEF Inv
<1>2. si[s].type = "udp" /\ si[s].connected \in BOOLEAN
  BY <1>1, Fields DEF CallOf, Infos
<1>3. CASE si[s].connected
  <2>1. sk[q].path # None /\ si[q].type = si[s].type
    BY <1>1, <1>3 DEF PeerOf
  <2> QED BY <1>1, <1>2, <2>1, PathOpen
<1>4. CASE ~si[s].connected
  <2>1. PICK p : p = sending[s].path
    OBVIOUS
  <2>2. p \in Paths /\ dir[p] = q
    BY <1>4, <2>1, BoundPath
  <2>3. p.type = "udp"
    BY <1>1, <2>1, <2>2 DEF CallOf
  <2> QED BY <2>2, <2>3, LeadsToDatagram
<1> QED BY <1>2, <1>3, <1>4

LEMMA StepLibcSendto ==
  ASSUME Inv, NEW s \in Socks, LibcSendto(s) PROVE Inv'
<1>1. /\ TypeInv' /\ At(s, "idle") /\ sending[s].active /\ sending'[s] = NotSending
      /\ \A t \in Socks \ {s} : sending'[t] = sending[t]
      /\ UNCHANGED <<si, dir, autobindMutex, call>>
      /\ \/ UNCHANGED sk
         \/ \E q \in Socks :
              /\ q = IF si[s].connected THEN sk[s].peer ELSE Bound(sending[s].path)
              /\ Len(sk[q].queue) < Backlog
              /\ sk'[q] = [sk[q] EXCEPT !.queue = Append(@, Datagram(s))]
              /\ \A t \in Socks \ {q} : sk'[t] = sk[t]
         \/ /\ sk'[s] = Repeer(sk[s], None)
            /\ \A t \in Socks \ {s} : sk'[t] = sk[t]
  BY DoLibcSendto
<1>2. TypeInv /\ CallOf(s) /\ SocketOf(s) /\ PeerOf(s)
  BY DEF Inv
<1>3. /\ sk[s] \in UnixSockets /\ si[s] \in Infos
      /\ si[s].bound /\ si[s].type = "udp" /\ Open(s) /\ sk[s].path # None
      /\ ~si[s].isServer
  BY <1>1, <1>2, Fields DEF CallOf, SocketOf
<1>4. /\ ~sending'[s].active /\ sending'[s].path = None
  BY <1>1 DEF NotSending
<1>5. ASSUME NEW q \in Socks,
             q = IF si[s].connected THEN sk[s].peer ELSE Bound(sending[s].path),
             Len(sk[q].queue) < Backlog,
             sk'[q] = [sk[q] EXCEPT !.queue = Append(@, Datagram(s))],
             \A t \in Socks \ {q} : sk'[t] = sk[t]
      PROVE  Inv'
  <2>1. sk[q] \in UnixSockets /\ SocketOf(q)
    BY <1>2, Fields DEF Inv
  <2>2. /\ sk'[q].state = sk[q].state /\ sk'[q].path = sk[q].path
        /\ sk'[q].peer = sk[q].peer /\ sk'[q].queue = Append(sk[q].queue, Datagram(s))
    BY <1>5, <2>1 DEF UnixSockets
  <2>3. si[q].type = "udp" /\ Open(q)
    BY <1>1, <1>5, SendsToDatagram
  <2>4. \A t \in Socks : Kept(t) /\ sk'[t].state = sk[t].state
                         /\ sk'[t].path = sk[t].path /\ sk'[t].peer = sk[t].peer
    BY <1>1, <1>5, <2>2 DEF Kept
  <2>5. CallOf(s)'
    BY <1>1, <1>2, <1>4, <2>4, Consts DEF CallOf, Going, At
  <2>6. ASSUME NEW t \in Socks PROVE SocketOf(t)'
    <3>1. SocketOf(t) /\ (sending'[t].active => sending[t].active)
      BY <1>1, <1>4 DEF Inv
    <3>2. CASE t = q
      BY <1>1, <2>2, <2>3, <3>1, <3>2, SocketStays
    <3>3. CASE t # q
      BY <1>1, <1>5, <3>1, <3>3, SocketStays
    <3> QED BY <3>2, <3>3
  <2>7. PICK e \in Entries : e = Datagram(s) /\ e.from = s /\ e.path = sk[s].path
    BY <1>2, DatagramType
  <2>8. Sender(q, s, e.path)'
    BY <1>1, <1>3, <2>3, <2>4, <2>7 DEF Sender
  <2>9. QueueOf(q)'
    BY <1>1, <1>5, <2>2, <2>4, <2>7, <2>8, Queued
  <2>10. ASSUME NEW t \in Socks PROVE QueueOf(t)'
    <3>1. CASE t = q
      BY <2>9, <3>1
    <3>2. CASE t # q
      <4>1. sk'[t].queue = sk[t].queue /\ QueueOf(t)
        BY <1>5, <3>2 DEF Inv
      <4> QED BY <1>1, <2>4, <4>1, QueueStays
    <3> QED BY <3>1, <3>2
  <2> QED BY <1>1, <2>4, <2>5, <2>6, <2>10, Queuing
<1>6. ASSUME NEW sock, sock = sk'[s], \A t \in Socks \ {s} : sk'[t] = sk[t],
             sock = sk[s] \/ sock = Repeer(sk[s], None)
      PROVE  Inv'
  <2>1. /\ sock.state = sk[s].state /\ sock.path = sk[s].path
        /\ sock.queue \in {sk[s].queue, <<>>}
        /\ sock.peer \in Socks => sock.peer = sk[s].peer
    BY <1>3, <1>6, RepeerType, Consts
  <2>2. \A t \in Socks : Kept(t) /\ sk'[t].state = sk[t].state
                         /\ (sk'[t].peer \in Socks => sk'[t].peer = sk[t].peer)
    BY <1>1, <1>6, <2>1 DEF Kept
  <2>3. CallOf(s)'
    BY <1>1, <1>2, <1>4, <2>2, Consts DEF CallOf, Going, At
  <2>4. ASSUME NEW t \in Socks PROVE SocketOf(t)' /\ QueueOf(t)'
    <3>1. SocketOf(t) /\ QueueOf(t) /\ (sending'[t].active => sending[t].active)
      BY <1>1, <1>4 DEF Inv
    <3>2. CASE t = s
      <4>1. SocketOf(s)'
        BY <1>1, <1>3, <1>6, <2>1, <3>1, <3>2, SocketStays
      <4>2. QueueOf(s)'
        <5>1. CASE sock.queue = sk[s].queue
          BY <1>1, <1>6, <2>2, <3>1, <3>2, <5>1, QueueStays
        <5>2. CASE sock.queue = <<>>
          BY <1>6, <5>2, EmptySeq DEF QueueOf
        <5> QED BY <2>1, <5>1, <5>2
      <4> QED BY <3>2, <4>1, <4>2
    <3>3. CASE t # s
      <4>1. sk'[t] = sk[t]
        BY <1>6, <3>3
      <4> QED BY <1>1, <2>2, <3>1, <4>1, SocketStays, QueueStays
    <3> QED BY <3>2, <3>3
  <2> QED BY <1>1, <2>2, <2>3, <2>4, Queuing
<1> QED BY <1>1, <1>5, <1>6

LEMMA StepSendBroadcast ==
  ASSUME Inv, NEW s \in Socks, SendBroadcast(s) PROVE Inv'
<1>1. /\ TypeInv' /\ sending[s].active /\ sending'[s] = NotSending
      /\ \A t \in Socks \ {s} : sending'[t] = sending[t]
      /\ UNCHANGED <<si, dir, autobindMutex, call>>
      /\ \A q \in Socks :
           \/ sk'[q] = sk[q]
           \/ /\ \E p \in Paths : p.type = "udp" /\ dir[p] = q
              /\ Len(sk[q].queue) < Backlog
              /\ sk'[q] = [sk[q] EXCEPT !.queue = Append(@, Datagram(s))]
  BY DoSendBroadcast
<1>2. TypeInv /\ CallOf(s) /\ SocketOf(s)
  BY DEF Inv
<1>3. /\ sk[s] \in UnixSockets /\ si[s] \in Infos
      /\ si[s].bound /\ si[s].type = "udp" /\ Open(s) /\ sk[s].path # None
      /\ ~si[s].isServer
  BY <1>1, <1>2, Fields DEF CallOf, SocketOf
<1>4. /\ ~sending'[s].active /\ sending'[s].path = None
  BY <1>1 DEF NotSending
<1>5. PICK e \in Entries : e = Datagram(s) /\ e.from = s /\ e.path = sk[s].path
  BY <1>2, DatagramType
<1>6. ASSUME NEW q \in Socks
      PROVE  /\ sk'[q].state = sk[q].state /\ sk'[q].path = sk[q].path
             /\ sk'[q].peer = sk[q].peer
             /\ \/ sk'[q] = sk[q]
                \/ /\ si[q].type = "udp" /\ Open(q) /\ Len(sk[q].queue) < Backlog
                   /\ sk'[q].queue = Append(sk[q].queue, e)
  <2>1. CASE sk'[q] = sk[q]
    BY <2>1
  <2>2. ASSUME NEW p \in Paths, p.type = "udp", dir[p] = q, Len(sk[q].queue) < Backlog,
               sk'[q] = [sk[q] EXCEPT !.queue = Append(@, Datagram(s))]
        PROVE  /\ sk'[q].state = sk[q].state /\ sk'[q].path = sk[q].path
               /\ sk'[q].peer = sk[q].peer
               /\ si[q].type = "udp" /\ Open(q)
               /\ sk'[q].queue = Append(sk[q].queue, e)
    <3>1. sk[q] \in UnixSockets
      BY <1>2, Fields
    <3>2. si[q].type = "udp" /\ Open(q)
      BY <2>2, LeadsToDatagram
    <3> QED BY <1>5, <2>2, <3>1, <3>2 DEF UnixSockets
  <2> QED BY <1>1, <2>1, <2>2
<1>7. \A t \in Socks : Kept(t) /\ sk'[t].state = sk[t].state
                       /\ sk'[t].path = sk[t].path /\ sk'[t].peer = sk[t].peer
  BY <1>1, <1>6 DEF Kept
<1>8. CallOf(s)'
  BY <1>1, <1>2, <1>4, <1>7, Consts DEF CallOf, Going, At
<1>9. ASSUME NEW q \in Socks PROVE SocketOf(q)' /\ QueueOf(q)'
  <2>1. SocketOf(q) /\ QueueOf(q) /\ (sending'[q].active => sending[q].active)
    BY <1>1, <1>4 DEF Inv
  <2>2. CASE sk'[q] = sk[q]
    BY <1>1, <1>7, <2>1, <2>2, SocketStays, QueueStays
  <2>3. CASE /\ si[q].type = "udp" /\ Open(q) /\ Len(sk[q].queue) < Backlog
             /\ sk'[q].queue = Append(sk[q].queue, e)
    <3>1. SocketOf(q)'
      BY <1>1, <1>7, <2>1, <2>3, SocketStays
    <3>2. Sender(q, s, e.path)'
      BY <1>1, <1>3, <1>5, <1>7, <2>3 DEF Sender
    <3>3. QueueOf(q)'
      BY <1>1, <1>5, <1>7, <2>3, <3>2, Queued
    <3> QED BY <3>1, <3>3
  <2> QED BY <1>6, <2>2, <2>3
<1> QED BY <1>1, <1>7, <1>8, <1>9, Queuing

LEMMA StepAcceptFrom ==
  ASSUME Inv, NEW s \in Socks, NEW c \in Socks, AcceptFrom(s, c) PROVE Inv'
<1>0. PICK e \in Entries : TypeInv' /\ Accepts(s, c, e)
  BY DoAcceptFrom
<1>1. /\ TypeInv' /\ sk[s].state = "listen" /\ sk[s].queue # <<>>
      /\ ~Open(c) /\ At(c, "idle")
      /\ UNCHANGED <<dir, autobindMutex, call, sending>>
      /\ sk'[s] = [sk[s] EXCEPT !.queue = Tail(@)]
      /\ \A t \in Socks \ {c} : si'[t] = si[t]
  BY <1>0 DEF Accepts
<1>2. /\ e = sk[s].queue[1] /\ e.from \notin {s, c}
      /\ e.from \in Socks =>
           Sender(s, e.from, e.path) /\ sk'[e.from] = [sk[e.from] EXCEPT !.peer = c]
      /\ sk'[c] = [NoSocket EXCEPT !.state = "connected", !.path = sk[s].path,
                                   !.peer = e.from]
      /\ \A t \in Socks \ {s, c, e.from} : sk'[t] = sk[t]
      /\ si'[c] = [NoInfo EXCEPT !.type = si[s].type, !.bound = TRUE,
                                 !.isServer = TRUE, !.connected = TRUE,
                                 !.peername = NameOf(e.path),
                                 !.myname = NameOf(sk[s].path)]
  BY <1>0 DEF Accepts
<1>3. TypeInv /\ SocketOf(s) /\ CallOf(c) /\ SocketOf(c) /\ QueueOf(s)
      /\ \A p \in Paths : PathOf(p)
  BY DEF Inv
<1>4. /\ sk[s] \in UnixSockets /\ s # c /\ Open(s)
      /\ si[s].type = "tcp" /\ si[s].bound /\ ~si[s].isServer
      /\ sk[s].path # None /\ sk[s].path.type = "tcp" /\ sk[s].path \in Paths
  <2>1. Open(s) /\ sk[s] \in UnixSockets
    BY <1>1, <1>3, Fields DEF Open
  <2> QED BY <1>1, <1>3, <2>1 DEF SocketOf, UnixSockets
<1>5. /\ sk[c] = NoSocket /\ si[c] = NoInfo /\ ~sending[c].active
  BY <1>1, <1>3 DEF SocketOf
<1>6. /\ sk'[s].state = sk[s].state /\ sk'[s].path = sk[s].path
      /\ sk'[s].peer = sk[s].peer /\ sk'[s].queue = Tail(sk[s].queue)
  BY <1>1, <1>4 DEF UnixSockets
<1>7. /\ sk'[c].state = "connected" /\ sk'[c].path = sk[s].path
      /\ sk'[c].peer = e.from /\ sk'[c].queue = <<>>
      /\ si'[c].type = "tcp" /\ si'[c].bound /\ si'[c].isServer /\ si'[c].connected
      /\ ~si'[c].deferConnect /\ si'[c].unAddr = None
      /\ si'[c].peername = NameOf(e.path) /\ si'[c].myname = NameOf(sk[s].path)
  BY <1>2, <1>4 DEF NoSocket, NoInfo
<1>8. e.from \in Socks =>
        /\ sk[e.from].path # None /\ e.path = sk[e.from].path
        /\ si[e.from].type = "tcp" /\ ~si[e.from].isServer
        /\ sk[e.from].state = "connected"
        /\ sk'[e.from].state = "connected" /\ sk'[e.from].path = sk[e.from].path
        /\ sk'[e.from].peer = c /\ sk'[e.from].queue = sk[e.from].queue
  BY <1>2, <1>3, <1>4, Fields DEF Sender, UnixSockets
<1>9. ASSUME NEW t \in Socks \ {c}
      PROVE  /\ si'[t] = si[t] /\ sk'[t].state = sk[t].state /\ sk'[t].path = sk[t].path
             /\ t # s => sk'[t].queue = sk[t].queue
             /\ t # e.from => sk'[t].peer = sk[t].peer
  <2>0. si'[t] = si[t]
    BY <1>1
  <2>1. CASE t = s
    BY <1>6, <2>0, <2>1
  <2>3. CASE t # s /\ t = e.from
    BY <1>8, <2>0, <2>3
  <2>2. CASE t \notin {s, e.from}
    BY <1>2, <2>0, <2>2
  <2> QED BY <2>1, <2>2, <2>3
<1>10. \A t \in Socks : Kept(t)
  BY <1>5, <1>9 DEF Kept, NoSocket
<1>11. ASSUME NEW t \in Socks PROVE CallOf(t)'
  <2>1. CASE t = c
    BY <1>1, <1>3, <1>5, <1>7, <2>1, Consts DEF CallOf, Going, At
  <2>2. CASE t # c
    <3>1. CallOf(t)
      BY DEF Inv
    <3>2. sending'[t] = sending[t] /\ call'[t] = call[t] /\ autobindMutex' = autobindMutex
      BY <1>1
    <3> QED BY <1>9, <2>2, <3>1, <3>2, CallStays
  <2> QED BY <2>1, <2>2
<1>12. ASSUME NEW t \in Socks PROVE SocketOf(t)'
  <2>1. CASE t = c
    <3>1. NameOf(sk[s].path) \in Names /\ NameOf(e.path) \in Names \cup {None}
      <4>1. e.path \in Paths \cup {None} /\ NameOf(None) = None
        BY DEF Entries, NameOf
      <4> QED BY <1>4, <4>1, PathParts
    <3> QED BY <1>1, <1>4, <1>5, <1>7, <2>1, <3>1 DEF SocketOf, Open, At, Types
  <2>2. CASE t \notin {c, s, e.from}
    BY <1>1, <1>2, <2>2, SocketStays DEF Inv
  <2>3. CASE t = s
    BY <1>1, <1>3, <1>4, <1>6, <1>9, <2>3, SocketStays
  <2>4. CASE t # c /\ t = e.from
    <3>1. Open(t) /\ SocketOf(t) /\ sk'[t].state = sk[t].state /\ sk'[t].path = sk[t].path
          /\ sk'[t].queue = sk[t].queue /\ si'[t] = si[t]
      BY <1>8, <1>9, <2>4 DEF Inv, Open
    <3>2. sk'[t].queue # <<>> /\ si[t].type = "tcp" => sk[t].state = "listen"
      BY <3>1 DEF SocketOf
    <3> QED BY <1>1, <3>1, <3>2, SocketStays
  <2> QED BY <2>1, <2>2, <2>3, <2>4
<1>13. ASSUME NEW t \in Socks PROVE PeerOf(t)'
  <2>1. CASE t = c
    <3> SUFFICES ASSUME e.from \in Socks PROVE PeerOf(c)'
      BY <1>7, <2>1 DEF PeerOf
    <3>1. e.from # c /\ si'[e.from] = si[e.from]
      BY <1>2, <1>9
    <3> QED BY <1>7, <1>8, <3>1 DEF PeerOf
  <2>2. CASE t # c /\ t = e.from
    <3>1. sk'[t].peer = c /\ si'[t].type = "tcp"
      BY <1>8, <1>9, <2>2
    <3> QED BY <1>4, <1>7, <3>1, Consts DEF PeerOf
  <2>3. CASE t \notin {c, e.from}
    <3>1. PeerOf(t) /\ si'[t] = si[t] /\ sk'[t].peer = sk[t].peer
          /\ (si[t].deferConnect \/ ~si[t].deferConnect)
      BY <1>3, <1>9, <2>3, Fields DEF Inv, Infos
    <3> QED BY <1>10, <3>1, PeerStays
  <2> QED BY <2>1, <2>2, <2>3
<1>14. ASSUME NEW t \in Socks PROVE QueueOf(t)'
  <2>1. CASE t = c
    BY <1>7, <2>1, EmptySeq DEF QueueOf
  <2>2. CASE t = s
    <3>1. ASSUME NEW i \in 1..Len(Tail(sk[s].queue))
          PROVE  \E j \in 1..Len(sk[s].queue) : Tail(sk[s].queue)[i] = sk[s].queue[j]
      <4>1. /\ Len(sk[s].queue) \in Nat
            /\ Len(Tail(sk[s].queue)) = Len(sk[s].queue) - 1
            /\ Tail(sk[s].queue)[i] = sk[s].queue[i + 1]
        BY <1>1, <1>3, Fields, Dequeue
      <4>2. i + 1 \in 1..Len(sk[s].queue)
        BY <4>1
      <4> QED BY <4>1, <4>2
    <3>2. si'[s].type = si[s].type
      BY <1>4, <1>9
    <3>3. \A i \in 1..Len(sk'[s].queue) :
            sk'[s].queue[i].from \in Socks =>
              /\ si'[s].type = si[s].type /\ Kept(sk'[s].queue[i].from)
              /\ \E j \in 1..Len(sk[s].queue) : sk'[s].queue[i] = sk[s].queue[j]
      BY <1>6, <1>10, <3>1, <3>2
    <3> QED BY <1>3, <2>2, <3>3, QueueStays
  <2>3. CASE t \notin {c, s}
    <3>1. QueueOf(t) /\ si'[t] = si[t] /\ sk'[t].queue = sk[t].queue
      BY <1>9, <2>3 DEF Inv
    <3> QED BY <1>10, <3>1, QueueStays
  <2> QED BY <2>1, <2>2, <2>3
<1>15. \A t \in Socks : si'[t].unAddr = si[t].unAddr
  BY <1>5, <1>7, <1>9 DEF NoInfo
<1>16. \A p \in Paths : PathOf(p)'
  BY <1>1, <1>3, <1>10, <1>15, PathsStay
<1> QED BY <1>1, <1>11, <1>12, <1>13, <1>14, <1>16 DEF Inv

LEMMA StepCallClose ==
  ASSUME Inv, NEW s \in Socks, CallClose(s) PROVE Inv'
<1>1. /\ TypeInv' /\ Open(s) /\ At(s, "idle") /\ ~sending[s].active
      /\ UNCHANGED <<si, autobindMutex, sending>>
      /\ call'[s] = [call[s] EXCEPT !.pc = "unlinkLast"]
      /\ \A t \in Socks \ {s} : call'[t] = call[t]
      /\ \A p \in Paths : dir'[p] = IF dir[p] = s THEN Dead ELSE dir[p]
      /\ sk'[s] = NoSocket
      /\ \A t \in Socks \ {s} :
           /\ sk'[t].state = sk[t].state /\ sk'[t].path = sk[t].path
           /\ sk'[t].peer = IF sk[t].peer = s THEN Dead ELSE sk[t].peer
           /\ Len(sk'[t].queue) = Len(sk[t].queue)
           /\ \A i \in 1..Len(sk[t].queue) :
                /\ sk'[t].queue[i].from # s
                /\ sk'[t].queue[i].from \in Socks => sk'[t].queue[i] = sk[t].queue[i]
  BY DoCallClose
<1>2. TypeInv /\ CallOf(s) /\ SocketOf(s) /\ \A p \in Paths : PathOf(p)
  BY DEF Inv
<1>3. call'[s].pc = "unlinkLast" /\ call[s] \in Calls /\ si[s] \in Infos
  BY <1>1, <1>2, Fields DEF Calls
<1>4. \A t \in Socks \ {s} : Kept(t)
  BY <1>1 DEF Kept
<1>5. ASSUME NEW t \in Socks PROVE CallOf(t)'
  <2>1. CallOf(t)
    BY DEF Inv
  <2>2. CASE t = s
    <3>1. autobindMutex' # s
      BY <1>1, <1>2 DEF CallOf, At
    <3> QED BY <1>1, <1>2, <1>3, <2>2, <3>1 DEF CallOf, Going, At
  <2>3. CASE t # s
    BY <1>1, <2>1, <2>3, CallStays
  <2> QED BY <2>2, <2>3
<1>6. ASSUME NEW t \in Socks PROVE SocketOf(t)'
  <2>1. SocketOf(t) /\ si[t] \in Infos
    BY <1>2, Fields DEF Inv
  <2>2. CASE t = s
    <3>1. si[s].unAddr # None => si[s].unAddr.port \in AutoPorts
      BY <1>2 DEF SocketOf
    <3>2. /\ sk'[s] = NoSocket /\ sk'[s].state = "closed" /\ sk'[s].path = None
          /\ sk'[s].queue = <<>> /\ ~Open(s)' /\ ~At(s, "idle")' /\ At(s, "unlinkLast")'
          /\ ~sending'[s].active /\ si'[s] = si[s]
      BY <1>1, <1>3 DEF Open, At, NoSocket
    <3>3. SocketOf(s)
      BY <1>2
    <3> QED BY <2>2, <3>1, <3>2, <3>3 DEF SocketOf
  <2>3. CASE t # s
    <3>2. CASE Open(t)
      <4>1. sk'[t].queue # <<>> /\ si[t].type = "tcp" => sk[t].state = "listen"
        <5>1. sk[t].queue = <<>> => sk'[t].queue = <<>>
          BY <1>1, <1>2, <2>3, Fields, EmptySeq
        <5> QED BY <2>1, <5>1 DEF SocketOf
      <4> QED BY <1>1, <2>1, <2>3, <3>2, <4>1, SocketStays
    <3>3. CASE ~Open(t)
      <4>1. sk[t] = NoSocket
        BY <2>1, <3>3 DEF SocketOf
      <4>2. sk'[t] = NoSocket
        <5>1. sk'[t] \in UnixSockets
          BY <1>1 DEF TypeInv
        <5>2. PICK Q \in Seq(Entries) : Q = sk'[t].queue
          BY <5>1 DEF UnixSockets, Queues
        <5>3. Len(Q) = 0 /\ sk'[t].peer = None
          BY <1>1, <2>3, <4>1, <5>2, Consts, EmptySeq DEF NoSocket
        <5>4. sk'[t].queue = <<>>
          BY <5>2, <5>3, EmptySeq
        <5> QED BY <1>1, <2>3, <4>1, <5>1, <5>3, <5>4 DEF UnixSockets, NoSocket
      <4> QED BY <1>1, <2>1, <2>3, <4>1, <4>2, SocketStays
    <3> QED BY <3>2, <3>3
  <2> QED BY <2>2, <2>3
<1>7. ASSUME NEW t \in Socks PROVE PeerOf(t)'
  <2>1. CASE t = s
    BY <1>1, <2>1, Consts DEF PeerOf, NoSocket
  <2>2. CASE t # s
    <3>1. PeerOf(t) /\ si[t] \in Infos
      BY <1>2, Fields DEF Inv
    <3>2. sk'[t].peer \in Socks => sk'[t].peer = sk[t].peer /\ Kept(sk[t].peer)
      BY <1>1, <1>4, <2>2, Consts
    <3>3. si'[t] = si[t] /\ (si[t].deferConnect \/ ~si[t].deferConnect)
      BY <1>1, <3>1 DEF Infos
    <3> QED BY <3>1, <3>2, <3>3, PeerStays
  <2> QED BY <2>1, <2>2
<1>8. ASSUME NEW t \in Socks PROVE QueueOf(t)'
  <2>1. CASE t = s
    BY <1>1, <2>1, EmptySeq DEF QueueOf, NoSocket
  <2>2. CASE t # s
    BY <1>1, <1>4, <2>2, QueueStays DEF Inv
  <2> QED BY <2>1, <2>2
<1>9. ASSUME NEW p \in Paths PROVE PathOf(p)'
  <2>1. dir'[p] \in Socks => sk'[dir'[p]].path = p
    BY <1>1, <1>2, Consts DEF PathOf
  <2>2. dir'[p] # None => dir[p] # None
    BY <1>1, Consts
  <2> QED BY <1>1, <1>2, <2>1, <2>2 DEF PathOf
<1> QED BY <1>1, <1>5, <1>6, <1>7, <1>8, <1>9 DEF Inv

LEMMA InitInv == Init => Inv
<1> SUFFICES ASSUME Init PROVE Inv
  OBVIOUS
<1>1. TypeInv
  <2>1. autobindStart \in FirstAuto..(LastAuto + MaxSockets)
    BY Consts DEF Init
  <2> QED BY <2>1, Records DEF Init, TypeInv
<1>2. ASSUME NEW s \in Socks PROVE CallOf(s) /\ SocketOf(s) /\ PeerOf(s) /\ QueueOf(s)
  <2>1. /\ call[s] = NoCall /\ sending[s] = NotSending /\ si[s] = NoInfo
        /\ sk[s] = NoSocket /\ autobindMutex = None
    BY DEF Init
  <2>2. CallOf(s)
    BY <2>1, Consts DEF CallOf, Going, At, NoCall, NotSending
  <2>3. SocketOf(s)
    BY <2>1 DEF SocketOf, Open, At, NoInfo, NoSocket, NoCall, NotSending
  <2>4. PeerOf(s)
    BY <2>1, Consts DEF PeerOf, NoSocket
  <2>5. QueueOf(s)
    BY <2>1, EmptySeq DEF QueueOf, NoSocket
  <2> QED BY <2>2, <2>3, <2>4, <2>5
<1>3. \A p \in Paths : PathOf(p)
  BY Consts DEF Init, PathOf
<1> QED BY <1>1, <1>2, <1>3 DEF Inv

LEMMA StepInv == Inv /\ [Next]_vars => Inv'
<1> SUFFICES ASSUME Inv, [Next]_vars PROVE Inv'
  OBVIOUS
<1>1. ASSUME NEW s \in Socks, NEW type \in {"tcp", "udp"}, CallSocket(s, type) PROVE Inv'
  BY <1>1, StepCallSocket DEF Types
<1>2. ASSUME NEW s \in Socks, NEW a \in BindNames, CallBind(s, a) PROVE Inv'
  BY <1>2, StepCallBind
<1>3. ASSUME NEW s \in Socks, NEW to \in ConnectTargets, CallConnect(s, to) PROVE Inv'
  BY <1>3, StepCallConnect
<1>4. ASSUME NEW s \in Socks, NEW c \in Socks, AcceptFrom(s, c) PROVE Inv'
  BY <1>4, StepAcceptFrom
<1>5. ASSUME NEW s \in Socks, NEW to \in SendTargets, CallSend(s, to) PROVE Inv'
  BY <1>5, StepCallSend
<1>6. ASSUME NEW s \in Socks,
             \/ AutobindSearch(s) \/ AutobindBind(s) \/ UnlinkFirst(s) \/ LibcBind(s)
             \/ CallListen(s) \/ LibcListen(s)
             \/ ConnectDatagram(s) \/ ConnectStream(s) \/ ConnectedStream(s)
      PROVE  Inv'
  BY <1>6, StepAutobindSearch, StepAutobindBind, StepUnlinkFirst, StepLibcBind,
     StepCallListen, StepLibcListen, StepConnectDatagram, StepConnectStream,
     StepConnectedStream
<1>7. ASSUME NEW s \in Socks,
             \/ SendBefore(s) \/ LibcSendto(s) \/ SendBroadcast(s)
             \/ CallRecv(s) \/ LibcRecvfrom(s) \/ CallClose(s) \/ UnlinkLast(s)
      PROVE  Inv'
  BY <1>7, StepSendBefore, StepLibcSendto, StepSendBroadcast, StepCallRecv,
     StepLibcRecvfrom, StepCallClose, StepUnlinkLast
<1>8. CASE UNCHANGED vars
  <2>1. UNCHANGED <<si, sk, dir, autobindStart, autobindMutex, call, sending>>
    BY <1>8 DEF vars
  <2>2. ASSUME NEW s \in Socks PROVE CallOf(s)' /\ SocketOf(s)' /\ PeerOf(s)' /\ QueueOf(s)'
    <3>1. CallOf(s) /\ SocketOf(s) /\ PeerOf(s) /\ QueueOf(s)
      BY DEF Inv
    <3>2. CallOf(s)'
      BY <2>1, <3>1 DEF CallOf, Going, At
    <3>3. SocketOf(s)'
      BY <2>1, <3>1 DEF SocketOf, Open, At
    <3>4. PeerOf(s)' /\ QueueOf(s)'
      BY <2>1, <3>1 DEF PeerOf, QueueOf, Sender
    <3> QED BY <3>2, <3>3, <3>4
  <2>3. TypeInv' /\ \A p \in Paths : PathOf(p)'
    BY <2>1 DEF Inv, TypeInv, PathOf
  <2> QED BY <2>2, <2>3 DEF Inv
<1> QED BY <1>1, <1>2, <1>3, <1>4, <1>5, <1>6, <1>7, <1>8 DEF Next

LEMMA AlwaysInv == Spec => []Inv
BY InitInv, StepInv, PTL DEF Spec

-----------------------------------------------------------------------------
(* The properties that need no discipline *)

\* Whatever is called in whatever order, the library's and the kernel's state
\* and the running calls keep their types: a queue never holds more than the
\* backlog, and autobind_start stays within reach of swrap_auto_bind's search.
THEOREM TypeCorrect == Spec => []TypeOK
<1>1. Inv => TypeOK
  BY TypesOK DEF Inv
<1> QED BY <1>1, AlwaysInv, PTL

\* The socket that the deferred connect() of swrap_sendmsg_before connects a
\* datagram socket to is the one swrap_getpeername names, until the next
\* connect(): a peer that was closed is not replaced by one with its path.
THEOREM ConnectedToNamed == Spec => []ConnectedToPeername
<1>1. Inv => ConnectedToPeername
  BY DEF Inv, PeerOf, ConnectedToPeername
<1> QED BY <1>1, AlwaysInv, PTL

-----------------------------------------------------------------------------
(* The paths of auto-bind, with a disciplined application *)

Searching(s) == At(s, "autobind") \/ At(s, "autobindBind")

\* No bind() starts, and no path of auto-bind is chosen or bound.
LEMMA AutoKeeps ==
  ASSUME Inv, AutoInv,
         \A t \in Socks : At(t, "autobindBind")' => dir'[call'[t].path] = None,
         \A t \in Socks : si'[t].unAddr \in {None, si[t].unAddr},
         \A t \in Socks : si'[t].unAddr # None =>
           dir'[si[t].unAddr] = IF Open(t)' THEN t ELSE Dead,
         \A t \in Socks : Binding(t)' => Binding(t) /\ call'[t].path = call[t].path,
         \A t, u \in Socks :
           Binding(t)' /\ call[t].path.port \in AutoPorts /\ Searching(u)' => Searching(u)
  PROVE  AutoInv'
<1>1. ASSUME NEW t \in Socks PROVE AutoOf(t)'
  <2>1. si'[t].unAddr # None => dir'[si'[t].unAddr] = IF Open(t)' THEN t ELSE Dead
    OBVIOUS
  <2>2. ASSUME Binding(t)', NEW u \in Socks
        PROVE  /\ si'[u].unAddr # call'[t].path
               /\ call'[t].path.port \in AutoPorts =>
                    ~At(u, "autobind")' /\ ~At(u, "autobindBind")'
    <3>1. Binding(t) /\ call'[t].path = call[t].path /\ AutoOf(t) /\ CallOf(t)
      BY <2>2 DEF AutoInv, Inv
    <3>2. si[u].unAddr # call[t].path /\ call[t].path # None
      BY <3>1, Consts DEF AutoOf, CallOf, Binding
    <3>3. call[t].path.port \in AutoPorts => ~Searching(u)
      BY <3>1 DEF AutoOf, Searching
    <3>4. call[t].path.port \in AutoPorts => ~Searching(u)'
      BY <2>2, <3>3
    <3> QED BY <3>1, <3>2, <3>4 DEF Searching
  <2> QED BY <2>1, <2>2 DEF AutoOf
<1>2. ASSUME NEW t \in Socks, NEW u \in Socks,
             si'[t].unAddr # None, si'[t].unAddr = si'[u].unAddr
      PROVE  t = u
  <2>1. si[t].unAddr # None /\ si[t].unAddr = si[u].unAddr
    BY <1>2
  <2> QED BY <2>1 DEF AutoInv
<1> QED BY <1>1, <1>2 DEF AutoInv

\* A step that leaves the directory alone and neither binds nor auto-binds.
LEMMA AutoQuiet ==
  ASSUME Inv, AutoInv, dir' = dir,
         \A t \in Socks : si'[t].unAddr \in {None, si[t].unAddr},
         \A t \in Socks : si[t].unAddr # None => Open(t)' = Open(t),
         \A t \in Socks : \/ call'[t] = call[t]
                          \/ call'[t].pc \notin {"autobind", "autobindBind", "unlink", "bind"}
  PROVE  AutoInv'
<1>1. ASSUME NEW t \in Socks
      PROVE  /\ At(t, "autobindBind")' => At(t, "autobindBind") /\ call'[t] = call[t]
             /\ Binding(t)' => Binding(t) /\ call'[t] = call[t]
             /\ Searching(t)' => Searching(t)
  BY DEF At, Binding, Searching
<1>2. ASSUME NEW t \in Socks
      PROVE  /\ At(t, "autobindBind") => dir[call[t].path] = None
             /\ si[t].unAddr # None => dir[si[t].unAddr] = IF Open(t) THEN t ELSE Dead
  BY DEF AutoInv, AutoOf
<1>3. \A t \in Socks : si'[t].unAddr # None =>
        dir'[si[t].unAddr] = IF Open(t)' THEN t ELSE Dead
  BY <1>2
<1> QED BY <1>1, <1>2, <1>3, AutoKeeps

LEMMA AutoCallSocket ==
  ASSUME Inv, AutoInv, NEW s \in Socks, NEW type \in Types, CallSocket(s, type)
  PROVE  AutoInv'
<1>1. /\ Only(s) /\ ~Open(s) /\ At(s, "idle")
      /\ si'[s] = [NoInfo EXCEPT !.type = type, !.myname = Unnamed]
      /\ UNCHANGED <<dir, call>>
  BY DoCallSocket
<1>2. si'[s].unAddr = None /\ si[s].unAddr = None
  BY <1>1 DEF Inv, SocketOf, NoInfo
<1> QED BY <1>1, <1>2, AutoQuiet DEF Only, Open

\* Auto-bind is not begun while a bind() takes a port of its range.
LEMMA AutoStarts ==
  ASSUME Inv, AutoInv, Disciplined, NEW s \in Socks,
         NEW label \in {"idle", "listen", "connect", "send"}, NEW to, Starts(s, label, to)
  PROVE  AutoInv'
<1>1. /\ Only(s) /\ UNCHANGED <<si, sk, dir>>
      /\ call'[s].pc \in {"autobind", "idle", "listen", "connect", "send"}
      /\ si[s].bound => call'[s].pc # "autobind"
      /\ ~si[s].bound => \A t \in Socks : Binding(t) => call[t].path.port \notin AutoPorts
  BY DEF Starts
<1>2. ASSUME NEW t \in Socks
      PROVE  /\ At(t, "autobindBind")' => At(t, "autobindBind") /\ call'[t] = call[t]
             /\ Binding(t)' => Binding(t) /\ call'[t] = call[t]
             /\ Searching(t)' => Searching(t) \/ ~si[s].bound
  <2>1. CASE t = s
    BY <1>1, <2>1 DEF At, Binding, Searching
  <2>2. CASE t # s
    BY <1>1, <2>2 DEF At, Binding, Searching, Only
  <2> QED BY <2>1, <2>2
<1>3. ASSUME NEW t \in Socks
      PROVE  /\ At(t, "autobindBind") => dir[call[t].path] = None
             /\ si[t].unAddr # None => dir[si[t].unAddr] = IF Open(t) THEN t ELSE Dead
             /\ Open(t)' = Open(t)
  BY <1>1 DEF AutoInv, AutoOf, Open
<1> QED BY <1>1, <1>2, <1>3, AutoKeeps

LEMMA AutoSearch ==
  ASSUME Inv, AutoInv, NEW s \in Socks, AutobindSearch(s)
  PROVE  AutoInv'
<1>1. /\ Only(s) /\ At(s, "autobind") /\ UNCHANGED <<sk, dir>>
      /\ si'[s] = [si[s] EXCEPT !.myname = Name(DefaultIface, 0)]
      /\ \/ call'[s] = NoCall
         \/ \E p \in Paths :
              /\ dir[p] = None
              /\ call'[s] = [call[s] EXCEPT !.path = p, !.pc = "autobindBind"]
  BY DoAutobindSearch
<1>2. si[s] \in Infos /\ call[s] \in Calls
  BY Fields DEF Inv
<1>3. \A t \in Socks : si'[t].unAddr = si[t].unAddr /\ Open(t)' = Open(t)
  BY <1>1, <1>2 DEF Only, Infos, Open
<1>4. /\ call'[s].pc \in {"idle", "autobindBind"}
      /\ At(s, "autobindBind")' => dir[call'[s].path] = None
  <2>1. CASE call'[s] = NoCall
    BY <2>1 DEF NoCall, At
  <2>2. ASSUME NEW p \in Paths, dir[p] = None,
               call'[s] = [call[s] EXCEPT !.path = p, !.pc = "autobindBind"]
        PROVE  call'[s].pc = "autobindBind" /\ dir[call'[s].path] = None
    BY <1>2, <2>2 DEF Calls
  <2> QED BY <1>1, <2>1, <2>2
<1>5. ASSUME NEW t \in Socks
      PROVE  /\ At(t, "autobindBind")' => dir'[call'[t].path] = None
             /\ Binding(t)' => Binding(t) /\ call'[t].path = call[t].path
             /\ Searching(t)' => Searching(t)
             /\ si[t].unAddr # None => dir'[si[t].unAddr] = IF Open(t)' THEN t ELSE Dead
  <2>1. AutoOf(t)
    BY DEF AutoInv
  <2>2. CASE t = s
    BY <1>1, <1>3, <1>4, <2>1, <2>2 DEF At, Binding, Searching, AutoOf
  <2>3. CASE t # s
    BY <1>1, <1>3, <2>1, <2>3 DEF At, Binding, Searching, AutoOf, Only
  <2> QED BY <2>2, <2>3
<1> QED BY <1>3, <1>5, AutoKeeps

\* The path that the search found free is bound: no other search and no bind() came
\* in between.
LEMMA AutoBinds ==
  ASSUME Inv, AutoInv, NEW s \in Socks, AutobindBind(s)
  PROVE  AutoInv'
<1>1. PICK p \in Paths : p = call[s].path
  BY DoAutobindBind DEF Inv, CallOf
<1>2. AutoOf(s) /\ CallOf(s) /\ SocketOf(s) /\ TypeInv /\ At(s, "autobindBind")
  BY DoAutobindBind DEF AutoInv, Inv
<1>3. dir[p] = None /\ p.port \in AutoPorts /\ autobindMutex = s /\ ~si[s].bound
  BY <1>1, <1>2 DEF AutoOf, CallOf
<1>4. /\ Only(s) /\ dir' = [dir EXCEPT ![p] = s]
      /\ sk'[s] = [sk[s] EXCEPT !.path = p]
      /\ si'[s] = [si[s] EXCEPT !.bound = TRUE, !.unAddr = p,
                                !.myname = Name(DefaultIface, p.port)]
      /\ call'[s] = [call[s] EXCEPT !.pc = call[s].then]
      /\ call[s].then \in {"idle", "listen", "connect", "send"}
  BY <1>1, <1>2, <1>3, DoAutobindBind DEF CallOf
<1>5. /\ si[s] \in Infos /\ sk[s] \in UnixSockets /\ call[s] \in Calls
      /\ dir \in [Paths -> Socks \cup {None, Dead}]
  BY <1>2, Fields DEF TypeInv
<1>6. /\ si'[s].unAddr = p /\ Open(s)' /\ dir'[p] = s
      /\ call'[s].pc \in {"idle", "listen", "connect", "send"}
  BY <1>2, <1>4, <1>5 DEF Infos, UnixSockets, Calls, Open, SocketOf, At
<1>7. ASSUME NEW t \in Socks \ {s}
      PROVE  /\ si'[t] = si[t] /\ call'[t] = call[t] /\ Open(t)' = Open(t)
             /\ ~At(t, "autobindBind") /\ si[t].unAddr # p
             /\ Binding(t) => call[t].path # p
             /\ si[t].unAddr # None => dir'[si[t].unAddr] = IF Open(t) THEN t ELSE Dead
  <2>1. AutoOf(t) /\ CallOf(t) /\ si[t] \in Infos
    BY <1>2, Fields DEF AutoInv, Inv
  <2>2. ~At(t, "autobindBind")
    BY <1>3, <2>1 DEF CallOf
  <2>3. si[t].unAddr # p
    BY <1>3, <2>1, Consts DEF AutoOf
  <2>4. Binding(t) => call[t].path # p
    BY <1>2, <1>3, <2>1 DEF AutoOf
  <2>5. si[t].unAddr # None => dir'[si[t].unAddr] = dir[si[t].unAddr]
    BY <1>4, <1>5, <2>1, <2>3 DEF Infos
  <2> QED BY <1>4, <2>1, <2>2, <2>3, <2>4, <2>5 DEF Only, AutoOf, Open
<1>8. ASSUME NEW t \in Socks PROVE AutoOf(t)'
  <2>1. CASE t = s
    BY <1>6, <2>1 DEF AutoOf, At, Binding
  <2>2. CASE t # s
    <3>1. ASSUME Binding(t), NEW u \in Socks
          PROVE  /\ si'[u].unAddr # call[t].path
                 /\ call[t].path.port \in AutoPorts =>
                      ~At(u, "autobind")' /\ ~At(u, "autobindBind")'
      <4>1. /\ si[u].unAddr # call[t].path /\ call[t].path # p
            /\ call[t].path.port \in AutoPorts =>
                 ~At(u, "autobind") /\ ~At(u, "autobindBind")
        BY <1>7, <2>2, <3>1 DEF AutoInv, AutoOf
      <4>2. CASE u = s
        BY <1>6, <4>1, <4>2 DEF At
      <4>3. CASE u # s
        BY <1>7, <4>1, <4>3 DEF At
      <4> QED BY <4>2, <4>3
    <3>2. /\ ~At(t, "autobindBind")' /\ Binding(t)' = Binding(t)
          /\ si'[t].unAddr # None => dir'[si'[t].unAddr] = IF Open(t)' THEN t ELSE Dead
          /\ call'[t] = call[t]
      BY <1>7, <2>2 DEF At, Binding
    <3> QED BY <3>1, <3>2 DEF AutoOf
  <2> QED BY <2>1, <2>2
<1>9. ASSUME NEW t \in Socks, NEW u \in Socks,
             si'[t].unAddr # None, si'[t].unAddr = si'[u].unAddr
      PROVE  t = u
  BY <1>6, <1>7, <1>9 DEF AutoInv
<1> QED BY <1>8, <1>9 DEF AutoInv

\* A bind() starts only where auto-bind is out of the way.
LEMMA AutoCallBind ==
  ASSUME Inv, AutoInv, Disciplined, NEW s \in Socks, NEW a \in BindNames, CallBind(s, a)
  PROVE  AutoInv'
<1>1. /\ Only(s) /\ Open(s) /\ At(s, "idle") /\ UNCHANGED <<sk, dir>>
      /\ \E n \in Names, b \in Names \cup {None} :
           /\ si'[s] = [si[s] EXCEPT !.myname = n, !.bindname = b]
           /\ \/ call'[s] = call[s]
              \/ \E p \in Paths :
                   /\ call'[s] = [call[s] EXCEPT !.pc = "unlink", !.path = p]
                   /\ BindsFresh(p, n, b)
  BY DoCallBind
<1>2. si[s] \in Infos /\ call[s] \in Calls
  BY Fields DEF Inv
<1>3. \A t \in Socks : si'[t].unAddr = si[t].unAddr /\ Open(t)' = Open(t)
  BY <1>1, <1>2 DEF Only, Infos, Open
<1>4. CASE call'[s] = call[s]
  BY <1>1, <1>3, <1>4, AutoQuiet DEF Only
<1>5. ASSUME NEW n, NEW b, NEW p \in Paths, BindsFresh(p, n, b),
             call'[s] = [call[s] EXCEPT !.pc = "unlink", !.path = p]
      PROVE  AutoInv'
  <2>1. call'[s].pc = "unlink" /\ call'[s].path = p
    BY <1>2, <1>5 DEF Calls
  <2>2. \A t \in Socks \ {s} : call'[t] = call[t]
    BY <1>1 DEF Only
  <2>3. ASSUME NEW t \in Socks PROVE AutoOf(t)'
    <3>1. AutoOf(t) /\ ~Binding(t) /\ si[t].unAddr # p
      BY <1>5 DEF AutoInv, BindsFresh
    <3>2. At(t, "autobindBind")' => At(t, "autobindBind") /\ call'[t] = call[t]
      BY <2>1, <2>2 DEF At
    <3>3. ASSUME Binding(t)' PROVE t = s
      BY <2>2, <3>1, <3>3 DEF Binding, At
    <3>4. ASSUME NEW u \in Socks, p.port \in AutoPorts
          PROVE  ~At(u, "autobind")' /\ ~At(u, "autobindBind")'
      BY <1>5, <2>1, <2>2, <3>4 DEF BindsFresh, At
    <3>5. \A u \in Socks : si'[u].unAddr # p
      BY <1>3, <1>5 DEF BindsFresh
    <3> QED BY <1>1, <1>3, <2>1, <3>1, <3>2, <3>3, <3>4, <3>5 DEF AutoOf
  <2>4. \A t, u \in Socks : si'[t].unAddr # None /\ si'[t].unAddr = si'[u].unAddr => t = u
    BY <1>3 DEF AutoInv
  <2> QED BY <2>3, <2>4 DEF AutoInv
<1> QED BY <1>1, <1>4, <1>5

\* A bind() unlinks and takes a path of its own.
LEMMA AutoBinding ==
  ASSUME Inv, AutoInv, NEW s \in Socks, Binding(s), Only(s), NEW p, p = call[s].path,
         \A r \in Paths : r # p => dir'[r] = dir[r],
         si'[s].unAddr = si[s].unAddr, Open(s)' = Open(s),
         call'[s].pc \in {"idle", "bind"}, call'[s].pc = "bind" => call'[s].path = p
  PROVE  AutoInv'
<1>1. AutoOf(s) /\ p \in Paths
  BY DEF AutoInv, Inv, CallOf, Binding
<1>2. ASSUME NEW t \in Socks
      PROVE  /\ At(t, "autobindBind")' => dir'[call'[t].path] = None
             /\ si'[t].unAddr = si[t].unAddr
             /\ si[t].unAddr # None => dir'[si[t].unAddr] = IF Open(t)' THEN t ELSE Dead
             /\ Binding(t)' => Binding(t) /\ call'[t].path = call[t].path
             /\ Searching(t)' => Searching(t)
  <2>1. AutoOf(t) /\ CallOf(t) /\ si[t] \in Infos
    BY Fields DEF AutoInv, Inv
  <2>2. si[t].unAddr # p /\ (si[t].unAddr # None => si[t].unAddr \in Paths)
    BY <1>1, <2>1 DEF AutoOf, Infos
  <2>3. si[t].unAddr # None => dir'[si[t].unAddr] = dir[si[t].unAddr]
    BY <2>2
  <2>4. CASE t = s
    BY <2>1, <2>3, <2>4 DEF AutoOf, At, Binding, Searching
  <2>5. CASE t # s
    <3>1. si'[t] = si[t] /\ call'[t] = call[t] /\ Open(t)' = Open(t)
      BY <2>5 DEF Only, Open
    <3>2. ASSUME At(t, "autobindBind")' PROVE dir'[call'[t].path] = None
      <4>1. /\ At(t, "autobindBind") /\ call[t].path \in Paths
            /\ dir[call[t].path] = None /\ call[t].path.port \in AutoPorts
        BY <2>1, <3>1, <3>2 DEF At, AutoOf, CallOf
      <4>2. call[t].path # p
        BY <1>1, <4>1 DEF AutoOf
      <4> QED BY <3>1, <4>1, <4>2
    <3> QED BY <2>1, <2>3, <3>1, <3>2 DEF AutoOf, At, Binding, Searching
  <2> QED BY <2>4, <2>5
<1> QED BY <1>2, AutoKeeps

LEMMA AutoUnlinkFirst ==
  ASSUME Inv, AutoInv, NEW s \in Socks, UnlinkFirst(s) PROVE AutoInv'
<1>1. PICK p \in Paths : p = call[s].path
  BY DoUnlinkFirst
<1>2. /\ Only(s) /\ At(s, "unlink") /\ UNCHANGED <<si, sk>>
      /\ dir' = [dir EXCEPT ![p] = None]
      /\ call'[s] = [call[s] EXCEPT !.pc = "bind"]
  BY <1>1, DoUnlinkFirst
<1>3. call[s] \in Calls /\ dir \in [Paths -> Socks \cup {None, Dead}]
  BY Fields DEF Inv, TypeInv
<1>4. /\ call'[s].pc = "bind" /\ call'[s].path = p /\ dir'[p] = None
      /\ \A r \in Paths : r # p => dir'[r] = dir[r]
      /\ Binding(s) /\ Open(s)' = Open(s)
  BY <1>1, <1>2, <1>3 DEF Calls, Binding, Open
<1> QED BY <1>1, <1>2, <1>4, AutoBinding

LEMMA AutoLibcBind ==
  ASSUME Inv, AutoInv, NEW s \in Socks, LibcBind(s) PROVE AutoInv'
<1>1. PICK p \in Paths : p = call[s].path
  BY DoLibcBind
<1>2. /\ Only(s) /\ At(s, "bind") /\ call'[s] = NoCall
      /\ \/ UNCHANGED <<si, sk, dir>>
         \/ /\ dir' = [dir EXCEPT ![p] = s]
            /\ sk'[s] = [sk[s] EXCEPT !.path = p]
            /\ si'[s] = [si[s] EXCEPT !.bound = TRUE]
  BY <1>1, DoLibcBind
<1>3. /\ si[s] \in Infos /\ sk[s] \in UnixSockets
      /\ dir \in [Paths -> Socks \cup {None, Dead}]
  BY Fields DEF Inv, TypeInv
<1>4. /\ call'[s].pc = "idle" /\ si'[s].unAddr = si[s].unAddr
      /\ \A r \in Paths : r # p => dir'[r] = dir[r]
      /\ Binding(s) /\ Open(s)' = Open(s)
  BY <1>2, <1>3 DEF NoCall, Infos, UnixSockets, Binding, Open, At
<1> QED BY <1>1, <1>2, <1>4, AutoBinding

LEMMA AutoCallClose ==
  ASSUME Inv, AutoInv, NEW s \in Socks, CallClose(s) PROVE AutoInv'
<1>1. /\ Open(s) /\ At(s, "idle") /\ UNCHANGED si
      /\ call'[s] = [call[s] EXCEPT !.pc = "unlinkLast"]
      /\ \A t \in Socks \ {s} : call'[t] = call[t]
      /\ \A p \in Paths : dir'[p] = IF dir[p] = s THEN Dead ELSE dir[p]
      /\ sk'[s] = NoSocket
      /\ \A t \in Socks \ {s} : sk'[t].state = sk[t].state
  BY DoCallClose
<1>2. call'[s].pc = "unlinkLast" /\ ~Open(s)'
  BY <1>1, Fields DEF Inv, Calls, NoSocket, Open
<1>3. ASSUME NEW t \in Socks
      PROVE  /\ At(t, "autobindBind")' => dir'[call'[t].path] = None
             /\ si[t].unAddr # None => dir'[si[t].unAddr] = IF Open(t)' THEN t ELSE Dead
             /\ Binding(t)' => Binding(t) /\ call'[t].path = call[t].path
             /\ Searching(t)' => Searching(t)
  <2>1. AutoOf(t) /\ CallOf(t) /\ si[t] \in Infos
    BY Fields DEF AutoInv, Inv
  <2>2. CASE t = s
    <3>1. si[s].unAddr # None => si[s].unAddr \in Paths /\ dir[si[s].unAddr] = s
      BY <1>1, <2>1, <2>2 DEF AutoOf, Infos
    <3> QED BY <1>1, <1>2, <2>2, <3>1 DEF At, Binding, Searching
  <2>3. CASE t # s
    <3>1. call'[t] = call[t] /\ Open(t)' = Open(t)
      BY <1>1, <2>3 DEF Open
    <3>2. At(t, "autobindBind") => call[t].path \in Paths /\ dir[call[t].path] = None
      BY <2>1 DEF AutoOf, CallOf
    <3>3. si[t].unAddr # None =>
            si[t].unAddr \in Paths /\ dir[si[t].unAddr] = IF Open(t) THEN t ELSE Dead
      BY <2>1 DEF AutoOf, Infos
    <3> QED BY <1>1, <2>3, <3>1, <3>2, <3>3, Consts DEF At, Binding, Searching
  <2> QED BY <2>2, <2>3
<1> QED BY <1>1, <1>3, AutoKeeps

LEMMA AutoUnlinkLast ==
  ASSUME Inv, AutoInv, NEW s \in Socks, UnlinkLast(s) PROVE AutoInv'
<1>1. /\ Only(s) /\ At(s, "unlinkLast") /\ call'[s] = NoCall /\ UNCHANGED sk
      /\ si'[s] = NoInfo
      /\ dir' = IF si[s].unAddr = None THEN dir
                ELSE [dir EXCEPT ![si[s].unAddr] = None]
  BY DoUnlinkLast
<1>2. si[s] \in Infos /\ dir \in [Paths -> Socks \cup {None, Dead}]
  BY Fields DEF Inv, TypeInv
<1>3. \A p \in Paths : dir'[p] = IF p = si[s].unAddr THEN None ELSE dir[p]
  BY <1>1, <1>2, Consts DEF Infos
<1>4. call'[s].pc = "idle" /\ si'[s].unAddr = None
  BY <1>1 DEF NoCall, NoInfo
<1>5. ASSUME NEW t \in Socks
      PROVE  /\ At(t, "autobindBind")' => dir'[call'[t].path] = None
             /\ si'[t].unAddr \in {None, si[t].unAddr}
             /\ si'[t].unAddr # None =>
                  dir'[si[t].unAddr] = IF Open(t)' THEN t ELSE Dead
             /\ Binding(t)' => Binding(t) /\ call'[t].path = call[t].path
             /\ Searching(t)' => Searching(t)
  <2>1. AutoOf(t) /\ CallOf(t) /\ si[t] \in Infos
    BY Fields DEF AutoInv, Inv
  <2>2. CASE t = s
    BY <1>4, <2>2 DEF At, Binding, Searching
  <2>3. CASE t # s
    <3>1. call'[t] = call[t] /\ si'[t] = si[t] /\ Open(t)' = Open(t)
      BY <1>1, <2>3 DEF Only, Open
    <3>2. At(t, "autobindBind") => call[t].path \in Paths /\ dir[call[t].path] = None
      BY <2>1 DEF AutoOf, CallOf
    <3>3. si[t].unAddr # None =>
            /\ si[t].unAddr \in Paths /\ si[t].unAddr # si[s].unAddr
            /\ dir[si[t].unAddr] = IF Open(t) THEN t ELSE Dead
      BY <2>1, <2>3 DEF AutoOf, AutoInv, Infos
    <3> QED BY <1>3, <3>1, <3>2, <3>3 DEF At, Binding, Searching
  <2> QED BY <2>2, <2>3
<1> QED BY <1>5, AutoKeeps

\* The calls that have nothing to do with the directory.
LEMMA AutoOthers ==
  ASSUME Inv, AutoInv, NEW s \in Socks,
         \/ LibcListen(s) \/ ConnectDatagram(s) \/ ConnectStream(s) \/ ConnectedStream(s)
         \/ SendBefore(s) \/ LibcSendto(s) \/ SendBroadcast(s) \/ LibcRecvfrom(s)
  PROVE  AutoInv'
<1>1. si[s] \in Infos /\ call[s] \in Calls /\ sk[s] \in UnixSockets /\ SocketOf(s)
  BY Fields DEF Inv
<1>2. call'[s] = NoCall => call'[s].pc = "idle"
  BY DEF NoCall
\* A step of s alone that returns, after which the unix socket is what it was.
<1>3. ASSUME Only(s), UNCHANGED dir, call'[s].pc = "idle" \/ call'[s] = call[s],
             si'[s].unAddr = si[s].unAddr, Open(s)' = Open(s)
      PROVE  AutoInv'
  BY <1>3, AutoQuiet DEF Only, Open
<1>4. CASE LibcListen(s)
  <2>1. /\ Only(s) /\ call'[s] = NoCall /\ UNCHANGED <<si, dir>> /\ At(s, "listen")
        /\ sk'[s] = IF sk[s].state = "new" THEN [sk[s] EXCEPT !.state = "listen"]
                    ELSE sk[s]
    BY <1>4, DoLibcListen
  <2>2. Open(s)' = Open(s)
    BY <1>1, <2>1 DEF Open, UnixSockets
  <2> QED BY <1>2, <1>3, <2>1, <2>2
<1>5. CASE ConnectDatagram(s)
  <2>1. /\ Only(s) /\ call'[s] = NoCall /\ UNCHANGED <<sk, dir>>
        /\ \/ si'[s] = si[s]
           \/ si'[s] = [Connected(si[s], call[s].to) EXCEPT !.deferConnect = TRUE]
    BY <1>5, DoConnectDatagram
  <2>2. si'[s].unAddr = si[s].unAddr
    BY <1>1, <2>1 DEF Connected, Infos
  <2> QED BY <1>2, <1>3, <2>1, <2>2 DEF Open
<1>6. CASE ConnectStream(s)
  <2>1. /\ UNCHANGED <<si, dir>> /\ \A t \in Socks \ {s} : call'[t] = call[t]
    BY <1>6, DoConnectStream
  <2>2. CASE call'[s] = NoCall /\ UNCHANGED sk
    BY <1>2, <2>1, <2>2, AutoQuiet DEF Open
  <2>3. ASSUME NEW q \in Socks \ {s}, NEW e, sk[s].state = "new", sk[q].state = "listen",
               sk'[s] = [sk[s] EXCEPT !.state = "connected"],
               sk'[q] = [sk[q] EXCEPT !.queue = Append(@, e)],
               \A t \in Socks \ {s, q} : sk'[t] = sk[t],
               call'[s] = [call[s] EXCEPT !.pc = "connected"]
        PROVE  AutoInv'
    <3>1. sk[q] \in UnixSockets
      BY Fields DEF Inv
    <3>2. sk'[s].state = "connected" /\ sk'[q].state = "listen"
      BY <1>1, <2>3, <3>1 DEF UnixSockets
    <3>3. \A t \in Socks : Open(t)' = Open(t)
      BY <2>3, <3>2 DEF Open
    <3>4. call'[s].pc = "connected"
      BY <1>1, <2>3 DEF Calls
    <3> QED BY <2>1, <3>3, <3>4, AutoQuiet
  <2>4. \/ call'[s] = NoCall /\ UNCHANGED sk
        \/ \E q \in Socks \ {s} :
             /\ sk[s].state = "new" /\ sk[q].state = "listen"
             /\ sk'[s] = [sk[s] EXCEPT !.state = "connected"]
             /\ \E e : sk'[q] = [sk[q] EXCEPT !.queue = Append(@, e)]
             /\ \A t \in Socks \ {s, q} : sk'[t] = sk[t]
             /\ call'[s] = [call[s] EXCEPT !.pc = "connected"]
    BY <1>6, DoConnectStream
  <2> QED BY <2>2, <2>3, <2>4
<1>7. CASE ConnectedStream(s)
  <2>1. /\ Only(s) /\ call'[s] = NoCall /\ UNCHANGED <<sk, dir>>
        /\ si'[s] = Connected(si[s], call[s].to)
    BY <1>7, DoConnectedStream
  <2>2. si'[s].unAddr = si[s].unAddr
    BY <1>1, <2>1 DEF Connected, Infos
  <2> QED BY <1>2, <1>3, <2>1, <2>2 DEF Open
<1>8. CASE SendBefore(s)
  <2>1. /\ Only(s) /\ call'[s] = NoCall /\ UNCHANGED dir
        /\ \/ UNCHANGED <<si, sk>>
           \/ /\ si'[s] = [si[s] EXCEPT !.deferConnect = FALSE]
              /\ sk'[s] = sk[s] \/ \E q : sk'[s] = Repeer(sk[s], q)
    BY <1>8, DoSendBefore
  <2>2. si'[s].unAddr = si[s].unAddr
    BY <1>1, <2>1 DEF Infos
  <2>3. \A q : Repeer(sk[s], q).state = sk[s].state
    BY <1>1 DEF Repeer, UnixSockets
  <2> QED BY <1>2, <1>3, <2>1, <2>2, <2>3 DEF Open
<1>9. CASE LibcSendto(s)
  <2>1. UNCHANGED <<si, dir, call>>
    BY <1>9, DoLibcSendto
  <2>2. Repeer(sk[s], None).state = sk[s].state
    BY <1>1 DEF Repeer, UnixSockets
  <2>3. \A q \in Socks : [sk[q] EXCEPT !.queue = Append(@, Datagram(s))].state = sk[q].state
    <3> SUFFICES ASSUME NEW q \in Socks
                 PROVE  [sk[q] EXCEPT !.queue = Append(@, Datagram(s))].state = sk[q].state
      OBVIOUS
    <3>1. sk[q] \in UnixSockets
      BY Fields DEF Inv
    <3> QED BY <3>1 DEF UnixSockets
  <2>4. \/ UNCHANGED sk
        \/ \E q \in Socks :
             /\ sk'[q] = [sk[q] EXCEPT !.queue = Append(@, Datagram(s))]
             /\ \A t \in Socks \ {q} : sk'[t] = sk[t]
        \/ /\ sk'[s] = Repeer(sk[s], None)
           /\ \A t \in Socks \ {s} : sk'[t] = sk[t]
    BY <1>9, DoLibcSendto
  <2>5. \A t \in Socks : sk'[t].state = sk[t].state
    BY <2>2, <2>3, <2>4
  <2> QED BY <2>1, <2>5, AutoQuiet DEF Open
<1>10. CASE SendBroadcast(s)
  <2>1. UNCHANGED <<si, dir, call>>
    BY <1>10, DoSendBroadcast
  <2>2. ASSUME NEW t \in Socks PROVE Open(t)' = Open(t)
    <3>1. sk[t] \in UnixSockets
      BY Fields DEF Inv
    <3>2. sk'[t] = sk[t] \/ sk'[t] = [sk[t] EXCEPT !.queue = Append(@, Datagram(s))]
      BY <1>10, DoSendBroadcast
    <3> QED BY <3>1, <3>2 DEF Open, UnixSockets
  <2> QED BY <2>1, <2>2, AutoQuiet
<1>11. CASE LibcRecvfrom(s)
  <2>1. /\ Only(s) /\ UNCHANGED <<si, dir, call>>
        /\ sk'[s] = [sk[s] EXCEPT !.queue = Tail(@)]
    BY <1>11, DoLibcRecvfrom
  <2>2. Open(s)' = Open(s)
    BY <1>1, <2>1 DEF Open, UnixSockets
  <2> QED BY <1>3, <2>1, <2>2
<1> QED BY <1>4, <1>5, <1>6, <1>7, <1>8, <1>9, <1>10, <1>11

LEMMA AutoAcceptFrom ==
  ASSUME Inv, AutoInv, NEW s \in Socks, NEW c \in Socks, AcceptFrom(s, c)
  PROVE  AutoInv'
<1>1. PICK e \in Entries : Accepts(s, c, e)
  BY DoAcceptFrom
<1>2. /\ UNCHANGED <<dir, call>> /\ ~Open(c) /\ At(c, "idle") /\ sk[s].state = "listen"
      /\ \A t \in Socks \ {c} : si'[t] = si[t]
      /\ si'[c].unAddr = None
      /\ \A t \in Socks \ {s, c, e.from} : sk'[t] = sk[t]
      /\ sk'[s] = [sk[s] EXCEPT !.queue = Tail(@)]
      /\ e.from \in Socks => sk'[e.from] = [sk[e.from] EXCEPT !.peer = c]
  BY <1>1 DEF Accepts, NoInfo
<1>3. si[c].unAddr = None
  BY <1>2 DEF Inv, SocketOf, NoInfo
<1>4. ASSUME NEW t \in Socks \ {c} PROVE Open(t)' = Open(t)
  <2>1. sk[t] \in UnixSockets
    BY Fields DEF Inv
  <2> QED BY <1>2, <2>1 DEF Open, UnixSockets
<1> QED BY <1>2, <1>3, <1>4, AutoQuiet

LEMMA InitAuto == Init => AutoInv
BY DEF Init, AutoInv, AutoOf, Binding, At, NoInfo, NoCall

LEMMA StepAuto ==
  ASSUME Inv, AutoInv, Disciplined, [Next]_vars PROVE AutoInv'
<1>1. ASSUME NEW s \in Socks, NEW type \in {"tcp", "udp"}, CallSocket(s, type)
      PROVE  AutoInv'
  BY <1>1, AutoCallSocket DEF Types
<1>2. ASSUME NEW s \in Socks, NEW a \in BindNames, CallBind(s, a) PROVE AutoInv'
  BY <1>2, AutoCallBind
<1>3. ASSUME NEW s \in Socks, CallListen(s) PROVE AutoInv'
  BY <1>3, DoCallListen, AutoStarts
<1>4. ASSUME NEW s \in Socks, NEW to \in ConnectTargets, CallConnect(s, to) PROVE AutoInv'
  BY <1>4, DoCallConnect, AutoStarts
<1>5. ASSUME NEW s \in Socks, NEW to \in SendTargets, CallSend(s, to) PROVE AutoInv'
  BY <1>5, DoCallSend, AutoStarts
<1>6. ASSUME NEW s \in Socks, CallRecv(s) PROVE AutoInv'
  BY <1>6, DoCallRecv, AutoStarts
<1>7. ASSUME NEW s \in Socks, NEW c \in Socks, AcceptFrom(s, c) PROVE AutoInv'
  BY <1>7, AutoAcceptFrom
<1>8. ASSUME NEW s \in Socks,
             \/ LibcListen(s) \/ ConnectDatagram(s) \/ ConnectStream(s)
             \/ ConnectedStream(s) \/ SendBefore(s) \/ LibcSendto(s)
             \/ SendBroadcast(s) \/ LibcRecvfrom(s)
      PROVE  AutoInv'
  BY <1>8, AutoOthers
<1>9. ASSUME NEW s \in Socks,
             \/ AutobindSearch(s) \/ AutobindBind(s) \/ UnlinkFirst(s) \/ LibcBind(s)
             \/ CallClose(s) \/ UnlinkLast(s)
      PROVE  AutoInv'
  BY <1>9, AutoSearch, AutoBinds, AutoUnlinkFirst, AutoLibcBind, AutoCallClose,
     AutoUnlinkLast
<1>10. CASE UNCHANGED vars
  <2>1. UNCHANGED <<si, sk, dir, call>>
    BY <1>10 DEF vars
  <2> QED BY <2>1, AutoQuiet DEF Open
<1> QED BY <1>1, <1>2, <1>3, <1>4, <1>5, <1>6, <1>7, <1>8, <1>9, <1>10 DEF Next

LEMMA AlwaysAuto == Disciplined => (Spec => [](Inv /\ AutoInv))
<1> SUFFICES ASSUME Disciplined PROVE Spec => [](Inv /\ AutoInv)
  OBVIOUS
<1>1. Init => Inv /\ AutoInv
  BY InitInv, InitAuto
<1>2. Inv /\ AutoInv /\ [Next]_vars => (Inv /\ AutoInv)'
  BY StepInv, StepAuto
<1> QED BY <1>1, <1>2, PTL DEF Spec

\* A path that the search finds in use was chosen by auto-bind for a socket that is
\* not gone, or has a port that the application passes to bind().
LEMMA AllTaken ==
  ASSUME Inv, NEW type \in Types, AutobindFree(type) = {},
         NEW p \in AutobindFirst..(AutobindFirst + MaxSockets - 1)
  PROVE  \/ \E t \in Socks : si[t].unAddr = Path(type, DefaultIface, p)
         \/ \E a \in BindNames : a.port = p
<1>1. AutobindFirst \in FirstAuto..LastAuto
  BY Consts DEF AutobindFirst, Inv, TypeInv
<1>2. p \in AutoPorts
  BY <1>1, Consts DEF AutoPorts
<1>3. PICK q \in Paths : q = Path(type, DefaultIface, p) /\ q.port = p
  BY <1>2, PathType, PortRanges, Consts
<1>4. dir[q] # None
  BY <1>3 DEF AutobindFree, Bound
<1>5. BindPort(p) \/ \E t \in Socks : si[t].unAddr = q
  BY <1>3, <1>4 DEF Inv, PathOf
<1> QED BY <1>2, <1>3, <1>5, PortRanges DEF BindPort

\* If the application binds no socket to a port of auto-bind's range while another
\* is being auto-bound or still has its path there (Disciplined), then
\* swrap_auto_bind fails only when each port of its search belongs to a socket that
\* it bound or to a name that the application passes to bind(); and what its stat()
\* found free is still free at its libc_bind(), for autobind_start_mutex keeps other
\* searches away.
THEOREM AutobindAlwaysSucceeds == Disciplined => (Spec => []AutobindSucceeds)
<1> SUFFICES ASSUME Disciplined PROVE Spec => []AutobindSucceeds
  OBVIOUS
<1>1. ASSUME Inv, AutoInv PROVE AutobindSucceeds
  <2> SUFFICES ASSUME NEW s \in Socks
               PROVE  /\ At(s, "autobind") /\ AutobindFree(si[s].type) = {}
                           => \A p \in AutobindFirst..(AutobindFirst + MaxSockets - 1) :
                                \/ \E t \in Socks :
                                     si[t].unAddr = Path(si[s].type, DefaultIface, p)
                                \/ \E a \in BindNames : a.port = p
                      /\ At(s, "autobindBind") => dir[call[s].path] = None
    BY DEF AutobindSucceeds
  <2>1. AutoOf(s) /\ SocketOf(s)
    BY <1>1 DEF Inv, AutoInv
  <2>2. At(s, "autobind") => si[s].type \in Types
    BY <2>1 DEF SocketOf, At
  <2>3. At(s, "autobindBind") => dir[call[s].path] = None
    BY <2>1 DEF AutoOf
  <2> QED BY <1>1, <2>2, <2>3, AllTaken
<1> QED BY <1>1, AlwaysAuto, PTL

-----------------------------------------------------------------------------
(* Names, with a disciplined application: what a step leaves true *)

\* The client of a connection stays one.
Steady(t) == \A p : Client(t, p) => Client(t, p)' /\ sk'[t].path = sk[t].path

LEMMA SteadyIf ==
  ASSUME NEW t, si'[t] = si[t], call'[t] = call[t],
         sk'[t].state = sk[t].state, sk'[t].path = sk[t].path
  PROVE  Steady(t)
BY DEF Steady, Client, At

\* The paths of socket t still lead where they led.
DirSame(t) ==
  /\ Open(t) /\ ~si[t].isServer /\ si[t].bound => dir'[sk[t].path] = dir[sk[t].path]
  /\ Binding(t) => dir'[call[t].path] \in {None, dir[call[t].path]}

LEMMA NamesStay ==
  ASSUME NEW t \in Socks, NamesOf(t), si'[t] = si[t], call'[t] = call[t],
         Open(t)' => Open(t), sk'[t].path = sk[t].path, DirSame(t)
  PROVE  NamesOf(t)'
<1> SUFFICES ASSUME Open(t)', ~si[t].isServer PROVE NamesOf(t)'
  BY DEF NamesOf
<1>1. si[t].bound =>
        /\ dir'[sk'[t].path] = t /\ Leads(t, sk[t].path)
        /\ IF si[t].bindname = None THEN si[t].myname = NameOf(sk[t].path)
           ELSE si[t].bindname = NameOf(sk[t].path)
  BY DEF NamesOf, DirSame
<1>2. At(t, "autobind") \/ At(t, "autobindBind") => si[t].bindname = None
  BY DEF NamesOf
<1>3. Binding(t) =>
        /\ ~si[t].bound /\ dir'[call[t].path] \notin Socks
        /\ At(t, "bind") => dir'[call[t].path] = None
        /\ Leads(t, call[t].path) /\ si[t].bindname = NameOf(call[t].path)
  BY Consts DEF NamesOf, DirSame
<1>4. /\ Binding(t)' = Binding(t)
      /\ At(t, "autobind")' = At(t, "autobind")
      /\ At(t, "autobindBind")' = At(t, "autobindBind")
      /\ At(t, "bind")' = At(t, "bind")
  BY DEF Binding, At
<1>5. \A p : Leads(t, p)' = Leads(t, p)
  BY DEF Leads
<1> QED BY <1>1, <1>2, <1>3, <1>4, <1>5 DEF NamesOf

LEMMA WaitingStays ==
  ASSUME NEW q \in Socks, WaitingAt(q), si'[q].type = si[q].type,
         sk'[q].path = sk[q].path,
         si[q].type = "tcp" =>
           \A i \in 1..Len(sk'[q].queue), t \in Socks :
             t = sk'[q].queue[i].from =>
               /\ Steady(t)
               /\ \E j \in 1..Len(sk[q].queue) : sk'[q].queue[i] = sk[q].queue[j]
  PROVE  WaitingAt(q)'
<1> SUFFICES ASSUME si[q].type = "tcp", NEW i \in 1..Len(sk'[q].queue),
                    NEW t \in Socks, t = sk'[q].queue[i].from, NEW p, p = sk[q].path
             PROVE  Client(t, p)'
  BY DEF WaitingAt, Client
<1>1. PICK j \in 1..Len(sk[q].queue) : sk'[q].queue[i] = sk[q].queue[j]
  OBVIOUS
<1>2. Client(t, p) /\ Steady(t)
  BY <1>1 DEF WaitingAt
<1> QED BY <1>2 DEF Steady

LEMMA AcceptedStays ==
  ASSUME NEW c \in Socks, Accepted(c), si'[c] = si[c], Open(c)' => Open(c),
         sk'[c].path = sk[c].path,
         si[c].isServer => call'[c].pc \in {call[c].pc, "idle", "listen", "connect"},
         sk'[c].peer \in Socks => sk'[c].peer = sk[c].peer /\ Steady(sk[c].peer)
  PROVE  Accepted(c)'
<1> SUFFICES ASSUME Open(c)', si[c].isServer PROVE Accepted(c)'
  BY DEF Accepted
<1>1. /\ si[c].type = "tcp" /\ si[c].myname = NameOf(sk[c].path)
      /\ call'[c].pc \in {"idle", "listen", "connect"}
  BY DEF Accepted
<1>2. ASSUME NEW t \in Socks, t = sk'[c].peer, NEW p, p = sk[c].path
      PROVE  /\ Client(t, p)' /\ si[c].peername = NameOf(sk'[t].path)
  <2>1. Client(t, p) /\ si[c].peername = NameOf(sk[t].path) /\ Steady(t)
    BY <1>2 DEF Accepted
  <2> QED BY <2>1 DEF Steady
<1> QED BY <1>1, <1>2 DEF Accepted, Client

\* A step that works on s alone.
LEMMA NamesLocal ==
  ASSUME Inv, NameInv, NEW s \in Socks, Only(s), Steady(s),
         \A t \in Socks \ {s} : DirSame(t),
         NamesOf(s)', WaitingAt(s)', Accepted(s)',
         Binding(s)' => Binding(s) \/ \A t \in Socks : ~Binding(t)
  PROVE  NameInv'
<1>1. ASSUME NEW t \in Socks \ {s}
      PROVE  si'[t] = si[t] /\ sk'[t] = sk[t] /\ call'[t] = call[t]
  BY DEF Only
<1>2. \A t \in Socks : Steady(t)
  BY <1>1, SteadyIf
<1>3. ASSUME NEW t \in Socks \ {s} PROVE NamesOf(t)' /\ WaitingAt(t)' /\ Accepted(t)'
  <2>1. NamesOf(t) /\ WaitingAt(t) /\ Accepted(t) /\ Open(t)' = Open(t) /\ DirSame(t)
    BY <1>1 DEF NameInv, Open
  <2>2. NamesOf(t)'
    BY <1>1, <2>1, NamesStay
  <2>3. WaitingAt(t)'
    BY <1>1, <1>2, <2>1, WaitingStays
  <2>4. Accepted(t)'
    BY <1>1, <1>2, <2>1, AcceptedStays
  <2> QED BY <2>2, <2>3, <2>4
<1>4. ASSUME NEW t \in Socks, NEW u \in Socks, Binding(t)', Binding(u)' PROVE t = u
  <2>1. \A v \in Socks \ {s} : Binding(v)' = Binding(v)
    BY <1>1 DEF Binding, At
  <2> QED BY <1>4, <2>1 DEF NameInv
<1> QED BY <1>3, <1>4 DEF NameInv

\* And leaves its path, queue and peer alone.
LEMMA NamesQuiet ==
  ASSUME Inv, NameInv, NEW s \in Socks, Only(s), Steady(s),
         \A t \in Socks \ {s} : DirSame(t), NamesOf(s)',
         sk'[s].path = sk[s].path, sk'[s].queue = sk[s].queue,
         sk'[s].peer = sk[s].peer, Open(s)' => Open(s), si'[s].type = si[s].type,
         si'[s].isServer =>
           /\ si'[s] = si[s]
           /\ call'[s].pc \in {call[s].pc, "idle", "listen", "connect"},
         Binding(s)' => Binding(s) \/ \A t \in Socks : ~Binding(t)
  PROVE  NameInv'
<1>1. \A t \in Socks : Steady(t)
  BY SteadyIf DEF Only
<1>2. WaitingAt(s) /\ Accepted(s)
  BY DEF NameInv
<1>3. WaitingAt(s)'
  BY <1>1, <1>2, WaitingStays
<1>4. Accepted(s)'
  <2>1. CASE si'[s].isServer
    <3>1. si'[s] = si[s] /\ call'[s].pc \in {call[s].pc, "idle", "listen", "connect"}
      BY <2>1
    <3> QED BY <1>1, <1>2, <3>1, AcceptedStays
  <2>2. CASE ~si'[s].isServer
    BY <2>2 DEF Accepted
  <2> QED BY <2>1, <2>2
<1> QED BY <1>3, <1>4, NamesLocal

\* Only datagram sockets, and nothing but their queues and peers, change.
LEMMA NamesDatagram ==
  ASSUME Inv, NameInv, UNCHANGED <<si, dir, call>>,
         \A t \in Socks : /\ sk'[t].state = sk[t].state /\ sk'[t].path = sk[t].path
                          /\ si[t].type = "tcp" => sk'[t] = sk[t]
  PROVE  NameInv'
<1>1. \A t \in Socks : Steady(t)
  BY SteadyIf
<1>2. ASSUME NEW t \in Socks PROVE NamesOf(t)' /\ WaitingAt(t)' /\ Accepted(t)'
  <2>1. NamesOf(t) /\ WaitingAt(t) /\ Accepted(t) /\ Open(t)' = Open(t) /\ DirSame(t)
    BY DEF NameInv, Open, DirSame
  <2>2. NamesOf(t)'
    BY <2>1, NamesStay
  <2>3. WaitingAt(t)'
    BY <1>1, <2>1, WaitingStays
  <2>4. Accepted(t)'
    <3>1. CASE si[t].type = "tcp"
      BY <1>1, <2>1, <3>1, AcceptedStays
    <3>2. CASE si[t].type # "tcp"
      BY <2>1, <3>2 DEF Accepted
    <3> QED BY <3>1, <3>2
  <2> QED BY <2>2, <2>3, <2>4
<1>3. \A t \in Socks : Binding(t)' = Binding(t)
  BY DEF Binding, At
<1> QED BY <1>2, <1>3 DEF NameInv

-----------------------------------------------------------------------------
(* The steps preserve the names *)

LEMMA NamesCallSocket ==
  ASSUME Inv, NameInv, NEW s \in Socks, NEW type \in Types, CallSocket(s, type)
  PROVE  NameInv'
<1>1. /\ Only(s) /\ ~Open(s) /\ At(s, "idle")
      /\ si'[s] = [NoInfo EXCEPT !.type = type, !.myname = Unnamed]
      /\ sk'[s] = [NoSocket EXCEPT !.state = "new"]
      /\ UNCHANGED <<dir, call>>
  BY DoCallSocket
<1>2. /\ ~si'[s].bound /\ ~si'[s].isServer /\ si'[s].bindname = None
      /\ sk'[s].queue = <<>>
  BY <1>1 DEF NoInfo, NoSocket
<1>3. NamesOf(s)' /\ WaitingAt(s)' /\ Accepted(s)' /\ ~Binding(s)'
  BY <1>1, <1>2, EmptySeq DEF NamesOf, WaitingAt, Accepted, Binding, At
<1>4. Steady(s) /\ \A t \in Socks \ {s} : DirSame(t)
  BY <1>1 DEF Steady, Client, Open, DirSame
<1> QED BY <1>1, <1>3, <1>4, NamesLocal

LEMMA NamesStarts ==
  ASSUME Inv, NameInv, Disciplined, NEW s \in Socks,
         NEW label \in {"idle", "listen", "connect", "send"}, NEW to, Starts(s, label, to),
         label = "send" => si[s].type = "udp"
  PROVE  NameInv'
<1>1. /\ Only(s) /\ Open(s) /\ At(s, "idle")
      /\ UNCHANGED <<si, sk, dir>>
      /\ call'[s].pc = IF si[s].bound THEN label ELSE "autobind"
      /\ si[s].bound \/ si[s].bindname = None
  BY DEF Starts
<1>2. SocketOf(s) /\ NamesOf(s)
  BY DEF Inv, NameInv
<1>3. NamesOf(s)' /\ ~Binding(s)'
  BY <1>1, <1>2 DEF NamesOf, Binding, At, Open, Leads
<1>4. Steady(s)
  BY <1>1 DEF Steady, Client, At
<1>5. si[s].isServer => call'[s].pc \in {"idle", "listen", "connect"}
  BY <1>1, <1>2 DEF SocketOf
<1>6. \A t \in Socks : DirSame(t)
  BY <1>1 DEF DirSame
<1> QED BY <1>1, <1>3, <1>4, <1>5, <1>6, NamesQuiet DEF Open

LEMMA NamesAutobindSearch ==
  ASSUME Inv, NameInv, NEW s \in Socks, AutobindSearch(s)
  PROVE  NameInv'
<1>1. /\ Only(s) /\ At(s, "autobind") /\ si'[s] = [si[s] EXCEPT !.myname = Name(DefaultIface, 0)]
      /\ UNCHANGED <<sk, dir>>
      /\ call'[s].pc \in {"idle", "autobindBind"}
  <2>1. call[s] \in Calls
    BY Fields DEF Inv
  <2>2. \/ call'[s] = NoCall
        \/ \E p \in Paths : call'[s] = [call[s] EXCEPT !.path = p, !.pc = "autobindBind"]
    BY DoAutobindSearch
  <2>3. call'[s].pc \in {"idle", "autobindBind"}
    <3>1. CASE call'[s] = NoCall
      BY <3>1 DEF NoCall
    <3>2. ASSUME NEW p \in Paths, call'[s] = [call[s] EXCEPT !.path = p, !.pc = "autobindBind"]
          PROVE  call'[s].pc = "autobindBind"
      BY <2>1, <3>2 DEF Calls
    <3> QED BY <2>2, <3>1, <3>2
  <2> QED BY <2>3, DoAutobindSearch
<1>2. SocketOf(s) /\ CallOf(s) /\ NamesOf(s) /\ si[s] \in Infos
  BY Fields DEF Inv, NameInv
<1>3. ~si[s].bound /\ ~si[s].isServer /\ Open(s) /\ si[s].bindname = None
  BY <1>1, <1>2 DEF CallOf, SocketOf, NamesOf, At
<1>4. /\ ~si'[s].bound /\ ~si'[s].isServer /\ si'[s].bindname = None
      /\ si'[s].type = si[s].type
  BY <1>1, <1>2, <1>3 DEF Infos
<1>5. NamesOf(s)' /\ ~Binding(s)'
  BY <1>1, <1>4 DEF NamesOf, Binding, At
<1>6. Steady(s) /\ \A t \in Socks : DirSame(t)
  BY <1>1, <1>3 DEF Steady, Client, DirSame
<1> QED BY <1>1, <1>4, <1>5, <1>6, NamesQuiet DEF Open

LEMMA NamesAutobindBind ==
  ASSUME Inv, AutoInv, NameInv, NEW s \in Socks, AutobindBind(s)
  PROVE  NameInv'
<1>1. PICK p \in Paths : p = call[s].path
  BY DoAutobindBind DEF Inv, CallOf
<1>0. AutoOf(s) /\ At(s, "autobindBind")
  BY DoAutobindBind DEF AutoInv
<1>2. /\ Only(s) /\ At(s, "autobindBind") /\ dir[p] = None /\ dir' = [dir EXCEPT ![p] = s]
      /\ sk'[s] = [sk[s] EXCEPT !.path = p]
      /\ si'[s] = [si[s] EXCEPT !.bound = TRUE, !.unAddr = p,
                                !.myname = Name(DefaultIface, p.port)]
      /\ call'[s] = [call[s] EXCEPT !.pc = call[s].then]
  BY <1>0, <1>1, DoAutobindBind DEF AutoOf
<1>3. CallOf(s) /\ SocketOf(s) /\ NamesOf(s) /\ TypeInv
  BY DEF Inv, NameInv
<1>4. /\ ~si[s].bound /\ call[s].then \in {"idle", "listen", "connect", "send"}
      /\ p.type = si[s].type /\ p.port \in AutoPorts /\ p.iface = DefaultIface
  BY <1>1, <1>2, <1>3 DEF CallOf
<1>5. Open(s) /\ ~si[s].isServer /\ si[s].bindname = None
  BY <1>2, <1>3, <1>4 DEF SocketOf, NamesOf, At
<1>6. /\ si[s] \in Infos /\ sk[s] \in UnixSockets /\ call[s] \in Calls
      /\ dir \in [Paths -> Socks \cup {None, Dead}]
  BY <1>3, Fields DEF TypeInv
<1>7. /\ ~si'[s].isServer /\ si'[s].bindname = None /\ si'[s].type = si[s].type
      /\ si'[s].myname = Name(DefaultIface, p.port) /\ sk'[s].path = p
      /\ sk'[s].queue = sk[s].queue
      /\ call'[s].pc \in {"idle", "listen", "connect", "send"} /\ dir'[p] = s
  BY <1>2, <1>4, <1>5, <1>6 DEF Infos, UnixSockets, Calls
<1>8. NameOf(p) = Name(DefaultIface, p.port) /\ p = Path(si[s].type, DefaultIface, p.port)
  BY <1>4, PathParts
<1>9. Leads(s, p)'
  <2>1. BindIface(si[s].type, DefaultIface) = DefaultIface
    BY <1>4, IfaceItself, PathParts, Consts
  <2> QED BY <1>7, <1>8, <2>1 DEF Leads, Name
<1>10. NamesOf(s)' /\ ~Binding(s)'
  BY <1>7, <1>8, <1>9 DEF NamesOf, Binding, At
<1>11. WaitingAt(s)'
  <2>1. si[s].type = "tcp" => sk'[s].queue = <<>>
    BY <1>3, <1>4, <1>7 DEF SocketOf
  <2> QED BY <1>7, <2>1, EmptySeq DEF WaitingAt
<1>12. Accepted(s)' /\ Steady(s)
  BY <1>4, <1>7 DEF Accepted, Steady, Client
<1>13. ASSUME NEW t \in Socks \ {s} PROVE DirSame(t)
  <2>1. NamesOf(t) /\ CallOf(t)
    BY DEF Inv, NameInv
  <2>2. Open(t) /\ ~si[t].isServer /\ si[t].bound => dir[sk[t].path] = t
    BY <2>1 DEF NamesOf
  <2>3. Binding(t) => call[t].path # p
    BY <1>2, <1>4 DEF AutoInv, AutoOf
  <2> QED BY <1>2, <1>6, <2>2, <2>3, Consts DEF DirSame
<1> QED BY <1>2, <1>10, <1>11, <1>12, <1>13, NamesLocal

LEMMA NamesCallBind ==
  ASSUME Inv, NameInv, Disciplined, NEW s \in Socks, NEW a \in BindNames, CallBind(s, a)
  PROVE  NameInv'
<1>1. /\ Only(s) /\ Open(s) /\ At(s, "idle") /\ UNCHANGED <<sk, dir>> /\ ~si[s].bound
      /\ \E n \in Names, b \in Names \cup {None} :
           /\ si'[s] = [si[s] EXCEPT !.myname = n, !.bindname = b]
           /\ \/ call'[s] = call[s]
              \/ \E p \in Paths :
                   /\ p.type = si[s].type
                   /\ call'[s] = [call[s] EXCEPT !.pc = "unlink", !.path = p]
                   /\ BindsFresh(p, n, b)
  BY DoCallBind
<1>2. /\ SocketOf(s) /\ si[s] \in Infos /\ call[s] \in Calls
  BY Fields DEF Inv
<1>3. /\ ~si'[s].bound /\ ~si'[s].isServer /\ si'[s].type = si[s].type
  BY <1>1, <1>2 DEF Infos, SocketOf
<1>4. /\ NamesOf(s)'
      /\ Binding(s)' => \A t \in Socks : ~Binding(t)
  <2>1. CASE call'[s] = call[s]
    BY <1>1, <1>3, <2>1 DEF NamesOf, Binding, At
  <2>2. ASSUME NEW n \in Names, NEW p \in Paths,
               si'[s] = [si[s] EXCEPT !.myname = n, !.bindname = NameOf(p)],
               p.type = si[s].type,
               call'[s] = [call[s] EXCEPT !.pc = "unlink", !.path = p],
               dir[p] \notin Socks,
               Path(p.type, BindIface(p.type, n.host), n.port) = p,
               \A t \in Socks : ~Binding(t)
        PROVE  NamesOf(s)'
    <3>1. /\ call'[s].pc = "unlink" /\ call'[s].path = p
          /\ si'[s].myname = n /\ si'[s].bindname = NameOf(p)
      BY <1>2, <2>2 DEF Infos, Calls
    <3>2. Leads(s, p)'
      BY <1>3, <2>2, <3>1 DEF Leads
    <3> QED BY <1>1, <1>3, <2>2, <3>1, <3>2 DEF NamesOf, At
  <2>3. ASSUME NEW n, NEW b, NEW p, BindsFresh(p, n, b)
        PROVE  /\ b = NameOf(p) /\ dir[p] \notin Socks
               /\ Path(p.type, BindIface(p.type, n.host), n.port) = p
               /\ \A t \in Socks : ~Binding(t)
    BY <2>3 DEF BindsFresh
  <2>4. PICK n \in Names, b \in Names \cup {None} :
          /\ si'[s] = [si[s] EXCEPT !.myname = n, !.bindname = b]
          /\ \/ call'[s] = call[s]
             \/ \E p \in Paths :
                  /\ p.type = si[s].type
                  /\ call'[s] = [call[s] EXCEPT !.pc = "unlink", !.path = p]
                  /\ BindsFresh(p, n, b)
    BY <1>1
  <2>5. ASSUME NEW p \in Paths, p.type = si[s].type,
               call'[s] = [call[s] EXCEPT !.pc = "unlink", !.path = p],
               BindsFresh(p, n, b)
        PROVE  NamesOf(s)' /\ \A t \in Socks : ~Binding(t)
    <3>1. /\ b = NameOf(p) /\ dir[p] \notin Socks
          /\ Path(p.type, BindIface(p.type, n.host), n.port) = p
          /\ \A t \in Socks : ~Binding(t)
      BY <2>3, <2>5
    <3>2. si'[s] = [si[s] EXCEPT !.myname = n, !.bindname = NameOf(p)]
      BY <2>4, <3>1
    <3>3. NamesOf(s)'
      BY <2>2, <2>5, <3>1, <3>2
    <3> QED BY <3>1, <3>3
  <2>6. call'[s] = call[s] => ~Binding(s)'
    BY <1>1 DEF Binding, At
  <2> QED BY <2>1, <2>4, <2>5, <2>6
<1>5. Steady(s) /\ \A t \in Socks : DirSame(t)
  BY <1>1 DEF Steady, Client, DirSame
<1> QED BY <1>1, <1>3, <1>4, <1>5, NamesQuiet DEF Open

\* A bind() leaves the paths of the others alone.
LEMMA BindLeaves ==
  ASSUME Inv, NameInv, NEW s \in Socks, Binding(s), NEW p \in Paths, p = call[s].path,
         \A r \in Paths \ {p} : dir'[r] = dir[r]
  PROVE  /\ \A t \in Socks \ {s} : DirSame(t)
         /\ Open(s) /\ ~si[s].isServer /\ ~si[s].bound
<1>1. SocketOf(s) /\ NamesOf(s) /\ Accepted(s) /\ TypeInv
  BY DEF Inv, NameInv
<1>2. Open(s) /\ ~si[s].isServer
  BY <1>1 DEF SocketOf, Accepted, Binding, At
<1>3. ~si[s].bound /\ dir[p] \notin Socks
  BY <1>1, <1>2 DEF NamesOf
<1>4. ASSUME NEW t \in Socks \ {s} PROVE DirSame(t)
  <2>1. SocketOf(t) /\ NamesOf(t) /\ ~Binding(t) /\ sk[t] \in UnixSockets
    BY <1>1, Fields DEF Inv, NameInv
  <2>2. Open(t) /\ ~si[t].isServer /\ si[t].bound => dir[sk[t].path] = t /\ sk[t].path \in Paths
    BY <2>1 DEF NamesOf, SocketOf, UnixSockets
  <2> QED BY <1>3, <2>1, <2>2 DEF DirSame
<1> QED BY <1>2, <1>3, <1>4

LEMMA NamesUnlinkFirst ==
  ASSUME Inv, NameInv, NEW s \in Socks, UnlinkFirst(s) PROVE NameInv'
<1>1. PICK p \in Paths : p = call[s].path
  BY DoUnlinkFirst
<1>2. /\ Only(s) /\ At(s, "unlink") /\ UNCHANGED <<si, sk>>
      /\ dir' = [dir EXCEPT ![p] = None]
      /\ call'[s] = [call[s] EXCEPT !.pc = "bind"]
  BY <1>1, DoUnlinkFirst
<1>3. /\ NamesOf(s) /\ call[s] \in Calls /\ Binding(s)
      /\ dir \in [Paths -> Socks \cup {None, Dead}]
  BY <1>2, Fields DEF Inv, NameInv, TypeInv, Binding
<1>4. call'[s].pc = "bind" /\ call'[s].path = p /\ dir'[p] = None
      /\ \A r \in Paths \ {p} : dir'[r] = dir[r]
  BY <1>1, <1>2, <1>3 DEF Calls
<1>5. /\ \A t \in Socks \ {s} : DirSame(t)
      /\ Open(s) /\ ~si[s].isServer /\ ~si[s].bound
  BY <1>1, <1>3, <1>4, BindLeaves
<1>6. Leads(s, p) /\ si[s].bindname = NameOf(p)
  BY <1>1, <1>3, <1>5 DEF NamesOf
<1>7. Leads(s, p)'
  BY <1>2, <1>6 DEF Leads
<1>8. NamesOf(s)'
  BY <1>2, <1>4, <1>5, <1>6, <1>7, Consts DEF NamesOf, At
<1>9. Steady(s)
  BY <1>5 DEF Steady, Client
<1> QED BY <1>2, <1>3, <1>5, <1>8, <1>9, NamesQuiet DEF Open

LEMMA NamesLibcBind ==
  ASSUME Inv, NameInv, NEW s \in Socks, LibcBind(s) PROVE NameInv'
<1>1. PICK p \in Paths : p = call[s].path
  BY DoLibcBind
<1>2. /\ Only(s) /\ At(s, "bind") /\ call'[s] = NoCall
      /\ \/ UNCHANGED <<si, sk, dir>> /\ (dir[p] # None \/ sk[s].path # None)
         \/ /\ dir[p] = None /\ sk[s].path = None
            /\ dir' = [dir EXCEPT ![p] = s]
            /\ sk'[s] = [sk[s] EXCEPT !.path = p]
            /\ si'[s] = [si[s] EXCEPT !.bound = TRUE]
  BY <1>1, DoLibcBind
<1>3. /\ NamesOf(s) /\ Binding(s) /\ CallOf(s) /\ SocketOf(s)
      /\ dir \in [Paths -> Socks \cup {None, Dead}]
      /\ si[s] \in Infos /\ sk[s] \in UnixSockets
  BY <1>2, Fields DEF Inv, NameInv, TypeInv, Binding
<1>4. \A r \in Paths \ {p} : dir'[r] = dir[r]
  BY <1>2, <1>3
<1>5. /\ \A t \in Socks \ {s} : DirSame(t)
      /\ Open(s) /\ ~si[s].isServer /\ ~si[s].bound
  BY <1>1, <1>3, <1>4, BindLeaves
<1>6. Leads(s, p) /\ si[s].bindname = NameOf(p) /\ dir[p] = None /\ sk[s].path = None
  BY <1>1, <1>2, <1>3, <1>5 DEF NamesOf, SocketOf
<1>7. /\ sk'[s].path = p /\ sk'[s].queue = sk[s].queue /\ sk'[s].state = sk[s].state
      /\ dir'[p] = s
      /\ si'[s].type = si[s].type /\ si'[s].myname = si[s].myname
      /\ si'[s].bindname = si[s].bindname /\ ~si'[s].isServer
      /\ call'[s].pc = "idle"
  BY <1>2, <1>3, <1>5, <1>6 DEF Infos, UnixSockets, NoCall
<1>8. Leads(s, p)'
  BY <1>6, <1>7 DEF Leads
<1>9. NamesOf(s)' /\ ~Binding(s)'
  BY <1>6, <1>7, <1>8, PathParts DEF NamesOf, Binding, At
<1>10. WaitingAt(s)'
  <2>1. si[s].type = "tcp" => sk'[s].queue = <<>>
    BY <1>3, <1>5, <1>7 DEF SocketOf
  <2> QED BY <1>7, <2>1, EmptySeq DEF WaitingAt
<1>11. Accepted(s)' /\ Steady(s)
  BY <1>5, <1>7 DEF Accepted, Steady, Client
<1> QED BY <1>2, <1>5, <1>9, <1>10, <1>11, NamesLocal

LEMMA NamesLibcListen ==
  ASSUME Inv, NameInv, NEW s \in Socks, LibcListen(s) PROVE NameInv'
<1>1. /\ Only(s) /\ At(s, "listen") /\ call'[s] = NoCall /\ UNCHANGED <<si, dir>>
      /\ sk'[s] = IF sk[s].state = "new" THEN [sk[s] EXCEPT !.state = "listen"]
                  ELSE sk[s]
  BY DoLibcListen
<1>2. NamesOf(s) /\ SocketOf(s) /\ sk[s] \in UnixSockets
  BY Fields DEF Inv, NameInv
<1>3. /\ sk'[s].path = sk[s].path /\ sk'[s].queue = sk[s].queue
      /\ sk'[s].peer = sk[s].peer
      /\ sk[s].state = "connected" => sk'[s].state = "connected"
      /\ call'[s].pc = "idle" /\ Open(s)
  BY <1>1, <1>2 DEF UnixSockets, NoCall, SocketOf, At
<1>4. NamesOf(s)' /\ ~Binding(s)'
  BY <1>1, <1>2, <1>3 DEF NamesOf, Binding, At, Leads
<1>5. Steady(s) /\ \A t \in Socks \ {s} : DirSame(t)
  BY <1>1, <1>3 DEF Steady, Client, DirSame, At
<1> QED BY <1>1, <1>3, <1>4, <1>5, NamesQuiet

\* connect() settles the name of a socket that is bound.
LEMMA NamesConnected ==
  ASSUME Inv, NEW s \in Socks, NamesOf(s), Open(s), ~si[s].isServer, si[s].bound,
         sk'[s] = sk[s], dir' = dir, call'[s] = NoCall, NEW to \in Names,
         si'[s].bound, si'[s].type = si[s].type,
         si'[s].myname = Connected(si[s], to).myname,
         si'[s].bindname = None
  PROVE  /\ NamesOf(s)' /\ ~Binding(s)'
         /\ si'[s].myname = NameOf(sk[s].path)
<1>1. /\ SocketOf(s) /\ si[s] \in Infos /\ sk[s] \in UnixSockets
  BY Fields DEF Inv
<1>2. PICK p \in Paths : p = sk[s].path /\ p.type = si[s].type
  BY <1>1 DEF SocketOf, UnixSockets
<1>3. /\ dir[p] = s /\ Leads(s, p)
      /\ IF si[s].bindname = None THEN si[s].myname = NameOf(p)
         ELSE si[s].bindname = NameOf(p)
  BY <1>2 DEF NamesOf
<1>4. si'[s].myname = NameOf(p)
  BY <1>1, <1>3 DEF Connected, Infos
<1>5. NameOf(p) = Name(p.iface, p.port) /\ p = Path(p.type, p.iface, p.port)
      /\ BindIface(p.type, p.iface) = p.iface
  BY PathParts, IfaceItself
<1>6. Leads(s, p)'
  BY <1>2, <1>4, <1>5 DEF Leads, Name
<1>7. call'[s].pc = "idle"
  BY DEF NoCall
<1> QED BY <1>2, <1>3, <1>4, <1>6, <1>7 DEF NamesOf, Binding, At

LEMMA NamesConnectDatagram ==
  ASSUME Inv, NameInv, NEW s \in Socks, ConnectDatagram(s) PROVE NameInv'
<1>1. /\ Only(s) /\ At(s, "connect") /\ si[s].type = "udp"
      /\ call[s].to \in Names /\ call'[s] = NoCall
      /\ UNCHANGED <<sk, dir>>
      /\ \/ si'[s] = si[s]
         \/ si'[s] = [Connected(si[s], call[s].to) EXCEPT !.deferConnect = TRUE]
  BY DoConnectDatagram
<1>2. NamesOf(s) /\ SocketOf(s) /\ CallOf(s) /\ si[s] \in Infos
  BY Fields DEF Inv, NameInv
<1>3. Open(s) /\ ~si[s].isServer /\ si[s].bound /\ call'[s].pc = "idle"
  BY <1>1, <1>2 DEF SocketOf, CallOf, At, NoCall
<1>4. NamesOf(s)' /\ ~Binding(s)' /\ ~si'[s].isServer /\ si'[s].type = si[s].type
  <2>1. CASE si'[s] = si[s]
    BY <1>1, <1>2, <1>3, <2>1 DEF NamesOf, Binding, At, Leads
  <2>2. CASE si'[s] = [Connected(si[s], call[s].to) EXCEPT !.deferConnect = TRUE]
    <3>1. PICK info \in Infos : info = Connected(si[s], call[s].to)
      BY <1>1, <1>2, ConnectedType
    <3>2. /\ info.bound /\ info.type = si[s].type /\ info.bindname = None
          /\ ~info.isServer
      BY <1>2, <1>3, <3>1 DEF Connected, Infos
    <3>3. /\ si'[s].bound /\ si'[s].type = si[s].type
          /\ si'[s].myname = info.myname /\ si'[s].bindname = None
          /\ ~si'[s].isServer
      BY <2>2, <3>1, <3>2 DEF Infos
    <3> QED BY <1>1, <1>2, <1>3, <3>1, <3>3, NamesConnected
  <2> QED BY <1>1, <2>1, <2>2
<1>5. Steady(s) /\ \A t \in Socks \ {s} : DirSame(t)
  BY <1>1 DEF Steady, Client, DirSame
<1> QED BY <1>1, <1>4, <1>5, NamesQuiet DEF Open

LEMMA NamesConnectedStream ==
  ASSUME Inv, NameInv, NEW s \in Socks, ConnectedStream(s) PROVE NameInv'
<1>1. /\ Only(s) /\ At(s, "connected") /\ call[s].to \in Names
      /\ UNCHANGED <<sk, dir>>
      /\ call'[s] = NoCall /\ si'[s] = Connected(si[s], call[s].to)
  BY DoConnectedStream
<1>2. NamesOf(s) /\ SocketOf(s) /\ CallOf(s) /\ si[s] \in Infos
  BY Fields DEF Inv, NameInv
<1>3. Open(s) /\ ~si[s].isServer /\ si[s].bound /\ call'[s].pc = "idle"
  BY <1>1, <1>2 DEF SocketOf, CallOf, At, NoCall
<1>4. /\ si'[s].bound /\ si'[s].type = si[s].type /\ si'[s].bindname = None
      /\ ~si'[s].isServer /\ si'[s].peername = call[s].to
  BY <1>1, <1>2, <1>3 DEF Connected, Infos
<1>5. NamesOf(s)' /\ ~Binding(s)' /\ si'[s].myname = NameOf(sk[s].path)
  BY <1>1, <1>2, <1>3, <1>4, NamesConnected
<1>6. Steady(s)
  BY <1>1, <1>3, <1>4, <1>5 DEF Steady, Client, At
<1>7. \A t \in Socks \ {s} : DirSame(t)
  BY <1>1 DEF DirSame
<1> QED BY <1>1, <1>4, <1>5, <1>6, <1>7, NamesQuiet DEF Open

LEMMA NamesSendBefore ==
  ASSUME Inv, NameInv, NEW s \in Socks, SendBefore(s) PROVE NameInv'
<1>1. /\ Only(s) /\ At(s, "send") /\ call'[s] = NoCall /\ UNCHANGED dir
      /\ si'[s] \in {si[s], [si[s] EXCEPT !.deferConnect = FALSE]}
      /\ \/ sk'[s] = sk[s]
         \/ \E q \in Socks : sk'[s] = Repeer(sk[s], q)
  BY DoSendBefore
<1>2. /\ NamesOf(s) /\ SocketOf(s) /\ CallOf(s) /\ si[s] \in Infos
      /\ sk[s] \in UnixSockets
  BY Fields DEF Inv, NameInv
<1>3. si[s].type = "udp" /\ ~si[s].isServer /\ Open(s) /\ call'[s].pc = "idle"
  BY <1>1, <1>2 DEF SocketOf, CallOf, Going, At, NoCall
<1>4. sk'[s].path = sk[s].path /\ sk'[s].state = sk[s].state
  BY <1>1, <1>2, RepeerType
<1>5. /\ si'[s].type = "udp" /\ ~si'[s].isServer /\ si'[s].bound = si[s].bound
      /\ si'[s].myname = si[s].myname /\ si'[s].bindname = si[s].bindname
  BY <1>1, <1>2, <1>3 DEF Infos
<1>6. NamesOf(s)' /\ ~Binding(s)' /\ WaitingAt(s)' /\ Accepted(s)'
  <2>1. \A p : Leads(s, p)' = Leads(s, p)
    BY <1>3, <1>5 DEF Leads
  <2> QED BY <1>1, <1>2, <1>3, <1>4, <1>5, <2>1
          DEF NamesOf, Binding, At, WaitingAt, Accepted
<1>7. Steady(s) /\ \A t \in Socks \ {s} : DirSame(t)
  BY <1>1, <1>3 DEF Steady, Client, DirSame
<1> QED BY <1>1, <1>6, <1>7, NamesLocal

LEMMA NamesUnlinkLast ==
  ASSUME Inv, AutoInv, NameInv, NEW s \in Socks, UnlinkLast(s) PROVE NameInv'
<1>1. /\ Only(s) /\ At(s, "unlinkLast") /\ call'[s] = NoCall /\ UNCHANGED sk
      /\ si'[s] = NoInfo
      /\ dir' = IF si[s].unAddr = None THEN dir
                ELSE [dir EXCEPT ![si[s].unAddr] = None]
  BY DoUnlinkLast
<1>2. SocketOf(s) /\ si[s] \in Infos /\ dir \in [Paths -> Socks \cup {None, Dead}]
  BY Fields DEF Inv, TypeInv
<1>3. /\ ~Open(s) /\ sk[s] = NoSocket
      /\ si[s].unAddr # None => dir[si[s].unAddr] = Dead
  BY <1>1, <1>2 DEF SocketOf, AutoInv, AutoOf
<1>4. NamesOf(s)' /\ ~Binding(s)' /\ WaitingAt(s)' /\ Accepted(s)' /\ Steady(s)
  BY <1>1, <1>2, <1>3, EmptySeq DEF NamesOf, Binding, At, WaitingAt, Accepted, Steady, Client,
     Open, NoSocket, NoInfo, NoCall, SocketOf
<1>5. ASSUME NEW t \in Socks \ {s} PROVE DirSame(t)
  <2>1. NamesOf(t) /\ SocketOf(t) /\ CallOf(t) /\ sk[t] \in UnixSockets
    BY Fields DEF Inv, NameInv
  <2>2. si[s].unAddr = None \/ si[s].unAddr \in Paths
    BY <1>2 DEF Infos
  <2>3. \A p \in Paths : dir'[p] = dir[p] \/ (dir'[p] = None /\ dir[p] = Dead)
    BY <1>1, <1>2, <1>3, <2>2
  <2>4. Open(t) /\ ~si[t].isServer /\ si[t].bound => dir[sk[t].path] = t /\ sk[t].path \in Paths
    BY <2>1 DEF NamesOf, SocketOf, UnixSockets
  <2>5. Binding(t) => call[t].path \in Paths
    BY <2>1 DEF CallOf, Binding
  <2> QED BY <2>3, <2>4, <2>5, Consts DEF DirSame
<1> QED BY <1>1, <1>4, <1>5, NamesLocal

LEMMA NamesLibcRecvfrom ==
  ASSUME Inv, NameInv, NEW s \in Socks, LibcRecvfrom(s) PROVE NameInv'
<1>1. /\ Only(s) /\ si[s].type = "udp" /\ UNCHANGED <<si, dir, call>>
      /\ sk'[s] = [sk[s] EXCEPT !.queue = Tail(@)] /\ sk[s] \in UnixSockets
  BY DoLibcRecvfrom, Fields DEF Inv
<1>2. \A t \in Socks : /\ sk'[t].state = sk[t].state /\ sk'[t].path = sk[t].path
                       /\ si[t].type = "tcp" => sk'[t] = sk[t]
  BY <1>1 DEF Only, UnixSockets
<1> QED BY <1>1, <1>2, NamesDatagram

LEMMA NamesLibcSendto ==
  ASSUME Inv, NameInv, NEW s \in Socks, LibcSendto(s) PROVE NameInv'
<1>1. /\ sending[s].active /\ UNCHANGED <<si, dir, call>>
      /\ \/ UNCHANGED sk
         \/ \E q \in Socks :
              /\ q = IF si[s].connected THEN sk[s].peer ELSE Bound(sending[s].path)
              /\ Len(sk[q].queue) < Backlog
              /\ sk'[q] = [sk[q] EXCEPT !.queue = Append(@, Datagram(s))]
              /\ \A t \in Socks \ {q} : sk'[t] = sk[t]
         \/ /\ sk'[s] = Repeer(sk[s], None)
            /\ \A t \in Socks \ {s} : sk'[t] = sk[t]
  BY DoLibcSendto
<1>2. TypeInv /\ CallOf(s) /\ sk[s] \in UnixSockets
  BY Fields DEF Inv
<1>3. PICK q \in Socks :
        /\ si[q].type = "udp"
        /\ sk'[q].state = sk[q].state /\ sk'[q].path = sk[q].path
        /\ \A t \in Socks \ {q} : sk'[t] = sk[t]
  <2>1. ASSUME NEW q \in Socks,
               q = IF si[s].connected THEN sk[s].peer ELSE Bound(sending[s].path),
               sk'[q] = [sk[q] EXCEPT !.queue = Append(@, Datagram(s))]
        PROVE  /\ si[q].type = "udp"
               /\ sk'[q].state = sk[q].state /\ sk'[q].path = sk[q].path
    <3>1. si[q].type = "udp"
      BY <1>1, <2>1, SendsToDatagram
    <3>2. sk[q] \in UnixSockets
      BY <1>2, Fields
    <3> QED BY <2>1, <3>1, <3>2 DEF UnixSockets
  <2>2. si[s].type = "udp"
    BY <1>1, <1>2 DEF CallOf
  <2>3. CASE UNCHANGED sk
    BY <2>2, <2>3
  <2>4. CASE sk'[s] = Repeer(sk[s], None) /\ \A t \in Socks \ {s} : sk'[t] = sk[t]
    BY <1>2, <2>2, <2>4, RepeerType
  <2> QED BY <1>1, <2>1, <2>3, <2>4
<1>4. \A t \in Socks : /\ sk'[t].state = sk[t].state /\ sk'[t].path = sk[t].path
                       /\ si[t].type = "tcp" => sk'[t] = sk[t]
  BY <1>3
<1> QED BY <1>1, <1>4, NamesDatagram

LEMMA NamesSendBroadcast ==
  ASSUME Inv, NameInv, NEW s \in Socks, SendBroadcast(s) PROVE NameInv'
<1>1. /\ UNCHANGED <<si, dir, call>>
      /\ \A q \in Socks :
           \/ sk'[q] = sk[q]
           \/ /\ \E p \in Paths : p.type = "udp" /\ dir[p] = q
              /\ Len(sk[q].queue) < Backlog
              /\ sk'[q] = [sk[q] EXCEPT !.queue = Append(@, Datagram(s))]
  BY DoSendBroadcast
<1>2. ASSUME NEW t \in Socks
      PROVE  /\ sk'[t].state = sk[t].state /\ sk'[t].path = sk[t].path
             /\ si[t].type = "tcp" => sk'[t] = sk[t]
  <2>1. sk[t] \in UnixSockets
    BY Fields DEF Inv
  <2>2. sk'[t] # sk[t] => si[t].type = "udp"
    BY <1>1, LeadsToDatagram
  <2> QED BY <1>1, <2>1, <2>2 DEF UnixSockets
<1> QED BY <1>1, <1>2, NamesDatagram

LEMMA NamesConnectStream ==
  ASSUME Inv, NameInv, NEW s \in Socks, ConnectStream(s) PROVE NameInv'
<1>1. /\ At(s, "connect") /\ si[s].type = "tcp" /\ call[s].to \in Names
      /\ UNCHANGED <<si, dir, sending>>
      /\ \A t \in Socks \ {s} : call'[t] = call[t]
      /\ \/ call'[s] = NoCall /\ UNCHANGED sk
         \/ \E q \in Socks \ {s} :
              /\ q = Bound(RemotePath("tcp", call[s].to))
              /\ sk[s].state = "new" /\ sk[q].state = "listen"
              /\ Len(sk[q].queue) < Backlog
              /\ sk'[s] = [sk[s] EXCEPT !.state = "connected"]
              /\ sk'[q] = [sk[q] EXCEPT
                            !.queue = Append(@, [from |-> s, path |-> sk[s].path])]
              /\ \A t \in Socks \ {s, q} : sk'[t] = sk[t]
              /\ call'[s] = [call[s] EXCEPT !.pc = "connected"]
  BY DoConnectStream
<1>2. TypeInv /\ CallOf(s) /\ SocketOf(s) /\ NamesOf(s)
  BY DEF Inv, NameInv
<1>3. /\ sk[s] \in UnixSockets /\ call[s] \in Calls /\ si[s].bound /\ Open(s)
  BY <1>1, <1>2, Fields DEF CallOf, At, SocketOf
<1>4. \A t \in Socks : DirSame(t)
  BY <1>1 DEF DirSame
<1>5. ASSUME call'[s].pc \in {"idle", "connected"}, Open(s)', sk'[s].path = sk[s].path
      PROVE  NamesOf(s)'
  BY <1>1, <1>2, <1>3, <1>5 DEF NamesOf, Binding, At, Leads
<1>6. CASE call'[s] = NoCall /\ UNCHANGED sk
  <2>1. call'[s].pc = "idle"
    BY <1>6 DEF NoCall
  <2>2. NamesOf(s)' /\ ~Binding(s)'
    BY <1>3, <1>5, <1>6, <2>1 DEF Open, Binding, At
  <2>3. Steady(s)
    BY <1>1, <1>6, <2>1 DEF Steady, Client, At
  <2> QED BY <1>1, <1>4, <1>6, <2>1, <2>2, <2>3, NamesQuiet DEF Only, Open
<1>7. ASSUME NEW q \in Socks \ {s},
             q = Bound(RemotePath("tcp", call[s].to)),
             sk[s].state = "new", sk[q].state = "listen", Len(sk[q].queue) < Backlog,
             sk'[s] = [sk[s] EXCEPT !.state = "connected"],
             sk'[q] = [sk[q] EXCEPT
                        !.queue = Append(@, [from |-> s, path |-> sk[s].path])],
             \A t \in Socks \ {s, q} : sk'[t] = sk[t],
             call'[s] = [call[s] EXCEPT !.pc = "connected"]
      PROVE  NameInv'
  <2>1. sk[q] \in UnixSockets /\ SocketOf(q) /\ WaitingAt(q)
    BY <1>2, Fields DEF Inv, NameInv
  <2>2. PICK e \in Entries : e = [from |-> s, path |-> sk[s].path]
    BY <1>3 DEF Entries, UnixSockets
  <2>3. /\ sk'[s].state = "connected" /\ sk'[s].path = sk[s].path
        /\ sk'[s].peer = sk[s].peer /\ sk'[s].queue = sk[s].queue
        /\ sk'[q].state = "listen" /\ sk'[q].path = sk[q].path
        /\ sk'[q].peer = sk[q].peer /\ sk'[q].queue = Append(sk[q].queue, e)
        /\ call'[s].pc = "connected" /\ call'[s].to = call[s].to
    BY <1>3, <1>7, <2>1, <2>2 DEF UnixSockets, Calls
  <2>4. ~si[s].isServer /\ ~si[q].isServer
    BY <1>2, <1>7, <2>1 DEF SocketOf
  <2>5. ASSUME NEW t \in Socks \ {s}
        PROVE  /\ sk'[t].state = sk[t].state /\ sk'[t].path = sk[t].path
               /\ sk'[t].peer = sk[t].peer /\ call'[t] = call[t]
    <3>1. CASE t = q
      BY <1>1, <1>7, <2>3, <3>1
    <3>2. CASE t # q
      BY <1>1, <1>7, <3>2
    <3> QED BY <3>1, <3>2
  <2>6. ASSUME NEW t \in Socks PROVE Steady(t)
    <3>1. CASE t = s
      BY <1>7, <3>1 DEF Steady, Client
    <3>2. CASE t # s
      BY <1>1, <2>5, <3>2, SteadyIf
    <3> QED BY <3>1, <3>2
  <2>7. ASSUME NEW t \in Socks PROVE NamesOf(t)' /\ Accepted(t)'
    <3>1. CASE t = s
      BY <1>1, <1>5, <2>3, <2>4, <3>1 DEF Open, Accepted
    <3>2. CASE t # s
      <4>1. /\ NamesOf(t) /\ Accepted(t) /\ Open(t)' = Open(t)
        BY <2>5, <3>2 DEF NameInv, Open
      <4> QED BY <1>1, <1>4, <2>5, <2>6, <3>2, <4>1, NamesStay, AcceptedStays
    <3> QED BY <3>1, <3>2
  <2>8. Client(s, sk[q].path)'
    <3>1. PICK p : p = RemotePath("tcp", call[s].to)
      OBVIOUS
    <3>2. p \in Paths /\ dir[p] = q
      BY <1>7, <3>1, BoundPath
    <3>3. sk[q].path = p
      BY <3>2 DEF Inv, PathOf
    <3> QED BY <1>1, <1>3, <2>3, <2>4, <3>1, <3>3 DEF Client, At
  <2>9. ASSUME NEW t \in Socks PROVE WaitingAt(t)'
    <3>1. WaitingAt(t)
      BY DEF NameInv
    <3>2. CASE t # q
      <4>1. sk'[t].queue = sk[t].queue /\ sk'[t].path = sk[t].path
        <5>1. CASE t = s
          BY <2>3, <5>1
        <5>2. CASE t # s
          BY <1>7, <3>2, <5>2
        <5> QED BY <5>1, <5>2
      <4> QED BY <1>1, <2>6, <3>1, <4>1, WaitingStays
    <3>3. CASE t = q
      <4>0. PICK p : p = sk[q].path
        OBVIOUS
      <4>1. PICK Q : Q = sk[q].queue
        OBVIOUS
      <4>2. /\ Len(Q) \in Nat /\ Len(Append(Q, e)) = Len(Q) + 1
            /\ \A i \in 1..Len(Q) : Append(Q, e)[i] = Q[i]
            /\ Append(Q, e)[Len(Q) + 1] = e
        BY <1>2, <1>7, <4>1, Fields, Enqueue
      <4>3. ASSUME si[q].type = "tcp", NEW i \in 1..Len(Append(Q, e)), NEW u \in Socks,
                   u = Append(Q, e)[i].from
            PROVE  Client(u, p)'
        <5>1. CASE i = Len(Q) + 1
          <6>1. u = s
            BY <2>2, <4>2, <4>3, <5>1
          <6> QED BY <2>3, <2>8, <4>0, <6>1 DEF Client
        <5>2. CASE i \in 1..Len(Q)
          <6>1. Client(u, p) /\ Steady(u)
            BY <2>1, <2>6, <4>0, <4>1, <4>2, <4>3, <5>2 DEF WaitingAt
          <6> QED BY <6>1 DEF Steady
        <5> QED BY <4>2, <5>1, <5>2
      <4>4. sk'[q].queue = Append(Q, e) /\ sk'[q].path = p /\ si' = si
        BY <1>1, <2>3, <4>0, <4>1
      <4>5. WaitingAt(q)'
        BY <4>3, <4>4 DEF WaitingAt, Client
      <4> QED BY <3>3, <4>5
    <3> QED BY <3>2, <3>3
  <2>10. \A t \in Socks : Binding(t)' => Binding(t)
    BY <2>3, <2>5 DEF Binding, At
  <2> QED BY <2>7, <2>9, <2>10 DEF NameInv
<1> QED BY <1>1, <1>6, <1>7

LEMMA NamesAcceptFrom ==
  ASSUME Inv, NameInv, NEW s \in Socks, NEW c \in Socks, AcceptFrom(s, c) PROVE NameInv'
<1>1. PICK e \in Entries : Accepts(s, c, e)
  BY DoAcceptFrom
<1>2. /\ sk[s].state = "listen" /\ sk[s].queue # <<>> /\ ~Open(c) /\ At(c, "idle")
      /\ UNCHANGED <<dir, call>> /\ e = sk[s].queue[1] /\ e.from \notin {s, c}
      /\ e.from \in Socks =>
           Sender(s, e.from, e.path) /\ sk'[e.from] = [sk[e.from] EXCEPT !.peer = c]
      /\ sk'[s] = [sk[s] EXCEPT !.queue = Tail(@)]
      /\ \A t \in Socks \ {s, c, e.from} : sk'[t] = sk[t]
      /\ \A t \in Socks \ {c} : si'[t] = si[t]
  BY <1>1 DEF Accepts
<1>3. /\ sk'[c].path = sk[s].path /\ sk'[c].peer = e.from /\ sk'[c].queue = <<>>
      /\ si'[c].isServer /\ si'[c].type = si[s].type
      /\ si'[c].peername = NameOf(e.path) /\ si'[c].myname = NameOf(sk[s].path)
  BY <1>1 DEF Accepts, NoSocket, NoInfo
<1>4. TypeInv /\ SocketOf(s) /\ SocketOf(c) /\ WaitingAt(s) /\ sk[s] \in UnixSockets
  BY Fields DEF Inv, NameInv
<1>5. si[s].type = "tcp" /\ s # c /\ ~si[s].isServer
  BY <1>2, <1>4 DEF SocketOf, Open
<1>6. ASSUME NEW t \in Socks \ {c}
      PROVE  /\ si'[t] = si[t] /\ sk'[t].state = sk[t].state /\ sk'[t].path = sk[t].path
             /\ t # s => sk'[t].queue = sk[t].queue
             /\ t # e.from => sk'[t].peer = sk[t].peer
  <2>1. sk[t] \in UnixSockets
    BY <1>4, Fields
  <2>2. CASE t = s
    BY <1>2, <2>1, <2>2 DEF UnixSockets
  <2>3. CASE t # s /\ t = e.from
    BY <1>2, <2>1, <2>3 DEF UnixSockets
  <2>4. CASE t \notin {s, e.from}
    BY <1>2, <2>4
  <2> QED BY <1>2, <2>2, <2>3, <2>4
<1>7. ASSUME NEW t \in Socks PROVE Steady(t)
  <2>1. CASE t = c
    BY <1>2, <2>1 DEF Steady, Client, Open
  <2>2. CASE t # c
    BY <1>2, <1>6, <2>2, SteadyIf
  <2> QED BY <2>1, <2>2
<1>8. ASSUME e.from \in Socks
      PROVE  /\ ~si[e.from].isServer /\ e.path = sk[e.from].path
             /\ Client(e.from, sk[s].path)
  <2>1. Sender(s, e.from, e.path) /\ 1 \in 1..Len(sk[s].queue)
    BY <1>2, <1>4, <1>8, Dequeue, Fields
  <2> QED BY <1>2, <1>4, <1>5, <1>8, <2>1 DEF Sender, WaitingAt
<1>9. ASSUME NEW t \in Socks PROVE NamesOf(t)'
  <2>1. CASE t = c
    BY <1>3, <2>1 DEF NamesOf
  <2>2. CASE t # c
    <3>1. NamesOf(t) /\ Open(t)' = Open(t) /\ DirSame(t)
      BY <1>2, <1>6, <2>2 DEF NameInv, Open, DirSame
    <3> QED BY <1>2, <1>6, <2>2, <3>1, NamesStay
  <2> QED BY <2>1, <2>2
<1>10. ASSUME NEW t \in Socks PROVE WaitingAt(t)'
  <2>1. CASE t = c
    BY <1>3, <2>1, EmptySeq DEF WaitingAt
  <2>2. CASE t = s
    <3>1. ASSUME NEW i \in 1..Len(Tail(sk[s].queue))
          PROVE  \E j \in 1..Len(sk[s].queue) : Tail(sk[s].queue)[i] = sk[s].queue[j]
      <4>1. /\ Len(sk[s].queue) \in Nat
            /\ Len(Tail(sk[s].queue)) = Len(sk[s].queue) - 1
            /\ Tail(sk[s].queue)[i] = sk[s].queue[i + 1]
        BY <1>2, <1>4, Fields, Dequeue
      <4>2. i + 1 \in 1..Len(sk[s].queue)
        BY <4>1
      <4> QED BY <4>1, <4>2
    <3>2. sk'[s].queue = Tail(sk[s].queue)
      BY <1>2, <1>4 DEF UnixSockets
    <3>3. \A i \in 1..Len(sk'[s].queue), u \in Socks :
            u = sk'[s].queue[i].from =>
              /\ Steady(u)
              /\ \E j \in 1..Len(sk[s].queue) : sk'[s].queue[i] = sk[s].queue[j]
      BY <1>7, <3>1, <3>2
    <3>4. si'[s].type = si[s].type /\ sk'[s].path = sk[s].path
      BY <1>5, <1>6
    <3> QED BY <1>4, <2>2, <3>3, <3>4, WaitingStays
  <2>3. CASE t \notin {c, s}
    <3>1. WaitingAt(t)
      BY DEF NameInv
    <3> QED BY <1>6, <1>7, <2>3, <3>1, WaitingStays
  <2> QED BY <2>1, <2>2, <2>3
<1>11. ASSUME NEW t \in Socks PROVE Accepted(t)'
  <2>1. CASE t = c
    <3>1. PICK u, p : u = e.from /\ p = sk[s].path
      OBVIOUS
    <3>2. u \in Socks => Client(u, p)' /\ si'[c].peername = NameOf(sk'[u].path)
      BY <1>3, <1>7, <1>8, <3>1 DEF Steady
    <3>3. call'[c].pc = "idle"
      BY <1>2 DEF At
    <3> QED BY <1>3, <1>5, <2>1, <3>1, <3>2, <3>3 DEF Accepted, Client
  <2>2. CASE t # c /\ si[t].isServer
    <3>1. Accepted(t) /\ Open(t)' = Open(t) /\ t # e.from
      BY <1>6, <1>8, <2>2 DEF NameInv, Open
    <3> QED BY <1>2, <1>6, <1>7, <2>2, <3>1, AcceptedStays
  <2>3. CASE t # c /\ ~si[t].isServer
    BY <1>6, <2>3 DEF Accepted
  <2> QED BY <2>1, <2>2, <2>3
<1>12. \A t \in Socks : Binding(t)' = Binding(t)
  BY <1>2 DEF Binding, At
<1> QED BY <1>9, <1>10, <1>11, <1>12 DEF NameInv

LEMMA NamesCallClose ==
  ASSUME Inv, NameInv, NEW s \in Socks, CallClose(s) PROVE NameInv'
<1>1. /\ Open(s) /\ At(s, "idle") /\ UNCHANGED si
      /\ call'[s] = [call[s] EXCEPT !.pc = "unlinkLast"]
      /\ \A t \in Socks \ {s} : call'[t] = call[t]
      /\ \A p \in Paths : dir'[p] = IF dir[p] = s THEN Dead ELSE dir[p]
      /\ sk'[s] = NoSocket
      /\ \A t \in Socks \ {s} :
           /\ sk'[t].state = sk[t].state /\ sk'[t].path = sk[t].path
           /\ sk'[t].peer = IF sk[t].peer = s THEN Dead ELSE sk[t].peer
           /\ Len(sk'[t].queue) = Len(sk[t].queue)
           /\ \A i \in 1..Len(sk[t].queue) :
                /\ sk'[t].queue[i].from # s
                /\ sk'[t].queue[i].from \in Socks => sk'[t].queue[i] = sk[t].queue[i]
  BY DoCallClose
<1>2. /\ sk'[s].state = "closed" /\ sk'[s].queue = <<>> /\ call'[s].pc = "unlinkLast"
  <2>1. call[s] \in Calls
    BY Fields DEF Inv
  <2> QED BY <1>1, <2>1 DEF NoSocket, Calls
<1>3. \A t \in Socks \ {s} : Steady(t)
  BY <1>1, SteadyIf
<1>4. ASSUME NEW t \in Socks PROVE NamesOf(t)' /\ WaitingAt(t)' /\ Accepted(t)'
  <2>1. CASE t = s
    BY <1>1, <1>2, <2>1, EmptySeq DEF NamesOf, WaitingAt, Accepted, Open
  <2>2. CASE t # s
    <3>1. /\ NamesOf(t) /\ WaitingAt(t) /\ Accepted(t) /\ Open(t)' = Open(t)
          /\ CallOf(t) /\ SocketOf(t) /\ sk[t] \in UnixSockets
      BY <1>1, <2>2, Fields DEF Inv, NameInv, Open
    <3>2. DirSame(t)
      <4>1. ASSUME Open(t), ~si[t].isServer, si[t].bound
            PROVE  dir'[sk[t].path] = dir[sk[t].path]
        <5>1. dir[sk[t].path] = t /\ sk[t].path \in Paths
          BY <3>1, <4>1 DEF NamesOf, SocketOf, UnixSockets
        <5> QED BY <1>1, <2>2, <5>1
      <4>2. ASSUME Binding(t) PROVE dir'[call[t].path] = dir[call[t].path]
        <5>1. Open(t) /\ ~si[t].isServer
          BY <3>1, <4>2 DEF SocketOf, Accepted, Binding, At
        <5>2. dir[call[t].path] \notin Socks /\ call[t].path \in Paths
          BY <3>1, <4>2, <5>1 DEF NamesOf, CallOf, Binding
        <5> QED BY <1>1, <5>2
      <4> QED BY <4>1, <4>2 DEF DirSame
    <3>3. NamesOf(t)'
      BY <1>1, <2>2, <3>1, <3>2, NamesStay
    <3>4. WaitingAt(t)'
      BY <1>1, <1>3, <2>2, <3>1, WaitingStays
    <3>5. Accepted(t)'
      BY <1>1, <1>3, <2>2, <3>1, AcceptedStays, Consts
    <3> QED BY <3>3, <3>4, <3>5
  <2> QED BY <2>1, <2>2
<1>5. \A t \in Socks : Binding(t)' => Binding(t)
  BY <1>1, <1>2 DEF Binding, At
<1> QED BY <1>4, <1>5 DEF NameInv

LEMMA InitNames == Init => NameInv
BY EmptySeq DEF Init, NameInv, NamesOf, WaitingAt, Accepted, Binding, At, Open,
                NoSocket, NoInfo, NoCall

LEMMA StepNames ==
  ASSUME Inv, AutoInv, NameInv, Disciplined, [Next]_vars PROVE NameInv'
<1>1. ASSUME NEW s \in Socks, NEW type \in {"tcp", "udp"}, CallSocket(s, type)
      PROVE  NameInv'
  BY <1>1, NamesCallSocket DEF Types
<1>2. ASSUME NEW s \in Socks, NEW a \in BindNames, CallBind(s, a) PROVE NameInv'
  BY <1>2, NamesCallBind
<1>3. ASSUME NEW s \in Socks, CallListen(s) PROVE NameInv'
  BY <1>3, DoCallListen, NamesStarts
<1>4. ASSUME NEW s \in Socks, NEW to \in ConnectTargets, CallConnect(s, to) PROVE NameInv'
  BY <1>4, DoCallConnect, NamesStarts
<1>5. ASSUME NEW s \in Socks, NEW to \in SendTargets, CallSend(s, to) PROVE NameInv'
  BY <1>5, DoCallSend, NamesStarts
<1>6. ASSUME NEW s \in Socks, CallRecv(s) PROVE NameInv'
  BY <1>6, DoCallRecv, NamesStarts
<1>7. ASSUME NEW s \in Socks, NEW c \in Socks, AcceptFrom(s, c) PROVE NameInv'
  BY <1>7, NamesAcceptFrom
<1>8. ASSUME NEW s \in Socks,
             \/ AutobindSearch(s) \/ AutobindBind(s) \/ UnlinkFirst(s) \/ LibcBind(s)
             \/ LibcListen(s)
             \/ ConnectDatagram(s) \/ ConnectStream(s) \/ ConnectedStream(s)
      PROVE  NameInv'
  BY <1>8, NamesAutobindSearch, NamesAutobindBind, NamesUnlinkFirst, NamesLibcBind,
     NamesLibcListen, NamesConnectDatagram, NamesConnectStream, NamesConnectedStream
<1>9. ASSUME NEW s \in Socks,
             \/ SendBefore(s) \/ LibcSendto(s) \/ SendBroadcast(s)
             \/ LibcRecvfrom(s) \/ CallClose(s) \/ UnlinkLast(s)
      PROVE  NameInv'
  BY <1>9, NamesSendBefore, NamesLibcSendto, NamesSendBroadcast, NamesLibcRecvfrom,
     NamesCallClose, NamesUnlinkLast
<1>10. CASE UNCHANGED vars
  <2>1. UNCHANGED <<si, sk, dir, call>>
    BY <1>10 DEF vars
  <2> QED BY <2>1, NamesDatagram
<1> QED BY <1>1, <1>2, <1>3, <1>4, <1>5, <1>6, <1>7, <1>8, <1>9, <1>10 DEF Next

LEMMA AlwaysNamed == Disciplined => (Spec => [](Inv /\ NameInv))
<1> SUFFICES ASSUME Disciplined PROVE Spec => [](Inv /\ NameInv)
  OBVIOUS
<1>1. Init => Inv /\ AutoInv /\ NameInv
  BY InitInv, InitAuto, InitNames
<1>2. Inv /\ AutoInv /\ NameInv /\ [Next]_vars => (Inv /\ AutoInv /\ NameInv)'
  BY StepInv, StepAuto, StepNames
<1> QED BY <1>1, <1>2, PTL DEF Spec

-----------------------------------------------------------------------------
(* The properties of the names *)

\* If the application binds each socket at most once, to no name that is in use and
\* to no port of auto-bind's range that is being chosen or unlinked (Disciplined), then what swrap_getsockname returns leads back to the
\* socket: swrap_bind and swrap_auto_bind leave the name of the path they bound,
\* and swrap_connect replaces it by the name of the same path.
THEOREM NamesLeadBack == Disciplined => (Spec => []NameLeadsBack)
<1> SUFFICES ASSUME Disciplined PROVE Spec => []NameLeadsBack
  OBVIOUS
<1>1. ASSUME Inv, NameInv PROVE NameLeadsBack
  <2> SUFFICES ASSUME NEW s \in Socks, Open(s), si[s].bound, ~si[s].isServer
               PROVE  Bound(Path(si[s].type, BindIface(si[s].type, si[s].myname.host),
                                 si[s].myname.port)) = s
    BY DEF NameLeadsBack
  <2>1. NamesOf(s) /\ SocketOf(s) /\ sk[s] \in UnixSockets
    BY <1>1, Fields DEF Inv, NameInv
  <2>2. sk[s].path \in Paths /\ dir[sk[s].path] = s /\ Leads(s, sk[s].path)
    BY <2>1 DEF NamesOf, SocketOf, UnixSockets
  <2> QED BY <2>2 DEF Leads, Bound
<1> QED BY <1>1, AlwaysNamed, PTL

\* With such an application the two ends of a connection agree on their names as
\* soon as connect() has returned: swrap_accept took the client's name from its
\* path, which no later call changes.
THEOREM PeersAlwaysAgree == Disciplined => (Spec => []PeersAgree)
<1> SUFFICES ASSUME Disciplined PROVE Spec => []PeersAgree
  OBVIOUS
<1>1. ASSUME Inv, NameInv PROVE PeersAgree
  <2> SUFFICES ASSUME NEW c \in Socks, NEW s \in Socks, sk[c].peer = s, sk[s].peer = c,
                      si[c].isServer, At(s, "idle")
               PROVE  /\ si[c].peername = si[s].myname
                      /\ RemotePath("tcp", si[s].peername) = sk[c].path
                      /\ si[c].myname = NameOf(sk[c].path)
    BY DEF PeersAgree
  <2>1. Open(c)
    BY <1>1, Consts DEF Inv, SocketOf, NoSocket
  <2>2. /\ Client(s, sk[c].path) /\ si[c].peername = NameOf(sk[s].path)
        /\ si[c].myname = NameOf(sk[c].path)
    BY <1>1, <2>1 DEF NameInv, Accepted
  <2> QED BY <2>2 DEF Client, At
<1> QED BY <1>1, AlwaysNamed, PTL

\* With such an application whoever receives a datagram or accepts a connection
\* gets a name that leads to the sender, if that is still open: the senders are
\* bound, by swrap_auto_bind if need be, before libc_sendto and libc_connect.
THEOREM AlwaysAnswerable == Disciplined => (Spec => []SourcesAnswerable)
<1> SUFFICES ASSUME Disciplined PROVE Spec => []SourcesAnswerable
  OBVIOUS
<1>1. ASSUME Inv, NameInv PROVE SourcesAnswerable
  <2> SUFFICES ASSUME NEW q \in Socks, NEW i \in DOMAIN sk[q].queue,
                      NEW t \in Socks, t = sk[q].queue[i].from,
                      NEW p, p = sk[q].queue[i].path
               PROVE  Bound(p) = t
    BY DEF SourcesAnswerable
  <2>1. i \in 1..Len(sk[q].queue)
    BY <1>1, Fields, LenProperties DEF Inv
  <2>2. Sender(q, t, p) /\ SocketOf(t) /\ NamesOf(t) /\ sk[t] \in UnixSockets
    BY <1>1, <2>1, Fields DEF Inv, QueueOf, NameInv
  <2>3. p \in Paths /\ p = sk[t].path /\ p # None /\ ~si[t].isServer
    BY <2>2 DEF Sender, UnixSockets
  <2>4. Open(t) /\ si[t].bound
    BY <2>2, <2>3, PathOpen
  <2> QED BY <2>2, <2>3, <2>4 DEF NamesOf, Bound
<1> QED BY <1>1, AlwaysNamed, PTL
=============================================================================
