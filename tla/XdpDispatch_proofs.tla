-------------------------- MODULE XdpDispatch_proofs --------------------------
(***************************************************************************)
(* Proofs about XdpDispatch, for any number of processes, CPUs, queues and *)
(* sockets.                                                                *)
(***************************************************************************)
EXTENDS XdpDispatch, TLAPS

-----------------------------------------------------------------------------
(* Types *)

\* The masked increment of the round-robin index without the remainder.
LEMMA NextSockValue ==
  ASSUME NEW n \in Socks
  PROVE  NextSock(n) = IF n + 1 < MaxSocks THEN n + 1 ELSE 0
BY XdpDispatchAssumption DEF NextSock, Socks

\* The interface has a queue.
LEMMA QueuesExist == Queues # {}
<1>1. 0 \in Queues
  BY XdpDispatchAssumption DEF Queues
<1> QED BY <1>1

\* The index masked again is one of xsks_map.
LEMMA NextSockType ==
  ASSUME NEW n \in Socks
  PROVE  NextSock(n) \in Socks /\ NextSock(n) < MaxSocks
<1>1. MaxSocks \in Nat \ {0}
  BY XdpDispatchAssumption
<1> QED BY <1>1, NextSockValue DEF Socks

\* What is remembered of the chosen sockets is a sequence of at most MAX_SOCKS.
LEMMA RememberType ==
  ASSUME NEW s \in Seq(Socks), NEW i \in Socks, Len(s) <= MaxSocks
  PROVE  /\ Remember(s, i) \in Seq(Socks)
         /\ Len(Remember(s, i)) <= MaxSocks
BY XdpDispatchAssumption DEF Remember

\* TypeOK is inductive once what is remembered is bounded, and with it the
\* number of sockets.
TypeInv ==
  /\ TypeOK
  /\ \A p \in Procs, c \in Cpus : Len(turn[p][c]) <= MaxSocks
  /\ \A p \in Procs : pc[p] \in {"new", "attach", "conf"} => sockets[p] = 0
  /\ \A p \in Procs : pc[p] = "sockets" => sockets[p] < WantedSocks(p)

\* The choice of a socket keeps the types: the index it takes is one of xsks_map.
LEMMA ChooseType ==
  ASSUME TypeInv, NEW c \in Cpus, NEW q \in Queues, Choose(c, q)
  PROVE  TypeInv'
<1> DEFINE idx == IF conf[link].rrLb THEN NextSock(rr[link][c]) ELSE 0
<1>1. link \in Procs
  BY DEF TypeInv, TypeOK, Choose
<1>2. idx \in Socks
  BY <1>1, XdpDispatchAssumption, NextSockValue DEF TypeInv, TypeOK, Socks
<1> HIDE DEF idx
<1>3. /\ Remember(turn[link][c], idx) \in Seq(Socks)
      /\ Len(Remember(turn[link][c], idx)) <= MaxSocks
  <2>1. turn[link][c] \in Seq(Socks) /\ Len(turn[link][c]) <= MaxSocks
    BY <1>1 DEF TypeInv, TypeOK
  <2> QED BY <2>1, <1>2, RememberType
<1>4. /\ rr' = [rr EXCEPT ![link][c] = idx]
      /\ turn' = [turn EXCEPT ![link][c] = Remember(turn[link][c], idx)]
      /\ packet' = [packet EXCEPT ![c] = [queue |-> q, prog |-> link, idx |-> idx,
                                          live |-> pc[link] = "run"]]
      /\ UNCHANGED <<conf, link, pc, qidconf, sockets, xsks, verdict>>
  BY <1>1 DEF idx, Choose, procVars, TypeInv, TypeOK
<1>5. rr' \in [Procs -> [Cpus -> Socks]]
  BY <1>1, <1>2, <1>4 DEF TypeInv, TypeOK
<1>6. turn' \in [Procs -> [Cpus -> Seq(Socks)]]
  BY <1>1, <1>3, <1>4 DEF TypeInv, TypeOK
<1>7. \A p \in Procs, d \in Cpus : Len(turn'[p][d]) <= MaxSocks
  BY <1>1, <1>3, <1>4 DEF TypeInv, TypeOK
<1>8. packet' \in [Cpus -> [queue : Queues, prog : Procs \cup {NoProc},
                            idx : Socks, live : BOOLEAN]]
  <2>1. (pc[link] = "run") \in BOOLEAN
    OBVIOUS
  <2> QED BY <2>1, <1>1, <1>2, <1>4 DEF TypeInv, TypeOK
<1> QED BY <1>4, <1>5, <1>6, <1>7, <1>8 DEF TypeInv, TypeOK, WantedSocks

\* Every step keeps the types, one action at a time.
LEMMA TypeStep == TypeInv /\ [Next]_vars => TypeInv'
<1> SUFFICES ASSUME TypeInv, [Next]_vars
             PROVE  TypeInv'
  OBVIOUS
<1> USE XdpDispatchAssumption DEF TypeInv, TypeOK, WantedSocks, procVars, cpuVars
<1>1. ASSUME NEW p \in Procs, Load(p) PROVE TypeInv'
  BY <1>1 DEF Load, Goto
<1>2. ASSUME NEW p \in Procs, Attach(p) PROVE TypeInv'
  BY <1>2 DEF Attach, Goto
<1>3. ASSUME NEW p \in Procs, SetQueue(p) PROVE TypeInv'
  BY <1>3 DEF SetQueue, Goto, Confs
<1>4. ASSUME NEW p \in Procs, CreateSocket(p) PROVE TypeInv'
  <2>1. sockets[p] \in Nat /\ sockets[p] < WantedSocks(p) /\ WantedSocks(p) \in 1..MaxSocks
    BY <1>4 DEF CreateSocket, Confs
  <2>2. /\ sockets' = [sockets EXCEPT ![p] = sockets[p] + 1]
        /\ pc' = [pc EXCEPT ![p] = IF sockets[p] + 1 = WantedSocks(p)
                                    THEN "insert" ELSE "sockets"]
        /\ UNCHANGED <<conf, link, qidconf, xsks, cpuVars>>
    BY <1>4, <2>1 DEF CreateSocket, Goto
  <2> QED BY <2>1, <2>2
<1>5. ASSUME NEW p \in Procs, InsertSocket(p) PROVE TypeInv'
  BY <1>5 DEF InsertSocket, Goto
<1>6. ASSUME NEW p \in Procs, Fail(p) PROVE TypeInv'
  BY <1>6 DEF Fail, Goto
<1>7. ASSUME NEW p \in Procs, IntExit(p) PROVE TypeInv'
  BY <1>7 DEF IntExit, Goto
<1>8. ASSUME NEW c \in Cpus, NEW q \in Queues, Pass(c, q) PROVE TypeInv'
  BY <1>8 DEF Pass
<1>9. ASSUME NEW c \in Cpus, NEW q \in Queues, Choose(c, q) PROVE TypeInv'
  BY <1>9, ChooseType
<1>10. ASSUME NEW c \in Cpus, Redirect(c) PROVE TypeInv'
  <2>1. PICK r \in {"socket", "drop"}, l \in BOOLEAN :
          verdict' = [result |-> r, queue |-> packet[c].queue,
                      prog |-> packet[c].prog, live |-> l]
    BY <1>10, Zenon DEF Redirect
  <2>2. NoPacket \in [queue : Queues, prog : Procs \cup {NoProc}, idx : Socks,
                      live : BOOLEAN]
    BY DEF NoPacket, Queues, Socks
  <2>3. packet' \in [Cpus -> [queue : Queues, prog : Procs \cup {NoProc},
                              idx : Socks, live : BOOLEAN]]
    BY <1>10, <2>2 DEF Redirect
  <2>4. verdict' \in [result : {"none", "pass", "socket", "drop"}, queue : Queues,
                      prog : Procs \cup {NoProc}, live : BOOLEAN]
    BY <2>1
  <2> QED BY <1>10, <2>3, <2>4 DEF Redirect
<1>11. CASE UNCHANGED vars
  BY <1>11 DEF vars
<1> QED BY <1>1, <1>2, <1>3, <1>4, <1>5, <1>6, <1>7, <1>8, <1>9, <1>10, <1>11
        DEF Next, Startup

\* The types are correct in every reachable state.
THEOREM TypeCorrect == Spec => []TypeOK
<1>1. Init => TypeInv
  BY XdpDispatchAssumption
  DEF Init, TypeInv, TypeOK, Queues, Socks, NoPacket, NoVerdict
<1> QED BY <1>1, TypeStep, PTL DEF Spec, TypeInv

-----------------------------------------------------------------------------
(* The program on the link *)

\* Processes that do not overlap are alive one at a time, and the one that has
\* attached its program is the one that is alive.
LinkInv ==
  ~Overlap =>
    /\ \A p, q \in Procs : Alive(p) /\ Alive(q) => p = q
    /\ \A p \in Procs : pc[p] \in {"conf", "sockets", "insert", "run"} => link = p

\* Attaching and detaching are for the only process alive.
LEMMA LinkStep == TypeInv /\ LinkInv /\ [Next]_vars => LinkInv'
<1> SUFFICES ASSUME TypeInv, LinkInv, [Next]_vars, ~Overlap
             PROVE  LinkInv'
  BY DEF LinkInv
<1> USE DEF LinkInv, TypeInv, TypeOK, Alive, Ended, Goto
<1>1. ASSUME NEW p \in Procs, Load(p) PROVE LinkInv'
  BY <1>1 DEF Load
<1>2. ASSUME NEW p \in Procs, Attach(p) PROVE LinkInv'
  BY <1>2 DEF Attach
<1>3. ASSUME NEW p \in Procs, SetQueue(p) PROVE LinkInv'
  BY <1>3 DEF SetQueue
<1>4. ASSUME NEW p \in Procs, CreateSocket(p) PROVE LinkInv'
  <2>1. /\ pc[p] = "sockets" /\ UNCHANGED link
        /\ \E l \in {"insert", "sockets"} : pc' = [pc EXCEPT ![p] = l]
    BY <1>4 DEF CreateSocket
  <2> QED BY <2>1
<1>5. ASSUME NEW p \in Procs, InsertSocket(p) PROVE LinkInv'
  BY <1>5 DEF InsertSocket
<1>6. ASSUME NEW p \in Procs, Fail(p) PROVE LinkInv'
  BY <1>6 DEF Fail
<1>7. ASSUME NEW p \in Procs, IntExit(p) PROVE LinkInv'
  BY <1>7 DEF IntExit
<1>8. CASE UNCHANGED <<link, pc>>
  BY <1>8
<1>9. ASSUME NEW c \in Cpus, NEW q \in Queues,
             Pass(c, q) \/ Choose(c, q) \/ Redirect(c)
      PROVE  LinkInv'
  BY <1>9, <1>8 DEF Pass, Choose, Redirect, procVars
<1> QED BY <1>1, <1>2, <1>3, <1>4, <1>5, <1>6, <1>7, <1>8, <1>9, QueuesExist
        DEF Next, Startup, vars

\* A process in its loop has its program attached, whatever the processes before
\* it left on the link.
THEOREM RunningIsAttached == Spec => []RunningAttached
<1>1. Init => TypeInv /\ LinkInv
  BY XdpDispatchAssumption
  DEF Init, TypeInv, TypeOK, LinkInv, Alive, Ended, Queues, Socks, NoPacket,
      NoVerdict
<1>2. LinkInv => RunningAttached
  BY DEF LinkInv, RunningAttached
<1> QED BY <1>1, <1>2, TypeStep, LinkStep, PTL DEF Spec

-----------------------------------------------------------------------------
(* The packets *)

\* How far the maps of a process are filled at each point of its start-up.
MapInv ==
  \A p \in Procs :
    /\ pc[p] \in {"sockets", "insert", "run"} => qidconf[p] = conf[p].queue
    /\ pc[p] = "insert" => sockets[p] = WantedSocks(p)
    /\ pc[p] = "run" => 0..(WantedSocks(p) - 1) \subseteq xsks[p]

\* A packet that arrived for a process in its loop is its own, and the socket
\* chosen for it is one of those the process creates.
PacketInv ==
  \A c \in Cpus :
    packet[c].live =>
      /\ packet[c].prog \in Procs
      /\ packet[c].queue = conf[packet[c].prog].queue
      /\ packet[c].idx < WantedSocks(packet[c].prog)

ServeInv == MapInv /\ PacketInv /\ RunningServed

\* The start-up fills the maps before the loop starts.
LEMMA MapStep == TypeInv /\ MapInv /\ [Next]_vars => MapInv'
<1> SUFFICES ASSUME TypeInv, MapInv, [Next]_vars
             PROVE  MapInv'
  OBVIOUS
<1> USE DEF MapInv, TypeInv, TypeOK, Goto, WantedSocks
<1>1. ASSUME NEW p \in Procs, Load(p) \/ Attach(p) \/ SetQueue(p) PROVE MapInv'
  <2>1. CASE Load(p)
    BY <2>1 DEF Load
  <2>2. CASE Attach(p)
    BY <2>2 DEF Attach
  <2>3. CASE SetQueue(p)
    BY <2>3 DEF SetQueue
  <2> QED BY <1>1, <2>1, <2>2, <2>3
<1>2. ASSUME NEW p \in Procs, CreateSocket(p) PROVE MapInv'
  <2>1. /\ pc[p] = "sockets" /\ UNCHANGED <<conf, qidconf, xsks>>
        /\ sockets' = [sockets EXCEPT ![p] = sockets[p] + 1]
        /\ pc' = [pc EXCEPT ![p] = IF sockets[p] + 1 = WantedSocks(p)
                                    THEN "insert" ELSE "sockets"]
    BY <1>2 DEF CreateSocket
  <2> QED BY <2>1
<1>3. ASSUME NEW p \in Procs, InsertSocket(p) PROVE MapInv'
  <2>1. PICK i \in Socks :
          /\ pc[p] = "insert"
          /\ \A j \in 0..(i - 1) : j \in xsks[p]
          /\ xsks' = [xsks EXCEPT ![p] = xsks[p] \cup {i}]
          /\ pc' = [pc EXCEPT ![p] = IF i + 1 = sockets[p] THEN "run" ELSE "insert"]
          /\ UNCHANGED <<conf, qidconf, sockets>>
    BY <1>3 DEF InsertSocket
  <2>2. i + 1 = sockets[p] => 0..(WantedSocks(p) - 1) \subseteq xsks'[p]
    BY <2>1 DEF Socks
  <2> QED BY <2>1, <2>2
<1>4. ASSUME NEW p \in Procs, Fail(p) \/ IntExit(p) PROVE MapInv'
  <2>1. /\ UNCHANGED <<conf, qidconf, sockets, xsks>>
        /\ \/ pc' = [pc EXCEPT ![p] = "failed"]
           \/ pc' = [pc EXCEPT ![p] = "done"]
    BY <1>4, Zenon DEF Fail, IntExit, Goto
  <2>2. \A q \in Procs : pc'[q] = pc[q] \/ pc'[q] \in {"failed", "done"}
    BY <2>1
  <2> QED BY <2>1, <2>2
<1>5. CASE UNCHANGED <<conf, pc, qidconf, sockets, xsks>>
  BY <1>5
<1>6. ASSUME NEW c \in Cpus, NEW q \in Queues,
             Pass(c, q) \/ Choose(c, q) \/ Redirect(c)
      PROVE  MapInv'
  BY <1>6, <1>5 DEF Pass, Choose, Redirect, procVars
<1> QED BY <1>1, <1>2, <1>3, <1>4, <1>5, <1>6, QueuesExist DEF Next, Startup, vars

\* A packet of a process in its loop is delivered, and what is not its own is
\* passed on.
LEMMA ServeStep == TypeInv /\ ServeInv /\ [Next]_vars => PacketInv' /\ RunningServed'
<1> SUFFICES ASSUME TypeInv, ServeInv, [Next]_vars
             PROVE  PacketInv' /\ RunningServed'
  OBVIOUS
<1> USE DEF ServeInv, PacketInv, RunningServed, TypeInv, TypeOK
<1>1. ASSUME NEW p \in Procs, Startup(p) \/ Fail(p) \/ IntExit(p)
      PROVE  PacketInv' /\ RunningServed'
  BY <1>1 DEF Startup, Load, Attach, SetQueue, CreateSocket, InsertSocket, Fail,
              IntExit, cpuVars, WantedSocks
<1>2. ASSUME NEW c \in Cpus, NEW q \in Queues, Pass(c, q)
      PROVE  PacketInv' /\ RunningServed'
  BY <1>2 DEF Pass, procVars, WantedSocks, MapInv
<1>3. ASSUME NEW c \in Cpus, NEW q \in Queues, Choose(c, q)
      PROVE  PacketInv' /\ RunningServed'
  <2> DEFINE idx == IF conf[link].rrLb THEN NextSock(rr[link][c]) ELSE 0
  <2>1. link \in Procs
    BY <1>3 DEF Choose
  <2>2. idx < WantedSocks(link)
    <3>1. rr[link][c] \in Socks
      BY <2>1
    <3>2. NextSock(rr[link][c]) < MaxSocks
      BY <3>1, NextSockType
    <3> QED BY <3>2 DEF WantedSocks
  <2>3. pc[link] = "run" => q = conf[link].queue
    BY <1>3, <2>1 DEF Choose, MapInv
  <2> HIDE DEF idx
  <2>4. /\ packet' = [packet EXCEPT ![c] = [queue |-> q, prog |-> link, idx |-> idx,
                                            live |-> pc[link] = "run"]]
        /\ UNCHANGED <<conf, verdict>>
    BY <1>3 DEF Choose, procVars, idx
  <2> QED BY <2>1, <2>2, <2>3, <2>4 DEF WantedSocks
<1>4. ASSUME NEW c \in Cpus, Redirect(c)
      PROVE  PacketInv' /\ RunningServed'
  <2> DEFINE p == packet[c].prog
             reached == /\ packet[c].idx \in xsks[p]
                        /\ Alive(p) /\ conf[p].queue = packet[c].queue
  <2>1. /\ packet' = [packet EXCEPT ![c] = NoPacket]
        /\ verdict' = [result |-> IF reached THEN "socket" ELSE "drop",
                       queue |-> packet[c].queue, prog |-> p,
                       live |-> packet[c].live /\ pc[p] = "run"]
        /\ UNCHANGED conf
    BY <1>4 DEF Redirect, procVars
  <2>2. packet[c].live /\ pc[p] = "run" => reached
    BY DEF MapInv, Alive, Ended, Socks, WantedSocks
  <2>3. PacketInv'
    BY <2>1 DEF NoPacket, WantedSocks
  <2>4. RunningServed'
    <3>1. CASE packet[c].live /\ pc[p] = "run"
      BY <2>1, <2>2, <3>1
    <3>2. CASE ~(packet[c].live /\ pc[p] = "run")
      BY <2>1, <3>2
    <3> QED BY <3>1, <3>2
  <2> QED BY <2>3, <2>4
<1>5. CASE UNCHANGED vars
  BY <1>5 DEF vars, WantedSocks
<1> QED BY <1>1, <1>2, <1>3, <1>4, <1>5 DEF Next

\* Once a process is in its loop every packet of its queue reaches one of its
\* sockets and no other packet is kept from the stack.
THEOREM RunningIsServed == Spec => []RunningServed
<1>1. Init => TypeInv /\ ServeInv
  BY XdpDispatchAssumption
  DEF Init, TypeInv, TypeOK, ServeInv, MapInv, PacketInv, RunningServed, Queues,
      Socks, NoPacket, NoVerdict
<1>2. TypeInv /\ ServeInv /\ [Next]_vars => ServeInv'
  BY MapStep, ServeStep DEF ServeInv
<1> QED BY <1>1, <1>2, TypeStep, PTL DEF Spec, ServeInv

-----------------------------------------------------------------------------
(* Taking turns *)

\* The i-th remembered socket lies as far before the current one, around the
\* circle of sockets, as it was chosen before it.
Turn(s, i) ==
  IF s >= i THEN s - i ELSE (s - i) + MaxSocks

TurnInv ==
  \A p \in Procs, c \in Cpus :
    conf[p].rrLb =>
      \A i \in 1..Len(turn[p][c]) :
        turn[p][c][i] = Turn(rr[p][c], Len(turn[p][c]) - i)

\* Remembering the next socket shifts the others by one.
LEMMA RememberNext ==
  ASSUME NEW s \in Seq(Socks), NEW r \in Socks, Len(s) <= MaxSocks,
         \A i \in 1..Len(s) : s[i] = Turn(r, Len(s) - i)
  PROVE  \A i \in 1..Len(Remember(s, NextSock(r))) :
           Remember(s, NextSock(r))[i]
             = Turn(NextSock(r), Len(Remember(s, NextSock(r))) - i)
<1> DEFINE n == NextSock(r)
<1>1. n \in Socks /\ n = IF r + 1 < MaxSocks THEN r + 1 ELSE 0
  BY NextSockValue, XdpDispatchAssumption DEF Socks
<1>2. MaxSocks \in Nat \ {0}
  BY XdpDispatchAssumption
<1> HIDE DEF n
<1> SUFFICES ASSUME NEW i \in 1..Len(Remember(s, n))
             PROVE  Remember(s, n)[i] = Turn(n, Len(Remember(s, n)) - i)
  BY DEF n
<1>3. CASE Len(s) < MaxSocks
  <2>1. Remember(s, n) = Append(s, n)
    BY <1>3 DEF Remember
  <2>2. CASE i = Len(s) + 1
    <3>1. Append(s, n)[i] = n /\ Len(Append(s, n)) = i
      BY <1>1, <2>2
    <3>2. Turn(n, i - i) = n
      BY <1>1, <1>2, <2>2 DEF Turn, Socks
    <3> QED BY <2>1, <3>1, <3>2
  <2>3. CASE i \in 1..Len(s)
    <3>1. Append(s, n)[i] = Turn(r, Len(s) - i)
      BY <2>3
    <3>2. Turn(r, Len(s) - i) = Turn(n, (Len(s) + 1) - i)
      BY SMTT(30), <1>1, <1>2, <1>3, <2>3 DEF Turn, Socks
    <3> QED BY <2>1, <3>1, <3>2
  <2> QED BY <2>1, <2>2, <2>3
<1>4. CASE Len(s) = MaxSocks
  <2>1. /\ Remember(s, n) = Append(Tail(s), n)
        /\ Tail(s) \in Seq(Socks) /\ Len(Tail(s)) = MaxSocks - 1
        /\ \A j \in 1..(MaxSocks - 1) : Tail(s)[j] = s[j + 1]
    BY <1>2, <1>4 DEF Remember
  <2>2. CASE i = MaxSocks
    BY <1>1, <1>2, <2>1, <2>2 DEF Turn, Socks
  <2>3. CASE i \in 1..(MaxSocks - 1)
    <3>1. Append(Tail(s), n)[i] = s[i + 1]
      BY <1>2, <2>1, <2>3
    <3>2. s[i + 1] = Turn(r, Len(s) - (i + 1))
      BY <1>2, <1>4, <2>3
    <3>3. Turn(r, MaxSocks - (i + 1)) = Turn(n, MaxSocks - i)
      BY <1>1, <1>2, <2>3 DEF Turn, Socks
    <3>4. Len(Append(Tail(s), n)) = MaxSocks
      BY <1>2, <2>1
    <3> QED BY <1>4, <2>1, <3>1, <3>2, <3>3, <3>4
  <2>4. Len(Append(Tail(s), n)) = MaxSocks
    BY <1>2, <2>1
  <2> QED BY <1>2, <2>1, <2>2, <2>3, <2>4
<1> QED BY <1>2, <1>3, <1>4

\* Only the CPU that handles a packet takes a turn.
LEMMA TurnStep == TypeInv /\ TurnInv /\ [Next]_vars => TurnInv'
<1> SUFFICES ASSUME TypeInv, TurnInv, [Next]_vars
             PROVE  TurnInv'
  OBVIOUS
<1>1. CASE UNCHANGED <<conf, rr, turn>>
  BY <1>1 DEF TurnInv
<1>2. ASSUME NEW c \in Cpus, NEW q \in Queues, Choose(c, q)
      PROVE  TurnInv'
  <2>1. link \in Procs
    BY <1>2 DEF Choose, TypeInv, TypeOK
  <2>2. /\ conf' = conf
        /\ conf[link].rrLb =>
             /\ rr' = [rr EXCEPT ![link][c] = NextSock(rr[link][c])]
             /\ turn' = [turn EXCEPT ![link][c] =
                           Remember(turn[link][c], NextSock(rr[link][c]))]
        /\ \A p \in Procs, d \in Cpus :
             <<p, d>> # <<link, c>> =>
               rr'[p][d] = rr[p][d] /\ turn'[p][d] = turn[p][d]
    BY <1>2, <2>1 DEF Choose, TypeInv, TypeOK
  <2> SUFFICES ASSUME NEW p \in Procs, NEW d \in Cpus, conf[p].rrLb,
                      NEW i \in 1..Len(turn'[p][d])
               PROVE  turn'[p][d][i] = Turn(rr'[p][d], Len(turn'[p][d]) - i)
    BY <2>2 DEF TurnInv, Turn
  <2>3. CASE <<p, d>> # <<link, c>>
    BY <2>2, <2>3 DEF TurnInv
  <2>4. CASE p = link /\ d = c
    <3>1. /\ rr'[p][d] = NextSock(rr[p][d])
          /\ turn'[p][d] = Remember(turn[p][d], NextSock(rr[p][d]))
      BY <2>1, <2>2, <2>4 DEF TypeInv, TypeOK
    <3>2. /\ turn[p][d] \in Seq(Socks) /\ Len(turn[p][d]) <= MaxSocks
          /\ rr[p][d] \in Socks
      BY DEF TypeInv, TypeOK
    <3>3. \A j \in 1..Len(turn[p][d]) :
            turn[p][d][j] = Turn(rr[p][d], Len(turn[p][d]) - j)
      BY DEF TurnInv
    <3>4. \A j \in 1..Len(turn'[p][d]) :
            turn'[p][d][j] = Turn(rr'[p][d], Len(turn'[p][d]) - j)
      <4> DEFINE s == turn[p][d]
                 next == NextSock(rr[p][d])
      <4>1. \A j \in 1..Len(Remember(s, next)) :
              Remember(s, next)[j] = Turn(next, Len(Remember(s, next)) - j)
        BY <3>2, <3>3, RememberNext
      <4> QED BY <3>1, <4>1
    <3> QED BY <3>4
  <2> QED BY <2>3, <2>4
<1>3. ASSUME NEW p \in Procs, Startup(p) \/ Fail(p) \/ IntExit(p)
      PROVE  TurnInv'
  BY <1>3, <1>1 DEF Startup, Load, Attach, SetQueue, CreateSocket, InsertSocket,
                    Fail, IntExit, cpuVars
<1>4. ASSUME NEW c \in Cpus, NEW q \in Queues, Pass(c, q) \/ Redirect(c)
      PROVE  TurnInv'
  BY <1>4, <1>1 DEF Pass, Redirect
<1>5. CASE UNCHANGED vars
  BY <1>5, <1>1 DEF vars
<1> QED BY <1>2, <1>3, <1>4, <1>5, QueuesExist DEF Next

\* Going back less than once round the circle never leads to the same place.
LEMMA TurnInjective ==
  ASSUME NEW s \in Socks, NEW a \in 0..(MaxSocks - 1), NEW b \in 0..(MaxSocks - 1),
         Turn(s, a) = Turn(s, b)
  PROVE  a = b
<1>1. MaxSocks \in Nat \ {0}
  BY XdpDispatchAssumption
<1> QED BY <1>1 DEF Turn, Socks

\* Two places on the circle less than MAX_SOCKS apart are different.
LEMMA TurnsDiffer ==
  ASSUME TypeInv, TurnInv
  PROVE  RoundRobin
<1> SUFFICES ASSUME NEW p \in Procs, NEW c \in Cpus, conf[p].rrLb,
                    NEW i \in DOMAIN turn[p][c], NEW j \in DOMAIN turn[p][c],
                    turn[p][c][i] = turn[p][c][j]
             PROVE  i = j
  BY DEF RoundRobin, IsInjective
<1> DEFINE n == Len(turn[p][c])
           r == rr[p][c]
<1>1. /\ turn[p][c] \in Seq(Socks) /\ n <= MaxSocks
      /\ r \in Socks
  BY DEF TypeInv, TypeOK
<1>2. i \in 1..n /\ j \in 1..n /\ n \in Nat
  BY <1>1
<1>3. Turn(r, n - i) = Turn(r, n - j)
  BY <1>2 DEF TurnInv
<1>4. MaxSocks \in Nat
  BY XdpDispatchAssumption
<1> HIDE DEF n, r
<1>5. n - i \in 0..(MaxSocks - 1) /\ n - j \in 0..(MaxSocks - 1)
  BY <1>1, <1>2, <1>4
<1>6. n - i = n - j
  BY <1>1, <1>3, <1>5, TurnInjective
<1> QED BY <1>2, <1>6

\* Any MAX_SOCKS packets in a row on a CPU go to different sockets.
THEOREM TakesTurns == Spec => []RoundRobin
<1>1. Init => TypeInv /\ TurnInv
  BY XdpDispatchAssumption
  DEF Init, TypeInv, TypeOK, TurnInv, Queues, Socks, NoPacket, NoVerdict
<1> QED BY <1>1, TypeStep, TurnStep, TurnsDiffer, PTL DEF Spec

=============================================================================
