----------------------------- MODULE XdpDispatch -----------------------------
(***************************************************************************)
(* xdpsock_kern.c with the start-up and the teardown around it: processes  *)
(* load the XDP program with maps of their own, attach it to the link, set *)
(* its qidconf_map, create their AF_XDP sockets, enter them in xsks_map    *)
(* and loop, until a signal or a failure ends them; meanwhile the CPUs run *)
(* the attached program on every packet that arrives.                      *)
(*                                                                         *)
(* A process is xdpsock (main of xdpsock_user.c) or one with an lwIP       *)
(* interface (low_level_init of af_xdp.c), which never detaches.  Map      *)
(* updates and lookups are steps of their own: the CPUs run between them.  *)
(***************************************************************************)
EXTENDS Naturals, Sequences, SequencesExt

CONSTANTS
  Procs,      \* the processes started on the interface
  Cpus,       \* the CPUs that take packets from it
  NumQueues,  \* its RX queues
  MaxSocks,   \* MAX_SOCKS
  Overlap,    \* whether a process is started before the last one has ended
  NoProc      \* no program is attached, no packet is being handled

\* "Power-of-2 number of sockets".
ASSUME XdpDispatchAssumption ==
  /\ NumQueues \in Nat \ {0}
  /\ MaxSocks \in Nat \ {0} /\ \E k \in 0..16 : MaxSocks = 2^k
  /\ Overlap \in BOOLEAN
  /\ NoProc \notin Procs

Queues == 0..(NumQueues - 1)
Socks == 0..(MaxSocks - 1)

\* What a process is: opt_queue, which is 0 in af_xdp.c, whether it was built
\* with RR_LB, which af_xdp.c does not support, and whether it handles signals.
Confs == {c \in [queue : Queues, rrLb : BOOLEAN, lwip : BOOLEAN] :
            c.lwip => c.queue = 0 /\ ~c.rrLb}

VARIABLES
  conf,      \* how each process was started
  link,      \* the process whose program is attached to the link
  pc,        \* where each process is in its start-up
  qidconf,   \* qidconf_map[0] of each process
  sockets,   \* num_socks of each process
  xsks,      \* the sockets entered in its xsks_map
  rr,        \* rr_map[0] of each process on each CPU
  turn,      \* the sockets its program last chose on each CPU
  packet,    \* the packet each CPU is handling
  verdict    \* what became of the last packet

procVars == <<link, pc, qidconf, sockets, xsks>>
cpuVars == <<rr, turn, packet, verdict>>
vars == <<conf, link, pc, qidconf, sockets, xsks, rr, turn, packet, verdict>>

-----------------------------------------------------------------------------
NoPacket == [queue |-> 0, prog |-> NoProc, idx |-> 0, live |-> FALSE]
NoVerdict == [result |-> "none", queue |-> 0, prog |-> NoProc, live |-> FALSE]

\* Maps start zeroed.
Init ==
  /\ conf \in [Procs -> Confs]
  /\ link = NoProc
  /\ pc = [p \in Procs |-> "new"]
  /\ qidconf = [p \in Procs |-> 0]
  /\ sockets = [p \in Procs |-> 0]
  /\ xsks = [p \in Procs |-> {}]
  /\ rr = [p \in Procs |-> [c \in Cpus |-> 0]]
  /\ turn = [p \in Procs |-> [c \in Cpus |-> <<>>]]
  /\ packet = [c \in Cpus |-> NoPacket]
  /\ verdict = NoVerdict

Goto(p, label) == pc' = [pc EXCEPT ![p] = label]

Ended == {"new", "failed", "done"}
Alive(p) == pc[p] \notin Ended

-----------------------------------------------------------------------------
(* Start-up: main from parse_command_line to the loop, and low_level_init. *)

\* The options are parsed, the object is loaded and its maps are found.
Load(p) ==
  /\ pc[p] = "new"
  /\ Overlap \/ \A other \in Procs : ~Alive(other)
  /\ Goto(p, "attach")
  /\ UNCHANGED <<conf, link, qidconf, sockets, xsks, cpuVars>>

\* Mutant of Attach: a program that is attached already is left in place.
AttachIfNone(p) ==
  /\ pc[p] = "attach"
  /\ link' = IF link = NoProc THEN p ELSE link
  /\ Goto(p, "conf")
  /\ UNCHANGED <<conf, qidconf, sockets, xsks, cpuVars>>

\* bpf_set_link_xdp_fd, without XDP_FLAGS_UPDATE_IF_NOEXIST: whatever is
\* attached is replaced.
Attach(p) ==
  /\ pc[p] = "attach"
  /\ link' = p
  /\ Goto(p, "conf")
  /\ UNCHANGED <<conf, qidconf, sockets, xsks, cpuVars>>

\* bpf_map_update_elem(qidconf_map)
SetQueue(p) ==
  /\ pc[p] = "conf"
  /\ qidconf' = [qidconf EXCEPT ![p] = conf[p].queue]
  /\ Goto(p, "sockets")
  /\ UNCHANGED <<conf, link, sockets, xsks, cpuVars>>

\* One socket, or MAX_SOCKS with RR_LB.
WantedSocks(p) == IF conf[p].rrLb THEN MaxSocks ELSE 1

\* xsk_configure: the first socket registers the UMEM (xdp_umem_configure) and
\* puts the first NUM_DESCS frames on its empty fill ring (XdpSock and AfXdpIf
\* start from there); the others share it.
CreateSocket(p) ==
  /\ pc[p] = "sockets"
  /\ sockets' = [sockets EXCEPT ![p] = @ + 1]
  /\ Goto(p, IF sockets'[p] = WantedSocks(p) THEN "insert" ELSE "sockets")
  /\ UNCHANGED <<conf, link, qidconf, xsks, cpuVars>>

\* Mutant of InsertSocket: the last socket is left out.
InsertSocketShort(p) ==
  \E i \in Socks \ xsks[p] :
    /\ pc[p] = "insert"
    /\ \A j \in 0..(i - 1) : j \in xsks[p]
    /\ xsks' = [xsks EXCEPT ![p] = @ \cup {i}]
    /\ Goto(p, IF i + 2 >= sockets[p] THEN "run" ELSE "insert")
    /\ UNCHANGED <<conf, link, qidconf, sockets, cpuVars>>

\* bpf_map_update_elem(xsks_map), socket by socket; after the last one xdpsock
\* installs its signal handlers and the loops start.
InsertSocket(p) ==
  \E i \in Socks \ xsks[p] :
    /\ pc[p] = "insert"
    /\ \A j \in 0..(i - 1) : j \in xsks[p]
    /\ xsks' = [xsks EXCEPT ![p] = @ \cup {i}]
    /\ Goto(p, IF i + 1 = sockets[p] THEN "run" ELSE "insert")
    /\ UNCHANGED <<conf, link, qidconf, sockets, cpuVars>>

-----------------------------------------------------------------------------
(* The end of a process *)

\* exit(EXIT_FAILURE) of main, low_level_init or lassert, a signal before the
\* handlers are installed, any end of an lwIP process: the program stays attached
\* and its sockets are closed.
Fail(p) ==
  /\ Alive(p)
  /\ Goto(p, "failed")
  /\ UNCHANGED <<conf, link, qidconf, sockets, xsks, cpuVars>>

\* int_exit, on SIGINT, SIGTERM or SIGABRT: whatever is attached is detached, and the
\* process exits.
IntExit(p) ==
  /\ pc[p] = "run" /\ ~conf[p].lwip
  /\ link' = NoProc
  /\ Goto(p, "done")
  /\ UNCHANGED <<conf, qidconf, sockets, xsks, cpuVars>>

-----------------------------------------------------------------------------
(* xdp_sock_prog *)

\* (rr + 1) & (MAX_SOCKS - 1)
NextSock(n) == (n + 1) % MaxSocks

\* The last MAX_SOCKS of the chosen sockets.
Remember(s, i) ==
  IF Len(s) < MaxSocks THEN Append(s, i) ELSE Append(Tail(s), i)

\* The program compares its queue with the packet's: not ours, XDP_PASS.
Pass(c, q) ==
  /\ packet[c] = NoPacket
  /\ link # NoProc /\ qidconf[link] # q
  /\ verdict' = [result |-> "pass", queue |-> q, prog |-> link,
                 live |-> pc[link] = "run"]
  /\ UNCHANGED <<conf, procVars, rr, turn, packet>>

\* Mutant of Choose: the CPUs share one counter.
ChooseShared(c, q) ==
  /\ packet[c] = NoPacket
  /\ link # NoProc /\ qidconf[link] = q
  /\ LET idx == IF conf[link].rrLb THEN NextSock(rr[link][c]) ELSE 0
     IN /\ rr' = [rr EXCEPT ![link] = [other \in Cpus |-> idx]]
        /\ turn' = [turn EXCEPT ![link][c] = Remember(@, idx)]
        /\ packet' = [packet EXCEPT ![c] = [queue |-> q, prog |-> link, idx |-> idx,
                                            live |-> pc[link] = "run"]]
  /\ UNCHANGED <<conf, procVars, verdict>>

\* Ours: a socket is chosen, in turn on this CPU with RR_LB, and the packet is
\* redirected to it.
Choose(c, q) ==
  /\ packet[c] = NoPacket
  /\ link # NoProc /\ qidconf[link] = q
  /\ LET idx == IF conf[link].rrLb THEN NextSock(rr[link][c]) ELSE 0
     IN /\ rr' = [rr EXCEPT ![link][c] = idx]
        /\ turn' = [turn EXCEPT ![link][c] = Remember(@, idx)]
        /\ packet' = [packet EXCEPT ![c] = [queue |-> q, prog |-> link, idx |-> idx,
                                            live |-> pc[link] = "run"]]
  /\ UNCHANGED <<conf, procVars, verdict>>

\* The kernel looks the socket up in xsks_map: a missing or closed socket, or
\* one that is bound to another queue, drops the packet.
Redirect(c) ==
  LET pk == packet[c]
      received == /\ pk.idx \in xsks[pk.prog]
                  /\ Alive(pk.prog) /\ conf[pk.prog].queue = pk.queue
  IN /\ pk # NoPacket
     /\ verdict' = [result |-> IF received THEN "socket" ELSE "drop",
                    queue |-> pk.queue, prog |-> pk.prog,
                    live |-> pk.live /\ pc[pk.prog] = "run"]
     /\ packet' = [packet EXCEPT ![c] = NoPacket]
     /\ UNCHANGED <<conf, procVars, rr, turn>>

-----------------------------------------------------------------------------
Startup(p) == \/ Load(p) \/ Attach(p) \/ SetQueue(p) \/ CreateSocket(p)
              \/ InsertSocket(p)

Next == \/ \E p \in Procs : Startup(p) \/ Fail(p) \/ IntExit(p)
        \/ \E c \in Cpus, q \in Queues : Pass(c, q) \/ Choose(c, q)
        \/ \E c \in Cpus : Redirect(c)

Spec == Init /\ [][Next]_vars

-----------------------------------------------------------------------------
(* Correctness *)

\* The maps, the processes and the packets keep their types.
TypeOK ==
  /\ conf \in [Procs -> Confs]
  /\ link \in Procs \cup {NoProc}
  /\ pc \in [Procs -> {"new", "attach", "conf", "sockets", "insert", "run",
                       "done", "failed"}]
  /\ qidconf \in [Procs -> Queues]
  /\ sockets \in [Procs -> 0..MaxSocks]
  /\ xsks \in [Procs -> SUBSET Socks]
  /\ rr \in [Procs -> [Cpus -> Socks]]
  /\ turn \in [Procs -> [Cpus -> Seq(Socks)]]
  /\ packet \in [Cpus -> [queue : Queues, prog : Procs \cup {NoProc},
                          idx : Socks, live : BOOLEAN]]
  /\ verdict \in [result : {"none", "pass", "socket", "drop"}, queue : Queues,
                  prog : Procs \cup {NoProc}, live : BOOLEAN]

\* A process in its loop gets every packet of its queue that arrives, whichever
\* socket xdp_sock_prog chooses, and no other is kept from the stack: qidconf and
\* every entry of xsks_map are in place before the loop starts.
RunningServed ==
  verdict.live =>
    verdict.result = IF conf[verdict.prog].queue = verdict.queue
                       THEN "socket" ELSE "pass"

\* A process in its loop has its program attached, also when a process before it
\* failed and left its own program on the link, provided they do not overlap
\* (main attaches without XDP_FLAGS_UPDATE_IF_NOEXIST, int_exit detaches).
RunningAttached ==
  ~Overlap => \A p \in Procs : pc[p] = "run" => link = p

\* With RR_LB any MAX_SOCKS packets of the queue in a row on one CPU go to
\* different sockets, whatever other CPUs handle in between (rr_map is per CPU).
RoundRobin ==
  \A p \in Procs, c \in Cpus :
    conf[p].rrLb => IsInjective(turn[p][c])

=============================================================================
