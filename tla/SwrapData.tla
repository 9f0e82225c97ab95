------------------------------- MODULE SwrapData -------------------------------
(***************************************************************************)
(* socket_wrapper.c: data on a connection of stream sockets, and what the  *)
(* two ends record of it in their capture files.                           *)
(*                                                                         *)
(* The client connects and the server accepts.  Then each end has a thread *)
(* that sends a number of bytes in as many calls as it takes and then      *)
(* shuts its side down, and a thread that receives until it is told that   *)
(* the stream has ended.  A call looks at the socket and cuts its list of  *)
(* buffers to the MTU (swrap_sendmsg_before, swrap_recvmsg_before), calls  *)
(* libc, and captures what was moved (swrap_sendmsg_after,                 *)
(* swrap_recvmsg_after).  Bytes are counted: those of a stream keep their  *)
(* order, and every list is cut to a beginning of it.                      *)
(***************************************************************************)
EXTENDS Integers, Sequences, FiniteSets, FiniteSetsExt

CONSTANTS
  Mtu,          \* socket_wrapper_mtu()
  Capacity,     \* bytes the kernel keeps for a receiver
  Bytes,        \* bytes each end sends
  Confs,        \* what the two ends do, see below
  MaxFailures   \* calls that fail: refused, EAGAIN, no memory

Ends == {"client", "server"}
Peer(e) == CHOOSE p \in Ends : p # e

\* How a caller lays out a request for n bytes: in one buffer, in two, with an
\* empty buffer in front.
Shapes == {"one", "two", "gap"}
Buffers(shape, n) ==
  CASE shape = "one" -> <<n>>
    [] shape = "two" -> <<1, n - 1>>
    [] shape = "gap" -> <<0, n>>

\* For each end: the call it sends with (sendto, or one of write, send, writev,
\* sendmsg), the layout of what it sends and of what it receives into, and for the
\* server whether it asks accept() for the client's address.
ASSUME SwrapDataAssumption ==
  /\ {Mtu, Capacity, Bytes} \subseteq Nat \ {0}
  /\ MaxFailures \in Nat
  /\ Confs \subseteq [Ends -> [call : {"sendto", "send"}, send : Shapes,
                               recv : Shapes, addr : BOOLEAN]]

VARIABLES
  conf,      \* what the ends do; never changed
  \* the kernel
  sent,      \* bytes it has taken from each end
  taken,     \* bytes of those it has given to the other end
  shut,      \* the ends that have shut down their side
  \* the library
  locked,    \* the ends whose meta.mutex their sender keeps while libc waits
  failures,  \* calls that have failed
  snd, rcv,  \* pck_snd and pck_rcv of each end
  \* the threads
  pcS, pcR,  \* where the sender and the receiver of each end are
  iovS, iovR, \* the list of buffers of their call
  retS, retR, \* what libc returned
  told,      \* bytes each sender was told it has sent
  got,       \* bytes each receiver was told it has received
  ended,     \* the receivers that were told that the stream has ended
  closed,    \* the ends that have been closed
  dropped    \* bytes each receiver's failed calls took from the kernel

kernelVars == <<sent, taken, shut>>
captureVars == <<snd, rcv>>
senderVars == <<pcS, iovS, retS, told>>
receiverVars == <<pcR, iovR, retR, got, ended, dropped>>
vars == <<conf, kernelVars, locked, failures, captureVars, senderVars, receiverVars,
          closed>>

Init ==
  /\ conf \in Confs
  /\ sent = [e \in Ends |-> 0] /\ taken = [e \in Ends |-> 0]
  /\ shut = {}
  /\ locked = {} /\ failures = 0
  /\ snd = [e \in Ends |-> 0] /\ rcv = [e \in Ends |-> 0]
  /\ pcS = [e \in Ends |-> IF e = "client" THEN "connect" ELSE "accept"]
  /\ pcR = [e \in Ends |-> "wait"]
  /\ iovS = [e \in Ends |-> <<>>] /\ iovR = [e \in Ends |-> <<>>]
  /\ retS = [e \in Ends |-> 0] /\ retR = [e \in Ends |-> 0]
  /\ told = [e \in Ends |-> 0] /\ got = [e \in Ends |-> 0]
  /\ ended = {} /\ closed = {}
  /\ dropped = [e \in Ends |-> 0]

-----------------------------------------------------------------------------
(* The MTU *)

\* A list has two buffers at most.
Total(iov) == (IF Len(iov) > 0 THEN iov[1] ELSE 0) + (IF Len(iov) > 1 THEN iov[2] ELSE 0)

\* Mutant of Cut: a first buffer beyond the MTU is left out like any other.
CutAll(iov) ==
  LET long == {i \in DOMAIN iov : iov[i] > Mtu}
  IN IF long = {} THEN iov ELSE SubSeq(iov, 1, Min(long) - 1)

\* The list ends before the first buffer that is longer than the MTU (the length
\* of those before it is not added up); if that is the first one, it is cut.
Cut(iov) ==
  LET long == {i \in DOMAIN iov : iov[i] > Mtu}
  IN IF long = {} THEN iov
     ELSE IF Min(long) = 1 THEN <<Mtu>>
     ELSE SubSeq(iov, 1, Min(long) - 1)

\* An empty buffer and a long one behind it: nothing is left of the request.
Stalls(iov) == Len(iov) = 2 /\ iov[1] = 0 /\ iov[2] > Mtu

-----------------------------------------------------------------------------
(* The capture: swrap_pcap_marshall_packet counts what the packets of a call    *)
(* add to the sequence numbers of the two directions.                           *)

\* SYN, SYN,ACK and FIN count one; the ACKs, the RSTs and a SYN that is repeated as
\* unreachable count nothing.
OneSent == {"CONNECT_SEND", "ACCEPT_RECV", "CLOSE_SEND"}
OneReceived == {"CONNECT_RECV", "ACCEPT_SEND", "CLOSE_RECV"}

\* End e records some packets, of which SEND and RECV carry n bytes.
Record(e, packets, n) ==
  /\ snd' = [snd EXCEPT ![e] = @ + Cardinality(packets \cap OneSent)
                                 + (IF "SEND" \in packets THEN n ELSE 0)]
  /\ rcv' = [rcv EXCEPT ![e] = @ + Cardinality(packets \cap OneReceived)
                                 + (IF "RECV" \in packets THEN n ELSE 0)]

-----------------------------------------------------------------------------
(* Connecting *)

\* swrap_connect, to the return of libc_connect: ECONNREFUSED, or the connection
\* waits to be accepted.
Connect ==
  /\ pcS["client"] = "connect"
  /\ \/ /\ Record("client", {"CONNECT_SEND"}, 0)
        /\ pcS' = [pcS EXCEPT !["client"] = "connected"]
        /\ UNCHANGED failures
     \/ /\ failures < MaxFailures
        /\ failures' = failures + 1
        /\ Record("client", {"CONNECT_SEND", "CONNECT_UNREACH"}, 0)
        /\ UNCHANGED pcS
  /\ UNCHANGED <<conf, kernelVars, locked, iovS, retS, told, receiverVars, closed>>

\* Its end.
Connected ==
  /\ pcS["client"] = "connected"
  /\ Record("client", {"CONNECT_RECV", "CONNECT_ACK"}, 0)
  /\ pcS' = [pcS EXCEPT !["client"] = "idle"]
  /\ pcR' = [pcR EXCEPT !["client"] = "idle"]
  /\ UNCHANGED <<conf, kernelVars, locked, failures, iovS, retS, told, iovR, retR, got,
                 ended, dropped, closed>>

\* swrap_accept records nothing for a caller that does not ask for the address.
Accept ==
  /\ pcS["server"] = "accept" /\ pcS["client"] # "connect"
  /\ Record("server", IF conf["server"].addr
                        THEN {"ACCEPT_SEND", "ACCEPT_RECV", "ACCEPT_ACK"}
                        ELSE {}, 0)
  /\ pcS' = [pcS EXCEPT !["server"] = "idle"]
  /\ pcR' = [pcR EXCEPT !["server"] = "idle"]
  /\ UNCHANGED <<conf, kernelVars, locked, failures, iovS, retS, told, iovR, retR, got,
                 ended, dropped, closed>>

-----------------------------------------------------------------------------
(* Sending *)

\* swrap_sendmsg_before, under the mutex of the slot.
SendBefore(e) ==
  /\ pcS[e] = "idle" /\ told[e] < Bytes
  /\ e \notin locked
  /\ iovS' = [iovS EXCEPT ![e] = Cut(Buffers(conf[e].send, Bytes - told[e]))]
  /\ pcS' = [pcS EXCEPT ![e] = "enter"]
  /\ UNCHANGED <<conf, kernelVars, locked, failures, captureVars, retS, told,
                 receiverVars, closed>>

\* Mutant of KeepsSlot: every call keeps the slot locked.
KeepsSlotAlways(e) == TRUE

\* sendto() locks the slot again and has it while it waits in libc; the other
\* calls do not.
KeepsSlot(e) == conf[e].call = "sendto"

SendEnter(e) ==
  /\ pcS[e] = "enter"
  /\ KeepsSlot(e) => e \notin locked
  /\ locked' = IF KeepsSlot(e) THEN locked \cup {e} ELSE locked
  /\ pcS' = [pcS EXCEPT ![e] = "libc"]
  /\ UNCHANGED <<conf, kernelVars, failures, captureVars, iovS, retS, told,
                 receiverVars, closed>>

\* libc waits until the kernel has room for some of it, or fails (-1).
SendLibc(e) ==
  LET room == Capacity - (sent[e] - taken[e])
  IN /\ pcS[e] = "libc"
     /\ \/ /\ \E n \in 0..Min({room, Total(iovS[e])}) :
                /\ n = 0 => Total(iovS[e]) = 0
                /\ sent' = [sent EXCEPT ![e] = @ + n]
                /\ retS' = [retS EXCEPT ![e] = n]
           /\ UNCHANGED failures
        \/ /\ failures < MaxFailures
           /\ failures' = failures + 1
           /\ retS' = [retS EXCEPT ![e] = -1]
           /\ UNCHANGED sent
     /\ locked' = locked \ {e}
     /\ pcS' = [pcS EXCEPT ![e] = "after"]
     /\ UNCHANGED <<conf, taken, shut, captureVars, iovS, told, receiverVars, closed>>

\* Mutant of Recorded: what was asked for counts as sent.
RecordedAsked(e) == Total(iovS[e])

\* The length of the packet: a call that failed is recorded with (up to 80 of) the
\* bytes it did not send.
Recorded(e) == IF retS[e] = -1 THEN Total(iovS[e]) ELSE retS[e]

\* swrap_sendmsg_after: the packet is captured under the mutex; when malloc()
\* fails it is not.  The caller is told what libc returned all the same.
SendAfter(e) ==
  /\ pcS[e] = "after"
  /\ e \notin locked
  /\ \/ /\ Record(e, IF retS[e] = -1 THEN {"SEND", "SEND_RST"} ELSE {"SEND"}, Recorded(e))
        /\ UNCHANGED failures
     \/ /\ failures < MaxFailures
        /\ failures' = failures + 1
        /\ UNCHANGED captureVars
  /\ told' = [told EXCEPT ![e] = @ + Max({retS[e], 0})]
  /\ pcS' = [pcS EXCEPT ![e] = "idle"]
  /\ iovS' = [iovS EXCEPT ![e] = <<>>] /\ retS' = [retS EXCEPT ![e] = 0]
  /\ UNCHANGED <<conf, kernelVars, locked, receiverVars, closed>>

\* shutdown() is not wrapped.
Shutdown(e) ==
  /\ pcS[e] = "idle" /\ told[e] = Bytes
  /\ e \notin shut
  /\ shut' = shut \cup {e}
  /\ UNCHANGED <<conf, sent, taken, locked, failures, captureVars, senderVars,
                 receiverVars, closed>>

-----------------------------------------------------------------------------
(* Receiving *)

\* What a receiver asks for in every call.
Asked(e) == Buffers(conf[e].recv, Bytes)

\* swrap_recvmsg_before.
RecvBefore(e) ==
  /\ pcR[e] = "idle" /\ e \notin ended
  /\ e \notin locked
  /\ iovR' = [iovR EXCEPT ![e] = Cut(Asked(e))]
  /\ pcR' = [pcR EXCEPT ![e] = "libc"]
  /\ UNCHANGED <<conf, kernelVars, locked, failures, captureVars, senderVars, retR, got,
                 ended, dropped, closed>>

\* libc waits for bytes or for the end.
RecvLibc(e) ==
  LET p == Peer(e)
      ready == sent[p] - taken[p]
  IN /\ pcR[e] = "libc"
     /\ \E n \in 0..Min({ready, Total(iovR[e])}) :
          /\ n = 0 => Total(iovR[e]) = 0 \/ (ready = 0 /\ p \in shut)
          /\ taken' = [taken EXCEPT ![p] = @ + n]
          /\ retR' = [retR EXCEPT ![e] = n]
     /\ pcR' = [pcR EXCEPT ![e] = "after"]
     /\ UNCHANGED <<conf, sent, shut, locked, failures, captureVars, senderVars, iovR,
                    got, ended, dropped, closed>>

RecvReturn(e) ==
  /\ pcR' = [pcR EXCEPT ![e] = "idle"]
  /\ iovR' = [iovR EXCEPT ![e] = <<>>] /\ retR' = [retR EXCEPT ![e] = 0]

\* swrap_recvmsg_after: zero bytes are the end; nothing is recorded for a list
\* without room.
RecvAfter(e) ==
  /\ pcR[e] = "after"
  /\ e \notin locked
  /\ Record(e, IF Total(iovR[e]) = 0 THEN {}
               ELSE IF retR[e] = 0 THEN {"RECV_RST"} ELSE {"RECV"}, retR[e])
  /\ got' = [got EXCEPT ![e] = @ + retR[e]]
  /\ ended' = IF retR[e] = 0 THEN ended \cup {e} ELSE ended
  /\ RecvReturn(e)
  /\ UNCHANGED <<conf, kernelVars, locked, failures, senderVars, dropped, closed>>

\* No memory for the copy it captures: the call fails, with an errno that says nothing
\* about it, and what libc has put into the buffers is lost.
RecvNoMemory(e) ==
  /\ pcR[e] = "after"
  /\ e \notin locked
  /\ Total(iovR[e]) > 0
  /\ failures < MaxFailures
  /\ failures' = failures + 1
  /\ dropped' = [dropped EXCEPT ![e] = @ + retR[e]]
  /\ RecvReturn(e)
  /\ UNCHANGED <<conf, kernelVars, locked, captureVars, senderVars, got, ended, closed>>

-----------------------------------------------------------------------------
(* Closing *)

\* swrap_close, when both threads are done.
Close(e) ==
  /\ e \in shut /\ e \in ended /\ e \notin closed
  /\ closed' = closed \cup {e}
  /\ Record(e, {"CLOSE_SEND", "CLOSE_RECV", "CLOSE_ACK"}, 0)
  /\ UNCHANGED <<conf, kernelVars, locked, failures, senderVars, receiverVars>>

Sender(e) ==
  \/ e = "client" /\ (Connect \/ Connected)
  \/ e = "server" /\ Accept
  \/ SendBefore(e) \/ SendEnter(e) \/ SendLibc(e) \/ SendAfter(e) \/ Shutdown(e)
  \/ Close(e)
Receiver(e) ==
  RecvBefore(e) \/ RecvLibc(e) \/ RecvAfter(e) \/ RecvNoMemory(e)
Next == \E e \in Ends : Sender(e) \/ Receiver(e)
Spec == Init /\ [][Next]_vars

\* Every thread goes on whenever it does not wait.
FairSpec == Spec /\ \A e \in Ends : WF_vars(Sender(e)) /\ WF_vars(Receiver(e))

-----------------------------------------------------------------------------
(* Properties *)

TypeOK ==
  /\ conf \in Confs
  /\ shut \subseteq Ends /\ locked \subseteq Ends /\ ended \subseteq Ends
  /\ \A e \in Ends :
       /\ taken[e] \in 0..sent[e] /\ sent[e] \in 0..Bytes
       /\ got[Peer(e)] + dropped[Peer(e)] \in 0..taken[e]

\* A receiver is told that the stream has ended only after the other end has shut
\* it down and libc has handed out all of it, however recv() and its kin cut the
\* requests; and if no call of the receiver failed after libc had filled its
\* buffers, the receiver has been given all of it.
\* Two ways of the code defeat this and are left out here.  A list that stalls
\* returns 0 at once, since a long buffer behind an empty one is dropped instead of
\* cut.  And when malloc() fails, swrap_recvmsg_after() says "we just not capture
\* the packet" but fails the call, whose bytes are then gone without the caller
\* having seen them (dropped).
EndMeansAll ==
  \A e \in ended :
    ~Stalls(Asked(e)) =>
      /\ Peer(e) \in shut /\ taken[Peer(e)] = Bytes
      /\ dropped[e] = 0 => got[e] = Bytes

\* The two capture files agree about a connection once both directions have ended:
\* the sequence number up to which each end has recorded the stream it received is
\* the one up to which the other has recorded sending it, however the calls and
\* their recording interleave and however libc cuts the requests.  (Not when
\* accept() was not asked for the address, since then one of them has no
\* handshake, and not after a call that failed: a refused connect() and a failed
\* send count what never arrived, and without memory what arrived does not count.)
Fin(e) == IF e \in closed THEN 1 ELSE 0
CapturesAgree ==
  conf["server"].addr /\ failures = 0 /\ ended = Ends /\ pcS["client"] = "idle" =>
    \A e \in Ends :
      ~Stalls(Asked(e)) => rcv[e] - Fin(e) = snd[Peer(e)] - Fin(Peer(e))

\* A receiver is told of the end of the stream in the end: no call waits in libc
\* with a mutex that the thread needs that would let it go on.  (When both ends
\* send with sendto(), which keeps the slot locked while it waits for room, each
\* can wait for a receiver that waits for that lock.)
TransferCompletes ==
  \/ \A e \in Ends : conf[e].call = "sendto"
  \/ \E e \in Ends : Stalls(Buffers(conf[e].send, Bytes)) \/ Stalls(Asked(e))
  \/ \A e \in Ends : <>(e \in ended)
=============================================================================
