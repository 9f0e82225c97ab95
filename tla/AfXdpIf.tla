------------------------------- MODULE AfXdpIf -------------------------------
(***************************************************************************)
(* af_xdp.c: the lwIP network interface over one AF_XDP socket.  Two       *)
(* threads of the process use it: af_xdp_if_thread receives, and whichever *)
(* thread holds lwIP's core lock sends through low_level_output.  Rings    *)
(* are the bounded FIFO channels that XskRing implements.                  *)
(*                                                                         *)
(* Every transmission goes out of the same frame, TxFrame (tx_idx is never *)
(* advanced), which xsk_configure also puts on the fill ring; and the fill *)
(* ring is filled with NUM_DESCS addresses although the UMEM registered    *)
(* with the kernel has only NUM_FRAMES of them.                            *)
(***************************************************************************)
EXTENDS Naturals, Sequences, SequencesExt

CONSTANTS
  NumDescs,   \* NUM_DESCS, FQ_NUM_DESCS, CQ_NUM_DESCS
  NumFrames,  \* NUM_FRAMES
  Packets     \* packets, on the wire and in the stack

\* 1024 descriptors over 256 frames.
ASSUME AfXdpIfAssumption ==
  /\ NumDescs \in Nat \ {0}
  /\ NumFrames \in 1..NumDescs
  /\ "blank" \notin Packets

Frames == 0..(NumFrames - 1)
TxFrame == 0

VARIABLES
  fq, cq, rx, tx,  \* the four rings; tx entries name the packet they are for
  dma,             \* receive buffers the kernel holds
  sender,          \* the kernel's sender: asked by a sendto() to look at tx, idle,
                   \* or stopped with packets left on tx
  sending,         \* completions the kernel still owes
  content,         \* the packet each frame of the UMEM holds
  wire,            \* the last transmission: whether it carried the packet it was
                   \* for, and its number modulo 2
  rxpc,            \* af_xdp_if_thread
  desc,            \* descs[0] of af_xdp_if_input
  stack,           \* the packet this call passed to netif->input
  txpc,            \* the thread in low_level_output
  pbuf             \* its argument

ringVars == <<fq, cq, rx, tx>>
kernelVars == <<dma, sender, sending, wire>>
inVars == <<rxpc, desc, stack>>
outVars == <<txpc, pbuf>>
vars == <<fq, cq, rx, tx, dma, sender, sending, content, wire, rxpc, desc,
          stack, txpc, pbuf>>

-----------------------------------------------------------------------------
HasFree(q) == Len(q) < NumDescs

\* An RX descriptor names a frame; arrived is the packet the kernel put there
\* (compared by DeliversReceived, read by no step).
RxDescs == [frame : Frames, arrived : Packets]
NoDesc == [frame |-> TxFrame, arrived |-> "blank"]

\* A fresh interface: xsk_configure has put NUM_DESCS addresses on the fill
\* ring, and af_xdp_if_thread runs.
Init ==
  /\ fq = [i \in 1..NumDescs |-> i - 1]
  /\ cq = <<>> /\ rx = <<>> /\ tx = <<>>
  /\ dma = {} /\ sender = "idle" /\ sending = 0
  /\ content = [f \in Frames |-> "blank"]
  /\ wire = [intact |-> TRUE, nr |-> 0]
  /\ rxpc = "poll" /\ desc = NoDesc
  /\ stack = "blank"
  /\ txpc = "idle" /\ pbuf = "blank"

-----------------------------------------------------------------------------
(* The kernel and the device (external) *)

\* An address on the fill ring beyond the registered UMEM is skipped as an
\* invalid descriptor, the others become receive buffers.
KernelTakeBuffer ==
  /\ fq # <<>>
  /\ fq' = Tail(fq)
  /\ dma' = IF Head(fq) \in Frames THEN dma \cup {Head(fq)} ELSE dma
  /\ UNCHANGED <<cq, rx, tx, sender, sending, content, wire, inVars, outVars>>

\* Packet p arrives in buffer f.
KernelReceive(f, p) ==
  /\ HasFree(rx)
  /\ rx' = Append(rx, [frame |-> f, arrived |-> p])
  /\ content' = [content EXCEPT ![f] = p]
  /\ dma' = dma \ {f}
  /\ UNCHANGED <<fq, cq, tx, sender, sending, wire, inVars, outVars>>

\* While asked to, the kernel copies and sends what the frame of the oldest TX
\* descriptor holds, if the completion ring will have room.
KernelTransmit ==
  /\ sender = "asked"
  /\ tx # <<>>
  /\ Len(cq) + sending < NumDescs
  /\ wire' = [intact |-> content[TxFrame] = Head(tx), nr |-> 1 - wire.nr]
  /\ tx' = Tail(tx)
  /\ sending' = sending + 1
  /\ UNCHANGED <<fq, cq, rx, dma, sender, content, inVars, outVars>>

\* It stops at its own limits (EAGAIN, ENOBUFS, EBUSY) or when all is sent.
KernelStop ==
  /\ sender = "asked"
  /\ sender' = IF tx = <<>> THEN "idle" ELSE "stopped"
  /\ UNCHANGED <<ringVars, dma, sending, content, wire, inVars, outVars>>

\* All completions name TxFrame.
KernelComplete ==
  /\ sending > 0
  /\ sending' = sending - 1
  /\ cq' = Append(cq, TxFrame)
  /\ UNCHANGED <<fq, rx, tx, dma, sender, content, wire, inVars, outVars>>

Kernel == \/ KernelTakeBuffer
          \/ \E f \in dma, p \in Packets : KernelReceive(f, p)
          \/ KernelTransmit
          \/ KernelStop
          \/ KernelComplete

-----------------------------------------------------------------------------
(* af_xdp_if_thread and af_xdp_if_input *)

\* exit() in one thread ends the other.
Running == txpc # "exit"

\* Mutant of InputDequeue: the buffer is given back before it is copied.
InputDequeueEarly ==
  /\ Running /\ rxpc = "poll"
  /\ rx # <<>>
  /\ desc' = Head(rx)
  /\ fq' = Append(fq, Head(rx).frame)
  /\ rx' = Tail(rx)
  /\ rxpc' = "take"
  /\ UNCHANGED <<cq, tx, kernelVars, content, stack, outVars>>

\* poll() reports POLLIN as long as there is something on the RX ring;
\* timeouts and errors just go round again.  xq_deq takes one descriptor.
InputDequeue ==
  /\ Running /\ rxpc = "poll"
  /\ rx # <<>>
  /\ desc' = Head(rx)
  /\ rx' = Tail(rx)
  /\ rxpc' = "take"
  /\ UNCHANGED <<fq, cq, tx, kernelVars, content, stack, outVars>>

\* Mutant of InputPass: a packet there is no pbuf for returns at once.
InputPassReturn ==
  /\ Running /\ rxpc = "take"
  /\ \/ stack' = content[desc.frame] /\ rxpc' = "refill"
     \/ UNCHANGED stack /\ rxpc' = "poll"
  /\ UNCHANGED <<ringVars, kernelVars, content, desc, outVars>>

\* pbuf_take copies the frame and netif->input gets the pbuf; or the packet is
\* lost because pbuf_alloc returns NULL or netif->input does not accept it.
InputPass ==
  /\ Running /\ rxpc = "take"
  /\ \/ stack' = content[desc.frame]
     \/ UNCHANGED stack
  /\ rxpc' = "refill"
  /\ UNCHANGED <<ringVars, kernelVars, content, desc, outVars>>

\* umem_fill_to_kernel_ex: -ENOSPC is not looked at.
InputRefill ==
  /\ Running /\ rxpc = "refill"
  /\ fq' = IF HasFree(fq) THEN Append(fq, desc.frame) ELSE fq
  /\ desc' = NoDesc /\ stack' = "blank"
  /\ rxpc' = "poll"
  /\ UNCHANGED <<cq, rx, tx, kernelVars, content, outVars>>

Input == InputDequeue \/ InputPass \/ InputRefill

-----------------------------------------------------------------------------
(* low_level_output *)

\* linkoutput is called for p.  With a full TX ring the call returns ERR_IF;
\* otherwise the packet is copied into the frame.
OutputCopy(p) ==
  /\ txpc = "idle"
  /\ IF HasFree(tx)
       THEN /\ pbuf' = p
            /\ content' = [content EXCEPT ![TxFrame] = p]
            /\ txpc' = "publish"
       ELSE UNCHANGED <<pbuf, content, txpc>>
  /\ UNCHANGED <<ringVars, kernelVars, inVars>>

\* The descriptor becomes visible to the kernel.
OutputPublish ==
  /\ txpc = "publish"
  /\ tx' = Append(tx, pbuf)
  /\ txpc' = "kick"
  /\ UNCHANGED <<fq, cq, rx, kernelVars, content, inVars, pbuf>>

\* Mutant of OutputKick: no kick.
OutputKickNot ==
  /\ txpc = "kick"
  /\ txpc' = "drain"
  /\ UNCHANGED <<ringVars, kernelVars, content, inVars, pbuf>>

\* kick_tx: accepted results wake the kernel up, any other errno ends the
\* program.
OutputKick ==
  /\ txpc = "kick"
  /\ \/ sender' = "asked" /\ txpc' = "drain"
     \/ UNCHANGED sender /\ txpc' = "exit"
  /\ UNCHANGED <<ringVars, dma, sending, content, wire, inVars, pbuf>>

\* At most one completion is taken, and the call returns ERR_OK.
OutputDrain ==
  /\ txpc = "drain"
  /\ cq' = IF cq = <<>> THEN cq ELSE Tail(cq)
  /\ pbuf' = "blank"
  /\ txpc' = "idle"
  /\ UNCHANGED <<fq, rx, tx, kernelVars, content, inVars>>

Output == \/ \E p \in Packets : OutputCopy(p)
          \/ OutputPublish \/ OutputKick \/ OutputDrain

-----------------------------------------------------------------------------
Next == Kernel \/ Input \/ Output

Spec == Init /\ [][Next]_vars

\* The receiving thread loops; the stack goes on sending; the kernel completes
\* what it took and serves a sender that goes on kicking.
Fairness ==
  /\ WF_vars(Input)
  /\ WF_vars(Output)
  /\ SF_vars(KernelTransmit)
  /\ WF_vars(KernelStop)
  /\ WF_vars(KernelComplete)

FairSpec == Spec /\ Fairness

-----------------------------------------------------------------------------
(* Correctness *)

\* The rings stay within their sizes and the variables in their types.
TypeOK ==
  /\ fq \in Seq(0..(NumDescs - 1)) /\ Len(fq) <= NumDescs
  /\ cq \in Seq({TxFrame}) /\ Len(cq) + sending <= NumDescs
  /\ rx \in Seq(RxDescs) /\ Len(rx) <= NumDescs
  /\ tx \in Seq(Packets) /\ Len(tx) <= NumDescs
  /\ dma \subseteq Frames
  /\ sender \in {"idle", "asked", "stopped"}
  /\ sending \in 0..NumDescs
  /\ content \in [Frames -> Packets \cup {"blank"}]
  /\ wire \in [intact : BOOLEAN, nr : {0, 1}]
  /\ stack \in Packets \cup {"blank"}
  /\ rxpc \in {"poll", "take", "refill"}
  /\ desc \in RxDescs \cup {NoDesc}
  /\ txpc \in {"idle", "publish", "kick", "drain", "exit"}
  /\ pbuf \in Packets \cup {"blank"}

\* The places on the receive side in which frame f is: positions of the fill ring
\* and of the RX ring, the kernel, and the descriptor in hand.
Held(f) == rxpc # "poll" /\ desc.frame = f
Places(f) ==
  {<<"fill", i>> : i \in {j \in 1..Len(fq) : fq[j] = f}}
    \cup {<<"rx", i>> : i \in {j \in 1..Len(rx) : rx[j].frame = f}}
    \cup {<<"kernel", 0>> : g \in dma \cap {f}}
    \cup {<<"thread", 0>> : g \in {h \in {f} : Held(h)}}

\* Every frame of the UMEM stays a receive buffer, once: the refill after each
\* packet finds room on the fill ring, although it was filled to the brim at
\* start-up and -ENOSPC is not looked at (af_xdp_if_input).
ReceiveBuffersConserved ==
  \A f \in Frames : \E p \in Places(f) : Places(f) = {p}

\* The stack gets the packet that arrived in the buffer: the buffer is not given
\* back before it was copied (af_xdp_if_input).  TxFrame is left out, since
\* low_level_output writes to it at any moment.
DeliversReceived ==
  stack # "blank" /\ desc.frame # TxFrame => stack = desc.arrived

\* Each packet on the RX ring is dealt with and its buffer given back.
BuffersReturn ==
  \A f \in Frames :
    (\E i \in 1..Len(rx) : rx[i].frame = f)
      ~> (f \in ToSet(fq) \/ txpc = "exit")

\* The oldest packet on the TX ring is transmitted unless the kernel stopped short
\* of it: no packet is published for which the kernel was not asked after it, by
\* the same call (low_level_output, kick_tx).
TransmitsUnlessStopped ==
  \A n \in {0, 1} :
    (tx # <<>> /\ wire.nr = n)
      ~> (wire.nr # n \/ sender = "stopped" \/ txpc = "exit")

\* low_level_output "Should do the actual transmission of the packet": what
\* goes out for an accepted packet is that packet.
WireCarriesPacket == wire.intact

\* low_level_output "Should do the actual transmission of the packet": a packet
\* accepted for transmission does not stay on the TX ring for good.
TransmitsAccepted ==
  \A n \in {0, 1} :
    (tx # <<>> /\ wire.nr = n) ~> (wire.nr # n \/ txpc = "exit")

=============================================================================
