------------------------------- MODULE XdpSock -------------------------------
(***************************************************************************)
(* xdpsock_user.c: the three loops of the program (rx_drop_all, tx_only,   *)
(* l2fwd) over the rings of its UMEM and of its sockets, with the kernel   *)
(* as the other party of every ring.                                       *)
(*                                                                         *)
(* A ring is the bounded FIFO channel that XskRing implements.  What stays *)
(* visible of its cached indices is that a dequeue call may return fewer   *)
(* entries than are there, but not none: see NbAvail.                      *)
(***************************************************************************)
EXTENDS Naturals, Sequences, SequencesExt

CONSTANTS
  NumDescs,   \* NUM_DESCS, FQ_NUM_DESCS, CQ_NUM_DESCS
  NumFrames,  \* NUM_FRAMES
  BatchSize,  \* BATCH_SIZE
  MaxSocks    \* MAX_SOCKS

\* 1024 descriptors, 131072 frames, batches of 16.
ASSUME XdpSockAssumption ==
  /\ NumDescs \in Nat /\ BatchSize \in 1..NumDescs /\ NumDescs % BatchSize = 0
  /\ NumFrames \in Nat /\ NumFrames >= 3 * NumDescs
  /\ NumFrames % BatchSize = 0
  /\ MaxSocks \in Nat \ {0}

Socks == 1..MaxSocks
Frames == 0..(NumFrames - 1)

\* A run of the program: opt_bench, opt_poll, and num_socks (1, or MAX_SOCKS
\* when built with RR_LB).  l2fwd and tx_only serve xsks[0] only, and l2fwd does
\* not look at opt_poll.
Confs ==
  {c \in [mode : {"rxdrop", "txonly", "l2fwd"}, poll : BOOLEAN,
          socks : {1, MaxSocks}] :
     /\ c.socks > 1 => c.mode = "rxdrop"
     /\ c.poll => c.mode # "l2fwd"}

VARIABLES
  conf,        \* how the program was started
  \* rings and what the kernel holds
  fq, cq,      \* fill and completion ring of the UMEM: frames
  rx,          \* RX ring of each socket
  tx,          \* TX ring of xsks[0]
  dma,         \* frames the kernel took from fq and has not filled yet
  kicked,      \* a sendto() has asked the kernel to look at tx
  sending,     \* frames the kernel took from tx and has not completed yet
  content,     \* what the packet in a frame looks like
  \* the program
  pc,
  sock,        \* the socket rx_drop_all is at
  batch,       \* descs of rx_drop, l2fwd
  done,        \* descs of complete_tx_l2fwd, complete_tx_only
  outstanding, \* xsk->outstanding_tx
  idx          \* tx_only's next frame

kernelVars == <<conf, dma, sending>>
loopVars == <<conf, sock, batch, done, outstanding, idx>>
vars == <<conf, fq, cq, rx, tx, dma, kicked, sending, content, pc, sock, batch,
          done, outstanding, idx>>

-----------------------------------------------------------------------------
(* Rings *)

\* How many entries nb_avail(q, n) may find: never 0 when there are some, but
\* as few as the cached producer index still shows.
NbAvail(q, n) ==
  IF q = <<>> THEN {0} ELSE 1..(IF Len(q) < n THEN Len(q) ELSE n)

\* Mutant of HasFree: the last free entry is never used.
HasFreeStrict(q, n) == Len(q) + n < NumDescs

\* nb_free(q, n) >= n: exact, since the cached index is refreshed before the
\* answer is no.
HasFree(q, n) == Len(q) + n <= NumDescs

First(q, n) == SubSeq(q, 1, n)
Rest(q, n) == SubSeq(q, n + 1, Len(q))

\* umem_fill_to_kernel(_ex): all of the frames, or -ENOSPC and none.
Filled(frames) == IF HasFree(fq, Len(frames)) THEN fq \o frames ELSE fq

-----------------------------------------------------------------------------
(* After main() has set everything up: xsk_configure has put the first     *)
(* NUM_DESCS frames on the fill ring, and the chosen loop starts.          *)

FirstStep == CASE conf.mode = "rxdrop" -> "poll"
               [] conf.mode = "txonly" -> "enq"
               [] conf.mode = "l2fwd"  -> "complete"

Init ==
  /\ conf \in Confs
  /\ fq = [i \in 1..NumDescs |-> i - 1]
  /\ cq = <<>> /\ rx = [s \in Socks |-> <<>>] /\ tx = <<>>
  /\ dma = <<>> /\ kicked = FALSE /\ sending = <<>>
  /\ content = [f \in Frames |-> "blank"]
  /\ pc = FirstStep /\ sock = 1
  /\ batch = <<>> /\ done = <<>> /\ outstanding = 0 /\ idx = 0

-----------------------------------------------------------------------------
(* The kernel and the device (external) *)

\* A receive buffer is taken from the fill ring.
KernelTakeBuffer ==
  /\ fq # <<>>
  /\ dma' = Append(dma, Head(fq))
  /\ fq' = Tail(fq)
  /\ UNCHANGED <<cq, rx, tx, kicked, sending, content, pc, loopVars>>

\* A packet arrives in buffer i and is handed to socket s; with a full RX ring
\* it is dropped and the buffer kept for the next one.  tx_only takes nothing from its
\* RX ring, so the order of the buffers there makes no difference.
KernelReceive(s, i) ==
  /\ HasFree(rx[s], 1)
  /\ conf.mode = "txonly" => i = 1
  /\ rx' = [rx EXCEPT ![s] = Append(@, dma[i])]
  /\ content' = [content EXCEPT ![dma[i]] = "in"]
  /\ dma' = RemoveAt(dma, i)
  /\ UNCHANGED <<fq, cq, tx, kicked, sending, pc, loopVars>>

\* While kicked, the kernel takes descriptors as long as the completion ring
\* has room for them.
KernelTakeDesc ==
  /\ kicked
  /\ tx # <<>>
  /\ HasFree(cq, Len(sending) + 1)
  /\ sending' = Append(sending, Head(tx))
  /\ tx' = Tail(tx)
  /\ UNCHANGED <<fq, cq, rx, dma, kicked, content, pc, loopVars>>

\* It stops at its own batch limit, or without having taken anything: EAGAIN,
\* ENOBUFS, EBUSY.
KernelStop ==
  /\ kicked
  /\ kicked' = FALSE
  /\ UNCHANGED <<fq, cq, rx, tx, kernelVars, content, pc, loopVars>>

\* A frame has been sent: in the order the frames were taken for tx_only, whose
\* reuse of frames relies on it, in any order otherwise.
KernelComplete(f) ==
  \E i \in 1..Len(sending) :
    /\ sending[i] = f
    /\ conf.mode = "txonly" => i = 1
    /\ cq' = Append(cq, f)
    /\ sending' = RemoveAt(sending, i)
    /\ UNCHANGED <<fq, rx, tx, dma, kicked, content, pc, loopVars>>

Kernel == \/ KernelTakeBuffer
          \/ \E s \in 1..conf.socks : \E i \in 1..Len(dma) : KernelReceive(s, i)
          \/ KernelTakeDesc
          \/ KernelStop
          \/ \E f \in Frames : KernelComplete(f)

-----------------------------------------------------------------------------
(* complete_tx_l2fwd and complete_tx_only *)

\* Where the loop goes on when the completions are done.
AfterComplete == IF conf.mode = "l2fwd" THEN "deq" ELSE "enq"

\* Mutant of CompleteTx: no kick.
CompleteTxSilent ==
  /\ pc = "complete"
  /\ pc' = IF outstanding = 0 THEN AfterComplete ELSE "drain"
  /\ UNCHANGED <<fq, cq, rx, tx, kernelVars, kicked, content, loopVars>>

\* Nothing outstanding: return.  Otherwise kick_tx: the four accepted results
\* of sendto() wake the kernel up, any other errno ends the program.
CompleteTx ==
  /\ pc = "complete"
  /\ \/ /\ outstanding = 0
        /\ pc' = AfterComplete
        /\ UNCHANGED kicked
     \/ /\ outstanding > 0
        /\ kicked' = TRUE
        /\ pc' = "drain"
     \/ /\ outstanding > 0
        /\ pc' = "exit"
        /\ UNCHANGED kicked
  /\ UNCHANGED <<fq, cq, rx, tx, kernelVars, content, loopVars>>

\* complete_tx_l2fwd never asks for more than is outstanding, complete_tx_only
\* always asks for a whole batch.
CompletionsWanted ==
  IF conf.mode = "l2fwd" /\ outstanding < BatchSize THEN outstanding ELSE BatchSize

\* umem_complete_from_kernel.
Drain ==
  /\ pc = "drain"
  /\ \E n \in NbAvail(cq, CompletionsWanted) :
       /\ done' = First(cq, n)
       /\ cq' = Rest(cq, n)
       /\ pc' = IF n > 0 THEN "recycle" ELSE AfterComplete
  /\ UNCHANGED <<fq, rx, tx, kernelVars, kicked, content, sock, batch,
                 outstanding, idx>>

\* Mutants of Recycle: a whole batch is counted, or the frames are not refilled.
RecycleBatch ==
  /\ pc = "recycle"
  /\ fq' = IF conf.mode = "l2fwd" THEN Filled(done) ELSE fq
  /\ outstanding' = outstanding - BatchSize
  /\ done' = <<>>
  /\ pc' = AfterComplete
  /\ UNCHANGED <<cq, rx, tx, kernelVars, kicked, content, sock, batch, idx>>
RecycleNothing ==
  /\ pc = "recycle"
  /\ outstanding' = outstanding - Len(done)
  /\ done' = <<>>
  /\ pc' = AfterComplete
  /\ UNCHANGED <<fq, cq, rx, tx, kernelVars, kicked, content, sock, batch, idx>>

\* complete_tx_l2fwd gives the frames back for reception, not looking at the
\* result; both count them as no longer outstanding.
Recycle ==
  /\ pc = "recycle"
  /\ fq' = IF conf.mode = "l2fwd" THEN Filled(done) ELSE fq
  /\ outstanding' = outstanding - Len(done)
  /\ done' = <<>>
  /\ pc' = AfterComplete
  /\ UNCHANGED <<cq, rx, tx, kernelVars, kicked, content, sock, batch, idx>>

-----------------------------------------------------------------------------
(* l2fwd *)

\* xq_deq; the inner loop completes again until something arrives.
Dequeue ==
  /\ conf.mode = "l2fwd" /\ pc = "deq"
  /\ \E n \in NbAvail(rx[1], BatchSize) :
       /\ batch' = First(rx[1], n)
       /\ rx' = [rx EXCEPT ![1] = Rest(@, n)]
       /\ pc' = IF n > 0 THEN "swap" ELSE "complete"
  /\ UNCHANGED <<fq, cq, tx, kernelVars, kicked, content, sock, done,
                 outstanding, idx>>

\* Mutant of Swap: only the first packet of the batch.
SwapFirst ==
  /\ pc = "swap"
  /\ content' = [content EXCEPT ![Head(batch)] = "swapped"]
  /\ pc' = "enq"
  /\ UNCHANGED <<fq, cq, rx, tx, kernelVars, kicked, loopVars>>

\* swap_mac_addresses on every packet of the batch, in place.
Swap ==
  /\ pc = "swap"
  /\ content' = [f \in Frames |->
                   IF f \in ToSet(batch)
                     THEN IF content[f] = "in" THEN "swapped" ELSE "in"
                     ELSE content[f]]
  /\ pc' = "enq"
  /\ UNCHANGED <<fq, cq, rx, tx, kernelVars, kicked, loopVars>>

\* xq_enq; lassert(ret == 0).
Forward ==
  /\ conf.mode = "l2fwd" /\ pc = "enq"
  /\ IF HasFree(tx, Len(batch))
       THEN /\ tx' = tx \o batch
            /\ outstanding' = outstanding + Len(batch)
            /\ batch' = <<>>
            /\ pc' = "complete"
       ELSE /\ pc' = "failed"
            /\ UNCHANGED <<tx, outstanding, batch>>
  /\ UNCHANGED <<fq, cq, rx, kernelVars, kicked, content, sock, done, idx>>

-----------------------------------------------------------------------------
(* rx_drop_all *)

\* poll(fds, 1, timeout) watches the first socket only, however many there are; a
\* timeout is a "continue".
RxPoll ==
  /\ conf.mode = "rxdrop" /\ pc = "poll"
  /\ conf.poll => rx[1] # <<>>
  /\ sock' = 1
  /\ pc' = "deq"
  /\ UNCHANGED <<fq, cq, rx, tx, kernelVars, kicked, content, batch, done,
                 outstanding, idx>>


NextSock == IF sock < conf.socks THEN /\ sock' = sock + 1
                                    /\ pc' = "deq"
                               ELSE /\ pc' = "poll"
                                    /\ UNCHANGED sock

\* rx_drop: xq_deq, back at once when there is nothing.
RxDropDequeue ==
  /\ conf.mode = "rxdrop" /\ pc = "deq"
  /\ \E n \in NbAvail(rx[sock], BatchSize) :
       /\ batch' = First(rx[sock], n)
       /\ rx' = [rx EXCEPT ![sock] = Rest(@, n)]
       /\ IF n > 0 THEN /\ pc' = "refill"
                        /\ UNCHANGED sock
                   ELSE NextSock
  /\ UNCHANGED <<fq, cq, tx, kernelVars, kicked, content, done, outstanding,
                 idx>>

\* umem_fill_to_kernel_ex, not looking at the result.
RxDropRefill ==
  /\ pc = "refill"
  /\ fq' = Filled(batch)
  /\ batch' = <<>>
  /\ NextSock
  /\ UNCHANGED <<cq, rx, tx, kernelVars, kicked, content, done, outstanding,
                 idx>>

-----------------------------------------------------------------------------
(* tx_only *)

\* Mutant of TxOnlyEnqueue: idx wraps at the ring size.
TxOnlyEnqueueRing ==
  /\ conf.mode = "txonly" /\ pc = "enq"
  /\ conf.poll => HasFree(tx, 1)
  /\ IF HasFree(tx, BatchSize)
       THEN /\ tx' = tx \o [i \in 1..BatchSize |-> idx + i - 1]
            /\ outstanding' = outstanding + BatchSize
            /\ idx' = (idx + BatchSize) % NumDescs
       ELSE UNCHANGED <<tx, outstanding, idx>>
  /\ pc' = "complete"
  /\ UNCHANGED <<fq, cq, rx, kernelVars, kicked, content, sock, batch, done>>

\* poll() reports POLLOUT as long as the TX ring is not full; without it the loop goes
\* round, past the completions and their kick.
Pollout == HasFree(tx, 1)

\* A whole batch is enqueued when there is room for it (xq_enq_tx_only, which
\* repeats the test, under lassert), and completions are looked at either way.
TxOnlyEnqueue ==
  /\ conf.mode = "txonly" /\ pc = "enq"
  /\ conf.poll => Pollout
  /\ IF HasFree(tx, BatchSize)
       THEN /\ tx' = tx \o [i \in 1..BatchSize |-> idx + i - 1]
            /\ outstanding' = outstanding + BatchSize
            /\ idx' = (idx + BatchSize) % NumFrames
       ELSE UNCHANGED <<tx, outstanding, idx>>
  /\ pc' = "complete"
  /\ UNCHANGED <<fq, cq, rx, kernelVars, kicked, content, sock, batch, done>>

-----------------------------------------------------------------------------
Program == \/ CompleteTx \/ Drain \/ Recycle
           \/ Dequeue \/ Swap \/ Forward
           \/ RxPoll \/ RxDropDequeue \/ RxDropRefill
           \/ TxOnlyEnqueue

Next == Kernel \/ Program

Spec == Init /\ [][Next]_vars

\* The loops never block, but for poll(), which reports a ready ring; the kernel
\* completes what it took, and a program that keeps kicking is
\* eventually served.
Fairness ==
  /\ WF_vars(Program)
  /\ SF_vars(KernelTakeDesc)
  /\ \A f \in Frames : WF_vars(KernelComplete(f))

FairSpec == Spec /\ Fairness

-----------------------------------------------------------------------------
(* Correctness *)

\* Frames between the enqueue on tx and the return of their completion.
InFlight == tx \o sending \o cq \o done

\* The sequences frames are in: the rings, what the kernel took from them and the
\* descs arrays of the loops.
Holders ==
  ({"fq", "dma", "batch", "tx", "sending", "cq", "done"} \X {0}) \cup ({"rx"} \X Socks)
Held == [h \in Holders |-> CASE h[1] = "fq"      -> fq
                              [] h[1] = "dma"     -> dma
                              [] h[1] = "rx"      -> rx[h[2]]
                              [] h[1] = "batch"   -> batch
                              [] h[1] = "tx"      -> tx
                              [] h[1] = "sending" -> sending
                              [] h[1] = "cq"      -> cq
                              [] h[1] = "done"    -> done]

\* The frame at each position of them.
Places(held) == UNION {{h} \X DOMAIN held[h] : h \in Holders}
FrameAt(held) == [p \in Places(held) |-> held[p[1]][p[2]]]

\* The rings stay within their sizes and the program's variables in their types.
TypeOK ==
  /\ conf \in Confs
  /\ \A q \in {fq, cq, tx} \cup {rx[s] : s \in Socks} :
       q \in Seq(Frames) /\ Len(q) <= NumDescs
  /\ dma \in Seq(Frames) /\ sending \in Seq(Frames)
  /\ kicked \in BOOLEAN
  /\ content \in [Frames -> {"blank", "in", "swapped"}]
  /\ pc \in {"poll", "deq", "refill", "swap", "enq", "complete", "drain",
             "recycle", "exit", "failed"}
  /\ sock \in Socks
  /\ batch \in Seq(Frames) /\ done \in Seq(Frames)
  /\ outstanding \in Nat /\ idx \in Frames

\* The frames put on the fill ring at start-up are never lost and never in two
\* places, although no loop looks at the result of its refill (rx_drop,
\* complete_tx_l2fwd) and the device may complete in any order.
FrameConservation ==
  conf.mode # "txonly" =>
    FrameAt(Held) \in Bijection(Places(Held), 0..(NumDescs - 1))

\* lassert(ret == 0) after xq_enq in l2fwd: the TX ring always has room.
EnqueueNeverFails == pc # "failed"

\* outstanding_tx counts exactly the frames that still have to come back, so
\* the early return of complete_tx_* never leaves completions behind and the
\* counter never goes below zero.
OutstandingExact == outstanding = Len(InFlight)

\* l2fwd transmits each packet with its addresses swapped once: no frame is
\* received into, or swapped again, between its swap and its transmission.
ForwardsSwapped ==
  conf.mode = "l2fwd" => \A f \in ToSet(tx \o sending) : content[f] = "swapped"

\* tx_only reuses a frame only after its last transmission has completed: idx
\* does not catch up with the frames in flight, provided the device completes in
\* order (nothing in the loop checks which frames came back).
InFlightDistinct == conf.mode = "txonly" => IsInjective(InFlight)

\* rx_drop_all with several sockets waits in poll(), which watches the first only.
WaitsForFirst ==
  conf.mode = "rxdrop" /\ conf.poll /\ conf.socks > 1 /\ pc = "poll" /\ rx[1] = <<>>

\* A frame a packet was received into comes back to the fill ring, unless the
\* program exits (rx_drop, and l2fwd by way of the TX and completion rings); only a
\* rx_drop_all that polls may leave buffers on its other sockets, and only if the
\* first socket gets no packets any more.
BuffersReturn ==
  \/ \A f \in 0..(NumDescs - 1) :
       (conf.mode # "txonly" /\ \E s \in Socks : f \in ToSet(rx[s]))
         ~> (f \in ToSet(fq) \/ pc = "exit")
  \/ <>[]WaitsForFirst

\* tx_only waits for POLLOUT with a full TX ring on which the kernel does not go on: it
\* has stopped, or the completion ring is full.  The loop goes round without
\* complete_tx_only, so nobody wakes the kernel or takes completions.
WaitsForKernel ==
  /\ conf.poll /\ pc = "enq" /\ ~Pollout
  /\ ~kicked \/ ~HasFree(cq, Len(sending) + 1)

\* tx_only keeps transmitting, whatever the kernel leaves on the rings; only with
\* polling it may end in WaitsForKernel, and stays there.
TxOnlyProgress ==
  conf.mode = "txonly" =>
    \/ []<><<idx' # idx>>_vars
    \/ <>(pc = "exit")
    \/ <>[]WaitsForKernel

=============================================================================
