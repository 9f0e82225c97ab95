--------------------------- MODULE XdpSock_proofs ---------------------------
(***************************************************************************)
(* Proofs about XdpSock, for every ring size, number of frames, batch size *)
(* and number of sockets that XdpSockAssumption allows.                    *)
(***************************************************************************)
EXTENDS Integers, XdpSock, SequenceTheorems, FiniteSetTheorems, TLAPS

-----------------------------------------------------------------------------
(* Sequences *)

\* umem_complete_from_kernel and xq_deq take the first n entries.
LEMMA FirstRest ==
  ASSUME NEW S, NEW q \in Seq(S), NEW n \in 0..Len(q)
  PROVE  /\ First(q, n) \in Seq(S) /\ Len(First(q, n)) = n
         /\ \A i \in 1..n : First(q, n)[i] = q[i]
         /\ Rest(q, n) \in Seq(S) /\ Len(Rest(q, n)) = Len(q) - n
         /\ \A i \in 1..Len(q) - n : Rest(q, n)[i] = q[n + i]
<1>1. \A i \in 1..Len(q) : q[i] \in S
  BY ElementOfSeq
<1>2. /\ First(q, n) \in Seq(S)
      /\ Len(First(q, n)) = IF 1 <= n THEN n - 1 + 1 ELSE 0
      /\ \A i \in 1..n - 1 + 1 : First(q, n)[i] = q[1 + i - 1]
  <2>1. \A i \in 1..n : q[i] \in S
    BY <1>1, LenProperties
  <2> QED BY <2>1, SubSeqProperties DEF First
<1>3. /\ Rest(q, n) \in Seq(S)
      /\ Len(Rest(q, n)) = IF n + 1 <= Len(q) THEN Len(q) - (n + 1) + 1 ELSE 0
      /\ \A i \in 1..Len(q) - (n + 1) + 1 : Rest(q, n)[i] = q[n + 1 + i - 1]
  <2>1. \A i \in n + 1..Len(q) : q[i] \in S
    BY <1>1, LenProperties
  <2> QED BY <2>1, LenProperties, SubSeqProperties DEF Rest
<1> QED BY <1>2, <1>3, LenProperties

\* A nb_avail call finds no more than there is, or than was asked for.
LEMMA NbAvailBounds ==
  ASSUME NEW S, NEW q \in Seq(S), NEW w \in Nat, NEW n \in NbAvail(q, w)
  PROVE  n \in 0..Len(q) /\ n <= w
BY LenProperties DEF NbAvail

\* The device completes or fills an entry out of the middle.
LEMMA RemoveAtProperties ==
  ASSUME NEW S, NEW q \in Seq(S), NEW i \in 1..Len(q)
  PROVE  /\ RemoveAt(q, i) \in Seq(S)
         /\ Len(RemoveAt(q, i)) = Len(q) - 1
<1>1. i - 1 \in 0..Len(q) /\ i \in 0..Len(q) /\ Len(q) \in Nat
  BY LenProperties
<1>2. SubSeq(q, 1, i - 1) \in Seq(S) /\ Len(SubSeq(q, 1, i - 1)) = i - 1
  BY <1>1, FirstRest DEF First
<1>3. SubSeq(q, i + 1, Len(q)) \in Seq(S) /\ Len(SubSeq(q, i + 1, Len(q))) = Len(q) - i
  BY <1>1, FirstRest DEF Rest
<1> QED BY SMTT(30), <1>1, <1>2, <1>3, ConcatProperties DEF RemoveAt

\* In order: the first one.
LEMMA RemoveFirstIsTail ==
  ASSUME NEW S, NEW q \in Seq(S), q # <<>>
  PROVE  RemoveAt(q, 1) = Tail(q)
<1>1. SubSeq(q, 1, 1 - 1) = <<>>
  BY SubSeqEmpty
<1>2. SubSeq(q, 1 + 1, Len(q)) = Tail(q)
  BY TailIsSubSeq
<1> QED BY <1>1, <1>2, HeadTailProperties, ConcatEmptySeq DEF RemoveAt

-----------------------------------------------------------------------------
(* The invariant *)

\* The steps of each loop.
StepsOf(mode) ==
  CASE mode = "rxdrop" -> {"poll", "deq", "refill"}
    [] mode = "txonly" -> {"enq", "complete", "drain", "recycle", "exit"}
    [] mode = "l2fwd"  -> {"complete", "drain", "recycle", "exit", "deq", "swap",
                           "enq", "failed"}

TypeInv ==
  /\ conf \in Confs
  /\ fq \in Seq(Frames) /\ cq \in Seq(Frames) /\ tx \in Seq(Frames)
  /\ dma \in Seq(Frames) /\ sending \in Seq(Frames)
  /\ batch \in Seq(Frames) /\ done \in Seq(Frames)
  /\ rx \in [Socks -> Seq(Frames)]
  /\ kicked \in BOOLEAN
  /\ content \in [Frames -> {"blank", "in", "swapped"}]
  /\ pc \in StepsOf(conf.mode)
  /\ sock \in Socks
  /\ outstanding \in Nat

\* The kernel takes a descriptor only if its completion will fit.
RoomInv ==
  /\ Len(fq) <= NumDescs /\ Len(tx) <= NumDescs
  /\ Len(cq) + Len(sending) <= NumDescs
  /\ \A s \in Socks : Len(rx[s]) <= NumDescs

\* outstanding_tx counts the frames on their way, and with l2fwd those and the
\* others add up to what was put on the fill ring.
Exact == outstanding = Len(tx) + Len(sending) + Len(cq) + Len(done)
Total(a, b, c, d, e) == a + b + c + d + e
AllFrames ==
  conf.mode = "l2fwd" =>
    Total(Len(fq), Len(dma), Len(rx[1]), Len(batch), outstanding) = NumDescs

CountInv ==
  /\ pc # "recycle" => done = <<>>
  /\ Len(done) <= BatchSize
  /\ conf.mode = "l2fwd" /\ pc \notin {"swap", "enq"} => batch = <<>>
  /\ Exact /\ AllFrames
  /\ pc # "failed"

\* tx_only sends whole batches, in which NUM_FRAMES is divided.
BatchInv == idx \in Frames /\ idx % BatchSize = 0

CoreInv == TypeInv /\ RoomInv /\ CountInv

\* The parameters are numbers.
LEMMA Params ==
  /\ NumDescs \in Nat /\ NumFrames \in Nat /\ BatchSize \in Nat /\ MaxSocks \in Nat
  /\ 1 <= BatchSize /\ BatchSize <= NumDescs /\ 1 <= MaxSocks
  /\ NumFrames >= 3 * NumDescs /\ NumDescs <= NumFrames
BY XdpSockAssumption

\* Only rx_drop_all has several sockets.
LEMMA ConfFacts ==
  ASSUME TypeInv
  PROVE  /\ conf.mode \in {"rxdrop", "txonly", "l2fwd"}
         /\ conf.socks \in 1..MaxSocks
         /\ conf.mode = "l2fwd" => conf.socks = 1
BY Params DEF TypeInv, Confs

\* The steps of the loop that runs are its own.
LEMMA OwnSteps ==
  ASSUME TypeInv
  PROVE  /\ pc \in {"complete", "drain", "recycle", "exit"} => conf.mode # "rxdrop"
         /\ pc = "refill" => conf.mode = "rxdrop"
         /\ pc \in {"swap", "failed"} => conf.mode = "l2fwd"
BY ConfFacts DEF TypeInv, StepsOf

\* The lengths are numbers.
LEMMA Lengths ==
  ASSUME TypeInv
  PROVE  /\ Len(fq) \in Nat /\ Len(cq) \in Nat /\ Len(tx) \in Nat /\ Len(dma) \in Nat
         /\ Len(sending) \in Nat /\ Len(batch) \in Nat /\ Len(done) \in Nat
         /\ \A s \in Socks : rx[s] \in Seq(Frames) /\ Len(rx[s]) \in Nat
         /\ 1 \in Socks /\ outstanding \in Nat
BY Params, LenProperties DEF TypeInv, Socks

\* umem_fill_to_kernel(_ex) adds all of the frames, or none.
LEMMA FilledProperties ==
  ASSUME TypeInv, RoomInv, NEW frames \in Seq(Frames)
  PROVE  /\ Filled(frames) \in Seq(Frames)
         /\ Len(Filled(frames)) <= NumDescs
         /\ Len(fq) + Len(frames) <= NumDescs
              => Len(Filled(frames)) = Len(fq) + Len(frames)
<1>1. /\ fq \o frames \in Seq(Frames)
      /\ Len(fq \o frames) = Len(fq) + Len(frames)
  BY ConcatProperties DEF TypeInv
<1> QED BY <1>1 DEF Filled, HasFree, TypeInv, RoomInv

\* Frames that move from one place to the next leave the total alone.
LEMMA TotalKept ==
  ASSUME NEW a \in Nat, NEW b \in Nat, NEW c \in Nat, NEW d \in Nat, NEW e \in Nat,
         NEW k \in Nat
  PROVE  /\ Total(a - k, b + k, c, d, e) = Total(a, b, c, d, e)
         /\ Total(a, b - k, c + k, d, e) = Total(a, b, c, d, e)
         /\ Total(a, b, c - k, d + k, e) = Total(a, b, c, d, e)
         /\ Total(a, b, c, d - k, e + k) = Total(a, b, c, d, e)
         /\ Total(a + k, b, c, d, e - k) = Total(a, b, c, d, e)
BY DEF Total

\* The same of the places a frame can be in with l2fwd.
LEMMA FramesMove ==
  ASSUME TypeInv, NEW k \in Nat
  PROVE
    LET a == Len(fq)
        b == Len(dma)
        c == Len(rx[1])
        d == Len(batch)
        e == outstanding
    IN /\ Total(a - k, b + k, c, d, e) = Total(a, b, c, d, e)
       /\ Total(a, b - k, c + k, d, e) = Total(a, b, c, d, e)
       /\ Total(a, b, c - k, d + k, e) = Total(a, b, c, d, e)
       /\ Total(a, b, c, d - k, e + k) = Total(a, b, c, d, e)
       /\ Total(a + k, b, c, d, e - k) = Total(a, b, c, d, e)
<1> DEFINE a == Len(fq)
           b == Len(dma)
           c == Len(rx[1])
           d == Len(batch)
           e == outstanding
<1>1. a \in Nat /\ b \in Nat /\ c \in Nat /\ d \in Nat /\ e \in Nat
  BY Lengths
<1> HIDE DEF a, b, c, d, e
<1>2. /\ Total(a - k, b + k, c, d, e) = Total(a, b, c, d, e)
      /\ Total(a, b - k, c + k, d, e) = Total(a, b, c, d, e)
      /\ Total(a, b, c - k, d + k, e) = Total(a, b, c, d, e)
      /\ Total(a, b, c, d - k, e + k) = Total(a, b, c, d, e)
      /\ Total(a + k, b, c, d, e - k) = Total(a, b, c, d, e)
  BY <1>1, TotalKept
<1> QED BY <1>2 DEF a, b, c, d, e

\* There is room for frames on their way on the fill ring, and next to a batch on
\* the TX ring.
LEMMA FramesFit ==
  ASSUME TypeInv, AllFrames, conf.mode = "l2fwd", NEW k \in Nat, k <= outstanding
  PROVE  Len(fq) + k <= NumDescs /\ k + Len(batch) <= NumDescs
<1> DEFINE a == Len(fq)
           b == Len(dma)
           c == Len(rx[1])
           d == Len(batch)
           e == outstanding
<1>1. /\ a \in Nat /\ b \in Nat /\ c \in Nat /\ d \in Nat /\ e \in Nat
      /\ Total(a, b, c, d, e) = NumDescs
      /\ k <= e
  BY Lengths DEF AllFrames
<1> HIDE DEF a, b, c, d, e
<1>2. a + k <= NumDescs /\ k + d <= NumDescs
  BY <1>1, Params DEF Total
<1> QED BY <1>2 DEF a, d

-----------------------------------------------------------------------------
(* The kernel *)

LEMMA TakeBufferInv == CoreInv /\ KernelTakeBuffer => CoreInv'
<1> SUFFICES ASSUME CoreInv, KernelTakeBuffer PROVE CoreInv'
  OBVIOUS
<1> USE DEF CoreInv, KernelTakeBuffer, loopVars
<1>1. /\ Head(fq) \in Frames /\ fq' \in Seq(Frames) /\ Len(fq') = Len(fq) - 1
  BY HeadTailProperties DEF TypeInv
<1>2. dma' \in Seq(Frames) /\ Len(dma') = Len(dma) + 1
  BY <1>1, AppendProperties DEF TypeInv
<1>3. TypeInv'
  BY <1>1, <1>2 DEF TypeInv
<1>4. RoomInv'
  BY <1>1, Lengths, Params DEF RoomInv
<1>5. CountInv'
  <2>1. Exact'
    BY <1>1, <1>2, Lengths DEF CountInv, Exact
  <2>2. AllFrames'
    <3>1. /\ rx' = rx /\ batch' = batch /\ outstanding' = outstanding /\ conf' = conf
          /\ AllFrames
      BY DEF CountInv
    <3> HIDE DEF KernelTakeBuffer
    <3> QED BY <1>1, <1>2, <3>1, FramesMove DEF AllFrames
  <2> QED BY <2>1, <2>2 DEF CountInv
<1> QED BY <1>3, <1>4, <1>5

LEMMA ReceiveInv ==
  ASSUME CoreInv, NEW s \in 1..conf.socks, NEW i \in 1..Len(dma), KernelReceive(s, i)
  PROVE  CoreInv'
<1> USE DEF CoreInv, KernelReceive, loopVars
<1>1. s \in Socks /\ dma[i] \in Frames
  <2>1. s \in Socks
    BY ConfFacts, Params DEF Socks
  <2> QED BY <2>1, ElementOfSeq DEF TypeInv
<1>2. dma' \in Seq(Frames) /\ Len(dma') = Len(dma) - 1
  BY RemoveAtProperties DEF TypeInv
<1>3. /\ Append(rx[s], dma[i]) \in Seq(Frames)
      /\ Len(Append(rx[s], dma[i])) = Len(rx[s]) + 1
  BY <1>1, Lengths, AppendProperties DEF TypeInv
<1>4. TypeInv'
  <2>1. rx' \in [Socks -> Seq(Frames)]
    BY <1>1, <1>3 DEF TypeInv
  <2>2. content' \in [Frames -> {"blank", "in", "swapped"}]
    BY <1>1 DEF TypeInv
  <2> QED BY <1>2, <2>1, <2>2 DEF TypeInv
<1>5. RoomInv'
  <2>1. ASSUME NEW r \in Socks
        PROVE  Len(rx'[r]) <= NumDescs
    BY <1>1, <1>3 DEF RoomInv, HasFree, TypeInv
  <2> QED BY <2>1 DEF RoomInv
<1>6. CountInv'
  <2>1. CASE conf.mode = "l2fwd"
    <3>1. s = 1 /\ Len(rx'[1]) = Len(rx[1]) + 1
      BY <1>1, <1>3, <2>1, ConfFacts DEF TypeInv
    <3>2. /\ fq' = fq /\ batch' = batch /\ outstanding' = outstanding /\ conf' = conf
          /\ AllFrames
      BY DEF CountInv
    <3>3. AllFrames'
      <4> HIDE DEF KernelReceive
      <4> QED BY <1>2, <3>1, <3>2, FramesMove DEF AllFrames
    <3> QED BY <3>3 DEF CountInv, Exact
  <2>2. CASE conf.mode # "l2fwd"
    BY <2>2 DEF CountInv, Exact, AllFrames
  <2> QED BY <2>1, <2>2
<1> QED BY <1>4, <1>5, <1>6

LEMMA TakeDescInv == CoreInv /\ KernelTakeDesc => CoreInv'
<1> SUFFICES ASSUME CoreInv, KernelTakeDesc PROVE CoreInv'
  OBVIOUS
<1> USE DEF CoreInv, KernelTakeDesc, loopVars
<1>1. /\ Head(tx) \in Frames /\ tx' \in Seq(Frames) /\ Len(tx') = Len(tx) - 1
  BY HeadTailProperties DEF TypeInv
<1>2. sending' \in Seq(Frames) /\ Len(sending') = Len(sending) + 1
  BY <1>1, AppendProperties DEF TypeInv
<1>3. TypeInv'
  BY <1>1, <1>2 DEF TypeInv
<1>4. RoomInv'
  BY <1>1, <1>2, Lengths, Params DEF RoomInv, HasFree
<1>5. CountInv'
  <2>1. Exact'
    BY <1>1, <1>2, Lengths DEF CountInv, Exact
  <2>2. AllFrames'
    BY <1>1, <1>2, Lengths, Params DEF CountInv, AllFrames
  <2> QED BY <2>1, <2>2 DEF CountInv
<1> QED BY <1>3, <1>4, <1>5

LEMMA CompleteInv ==
  ASSUME CoreInv, NEW f \in Frames, KernelComplete(f)
  PROVE  CoreInv'
<1> USE DEF CoreInv, loopVars
<1>1. PICK i \in 1..Len(sending) :
        /\ cq' = Append(cq, f)
        /\ sending' = RemoveAt(sending, i)
        /\ UNCHANGED <<fq, rx, tx, dma, kicked, content, pc, loopVars>>
  BY DEF KernelComplete
<1>2. sending' \in Seq(Frames) /\ Len(sending') = Len(sending) - 1
  BY <1>1, RemoveAtProperties DEF TypeInv
<1>3. cq' \in Seq(Frames) /\ Len(cq') = Len(cq) + 1
  BY <1>1, AppendProperties DEF TypeInv
<1>4. TypeInv'
  BY <1>1, <1>2, <1>3 DEF TypeInv
<1>5. RoomInv'
  BY <1>1, <1>2, <1>3, Lengths, Params DEF RoomInv
<1>6. CountInv'
  <2>1. Exact'
    BY <1>1, <1>2, <1>3, Lengths DEF CountInv, Exact
  <2>2. AllFrames'
    BY <1>1, <1>2, <1>3, Lengths, Params DEF CountInv, AllFrames
  <2> QED BY <1>1, <2>1, <2>2 DEF CountInv
<1> QED BY <1>4, <1>5, <1>6

LEMMA KernelInv == CoreInv /\ Kernel => CoreInv'
<1>1. CoreInv /\ KernelStop => CoreInv'
  BY DEF CoreInv, TypeInv, RoomInv, CountInv, Exact, AllFrames, KernelStop, kernelVars, loopVars
<1> QED BY <1>1, TakeBufferInv, ReceiveInv, TakeDescInv, CompleteInv DEF Kernel

-----------------------------------------------------------------------------
(* complete_tx_l2fwd and complete_tx_only *)

LEMMA CompleteTxInv == CoreInv /\ CompleteTx => CoreInv'
<1> SUFFICES ASSUME CoreInv, CompleteTx PROVE CoreInv'
  OBVIOUS
<1> USE DEF CoreInv, CompleteTx, kernelVars, loopVars
<1>1. TypeInv'
  <2>1. conf.mode = "l2fwd" \/ conf.mode = "txonly"
    BY OwnSteps, ConfFacts
  <2>2. pc' \in StepsOf(conf.mode)
    BY <2>1 DEF StepsOf, AfterComplete
  <2> QED BY <2>2 DEF TypeInv
<1>2. RoomInv'
  BY DEF RoomInv
<1>3. CountInv'
  BY OwnSteps, ConfFacts DEF CountInv, Exact, AllFrames, AfterComplete
<1> QED BY <1>1, <1>2, <1>3

LEMMA DrainInv == CoreInv /\ Drain => CoreInv'
<1> SUFFICES ASSUME CoreInv, Drain PROVE CoreInv'
  OBVIOUS
<1> USE DEF CoreInv, kernelVars
<1>1. PICK n \in NbAvail(cq, CompletionsWanted) :
        /\ done' = First(cq, n)
        /\ cq' = Rest(cq, n)
        /\ pc' = IF n > 0 THEN "recycle" ELSE AfterComplete
  BY DEF Drain
<1>2. /\ UNCHANGED <<fq, rx, tx, kernelVars, kicked, content, sock, batch, outstanding,
                     idx>>
      /\ pc = "drain" /\ done = <<>>
  BY DEF Drain, CountInv
<1>3. n \in 0..Len(cq) /\ n <= BatchSize
  <2>1. CompletionsWanted \in Nat /\ CompletionsWanted <= BatchSize
    BY Lengths, Params DEF CompletionsWanted
  <2> QED BY <1>1, <2>1, NbAvailBounds, Params DEF TypeInv
<1>4. /\ done' \in Seq(Frames) /\ Len(done') = n
      /\ cq' \in Seq(Frames) /\ Len(cq') = Len(cq) - n
  BY <1>1, <1>3, FirstRest DEF TypeInv
<1>5. conf.mode = "l2fwd" \/ conf.mode = "txonly"
  BY <1>2, OwnSteps, ConfFacts
<1>6. TypeInv'
  <2>1. pc' \in StepsOf(conf.mode)
    BY <1>1, <1>5 DEF StepsOf, AfterComplete
  <2> QED BY <1>2, <1>4, <2>1 DEF TypeInv
<1>7. RoomInv'
  BY <1>2, <1>3, <1>4, Lengths, Params DEF RoomInv
<1>8. CountInv'
  <2>1. Len(done) = 0
    BY <1>2
  <2>2. Exact'
    BY <1>2, <1>3, <1>4, <2>1, Lengths DEF CountInv, Exact
  <2>3. pc' # "recycle" => done' = <<>>
    <3> SUFFICES ASSUME pc' # "recycle" PROVE done' = <<>>
      OBVIOUS
    <3>1. Len(done') = 0
      BY <1>1, <1>3, <1>4
    <3> QED BY <1>4, <3>1, EmptySeq
  <2>4. conf.mode = "l2fwd" => batch' = <<>>
    BY <1>2 DEF CountInv
  <2>5. pc' # "failed"
    BY <1>1, <1>5 DEF AfterComplete
  <2> QED BY <1>2, <1>3, <1>4, <2>2, <2>3, <2>4, <2>5 DEF CountInv, AllFrames
<1> QED BY <1>6, <1>7, <1>8

LEMMA RecycleInv == CoreInv /\ Recycle => CoreInv'
<1> SUFFICES ASSUME CoreInv, Recycle PROVE CoreInv'
  OBVIOUS
<1> USE DEF CoreInv, kernelVars
<1>1. /\ UNCHANGED <<cq, rx, tx, kernelVars, kicked, content, sock, batch, idx>>
      /\ pc = "recycle" /\ pc' = AfterComplete /\ done' = <<>>
      /\ outstanding' = outstanding - Len(done)
      /\ fq' = IF conf.mode = "l2fwd" THEN Filled(done) ELSE fq
  BY DEF Recycle
<1>2. conf.mode = "l2fwd" \/ conf.mode = "txonly"
  BY <1>1, OwnSteps, ConfFacts
<1>3. /\ outstanding' \in Nat
      /\ outstanding' = Len(tx) + Len(sending) + Len(cq)
      /\ outstanding >= Len(done)
  BY <1>1, Lengths DEF CountInv, Exact
<1>4. /\ fq' \in Seq(Frames) /\ Len(fq') <= NumDescs
      /\ conf.mode = "l2fwd" => Len(fq') = Len(fq) + Len(done)
  <2>1. CASE conf.mode = "l2fwd"
    <3>1. Len(fq) + Len(done) <= NumDescs
      BY <1>3, <2>1, FramesFit, Lengths DEF CountInv
    <3> QED BY <1>1, <2>1, <3>1, FilledProperties DEF TypeInv
  <2>2. CASE conf.mode # "l2fwd"
    BY <1>1, <2>2 DEF TypeInv, RoomInv
  <2> QED BY <2>1, <2>2
<1>5. TypeInv'
  <2>1. pc' \in StepsOf(conf.mode)
    BY <1>1, <1>2 DEF StepsOf, AfterComplete
  <2> QED BY <1>1, <1>3, <1>4, <2>1 DEF TypeInv
<1>6. RoomInv'
  BY <1>1, <1>4 DEF RoomInv
<1>7. CountInv'
  <2>1. Len(done') = 0
    BY <1>1
  <2>2. Exact'
    BY <1>1, <1>3, <2>1, Lengths DEF Exact
  <2>3. AllFrames'
    <3> SUFFICES ASSUME conf.mode = "l2fwd"
                 PROVE  Total(Len(fq'), Len(dma), Len(rx[1]), Len(batch), outstanding')
                          = NumDescs
      BY <1>1 DEF AllFrames
    <3>1. Len(fq') = Len(fq) + Len(done) /\ outstanding' = outstanding - Len(done)
      BY <1>1, <1>4
    <3>2. Total(Len(fq), Len(dma), Len(rx[1]), Len(batch), outstanding) = NumDescs
      BY DEF CountInv, AllFrames
    <3>3. Len(done) \in Nat
      BY Lengths
    <3> HIDE DEF CoreInv
    <3>4. Total(Len(fq) + Len(done), Len(dma), Len(rx[1]), Len(batch),
                outstanding - Len(done))
            = Total(Len(fq), Len(dma), Len(rx[1]), Len(batch), outstanding)
      BY <3>3, FramesMove DEF CoreInv
    <3> QED BY <3>1, <3>2, <3>4
  <2>4. conf.mode = "l2fwd" => batch' = <<>>
    BY <1>1 DEF CountInv
  <2>5. pc' # "failed" /\ pc' # "recycle"
    BY <1>1, <1>2 DEF AfterComplete
  <2> QED BY <1>1, <2>1, <2>2, <2>3, <2>4, <2>5, Params DEF CountInv
<1> QED BY <1>5, <1>6, <1>7

-----------------------------------------------------------------------------
(* l2fwd *)

LEMMA DequeueInv == CoreInv /\ Dequeue => CoreInv'
<1> SUFFICES ASSUME CoreInv, Dequeue PROVE CoreInv'
  OBVIOUS
<1> USE DEF CoreInv, kernelVars
<1>1. PICK n \in NbAvail(rx[1], BatchSize) :
        /\ batch' = First(rx[1], n)
        /\ rx' = [rx EXCEPT ![1] = Rest(@, n)]
        /\ pc' = IF n > 0 THEN "swap" ELSE "complete"
  BY DEF Dequeue
<1>2. /\ UNCHANGED <<fq, cq, tx, kernelVars, kicked, content, sock, done, outstanding, idx>>
      /\ conf.mode = "l2fwd" /\ pc = "deq" /\ batch = <<>> /\ done = <<>>
  BY DEF Dequeue, CountInv
<1>3. n \in 0..Len(rx[1]) /\ n \in Nat
  BY <1>1, NbAvailBounds, Lengths, Params
<1>4. /\ batch' \in Seq(Frames) /\ Len(batch') = n
      /\ Rest(rx[1], n) \in Seq(Frames) /\ Len(Rest(rx[1], n)) = Len(rx[1]) - n
  <2>1. PICK q : q = rx[1]
    OBVIOUS
  <2>2. q \in Seq(Frames) /\ n \in 0..Len(q)
    BY <1>3, <2>1, Lengths
  <2> HIDE DEF CoreInv, kernelVars
  <2>3. /\ First(q, n) \in Seq(Frames) /\ Len(First(q, n)) = n
        /\ Rest(q, n) \in Seq(Frames) /\ Len(Rest(q, n)) = Len(q) - n
    BY <2>2, FirstRest, Zenon
  <2> QED BY <1>1, <2>1, <2>3, Zenon
<1>5. rx'[1] = Rest(rx[1], n)
  BY <1>1, Lengths DEF TypeInv
<1>6. TypeInv'
  <2>1. rx' \in [Socks -> Seq(Frames)]
    BY <1>1, <1>4, Lengths DEF TypeInv
  <2>2. pc' \in StepsOf(conf.mode)
    BY <1>1, <1>2 DEF StepsOf
  <2> QED BY <1>2, <1>4, <2>1, <2>2 DEF TypeInv
<1>7. RoomInv'
  <2>1. ASSUME NEW r \in Socks
        PROVE  Len(rx'[r]) <= NumDescs
    <3>1. CASE r = 1
      BY SMTT(30), <1>3, <1>4, <1>5, <3>1, Lengths, Params DEF RoomInv
    <3>2. CASE r # 1
      BY <1>1, <3>2 DEF RoomInv, TypeInv
    <3> QED BY <3>1, <3>2
  <2> QED BY <1>2, <2>1 DEF RoomInv
<1>8. CountInv'
  <2>1. Len(batch) = 0
    BY <1>2
  <2>2. AllFrames'
    <3>1. Len(batch') = Len(batch) + n /\ Len(rx'[1]) = Len(rx[1]) - n
      BY <1>3, <1>4, <1>5, <2>1
    <3> QED BY <1>2, <1>3, <3>1, FramesMove DEF CountInv, AllFrames
  <2>3. pc' # "swap" => batch' = <<>>
    <3> SUFFICES ASSUME pc' # "swap" PROVE batch' = <<>>
      OBVIOUS
    <3>1. Len(batch') = 0
      BY <1>1, <1>3, <1>4
    <3> QED BY <1>4, <3>1, EmptySeq
  <2>4. pc' # "failed" /\ pc' # "recycle"
    BY <1>1
  <2> QED BY <1>2, <2>2, <2>3, <2>4 DEF CountInv, Exact
<1> QED BY <1>6, <1>7, <1>8

LEMMA SwapInv == CoreInv /\ Swap => CoreInv'
<1> SUFFICES ASSUME CoreInv, Swap PROVE CoreInv'
  OBVIOUS
<1> USE DEF CoreInv, Swap, kernelVars, loopVars
<1>1. conf.mode = "l2fwd"
  BY OwnSteps
<1>2. content' \in [Frames -> {"blank", "in", "swapped"}]
  BY DEF TypeInv
<1>3. TypeInv'
  BY <1>1, <1>2 DEF TypeInv, StepsOf
<1>4. RoomInv' /\ CountInv'
  BY DEF RoomInv, CountInv, Exact, AllFrames
<1> QED BY <1>3, <1>4

\* xq_enq in l2fwd always finds room: the batch came off the rings.
LEMMA ForwardInv == CoreInv /\ Forward => CoreInv'
<1> SUFFICES ASSUME CoreInv, Forward PROVE CoreInv'
  OBVIOUS
<1> USE DEF CoreInv, kernelVars
<1>1. Len(tx) + Len(batch) <= NumDescs
  <2>1. Len(tx) <= outstanding
    BY Lengths DEF CountInv, Exact
  <2> QED BY <2>1, FramesFit, Lengths DEF Forward, CountInv
<1>2. /\ tx' = tx \o batch /\ batch' = <<>> /\ pc' = "complete"
      /\ outstanding' = outstanding + Len(batch)
      /\ UNCHANGED <<fq, cq, rx, kernelVars, kicked, content, sock, done, idx>>
      /\ conf.mode = "l2fwd" /\ pc = "enq"
  BY <1>1 DEF Forward, HasFree
<1>3. tx' \in Seq(Frames) /\ Len(tx') = Len(tx) + Len(batch)
  BY <1>2, ConcatProperties DEF TypeInv
<1>4. TypeInv'
  BY <1>2, <1>3, Lengths DEF TypeInv, StepsOf
<1>5. RoomInv'
  BY <1>1, <1>2, <1>3 DEF RoomInv
<1>6. CountInv'
  <2>1. Exact'
    BY <1>2, <1>3, Lengths DEF CountInv, Exact
  <2>2. AllFrames'
    <3>1. Len(batch') = Len(batch) - Len(batch)
      BY <1>2, Lengths
    <3> QED BY <1>2, <3>1, FramesMove, Lengths DEF CountInv, AllFrames
  <2> QED BY <1>2, <2>1, <2>2 DEF CountInv
<1> QED BY <1>4, <1>5, <1>6

-----------------------------------------------------------------------------
(* rx_drop_all *)

LEMMA RxDropDequeueInv == CoreInv /\ RxDropDequeue => CoreInv'
<1> SUFFICES ASSUME CoreInv, RxDropDequeue PROVE CoreInv'
  OBVIOUS
<1> USE DEF CoreInv, kernelVars
<1>1. PICK n \in NbAvail(rx[sock], BatchSize) :
        /\ batch' = First(rx[sock], n)
        /\ rx' = [rx EXCEPT ![sock] = Rest(@, n)]
        /\ IF n > 0 THEN pc' = "refill" /\ UNCHANGED sock ELSE NextSock
  BY DEF RxDropDequeue
<1>2. /\ UNCHANGED <<fq, cq, tx, kernelVars, kicked, content, done, outstanding, idx>>
      /\ conf.mode = "rxdrop" /\ pc = "deq"
  BY DEF RxDropDequeue
<1>3. sock \in Socks /\ rx[sock] \in Seq(Frames)
  BY Lengths DEF TypeInv
<1>4. n \in 0..Len(rx[sock]) /\ n \in Nat
  BY <1>1, <1>3, NbAvailBounds, Lengths, Params
<1>5. /\ batch' \in Seq(Frames) /\ Rest(rx[sock], n) \in Seq(Frames)
      /\ Len(Rest(rx[sock], n)) = Len(rx[sock]) - n
  <2> HIDE DEF CoreInv, kernelVars
  <2>1. /\ First(rx[sock], n) \in Seq(Frames) /\ Rest(rx[sock], n) \in Seq(Frames)
        /\ Len(Rest(rx[sock], n)) = Len(rx[sock]) - n
    <3>1. PICK q : q = rx[sock]
      OBVIOUS
    <3>2. q \in Seq(Frames) /\ n \in 0..Len(q)
      BY <1>3, <1>4, <3>1, Zenon
    <3>3. First(q, n) \in Seq(Frames) /\ Rest(q, n) \in Seq(Frames)
          /\ Len(Rest(q, n)) = Len(q) - n
      BY <3>2, FirstRest, Zenon
    <3> QED BY <3>1, <3>3, Zenon
  <2> QED BY <1>1, <2>1, Zenon
<1>6. pc' \in {"poll", "deq", "refill"} /\ sock' \in Socks
  BY <1>1, <1>3, ConfFacts, Params DEF NextSock, Socks
<1>7. TypeInv'
  <2>1. rx' \in [Socks -> Seq(Frames)]
    BY <1>1, <1>3, <1>5 DEF TypeInv
  <2> QED BY <1>2, <1>5, <1>6, <2>1 DEF TypeInv, StepsOf
<1>8. RoomInv'
  <2>1. ASSUME NEW r \in Socks
        PROVE  Len(rx'[r]) <= NumDescs
    <3>1. CASE r = sock
      <4>1. rx'[r] = Rest(rx[sock], n)
        BY <1>1, <1>3, <3>1 DEF TypeInv
      <4> QED BY SMTT(30), <1>3, <1>4, <1>5, <4>1, Lengths, Params DEF RoomInv
    <3>2. CASE r # sock
      BY <1>1, <3>2 DEF RoomInv, TypeInv
    <3> QED BY <3>1, <3>2
  <2> QED BY <1>2, <2>1 DEF RoomInv
<1>9. CountInv'
  BY <1>2, <1>6 DEF CountInv, Exact, AllFrames
<1> QED BY <1>7, <1>8, <1>9

LEMMA RxDropRefillInv == CoreInv /\ RxDropRefill => CoreInv'
<1> SUFFICES ASSUME CoreInv, RxDropRefill PROVE CoreInv'
  OBVIOUS
<1> USE DEF CoreInv, RxDropRefill, kernelVars
<1>1. conf.mode = "rxdrop" /\ batch' = <<>>
  BY OwnSteps
<1>2. fq' \in Seq(Frames) /\ Len(fq') <= NumDescs
  BY FilledProperties DEF TypeInv
<1>3. pc' \in {"poll", "deq"} /\ sock' \in Socks
  BY SMTT(30), ConfFacts, Params DEF NextSock, Socks, TypeInv
<1>4. TypeInv'
  BY <1>1, <1>2, <1>3 DEF TypeInv, StepsOf
<1>5. RoomInv'
  BY <1>2 DEF RoomInv
<1>6. CountInv'
  BY <1>1, <1>3 DEF CountInv, Exact, AllFrames
<1> QED BY <1>4, <1>5, <1>6

LEMMA RxPollInv == CoreInv /\ RxPoll => CoreInv'
BY Lengths
   DEF CoreInv, TypeInv, RoomInv, CountInv, Exact, AllFrames, StepsOf, RxPoll, kernelVars

-----------------------------------------------------------------------------
(* tx_only *)

\* After a whole number of batches there is another before NUM_FRAMES, or none.
LEMMA NextBatch ==
  ASSUME BatchInv
  PROVE  /\ idx + BatchSize <= NumFrames
         /\ (idx + BatchSize) % NumFrames
              = IF idx + BatchSize = NumFrames THEN 0 ELSE idx + BatchSize
         /\ (idx + BatchSize) % NumFrames \in Frames
         /\ ((idx + BatchSize) % NumFrames) % BatchSize = 0
<1> DEFINE i == idx \div BatchSize
           n == NumFrames \div BatchSize
<1>1. /\ i \in Nat /\ n \in Nat /\ idx \in Nat /\ idx < NumFrames
      /\ idx = BatchSize * i /\ NumFrames = BatchSize * n
  BY XdpSockAssumption DEF BatchInv, Frames
<1> HIDE DEF i, n
<1>2. i < n
  <2>1. i >= n => BatchSize * i >= BatchSize * n
    BY <1>1, Params
  <2> QED BY <1>1, <2>1, Params
<1>3. idx + BatchSize = BatchSize * (i + 1)
  BY <1>1, Params
<1>4. idx + BatchSize <= NumFrames
  <2>1. i + 1 <= n => BatchSize * (i + 1) <= BatchSize * n
    BY <1>1, Params
  <2> QED BY <1>1, <1>2, <1>3, <2>1
<1>5. (idx + BatchSize) % NumFrames
        = IF idx + BatchSize = NumFrames THEN 0 ELSE idx + BatchSize
  BY <1>1, <1>4, Params
<1>6. (BatchSize * (i + 1)) % BatchSize = 0 /\ 0 % BatchSize = 0
  BY <1>1, Params
<1> QED BY <1>1, <1>3, <1>4, <1>5, <1>6, Params DEF Frames

LEMMA TxOnlyEnqueueInv == CoreInv /\ BatchInv /\ TxOnlyEnqueue => CoreInv'
<1> SUFFICES ASSUME CoreInv, BatchInv, TxOnlyEnqueue PROVE CoreInv'
  OBVIOUS
<1> USE DEF CoreInv, kernelVars
<1> DEFINE frames == [i \in 1..BatchSize |-> idx + i - 1]
<1>1. /\ UNCHANGED <<fq, cq, rx, kernelVars, kicked, content, sock, batch, done>>
      /\ conf.mode = "txonly" /\ pc = "enq" /\ pc' = "complete"
  BY DEF TxOnlyEnqueue
<1>2. frames \in Seq(Frames) /\ Len(frames) = BatchSize
  <2>1. ASSUME NEW i \in 1..BatchSize
        PROVE  idx + i - 1 \in Frames
    BY NextBatch, Params DEF BatchInv, Frames
  <2> QED BY <2>1, Params
<1>3. CASE HasFree(tx, BatchSize)
  <2>1. tx' = tx \o frames /\ outstanding' = outstanding + BatchSize
    BY <1>3 DEF TxOnlyEnqueue
  <2> HIDE DEF frames
  <2>2. tx' \in Seq(Frames) /\ Len(tx') = Len(tx) + BatchSize
    BY <1>2, <2>1, ConcatProperties DEF TypeInv
  <2>3. TypeInv'
    <3>1. outstanding' \in Nat
      BY <2>1, Lengths, Params
    <3>2. pc' \in StepsOf(conf.mode)
      BY <1>1 DEF StepsOf
    <3> QED BY <1>1, <2>2, <3>1, <3>2 DEF TypeInv
  <2>4. RoomInv'
    BY <1>1, <1>3, <2>2 DEF RoomInv, HasFree
  <2>5. Exact'
    BY <1>1, <2>1, <2>2, Lengths, Params DEF CountInv, Exact
  <2> QED BY <1>1, <2>3, <2>4, <2>5 DEF CountInv, AllFrames
<1>4. CASE ~HasFree(tx, BatchSize)
  <2>1. UNCHANGED <<tx, outstanding>>
    BY <1>4 DEF TxOnlyEnqueue
  <2> QED BY <1>1, <2>1 DEF TypeInv, StepsOf, RoomInv, CountInv, Exact, AllFrames
<1> QED BY <1>3, <1>4

\* Only tx_only's enqueue moves idx.
LEMMA BatchesWhole == BatchInv /\ [Next]_vars => BatchInv'
<1> SUFFICES ASSUME BatchInv, [Next]_vars PROVE BatchInv'
  OBVIOUS
<1>1. CASE TxOnlyEnqueue
  BY <1>1, NextBatch DEF TxOnlyEnqueue, BatchInv
<1>2. CASE ~TxOnlyEnqueue
  <2>1. UNCHANGED idx
    BY <1>2 DEF Next, Kernel, Program, vars, kernelVars, loopVars,
      KernelTakeBuffer, KernelReceive, KernelTakeDesc, KernelStop, KernelComplete,
      CompleteTx, Drain, Recycle, Dequeue, Swap, Forward, RxPoll, RxDropDequeue,
      RxDropRefill
  <2> QED BY <2>1 DEF BatchInv
<1> QED BY <1>1, <1>2

-----------------------------------------------------------------------------
(* The theorems *)

LEMMA InitCore == Init => CoreInv /\ BatchInv
<1> SUFFICES ASSUME Init PROVE CoreInv /\ BatchInv
  OBVIOUS
<1> USE DEF Init
<1>1. fq \in Seq(Frames) /\ Len(fq) = NumDescs
  <2>1. \A i \in 1..NumDescs : i - 1 \in Frames
    BY Params DEF Frames
  <2> QED BY <2>1, Params
<1>2. \A S : <<>> \in Seq(S) /\ Len(<<>>) = 0
  OBVIOUS
<1>3. 1 \in Socks /\ 0 \in Frames
  BY Params DEF Socks, Frames
<1>4. FirstStep \in StepsOf(conf.mode) /\ FirstStep \in {"poll", "enq", "complete"}
  <2>1. conf.mode \in {"rxdrop", "txonly", "l2fwd"}
    BY DEF Confs
  <2> QED BY <2>1 DEF FirstStep, StepsOf
<1>5. TypeInv
  BY <1>1, <1>2, <1>3, <1>4 DEF TypeInv
<1>6. RoomInv
  BY <1>1, <1>2, Params DEF RoomInv
<1>7. CountInv
  <2>1. /\ Len(cq) = 0 /\ Len(tx) = 0 /\ Len(dma) = 0 /\ Len(sending) = 0
        /\ Len(batch) = 0 /\ Len(done) = 0 /\ Len(rx[1]) = 0
    BY <1>2, <1>3
  <2>2. Exact
    BY <2>1 DEF Exact
  <2>3. AllFrames
    BY <1>1, <2>1, Params DEF AllFrames, Total
  <2>4. pc # "failed"
    BY <1>4
  <2> QED BY <2>1, <2>2, <2>3, <2>4, Params DEF CountInv
<1>8. BatchInv
  BY <1>3, Params DEF BatchInv
<1> QED BY <1>5, <1>6, <1>7, <1>8 DEF CoreInv

LEMMA StepCore == CoreInv /\ BatchInv /\ [Next]_vars => CoreInv'
<1>1. CoreInv /\ UNCHANGED vars => CoreInv'
  BY DEF CoreInv, TypeInv, RoomInv, CountInv, Exact, AllFrames, vars
<1> QED BY <1>1, KernelInv, CompleteTxInv, DrainInv, RecycleInv, DequeueInv, SwapInv,
           ForwardInv, RxPollInv, RxDropDequeueInv, RxDropRefillInv, TxOnlyEnqueueInv
        DEF Next, Program

LEMMA AlwaysCore == Spec => [](CoreInv /\ BatchInv)
BY InitCore, StepCore, BatchesWhole, PTL DEF Spec

\* The rings and the variables of the three loops keep their types and sizes
\* through every call of xq_enq, xq_deq, umem_fill_to_kernel and
\* umem_complete_from_kernel and every step of the kernel.
THEOREM TypeCorrect == Spec => []TypeOK
<1>1. CoreInv /\ BatchInv => TypeOK
  <2> SUFFICES ASSUME CoreInv, BatchInv PROVE TypeOK
    OBVIOUS
  <2> USE DEF CoreInv
  <2>1. ASSUME NEW q \in {fq, cq, tx} \cup {rx[s] : s \in Socks}
        PROVE  q \in Seq(Frames) /\ Len(q) <= NumDescs
    <3>1. Len(cq) <= NumDescs
      BY Lengths, Params DEF RoomInv
    <3> QED BY <3>1 DEF TypeInv, RoomInv
  <2>2. pc \in {"poll", "deq", "refill", "swap", "enq", "complete", "drain", "recycle",
                "exit", "failed"}
    BY ConfFacts DEF TypeInv, StepsOf
  <2> QED BY <2>1, <2>2 DEF TypeOK, TypeInv, BatchInv
<1> QED BY <1>1, AlwaysCore, PTL

\* lassert(ret == 0) after xq_enq in l2fwd never fails.
THEOREM ForwardFits == Spec => []EnqueueNeverFails
<1>1. CoreInv /\ BatchInv => EnqueueNeverFails
  BY DEF CoreInv, CountInv, EnqueueNeverFails
<1> QED BY <1>1, AlwaysCore, PTL

\* Four sequences of frames one after the other.
LEMMA ConcatFour ==
  ASSUME NEW S, NEW p \in Seq(S), NEW q \in Seq(S), NEW r \in Seq(S), NEW t \in Seq(S)
  PROVE  /\ p \o q \o r \o t \in Seq(S)
         /\ Len(p \o q \o r \o t) = Len(p) + Len(q) + Len(r) + Len(t)
<1>1. p \o q \in Seq(S) /\ Len(p \o q) = Len(p) + Len(q)
  BY ConcatProperties
<1>2. (p \o q) \o r \in Seq(S) /\ Len((p \o q) \o r) = Len(p \o q) + Len(r)
  BY <1>1, ConcatProperties
<1> QED BY <1>1, <1>2, ConcatProperties

\* outstanding_tx is the number of frames sent and not yet taken back, in all
\* three loops, so complete_tx_* never returns early with completions left.
THEOREM CountsOutstanding == Spec => []OutstandingExact
<1>1. CoreInv /\ BatchInv => OutstandingExact
  <2> SUFFICES ASSUME CoreInv PROVE OutstandingExact
    OBVIOUS
  <2>1. Len(InFlight) = Len(tx) + Len(sending) + Len(cq) + Len(done)
    BY ConcatFour DEF CoreInv, TypeInv, InFlight
  <2> QED BY <2>1 DEF CoreInv, CountInv, Exact, OutstandingExact
<1> QED BY <1>1, AlwaysCore, PTL

-----------------------------------------------------------------------------
(* tx_only reuses its frames in time *)

\* The k-th oldest frame on its way, when the next one is n and o are: the frames
\* are numbered around the circle of NUM_FRAMES.
At(n, o, k) == LET x == n + NumFrames - o + k
               IN IF x < NumFrames THEN x ELSE x - NumFrames

\* The frames in a ring are those from the k-th oldest on.
InOrder(q, n, o, k) == \A j \in 1..Len(q) : q[j] = At(n, o, k + j - 1)

\* From the completions back to the TX ring, the frames are in the order in which
\* tx_only sent them.
OrderInv ==
  conf.mode = "txonly" =>
    /\ InOrder(done, idx, outstanding, 0)
    /\ InOrder(cq, idx, outstanding, Len(done))
    /\ InOrder(sending, idx, outstanding, Len(done) + Len(cq))
    /\ InOrder(tx, idx, outstanding, Len(done) + Len(cq) + Len(sending))

\* Fewer frames are on their way than there are.
LEMMA OutstandingBound ==
  ASSUME CoreInv
  PROVE  outstanding <= NumFrames
<1> DEFINE a == Len(tx)
           b == Len(sending)
           c == Len(cq)
           d == Len(done)
           e == outstanding
<1>1. /\ a \in Nat /\ b \in Nat /\ c \in Nat /\ d \in Nat /\ e \in Nat
      /\ e = a + b + c + d /\ a <= NumDescs /\ c + b <= NumDescs /\ d <= BatchSize
  BY Lengths DEF CoreInv, RoomInv, CountInv, Exact
<1> HIDE DEF a, b, c, d, e
<1>2. e <= NumFrames
  BY <1>1, Params
<1> QED BY <1>2 DEF e

\* Two frames on their way are different: the circle is not gone round.
LEMMA AtDistinct ==
  ASSUME NEW n \in Frames, NEW o \in Nat, o <= NumFrames,
         NEW j \in Nat, NEW k \in Nat, j < k, k < o
  PROVE  At(n, o, j) # At(n, o, k)
BY Params DEF At, Frames

\* complete_tx_only takes the oldest d frames off.
LEMMA AtAfterRecycle ==
  ASSUME NEW n \in Frames, NEW o \in Nat, NEW d \in Nat, NEW k \in Nat, d <= o
  PROVE  At(n, o - d, k) = At(n, o, d + k)
BY Params DEF At, Frames

\* A new batch leaves the frames on their way where they were, and is next.
LEMMA AtAfterEnqueue ==
  ASSUME BatchInv, NEW o \in Nat, o + BatchSize <= NumFrames, NEW k \in Nat,
         k < o + BatchSize
  PROVE  LET n == (idx + BatchSize) % NumFrames
         IN At(n, o + BatchSize, k) = IF k < o THEN At(idx, o, k) ELSE idx + k - o
<1> DEFINE n == (idx + BatchSize) % NumFrames
<1>1. n = IF idx + BatchSize = NumFrames THEN 0 ELSE idx + BatchSize
  BY NextBatch
<1>2. idx \in Nat /\ idx + BatchSize <= NumFrames
  BY NextBatch, Params DEF BatchInv, Frames
<1> HIDE DEF n
<1>3. At(n, o + BatchSize, k) = IF k < o THEN At(idx, o, k) ELSE idx + k - o
  BY <1>1, <1>2, Params DEF At
<1> QED BY <1>3 DEF n

\* The first of an ordered ring, and the rest.
LEMMA OrderTail ==
  ASSUME NEW q \in Seq(Frames), q # <<>>, NEW n, NEW o, NEW k \in Nat, InOrder(q, n, o, k)
  PROVE  Head(q) = At(n, o, k) /\ InOrder(Tail(q), n, o, k + 1)
<1>1. /\ Head(q) = q[1] /\ Len(q) \in Nat /\ Len(q) > 0
      /\ Len(Tail(q)) = Len(q) - 1
      /\ \A j \in 1..Len(Tail(q)) : Tail(q)[j] = q[j + 1]
  BY HeadTailProperties, EmptySeq, LenProperties
<1>2. q[1] = At(n, o, k)
  <2>1. 1 \in 1..Len(q) /\ k + 1 - 1 = k
    BY <1>1
  <2> QED BY <2>1 DEF InOrder
<1>3. ASSUME NEW j \in 1..Len(Tail(q))
      PROVE  Tail(q)[j] = At(n, o, k + 1 + j - 1)
  <2>1. j + 1 \in 1..Len(q) /\ k + (j + 1) - 1 = k + 1 + j - 1
    BY <1>1
  <2> QED BY <1>1, <2>1 DEF InOrder
<1> QED BY <1>1, <1>2, <1>3 DEF InOrder

\* The next frame in order is appended.
LEMMA OrderAppend ==
  ASSUME NEW q \in Seq(Frames), NEW f \in Frames, NEW n, NEW o, NEW k \in Nat,
         InOrder(q, n, o, k), f = At(n, o, k + Len(q))
  PROVE  InOrder(Append(q, f), n, o, k)
<1>1. /\ Len(q) \in Nat /\ Len(Append(q, f)) = Len(q) + 1
      /\ \A j \in 1..Len(q) : Append(q, f)[j] = q[j]
      /\ Append(q, f)[Len(q) + 1] = f
  BY AppendProperties, LenProperties
<1> SUFFICES ASSUME NEW j \in 1..Len(q) + 1
             PROVE  Append(q, f)[j] = At(n, o, k + j - 1)
  BY <1>1 DEF InOrder
<1>2. CASE j \in 1..Len(q)
  BY <1>1, <1>2 DEF InOrder
<1>3. CASE j = Len(q) + 1
  <2>1. k + j - 1 = k + Len(q)
    BY <1>1, <1>3
  <2> QED BY <1>1, <1>3, <2>1
<1> QED BY <1>1, <1>2, <1>3

\* The first m of an ordered ring, and the rest.
LEMMA OrderSplit ==
  ASSUME NEW q \in Seq(Frames), NEW m \in 0..Len(q), NEW n, NEW o, NEW k \in Nat,
         InOrder(q, n, o, k)
  PROVE  InOrder(First(q, m), n, o, k) /\ InOrder(Rest(q, m), n, o, k + m)
<1>1. /\ Len(q) \in Nat /\ m \in Nat
      /\ Len(First(q, m)) = m /\ Len(Rest(q, m)) = Len(q) - m
      /\ \A i \in 1..m : First(q, m)[i] = q[i]
      /\ \A i \in 1..Len(q) - m : Rest(q, m)[i] = q[m + i]
  BY FirstRest, LenProperties
<1>2. ASSUME NEW j \in 1..m
      PROVE  First(q, m)[j] = At(n, o, k + j - 1)
  <2>1. j \in 1..Len(q)
    BY <1>1
  <2> QED BY <1>1, <2>1 DEF InOrder
<1>3. ASSUME NEW j \in 1..Len(q) - m
      PROVE  Rest(q, m)[j] = At(n, o, k + m + j - 1)
  <2>1. m + j \in 1..Len(q) /\ k + (m + j) - 1 = k + m + j - 1
    BY <1>1
  <2> QED BY <1>1, <2>1 DEF InOrder
<1> QED BY <1>1, <1>2, <1>3 DEF InOrder

\* Where the frames on their way are, in numbers.
LEMMA OrderNumbers ==
  ASSUME CoreInv
  PROVE  /\ Len(done) \in Nat /\ Len(done) + Len(cq) \in Nat
         /\ Len(done) + Len(cq) + Len(sending) \in Nat
         /\ outstanding = Len(done) + Len(cq) + Len(sending) + Len(tx)
BY Lengths DEF CoreInv, CountInv, Exact

LEMMA OrderTakeDesc == CoreInv /\ OrderInv /\ KernelTakeDesc => OrderInv'
<1> SUFFICES ASSUME CoreInv, OrderInv, KernelTakeDesc, conf.mode = "txonly"
             PROVE  OrderInv'
  BY DEF OrderInv, KernelTakeDesc, loopVars
<1> DEFINE k == Len(done) + Len(cq)
           m == Len(sending)
<1>1. k \in Nat /\ m \in Nat /\ k + m \in Nat
  BY OrderNumbers, Lengths DEF CoreInv
<1>2. /\ tx \in Seq(Frames) /\ sending \in Seq(Frames)
      /\ InOrder(sending, idx, outstanding, k) /\ InOrder(tx, idx, outstanding, k + m)
  BY DEF CoreInv, TypeInv, OrderInv
<1>3. Head(tx) \in Frames /\ Len(Append(sending, Head(tx))) = m + 1
  BY <1>2, HeadTailProperties, AppendProperties DEF KernelTakeDesc
<1>4. Head(tx) = At(idx, outstanding, k + m) /\ InOrder(Tail(tx), idx, outstanding, k + m + 1)
  BY <1>1, <1>2, OrderTail DEF KernelTakeDesc
<1>5. InOrder(Append(sending, Head(tx)), idx, outstanding, k)
  BY <1>1, <1>2, <1>3, <1>4, OrderAppend
<1>6. k + (m + 1) = k + m + 1
  BY <1>1
<1> QED BY <1>3, <1>4, <1>5, <1>6 DEF OrderInv, KernelTakeDesc, loopVars

LEMMA OrderComplete ==
  ASSUME CoreInv, OrderInv, NEW f \in Frames, KernelComplete(f)
  PROVE  OrderInv'
<1>1. PICK i \in 1..Len(sending) :
        /\ sending[i] = f
        /\ conf.mode = "txonly" => i = 1
        /\ cq' = Append(cq, f)
        /\ sending' = RemoveAt(sending, i)
        /\ UNCHANGED <<fq, rx, tx, dma, kicked, content, pc, loopVars>>
  BY DEF KernelComplete
<1> SUFFICES ASSUME conf.mode = "txonly"
             PROVE  OrderInv'
  BY <1>1 DEF OrderInv, loopVars
<1> DEFINE k == Len(done)
           l == Len(cq)
           m == Len(sending)
<1>2. k \in Nat /\ l \in Nat /\ m \in Nat /\ k + l \in Nat
  BY Lengths DEF CoreInv
<1>3. /\ cq \in Seq(Frames) /\ sending \in Seq(Frames)
      /\ InOrder(cq, idx, outstanding, k) /\ InOrder(sending, idx, outstanding, k + l)
      /\ InOrder(tx, idx, outstanding, k + l + m)
      /\ InOrder(done, idx, outstanding, 0)
  BY DEF CoreInv, TypeInv, OrderInv
<1>4. sending # <<>>
  BY <1>1
<1>5. sending' = Tail(sending) /\ f = Head(sending)
  BY <1>1, <1>3, <1>4, RemoveFirstIsTail
<1>6. Len(sending') = m - 1 /\ Len(cq') = l + 1
  BY <1>1, <1>3, <1>4, <1>5, HeadTailProperties, AppendProperties
<1>7. f = At(idx, outstanding, k + l) /\ InOrder(sending', idx, outstanding, k + l + 1)
  BY <1>2, <1>3, <1>4, <1>5, OrderTail
<1>8. InOrder(cq', idx, outstanding, k)
  BY <1>1, <1>2, <1>3, <1>7, OrderAppend
<1>9. k + (l + 1) = k + l + 1 /\ k + (l + 1) + (m - 1) = k + l + m
  BY <1>2
<1> QED BY <1>1, <1>3, <1>6, <1>7, <1>8, <1>9 DEF OrderInv, loopVars

LEMMA OrderDrain == CoreInv /\ OrderInv /\ Drain => OrderInv'
<1> SUFFICES ASSUME CoreInv, OrderInv, Drain, conf.mode = "txonly"
             PROVE  OrderInv'
  BY DEF OrderInv, Drain, kernelVars
<1>1. PICK n \in NbAvail(cq, CompletionsWanted) :
        /\ done' = First(cq, n)
        /\ cq' = Rest(cq, n)
  BY DEF Drain
<1>2. /\ UNCHANGED <<tx, sending, outstanding, idx, conf>>
      /\ done = <<>>
  BY DEF Drain, CoreInv, CountInv, kernelVars
<1>3. CompletionsWanted \in Nat
  BY Lengths, Params DEF CompletionsWanted, CoreInv
<1>4. n \in 0..Len(cq) /\ n \in Nat /\ Len(cq) \in Nat /\ Len(sending) \in Nat
  BY <1>1, <1>3, NbAvailBounds, Lengths DEF CoreInv, TypeInv
<1>5. Len(done') = n /\ Len(cq') = Len(cq) - n
  <2>1. cq \in Seq(Frames)
    BY DEF CoreInv, TypeInv
  <2>2. Len(First(cq, n)) = n /\ Len(Rest(cq, n)) = Len(cq) - n
    BY <1>4, <2>1, FirstRest, Zenon
  <2> QED BY <1>1, <2>2, Zenon
<1>6. /\ cq \in Seq(Frames) /\ Len(done) = 0
      /\ InOrder(cq, idx, outstanding, 0)
  BY <1>2 DEF CoreInv, TypeInv, OrderInv
<1>7. InOrder(done', idx, outstanding, 0) /\ InOrder(cq', idx, outstanding, n)
  <2>1. 0 + n = n
    BY <1>4
  <2> QED BY <1>1, <1>4, <1>6, <2>1, OrderSplit
<1>8. /\ n + (Len(cq) - n) = Len(done) + Len(cq)
      /\ n + (Len(cq) - n) + Len(sending) = Len(done) + Len(cq) + Len(sending)
  BY <1>4, <1>6
<1> QED BY <1>2, <1>5, <1>7, <1>8 DEF OrderInv

\* With the oldest d taken off, the others are that much closer to being the oldest.
LEMMA OrderShift ==
  ASSUME NEW q \in Seq(Frames), NEW n \in Frames, NEW o \in Nat, NEW d \in Nat, d <= o,
         NEW k \in Nat, InOrder(q, n, o, d + k)
  PROVE  InOrder(q, n, o - d, k)
<1> SUFFICES ASSUME NEW j \in 1..Len(q)
             PROVE  q[j] = At(n, o - d, k + j - 1)
  BY DEF InOrder
<1> DEFINE i == k + j - 1
<1>1. i \in Nat /\ d + k + j - 1 = d + i
  BY LenProperties
<1>2. q[j] = At(n, o, d + i)
  BY <1>1 DEF InOrder
<1>3. At(n, o - d, i) = At(n, o, d + i)
  <2> HIDE DEF i
  <2> QED BY <1>1, AtAfterRecycle
<1> QED BY <1>2, <1>3

LEMMA OrderRecycle == CoreInv /\ BatchInv /\ OrderInv /\ Recycle => OrderInv'
<1> SUFFICES ASSUME CoreInv, BatchInv, OrderInv, Recycle, conf.mode = "txonly"
             PROVE  OrderInv'
  BY DEF OrderInv, Recycle, kernelVars
<1> DEFINE d == Len(done)
           l == Len(cq)
           m == Len(sending)
<1>1. /\ UNCHANGED <<cq, tx, sending, idx, conf>>
      /\ outstanding' = outstanding - d /\ done' = <<>> /\ Len(done') = 0
  BY DEF Recycle, kernelVars
<1>2. /\ d \in Nat /\ l \in Nat /\ m \in Nat /\ outstanding \in Nat
      /\ d <= outstanding
      /\ cq \in Seq(Frames) /\ tx \in Seq(Frames) /\ sending \in Seq(Frames)
  BY OrderNumbers, Lengths DEF CoreInv, TypeInv
<1>3. /\ InOrder(cq, idx, outstanding, d) /\ InOrder(sending, idx, outstanding, d + l)
      /\ InOrder(tx, idx, outstanding, d + l + m)
  BY DEF OrderInv
<1>4. d = d + 0 /\ d + l + m = d + (l + m) /\ l + m \in Nat /\ 0 + l = l
  BY <1>2
<1>5. InOrder(cq, idx, outstanding - d, 0)
  <2>1. InOrder(cq, idx, outstanding, d + 0) /\ 0 \in Nat
    BY <1>3, <1>4
  <2> HIDE DEF d
  <2> QED BY <1>2, <2>1, OrderShift DEF BatchInv
<1>6. InOrder(sending, idx, outstanding - d, l)
  BY <1>2, <1>3, OrderShift DEF BatchInv
<1>7. InOrder(tx, idx, outstanding - d, l + m)
  BY <1>2, <1>3, <1>4, OrderShift DEF BatchInv
<1>8. InOrder(<<>>, idx, outstanding - d, 0)
  BY DEF InOrder
<1> HIDE DEF d
<1> QED BY <1>1, <1>4, <1>5, <1>6, <1>7, <1>8 DEF OrderInv

\* A new batch does not move the frames on their way.
LEMMA OrderKept ==
  ASSUME BatchInv, NEW o \in Nat, o + BatchSize <= NumFrames,
         NEW q \in Seq(Frames), NEW k \in Nat, k + Len(q) <= o, InOrder(q, idx, o, k)
  PROVE  InOrder(q, (idx + BatchSize) % NumFrames, o + BatchSize, k)
<1> DEFINE n == (idx + BatchSize) % NumFrames
<1> SUFFICES ASSUME NEW j \in 1..Len(q)
             PROVE  q[j] = At(n, o + BatchSize, k + j - 1)
  BY DEF InOrder
<1> DEFINE i == k + j - 1
<1>1. i \in Nat /\ i < o /\ i < o + BatchSize
  BY LenProperties, Params
<1>2. q[j] = At(idx, o, i)
  BY DEF InOrder
<1> HIDE DEF i
<1>3. At(n, o + BatchSize, i) = At(idx, o, i)
  BY <1>1, AtAfterEnqueue
<1> QED BY <1>2, <1>3 DEF i

LEMMA OrderEnqueue == CoreInv /\ BatchInv /\ OrderInv /\ TxOnlyEnqueue => OrderInv'
<1> SUFFICES ASSUME CoreInv, BatchInv, OrderInv, TxOnlyEnqueue
             PROVE  OrderInv'
  OBVIOUS
<1>1. UNCHANGED <<cq, sending, done, conf>> /\ conf.mode = "txonly"
  BY DEF TxOnlyEnqueue, kernelVars
<1>2. CASE ~HasFree(tx, BatchSize)
  BY <1>1, <1>2 DEF TxOnlyEnqueue, OrderInv
<1>3. CASE HasFree(tx, BatchSize)
  <2> DEFINE frames == [i \in 1..BatchSize |-> idx + i - 1]
             n == (idx + BatchSize) % NumFrames
             o == outstanding
             k == Len(done) + Len(cq) + Len(sending)
  <2>1. /\ tx' = tx \o frames /\ outstanding' = o + BatchSize /\ idx' = n
    BY <1>3 DEF TxOnlyEnqueue
  <2>2. /\ frames \in Seq(Frames) /\ Len(frames) = BatchSize
        /\ \A i \in 1..BatchSize : frames[i] = idx + i - 1
    <3>1. ASSUME NEW i \in 1..BatchSize
          PROVE  idx + i - 1 \in Frames
      BY NextBatch, Params DEF BatchInv, Frames
    <3> QED BY <3>1, Params
  <2> HIDE DEF frames
  <2>3. o \in Nat /\ o + BatchSize <= NumFrames
    <3> DEFINE a == Len(tx)
               b == Len(sending)
               c == Len(cq)
               d == Len(done)
    <3>1. /\ a \in Nat /\ b \in Nat /\ c \in Nat /\ d \in Nat /\ o \in Nat
          /\ o = a + b + c + d /\ a + BatchSize <= NumDescs /\ c + b <= NumDescs
          /\ d <= BatchSize
      BY <1>3, Lengths DEF CoreInv, RoomInv, CountInv, Exact, HasFree
    <3> HIDE DEF a, b, c, d, o
    <3> QED BY <3>1, Params
  <2>4. /\ done \in Seq(Frames) /\ cq \in Seq(Frames) /\ sending \in Seq(Frames)
        /\ tx \in Seq(Frames)
        /\ InOrder(done, idx, o, 0) /\ InOrder(cq, idx, o, Len(done))
        /\ InOrder(sending, idx, o, Len(done) + Len(cq)) /\ InOrder(tx, idx, o, k)
    BY <1>1 DEF CoreInv, TypeInv, OrderInv
  <2>5. /\ Len(done) \in Nat /\ Len(cq) \in Nat /\ Len(sending) \in Nat /\ Len(tx) \in Nat
        /\ Len(done) + Len(cq) \in Nat /\ k \in Nat /\ 0 + Len(done) <= o
        /\ Len(done) + Len(cq) <= o /\ k <= o /\ k + Len(tx) = o /\ k + Len(tx) <= o
    BY OrderNumbers, Lengths DEF CoreInv
  <2>6. /\ InOrder(done, n, o + BatchSize, 0)
        /\ InOrder(cq, n, o + BatchSize, Len(done))
        /\ InOrder(sending, n, o + BatchSize, Len(done) + Len(cq))
        /\ InOrder(tx, n, o + BatchSize, k)
    BY <2>3, <2>4, <2>5, OrderKept
  <2>7. InOrder(tx \o frames, n, o + BatchSize, k)
    <3>1. /\ Len(tx \o frames) = Len(tx) + BatchSize
          /\ \A j \in 1..Len(tx) + BatchSize :
               (tx \o frames)[j] = IF j <= Len(tx) THEN tx[j] ELSE frames[j - Len(tx)]
      BY <2>2, <2>4, ConcatProperties
    <3> SUFFICES ASSUME NEW j \in 1..Len(tx) + BatchSize
                 PROVE  (tx \o frames)[j] = At(n, o + BatchSize, k + j - 1)
      BY <3>1 DEF InOrder
    <3>2. CASE j <= Len(tx)
      <4>1. j \in 1..Len(tx)
        BY <2>5, <3>2, Params
      <4> QED BY <2>6, <3>1, <3>2, <4>1 DEF InOrder
    <3>3. CASE ~(j <= Len(tx))
      <4> DEFINE i == k + j - 1
      <4>1. j - Len(tx) \in 1..BatchSize
        BY <2>5, <3>3, Params
      <4>2. /\ i \in Nat /\ ~(i < o) /\ i < o + BatchSize
            /\ idx + i - o = idx + (j - Len(tx)) - 1
        BY <2>3, <2>5, <3>3, Params DEF BatchInv, Frames
      <4> HIDE DEF i
      <4>3. At(n, o + BatchSize, i) = idx + i - o
        BY <2>3, <4>2, AtAfterEnqueue
      <4>4. (tx \o frames)[j] = idx + (j - Len(tx)) - 1
        BY <2>2, <3>1, <3>3, <4>1
      <4> QED BY <4>2, <4>3, <4>4 DEF i
    <3> QED BY <3>2, <3>3
  <2> HIDE DEF n, o
  <2> QED BY <1>1, <2>1, <2>6, <2>7 DEF OrderInv
<1> QED BY <1>2, <1>3

LEMMA OrderStep == CoreInv /\ BatchInv /\ OrderInv /\ [Next]_vars => OrderInv'
<1> SUFFICES ASSUME CoreInv, BatchInv, OrderInv, [Next]_vars PROVE OrderInv'
  OBVIOUS
<1>1. ASSUME NEW s \in 1..conf.socks, NEW i \in 1..Len(dma), KernelReceive(s, i)
      PROVE  OrderInv'
  BY <1>1 DEF KernelReceive, loopVars, OrderInv
<1>2. CASE KernelTakeBuffer \/ KernelStop \/ CompleteTx \/ UNCHANGED vars
  BY <1>2 DEF KernelTakeBuffer, KernelStop, CompleteTx, vars, kernelVars, loopVars, OrderInv
<1>3. CASE Dequeue \/ Forward \/ RxPoll \/ RxDropDequeue
  BY <1>3 DEF Dequeue, Forward, RxPoll, RxDropDequeue, kernelVars, OrderInv
<1>4. CASE Swap \/ RxDropRefill
  BY <1>4 DEF Swap, RxDropRefill, kernelVars, loopVars, OrderInv
<1> QED BY <1>1, <1>2, <1>3, <1>4, OrderTakeDesc, OrderComplete, OrderDrain, OrderRecycle,
           OrderEnqueue
        DEF Next, Kernel, Program

LEMMA InitOrder == Init => OrderInv
<1> SUFFICES ASSUME Init PROVE OrderInv
  OBVIOUS
<1>1. \A n, o, k : InOrder(<<>>, n, o, k)
  BY DEF InOrder
<1> QED BY <1>1 DEF Init, OrderInv

\* The frame at each place of InFlight, and how old it is.
Age(p) ==
  LET a == Len(tx)
      b == Len(sending)
      c == Len(cq)
      d == Len(done)
  IN IF p <= a THEN d + c + b + p - 1
     ELSE IF p <= a + b THEN d + c + (p - a) - 1
     ELSE IF p <= a + b + c THEN d + (p - a - b) - 1
     ELSE (p - a - b - c) - 1

LEMMA AgeOfPlace ==
  ASSUME CoreInv, NEW p \in 1..outstanding
  PROVE  Age(p) \in 0..outstanding - 1
<1> DEFINE a == Len(tx)
           b == Len(sending)
           c == Len(cq)
           d == Len(done)
<1>1. /\ a \in Nat /\ b \in Nat /\ c \in Nat /\ d \in Nat
      /\ outstanding = a + b + c + d
  BY Lengths DEF CoreInv, CountInv, Exact
<1>2. Age(p) = IF p <= a THEN d + c + b + p - 1
               ELSE IF p <= a + b THEN d + c + (p - a) - 1
               ELSE IF p <= a + b + c THEN d + (p - a - b) - 1
               ELSE (p - a - b - c) - 1
  BY DEF Age
<1> HIDE DEF a, b, c, d
<1> QED BY <1>1, <1>2

\* Different places, different ages.
LEMMA AgesDistinct ==
  ASSUME CoreInv, NEW p \in 1..outstanding, NEW q \in 1..outstanding, p # q
  PROVE  Age(p) # Age(q)
<1> DEFINE a == Len(tx)
           b == Len(sending)
           c == Len(cq)
           d == Len(done)
<1>1. /\ a \in Nat /\ b \in Nat /\ c \in Nat /\ d \in Nat
      /\ outstanding = a + b + c + d
  BY Lengths DEF CoreInv, CountInv, Exact
<1>2. \A r \in 1..outstanding :
        Age(r) = IF r <= a THEN d + c + b + r - 1
                 ELSE IF r <= a + b THEN d + c + (r - a) - 1
                 ELSE IF r <= a + b + c THEN d + (r - a - b) - 1
                 ELSE (r - a - b - c) - 1
  BY DEF Age
<1> HIDE DEF a, b, c, d
<1> QED BY <1>1, <1>2

\* The frame at each place is the one sent that long ago.
LEMMA FrameOfPlace ==
  ASSUME CoreInv, OrderInv, conf.mode = "txonly", NEW p \in 1..outstanding
  PROVE  InFlight[p] = At(idx, outstanding, Age(p))
<1> DEFINE a == Len(tx)
           b == Len(sending)
           c == Len(cq)
           d == Len(done)
<1>1. /\ a \in Nat /\ b \in Nat /\ c \in Nat /\ d \in Nat
      /\ outstanding = a + b + c + d
  BY Lengths DEF CoreInv, CountInv, Exact
<1>2. /\ tx \in Seq(Frames) /\ sending \in Seq(Frames) /\ cq \in Seq(Frames)
      /\ done \in Seq(Frames)
  BY DEF CoreInv, TypeInv
<1>3. /\ tx \o sending \in Seq(Frames) /\ Len(tx \o sending) = a + b
      /\ \A i \in 1..a + b : (tx \o sending)[i] = IF i <= a THEN tx[i] ELSE sending[i - a]
  BY <1>2, ConcatProperties
<1>4. /\ tx \o sending \o cq \in Seq(Frames) /\ Len(tx \o sending \o cq) = a + b + c
      /\ \A i \in 1..a + b + c :
           (tx \o sending \o cq)[i] = IF i <= a + b THEN (tx \o sending)[i] ELSE cq[i - (a + b)]
  BY <1>2, <1>3, ConcatProperties
<1>5. \A i \in 1..a + b + c + d :
        InFlight[i] = IF i <= a + b + c THEN (tx \o sending \o cq)[i]
                      ELSE done[i - (a + b + c)]
  BY <1>2, <1>4, ConcatProperties DEF InFlight
<1>6. /\ \A j \in 1..a : tx[j] = At(idx, outstanding, d + c + b + j - 1)
      /\ \A j \in 1..b : sending[j] = At(idx, outstanding, d + c + j - 1)
      /\ \A j \in 1..c : cq[j] = At(idx, outstanding, d + j - 1)
      /\ \A j \in 1..d : done[j] = At(idx, outstanding, j - 1)
  <2>1. \A j \in 1..d : 0 + j - 1 = j - 1
    BY <1>1
  <2> QED BY <2>1 DEF OrderInv, InOrder
<1>7. Age(p) = IF p <= a THEN d + c + b + p - 1
               ELSE IF p <= a + b THEN d + c + (p - a) - 1
               ELSE IF p <= a + b + c THEN d + (p - a - b) - 1
               ELSE (p - a - b - c) - 1
  BY DEF Age
<1> HIDE DEF a, b, c, d
<1>8. CASE p <= a
  <2>1. p \in 1..a /\ p \in 1..a + b /\ p \in 1..a + b + c /\ p \in 1..a + b + c + d
    BY <1>1, <1>8
  <2>2. p <= a + b /\ p <= a + b + c
    BY <2>1
  <2> QED BY <1>3, <1>4, <1>5, <1>6, <1>7, <1>8, <2>1, <2>2
<1>9. CASE ~(p <= a) /\ p <= a + b
  <2>1. p - a \in 1..b /\ p \in 1..a + b /\ p \in 1..a + b + c /\ p \in 1..a + b + c + d
    BY <1>1, <1>9
  <2>2. p <= a + b + c
    BY <2>1
  <2> QED BY <1>3, <1>4, <1>5, <1>6, <1>7, <1>9, <2>1, <2>2
<1>10. CASE ~(p <= a) /\ ~(p <= a + b) /\ p <= a + b + c
  <2>1. /\ p - (a + b) \in 1..c /\ p - (a + b) = p - a - b
        /\ p \in 1..a + b + c /\ p \in 1..a + b + c + d
    BY <1>1, <1>10
  <2> QED BY <1>4, <1>5, <1>6, <1>7, <1>10, <2>1
<1>11. CASE ~(p <= a) /\ ~(p <= a + b) /\ ~(p <= a + b + c)
  <2>1. /\ p - (a + b + c) \in 1..d /\ p - (a + b + c) = p - a - b - c
        /\ p \in 1..a + b + c + d
    BY <1>1, <1>11
  <2> QED BY <1>5, <1>6, <1>7, <1>11, <2>1
<1> QED BY <1>8, <1>9, <1>10, <1>11

\* tx_only enqueues a frame again only when its last transmission has come back:
\* idx goes round NUM_FRAMES, and there are at most three rings of frames between
\* it and the oldest one on its way.
THEOREM FramesReusedInTime == Spec => []InFlightDistinct
<1>1. CoreInv /\ BatchInv /\ OrderInv => InFlightDistinct
  <2> SUFFICES ASSUME CoreInv, BatchInv, OrderInv, conf.mode = "txonly"
               PROVE  IsInjective(InFlight)
    BY DEF InFlightDistinct
  <2>1. DOMAIN InFlight = 1..outstanding
    <3>1. InFlight \in Seq(Frames) /\ Len(InFlight) = Len(tx) + Len(sending) + Len(cq) + Len(done)
      BY ConcatFour DEF CoreInv, TypeInv, InFlight
    <3>2. Len(InFlight) = outstanding
      BY <3>1 DEF CoreInv, CountInv, Exact
    <3> QED BY <3>1, <3>2, LenProperties
  <2>2. ASSUME NEW p \in 1..outstanding, NEW q \in 1..outstanding, p # q
        PROVE  InFlight[p] # InFlight[q]
    <3>1. Age(p) \in 0..outstanding - 1 /\ Age(q) \in 0..outstanding - 1 /\ Age(p) # Age(q)
      BY <2>2, AgeOfPlace, AgesDistinct
    <3>2. outstanding \in Nat /\ outstanding <= NumFrames
      BY OutstandingBound, Lengths DEF CoreInv
    <3>3. At(idx, outstanding, Age(p)) # At(idx, outstanding, Age(q))
      <4>1. CASE Age(p) < Age(q)
        BY <3>1, <3>2, <4>1, AtDistinct DEF BatchInv
      <4>2. CASE Age(q) < Age(p)
        BY <3>1, <3>2, <4>2, AtDistinct DEF BatchInv
      <4> QED BY <3>1, <3>2, <4>1, <4>2
    <3> QED BY <3>3, FrameOfPlace
  <2> QED BY <2>1, <2>2 DEF IsInjective
<1> QED BY <1>1, InitCore, StepCore, BatchesWhole, InitOrder, OrderStep, PTL DEF Spec

-----------------------------------------------------------------------------
(* Where the frames are *)

\* The frames xsk_configure puts on the fill ring.
Initial == 0..(NumDescs - 1)

Placed(H) == FrameAt(H) \in Bijection(Places(H), Initial)

\* The parts of it, a holder and a position in it at a time.
Known(H) == \A h \in Holders : \A i \in 1..Len(H[h]) : H[h][i] \in Initial
Once(H) ==
  \A h, g \in Holders : \A i \in 1..Len(H[h]), j \in 1..Len(H[g]) :
    H[h][i] = H[g][j] => h = g /\ i = j
Somewhere(H) ==
  \A f \in Initial : \E h \in Holders : \E i \in 1..Len(H[h]) : H[h][i] = f

LEMMA OnceAt ==
  ASSUME NEW H, Once(H), NEW h \in Holders, NEW g \in Holders,
         NEW i \in 1..Len(H[h]), NEW j \in 1..Len(H[g]), H[h][i] = H[g][j]
  PROVE  h = g /\ i = j
BY DEF Once

LEMMA PlacedParts ==
  ASSUME NEW H \in [Holders -> Seq(Frames)]
  PROVE  Placed(H) <=> Known(H) /\ Once(H) /\ Somewhere(H)
<1>1. \A p : p \in Places(H) <=>
        \E h \in Holders : \E i \in 1..Len(H[h]) : p = <<h, i>>
  BY DEF Places
<1>6. \A h \in Holders : \A i \in 1..Len(H[h]) :
        <<h, i>> \in Places(H) /\ H[<<h, i>>[1]][<<h, i>>[2]] = H[h][i]
  BY <1>1
<1>7. \A p \in Places(H) : p[1] \in Holders /\ p[2] \in 1..Len(H[p[1]]) /\ p = <<p[1], p[2]>>
  BY <1>1
<1>2. Placed(H) <=>
        /\ \A p \in Places(H) : H[p[1]][p[2]] \in Initial
        /\ \A p, q \in Places(H) : H[p[1]][p[2]] = H[q[1]][q[2]] => p = q
        /\ \A f \in Initial : \E p \in Places(H) : H[p[1]][p[2]] = f
  <2>1. FrameAt(H) \in [Places(H) -> Initial]
          <=> \A p \in Places(H) : H[p[1]][p[2]] \in Initial
    BY DEF FrameAt
  <2>2. IsInjective(FrameAt(H))
          <=> \A p, q \in Places(H) : H[p[1]][p[2]] = H[q[1]][q[2]] => p = q
    BY DEF FrameAt, IsInjective
  <2>3. (\A f \in Initial : \E p \in Places(H) : FrameAt(H)[p] = f)
          <=> \A f \in Initial : \E p \in Places(H) : H[p[1]][p[2]] = f
    BY DEF FrameAt
  <2> QED BY <2>1, <2>2, <2>3 DEF Placed, Bijection, Injection, Surjection
<1>3. Known(H) <=> \A p \in Places(H) : H[p[1]][p[2]] \in Initial
  <2>1. ASSUME Known(H), NEW p \in Places(H)
        PROVE  H[p[1]][p[2]] \in Initial
    BY <1>7, <2>1, Zenon DEF Known
  <2>2. ASSUME \A p \in Places(H) : H[p[1]][p[2]] \in Initial,
               NEW h \in Holders, NEW i \in 1..Len(H[h])
        PROVE  H[h][i] \in Initial
    <3>1. H[<<h, i>>[1]][<<h, i>>[2]] \in Initial
      BY <1>6, <2>2, Zenon
    <3> QED BY <1>6, <3>1
  <2> QED BY <2>1, <2>2, Zenon DEF Known
<1>4. Once(H) <=>
        \A p, q \in Places(H) : H[p[1]][p[2]] = H[q[1]][q[2]] => p = q
  <2>1. ASSUME Once(H), NEW p \in Places(H), NEW q \in Places(H), H[p[1]][p[2]] = H[q[1]][q[2]]
        PROVE  p = q
    <3>1. PICK h, i, g, j : h = p[1] /\ i = p[2] /\ g = q[1] /\ j = q[2]
      OBVIOUS
    <3>2. /\ h \in Holders /\ i \in 1..Len(H[h]) /\ g \in Holders /\ j \in 1..Len(H[g])
          /\ H[h][i] = H[g][j] /\ p = <<h, i>> /\ q = <<g, j>>
      BY <1>7, <2>1, <3>1
    <3>3. h = g /\ i = j
      BY <2>1, <3>2, OnceAt
    <3> QED BY <3>2, <3>3
  <2>2. ASSUME \A p, q \in Places(H) : H[p[1]][p[2]] = H[q[1]][q[2]] => p = q,
               NEW h \in Holders, NEW g \in Holders,
               NEW i \in 1..Len(H[h]), NEW j \in 1..Len(H[g]), H[h][i] = H[g][j]
        PROVE  h = g /\ i = j
    <3>1. PICK p, q : p = <<h, i>> /\ q = <<g, j>>
      OBVIOUS
    <3>2. /\ p \in Places(H) /\ q \in Places(H)
          /\ H[p[1]][p[2]] = H[h][i] /\ H[q[1]][q[2]] = H[g][j]
      BY <1>6, <3>1
    <3>3. p = q
      BY <2>2, <3>2
    <3> QED BY <3>1, <3>3
  <2> QED BY <2>1, <2>2, Zenon DEF Once
<1>5. Somewhere(H) <=> \A f \in Initial : \E p \in Places(H) : H[p[1]][p[2]] = f
  <2>1. ASSUME NEW f
        PROVE  (\E h \in Holders : \E i \in 1..Len(H[h]) : H[h][i] = f)
                 <=> \E p \in Places(H) : H[p[1]][p[2]] = f
    <3>1. ASSUME NEW h \in Holders, NEW i \in 1..Len(H[h]), H[h][i] = f
          PROVE  \E p \in Places(H) : H[p[1]][p[2]] = f
      <4>1. PICK p : p = <<h, i>>
        OBVIOUS
      <4>2. p \in Places(H) /\ H[p[1]][p[2]] = H[h][i]
        BY <1>6, <4>1
      <4> QED BY <3>1, <4>2
    <3>2. ASSUME NEW p \in Places(H), H[p[1]][p[2]] = f
          PROVE  \E h \in Holders : \E i \in 1..Len(H[h]) : H[h][i] = f
      BY <1>7, <3>2, Zenon
    <3> QED BY <3>1, <3>2
  <2> QED BY <2>1, Zenon DEF Somewhere
<1> QED BY <1>2, <1>3, <1>4, <1>5

\* n frames move from behind the first m of k to the end of l: every dequeue,
\* enqueue, refill and step of the kernel.
Moved(H, G, k, l, m, n) ==
  /\ m + n <= Len(H[k])
  /\ \A h \in Holders \ {k, l} : G[h] = H[h]
  /\ Len(G[k]) = Len(H[k]) - n /\ Len(G[l]) = Len(H[l]) + n
  /\ \A i \in 1..Len(G[k]) : G[k][i] = IF i <= m THEN H[k][i] ELSE H[k][i + n]
  /\ \A i \in 1..Len(H[l]) : G[l][i] = H[l][i]
  /\ \A i \in 1..n : G[l][Len(H[l]) + i] = H[k][m + i]

LEMMA MoveFrames ==
  ASSUME NEW H \in [Holders -> Seq(Frames)], NEW G \in [Holders -> Seq(Frames)],
         NEW k \in Holders, NEW l \in Holders, k # l, NEW m \in Nat, NEW n \in Nat,
         Moved(H, G, k, l, m, n), Placed(H)
  PROVE  Placed(G)
<1> DEFINE a == Len(H[k])
           b == Len(H[l])
           From(h, i) == IF h = k THEN <<k, IF i <= m THEN i ELSE i + n>>
                         ELSE IF h = l /\ i > b THEN <<k, m + i - b>> ELSE <<h, i>>
           Pos(h) == 1..Len(H[h])
           New(h) == 1..Len(G[h])
<1>1. a \in Nat /\ b \in Nat /\ m + n <= a
  BY LenProperties DEF Moved
<1>2. New(k) = 1..a - n /\ New(l) = 1..b + n /\ \A h \in Holders \ {k, l} : New(h) = Pos(h)
  BY DEF Moved
<1>3. Pos(k) = 1..a /\ Pos(l) = 1..b
  OBVIOUS
<1> HIDE DEF a, b, Pos, New
<1>4. ASSUME NEW h \in Holders, NEW i \in New(h)
      PROVE  \E g \in Holders : \E j \in Pos(g) : From(h, i) = <<g, j>> /\ G[h][i] = H[g][j]
  <2>1. CASE h = k
    <3>0. i \in 1..a - n
      BY <1>2, <2>1
    <3>1. /\ i <= m => i \in Pos(k)
          /\ i > m => i + n \in Pos(k)
          /\ i \in Int
      BY <1>1, <1>3, <3>0
    <3>2. G[h][i] = IF i <= m THEN H[k][i] ELSE H[k][i + n]
      BY <2>1 DEF Moved, New
    <3> QED BY <1>1, <2>1, <3>1, <3>2
  <2>2. CASE h = l /\ i > b
    <3>0. i \in 1..b + n /\ i > b
      BY <1>2, <2>2
    <3>1. /\ i - b \in 1..n /\ m + (i - b) = m + i - b /\ b + (i - b) = i
          /\ m + (i - b) \in Pos(k)
      BY <1>1, <1>3, <3>0
    <3>2. G[l][b + (i - b)] = H[k][m + (i - b)]
      BY <3>1 DEF Moved, b
    <3> QED BY <2>2, <3>1, <3>2
  <2>3. CASE h = l /\ ~(i > b)
    <3>1. i \in Pos(l)
      BY <1>1, <1>2, <1>3, <2>3
    <3>2. G[l][i] = H[l][i]
      BY <3>1 DEF Moved, Pos
    <3>3. From(h, i) = <<l, i>>
      BY <2>3
    <3> QED BY <2>3, <3>1, <3>2, <3>3
  <2>4. CASE h \notin {k, l}
    <3>1. i \in Pos(h) /\ G[h] = H[h]
      BY <1>2, <2>4 DEF Moved
    <3>2. From(h, i) = <<h, i>>
      BY <2>4
    <3> QED BY <3>1, <3>2
  <2> QED BY <2>1, <2>2, <2>3, <2>4
<1>5. ASSUME NEW h \in Holders, NEW i \in New(h), NEW g \in Holders, NEW j \in New(g),
             From(h, i) = From(g, j)
      PROVE  h = g /\ i = j
  <2>1. /\ h \in {k, l} => i \in Int
        /\ g \in {k, l} => j \in Int
        /\ h = k => i >= 1 /\ i <= a - n
        /\ g = k => j >= 1 /\ j <= a - n
        /\ h = l => i >= 1 /\ i <= b + n
        /\ g = l => j >= 1 /\ j <= b + n
    <3>1. /\ h = k => i \in 1..a - n
          /\ g = k => j \in 1..a - n
          /\ h = l => i \in 1..b + n
          /\ g = l => j \in 1..b + n
      BY <1>2
    <3> QED BY <1>1, <3>1
  <2>2. CASE h = k
    <3>1. g = k \/ (g = l /\ j > b)
      BY <1>5, <2>2
    <3>2. CASE g = k
      BY <1>1, <1>5, <2>1, <2>2, <3>2
    <3>3. CASE g = l /\ j > b
      BY <1>1, <1>5, <2>1, <2>2, <3>3
    <3> QED BY <3>1, <3>2, <3>3
  <2>3. CASE h = l /\ i > b
    <3>1. g = k \/ (g = l /\ j > b)
      BY <1>5, <2>3
    <3>2. CASE g = k
      BY <1>1, <1>5, <2>1, <2>3, <3>2
    <3>3. CASE g = l /\ j > b
      BY <1>1, <1>5, <2>1, <2>3, <3>3
    <3> QED BY <3>1, <3>2, <3>3
  <2>4. CASE h # k /\ ~(h = l /\ i > b)
    BY <1>5, <2>4
  <2> QED BY <2>2, <2>3, <2>4
<1>6. ASSUME NEW h \in Holders, NEW i \in Pos(h)
      PROVE  \E g \in Holders : \E j \in New(g) : G[g][j] = H[h][i]
  <2>1. CASE h = k /\ i <= m
    <3>1. i \in New(k)
      BY <1>1, <1>2, <1>3, <2>1
    <3>2. G[k][i] = H[k][i]
      BY <2>1, <3>1 DEF Moved, New
    <3> QED BY <2>1, <3>1, <3>2
  <2>2. CASE h = k /\ i > m /\ i <= m + n
    <3>0. i \in 1..a /\ i > m /\ i <= m + n
      BY <1>3, <2>2
    <3>1. i - m \in 1..n /\ b + (i - m) \in New(l) /\ m + (i - m) = i
      BY <1>1, <1>2, <3>0
    <3>2. G[l][b + (i - m)] = H[k][m + (i - m)]
      BY <3>1 DEF Moved, b
    <3> QED BY <2>2, <3>1, <3>2
  <2>3. CASE h = k /\ i > m + n
    <3>0. i \in 1..a /\ i > m + n
      BY <1>3, <2>3
    <3>1. i - n \in New(k) /\ ~(i - n <= m) /\ i - n + n = i
      BY <1>1, <1>2, <3>0
    <3>2. G[k][i - n] = H[k][i - n + n]
      BY <3>1 DEF Moved, New
    <3> QED BY <2>3, <3>1, <3>2
  <2>4. CASE h = l
    <3>1. i \in New(l)
      BY <1>1, <1>2, <1>3, <2>4
    <3>2. G[l][i] = H[l][i]
      BY <2>4 DEF Moved, Pos
    <3> QED BY <2>4, <3>1, <3>2
  <2>5. CASE h \notin {k, l}
    <3>1. i \in New(h) /\ G[h] = H[h]
      BY <1>2, <2>5 DEF Moved
    <3> QED BY <3>1
  <2>6. h = k => i \in Int
    BY <1>3
  <2> QED BY <1>1, <2>1, <2>2, <2>3, <2>4, <2>5, <2>6
<1> HIDE DEF From
<1>7. Known(H) /\ Once(H) /\ Somewhere(H)
  BY PlacedParts
<1>8. Known(G)
  <2>1. ASSUME NEW h \in Holders, NEW i \in New(h)
        PROVE  G[h][i] \in Initial
    <3>1. PICK g \in Holders : \E j \in Pos(g) : From(h, i) = <<g, j>> /\ G[h][i] = H[g][j]
      BY <1>4, Zenon
    <3>2. PICK j \in Pos(g) : G[h][i] = H[g][j]
      BY <3>1, Zenon
    <3>3. H[g][j] \in Initial
      BY <1>7, Zenon DEF Known, Pos
    <3> QED BY <3>2, <3>3
  <2> QED BY <2>1 DEF Known, New
<1>9. Once(G)
  <2>1. ASSUME NEW h \in Holders, NEW g \in Holders, NEW i \in New(h), NEW j \in New(g),
               G[h][i] = G[g][j]
        PROVE  h = g /\ i = j
    <3>1. PICK x \in Holders : \E r \in Pos(x) : From(h, i) = <<x, r>> /\ G[h][i] = H[x][r]
      BY <1>4
    <3>2. PICK r \in Pos(x) : From(h, i) = <<x, r>> /\ G[h][i] = H[x][r]
      BY <3>1
    <3>3. PICK y \in Holders : \E s \in Pos(y) : From(g, j) = <<y, s>> /\ G[g][j] = H[y][s]
      BY <1>4
    <3>4. PICK s \in Pos(y) : From(g, j) = <<y, s>> /\ G[g][j] = H[y][s]
      BY <3>3
    <3>5. x = y /\ r = s
      <4>1. H[x][r] = H[y][s]
        BY <2>1, <3>2, <3>4
      <4>2. \A u, v \in Holders : \A c \in Pos(u), d \in Pos(v) :
              H[u][c] = H[v][d] => u = v /\ c = d
        BY <1>7, Zenon DEF Once, Pos
      <4> QED BY <4>1, <4>2
    <3> QED BY <1>5, <2>1, <3>2, <3>4, <3>5
  <2> QED BY <2>1 DEF Once, New
<1>10. Somewhere(G)
  <2>1. ASSUME NEW f \in Initial
        PROVE  \E g \in Holders : \E j \in New(g) : G[g][j] = f
    <3>1. PICK h \in Holders : \E i \in Pos(h) : H[h][i] = f
      BY <1>7, Zenon DEF Somewhere, Pos
    <3>2. PICK i \in Pos(h) : H[h][i] = f
      BY <3>1, Zenon
    <3> QED BY <1>6, <3>2, Zenon
  <2> QED BY <2>1, Zenon DEF Somewhere, New
<1> QED BY <1>8, <1>9, <1>10, PlacedParts

\* Two holders together hold no more frames than there are.
LEMMA PlacedRoom ==
  ASSUME NEW H \in [Holders -> Seq(Frames)], Placed(H),
         NEW h \in Holders, NEW g \in Holders, h # g
  PROVE  Len(H[h]) + Len(H[g]) <= NumDescs
<1> DEFINE a == Len(H[h])
           b == Len(H[g])
           e == [p \in 1..a + b |-> IF p <= a THEN H[h][p] ELSE H[g][p - a]]
<1>1. a \in Nat /\ b \in Nat
  BY LenProperties
<1>2. Known(H) /\ Once(H)
  BY PlacedParts
<1>3. /\ \A i, j \in 1..a : H[h][i] = H[h][j] => i = j
      /\ \A i, j \in 1..b : H[g][i] = H[g][j] => i = j
      /\ \A i \in 1..a, j \in 1..b : H[h][i] # H[g][j]
  BY <1>2 DEF Once
<1>4. (\A i \in 1..a : H[h][i] \in Initial) /\ \A i \in 1..b : H[g][i] \in Initial
  BY <1>2 DEF Known
<1> HIDE DEF a, b
<1>5. \A p \in 1..a + b :
        \/ p \in 1..a /\ e[p] = H[h][p]
        \/ ~(p <= a) /\ p - a \in 1..b /\ e[p] = H[g][p - a]
  BY <1>1
<1>6. e \in [1..a + b -> Initial]
  BY <1>1, <1>4
<1>7. ASSUME NEW p \in 1..a + b, NEW q \in 1..a + b, e[p] = e[q]
      PROVE  p = q
  <2> HIDE DEF e
  <2>1. CASE p \in 1..a /\ e[p] = H[h][p]
    <3>1. ASSUME q - a \in 1..b, e[q] = H[g][q - a] PROVE FALSE
      BY <1>3, <1>7, <2>1, <3>1
    <3>2. q \in 1..a /\ e[q] = H[h][q]
      BY <1>5, <3>1
    <3> QED BY <1>3, <1>7, <2>1, <3>2
  <2>2. CASE p - a \in 1..b /\ e[p] = H[g][p - a]
    <3>1. ASSUME q \in 1..a, e[q] = H[h][q] PROVE FALSE
      BY <1>3, <1>7, <2>2, <3>1
    <3>2. q - a \in 1..b /\ e[q] = H[g][q - a]
      BY <1>5, <3>1
    <3>3. p - a = q - a
      BY <1>3, <1>7, <2>2, <3>2
    <3> QED BY <1>1, <3>3
  <2> QED BY <1>5, <2>1, <2>2
<1>8. e \in Injection(1..a + b, Initial)
  <2> HIDE DEF e
  <2> QED BY <1>6, <1>7 DEF Injection, IsInjective
<1>9. IsFiniteSet(Initial) /\ Cardinality(Initial) = NumDescs
  BY Params, FS_Interval DEF Initial
<1>10. Cardinality(1..a + b) = a + b
  BY <1>1, FS_Interval
<1>11. Cardinality(1..a + b) <= Cardinality(Initial)
  <2> HIDE DEF e
  <2> QED BY <1>8, <1>9, FS_Injection
<1> QED BY <1>9, <1>10, <1>11 DEF a, b

\* The holders that are not the RX ring of a socket.
Of(name) == <<name, 0>>

LEMMA HolderNames ==
  /\ Of("fq") \in Holders /\ Of("dma") \in Holders /\ Of("batch") \in Holders
  /\ Of("tx") \in Holders /\ Of("sending") \in Holders /\ Of("cq") \in Holders
  /\ Of("done") \in Holders
  /\ \A s \in Socks : <<"rx", s>> \in Holders
  /\ \A h \in Holders : \/ h \in {Of("fq"), Of("dma"), Of("batch"), Of("tx"), Of("sending"),
                                  Of("cq"), Of("done")}
                        \/ \E s \in Socks : h = <<"rx", s>>
BY DEF Holders, Of

LEMMA HeldFacts ==
  ASSUME TypeInv
  PROVE  /\ Held \in [Holders -> Seq(Frames)]
         /\ Held[Of("fq")] = fq /\ Held[Of("dma")] = dma /\ Held[Of("batch")] = batch
         /\ Held[Of("tx")] = tx /\ Held[Of("sending")] = sending /\ Held[Of("cq")] = cq
         /\ Held[Of("done")] = done
         /\ \A s \in Socks : Held[<<"rx", s>>] = rx[s]
<1>1. /\ Held[Of("fq")] = fq /\ Held[Of("dma")] = dma /\ Held[Of("batch")] = batch
      /\ Held[Of("tx")] = tx /\ Held[Of("sending")] = sending /\ Held[Of("cq")] = cq
      /\ Held[Of("done")] = done
  BY HolderNames DEF Held, Of
<1>2. \A s \in Socks : Held[<<"rx", s>>] = rx[s]
  BY HolderNames DEF Held
<1>3. ASSUME NEW h \in Holders
      PROVE  Held[h] \in Seq(Frames)
  <2>1. CASE \E s \in Socks : h = <<"rx", s>>
    BY <1>2, <2>1 DEF TypeInv
  <2>2. CASE ~\E s \in Socks : h = <<"rx", s>>
    <3>1. h \in {Of("fq"), Of("dma"), Of("batch"), Of("tx"), Of("sending"), Of("cq"),
                Of("done")}
      BY <2>2, HolderNames
    <3> QED BY <1>1, <3>1 DEF TypeInv
  <2> QED BY <2>1, <2>2
<1>4. Held = [h \in Holders |-> Held[h]]
  <2> DEFINE of(h) == CASE h[1] = "fq" -> fq [] h[1] = "dma" -> dma
                        [] h[1] = "rx" -> rx[h[2]] [] h[1] = "batch" -> batch
                        [] h[1] = "tx" -> tx [] h[1] = "sending" -> sending
                        [] h[1] = "cq" -> cq [] h[1] = "done" -> done
  <2>1. Held = [h \in Holders |-> of(h)]
    BY DEF Held
  <2> HIDE DEF of
  <2> QED BY <2>1
<1> QED BY <1>1, <1>2, <1>3, <1>4

LEMMA HeldNext ==
  ASSUME TypeInv'
  PROVE  /\ Held' \in [Holders -> Seq(Frames)]
         /\ Held'[Of("fq")] = fq' /\ Held'[Of("dma")] = dma' /\ Held'[Of("batch")] = batch'
         /\ Held'[Of("tx")] = tx' /\ Held'[Of("sending")] = sending' /\ Held'[Of("cq")] = cq'
         /\ Held'[Of("done")] = done'
         /\ \A s \in Socks : Held'[<<"rx", s>>] = rx'[s]
<1>1. /\ Held'[Of("fq")] = fq' /\ Held'[Of("dma")] = dma' /\ Held'[Of("batch")] = batch'
      /\ Held'[Of("tx")] = tx' /\ Held'[Of("sending")] = sending' /\ Held'[Of("cq")] = cq'
      /\ Held'[Of("done")] = done'
  BY HolderNames DEF Held, Of
<1>2. \A s \in Socks : Held'[<<"rx", s>>] = rx'[s]
  BY HolderNames DEF Held
<1>3. ASSUME NEW h \in Holders
      PROVE  Held'[h] \in Seq(Frames)
  <2>1. CASE \E s \in Socks : h = <<"rx", s>>
    BY <1>2, <2>1 DEF TypeInv
  <2>2. CASE ~\E s \in Socks : h = <<"rx", s>>
    <3>1. h \in {Of("fq"), Of("dma"), Of("batch"), Of("tx"), Of("sending"), Of("cq"),
                Of("done")}
      BY <2>2, HolderNames
    <3> QED BY <1>1, <3>1 DEF TypeInv
  <2> QED BY <2>1, <2>2
<1>4. Held' = [h \in Holders |-> Held'[h]]
  <2> DEFINE of(h) == CASE h[1] = "fq" -> fq' [] h[1] = "dma" -> dma'
                        [] h[1] = "rx" -> rx'[h[2]] [] h[1] = "batch" -> batch'
                        [] h[1] = "tx" -> tx' [] h[1] = "sending" -> sending'
                        [] h[1] = "cq" -> cq' [] h[1] = "done" -> done'
  <2>1. Held' = [h \in Holders |-> of(h)]
    BY DEF Held
  <2> HIDE DEF of
  <2> QED BY <2>1
<1> QED BY <1>1, <1>2, <1>3, <1>4

\* A dequeue, an enqueue or a refill: the first n frames of k.
FirstMoved(H, G, k, l, n) ==
  /\ k \in Holders /\ l \in Holders /\ k # l
  /\ n \in 0..Len(H[k])
  /\ \A h \in Holders \ {k, l} : G[h] = H[h]
  /\ G[k] = Rest(H[k], n)
  /\ G[l] = H[l] \o First(H[k], n)

LEMMA MoveFirst ==
  ASSUME NEW H \in [Holders -> Seq(Frames)], NEW G \in [Holders -> Seq(Frames)],
         NEW k, NEW l, NEW n, FirstMoved(H, G, k, l, n), Placed(H)
  PROVE  Placed(G)
<1> USE DEF FirstMoved
<1>1. PICK p, q : p = H[k] /\ q = H[l]
  OBVIOUS
<1>2. p \in Seq(Frames) /\ q \in Seq(Frames) /\ n \in 0..Len(p)
  BY <1>1
<1>3. /\ First(p, n) \in Seq(Frames) /\ Len(First(p, n)) = n
      /\ \A i \in 1..n : First(p, n)[i] = p[i]
      /\ Len(Rest(p, n)) = Len(p) - n
      /\ \A i \in 1..Len(p) - n : Rest(p, n)[i] = p[n + i]
  BY <1>2, FirstRest
<1>4. PICK r : r = First(p, n)
  OBVIOUS
<1>5. /\ Len(q \o r) = Len(q) + Len(r)
      /\ \A i \in 1..Len(q) + Len(r) :
           (q \o r)[i] = IF i <= Len(q) THEN q[i] ELSE r[i - Len(q)]
  BY <1>2, <1>3, <1>4, ConcatProperties
<1>6. Len(p) \in Nat /\ Len(q) \in Nat /\ n \in Nat
  BY <1>2, LenProperties
<1>7. /\ Len(G[k]) = Len(H[k]) - n
      /\ \A i \in 1..Len(G[k]) : G[k][i] = IF i <= 0 THEN H[k][i] ELSE H[k][i + n]
  BY <1>1, <1>3, <1>6
<1>8. /\ Len(G[l]) = Len(H[l]) + n
      /\ \A i \in 1..Len(H[l]) : G[l][i] = H[l][i]
  BY <1>1, <1>3, <1>4, <1>5, <1>6
<1>9. ASSUME NEW i \in 1..n
      PROVE  G[l][Len(H[l]) + i] = H[k][0 + i]
  <2>1. Len(q) + i \in 1..Len(q) + Len(r) /\ ~(Len(q) + i <= Len(q)) /\ Len(q) + i - Len(q) = i
    BY <1>3, <1>4, <1>6
  <2>2. (q \o r)[Len(q) + i] = r[i]
    BY <1>5, <2>1
  <2> QED BY <1>1, <1>3, <1>4, <2>2
<1>10. PICK m \in Nat : m = 0
  OBVIOUS
<1>11. /\ m + n <= Len(H[k])
       /\ \A j \in 1..Len(G[k]) : G[k][j] = IF j <= m THEN H[k][j] ELSE H[k][j + n]
       /\ \A j \in 1..n : G[l][Len(H[l]) + j] = H[k][m + j]
  <2>1. m + n <= Len(H[k])
    BY <1>1, <1>2, <1>6, <1>10
  <2> QED BY <1>7, <1>9, <1>10, <2>1
<1>12. Moved(H, G, k, l, m, n)
  BY <1>7, <1>8, <1>11 DEF Moved
<1> QED BY <1>6, <1>12, MoveFrames

\* The entries RemoveAt leaves.
LEMMA RemoveAtElements ==
  ASSUME NEW S, NEW q \in Seq(S), NEW i \in 1..Len(q)
  PROVE  \A j \in 1..Len(q) - 1 : RemoveAt(q, i)[j] = IF j <= i - 1 THEN q[j] ELSE q[j + 1]
<1>1. i - 1 \in 0..Len(q) /\ i \in 0..Len(q) /\ Len(q) \in Nat
  BY LenProperties
<1>2. PICK a, b : a = First(q, i - 1) /\ b = Rest(q, i)
  OBVIOUS
<1>3. a \in Seq(S) /\ Len(a) = i - 1 /\ \A j \in 1..i - 1 : a[j] = q[j]
  BY <1>1, <1>2, FirstRest
<1>4. b \in Seq(S) /\ Len(b) = Len(q) - i /\ \A j \in 1..Len(q) - i : b[j] = q[i + j]
  BY <1>1, <1>2, FirstRest
<1>5. RemoveAt(q, i) = a \o b
  BY <1>2 DEF RemoveAt, First, Rest
<1>6. \A j \in 1..Len(a) + Len(b) :
        (a \o b)[j] = IF j <= Len(a) THEN a[j] ELSE b[j - Len(a)]
  BY <1>3, <1>4, ConcatProperties
<1>7. ASSUME NEW j \in 1..Len(q) - 1
      PROVE  (a \o b)[j] = IF j <= i - 1 THEN q[j] ELSE q[j + 1]
  <2>1. j \in 1..Len(a) + Len(b)
    BY <1>1, <1>3, <1>4
  <2>2. CASE j <= i - 1
    BY <1>1, <1>3, <1>6, <2>1, <2>2
  <2>3. CASE ~(j <= i - 1)
    <3>1. j - (i - 1) \in 1..Len(q) - i /\ i + (j - (i - 1)) = j + 1
      BY <1>1, <2>3
    <3>2. b[j - (i - 1)] = q[i + (j - (i - 1))]
      BY <1>4, <3>1
    <3> QED BY <1>3, <1>6, <2>1, <2>3, <3>1, <3>2
  <2> QED BY <2>2, <2>3
<1> QED BY <1>5, <1>7

\* A step of the kernel: entry i of k.
OneMoved(H, G, k, l, i) ==
  /\ k \in Holders /\ l \in Holders /\ k # l
  /\ i \in 1..Len(H[k])
  /\ \A h \in Holders \ {k, l} : G[h] = H[h]
  /\ G[k] = RemoveAt(H[k], i)
  /\ G[l] = Append(H[l], H[k][i])

LEMMA MoveOne ==
  ASSUME NEW H \in [Holders -> Seq(Frames)], NEW G \in [Holders -> Seq(Frames)],
         NEW k, NEW l, NEW i, OneMoved(H, G, k, l, i), Placed(H)
  PROVE  Placed(G)
<1> USE DEF OneMoved
<1>1. PICK p, q : p = H[k] /\ q = H[l]
  OBVIOUS
<1>2. p \in Seq(Frames) /\ q \in Seq(Frames) /\ i \in 1..Len(p) /\ p[i] \in Frames
  BY <1>1, ElementOfSeq
<1>3. /\ Len(RemoveAt(p, i)) = Len(p) - 1
      /\ \A j \in 1..Len(p) - 1 : RemoveAt(p, i)[j] = IF j <= i - 1 THEN p[j] ELSE p[j + 1]
  BY <1>2, RemoveAtProperties, RemoveAtElements
<1>4. /\ Len(Append(q, p[i])) = Len(q) + 1
      /\ \A j \in 1..Len(q) : Append(q, p[i])[j] = q[j]
      /\ Append(q, p[i])[Len(q) + 1] = p[i]
  BY <1>2, AppendProperties
<1>5. Len(p) \in Nat /\ Len(q) \in Nat /\ i - 1 \in Nat /\ i - 1 + 1 = i /\ i \in Int
  BY <1>2, LenProperties
<1>6. /\ Len(G[k]) = Len(H[k]) - 1
      /\ \A j \in 1..Len(G[k]) : G[k][j] = IF j <= i - 1 THEN H[k][j] ELSE H[k][j + 1]
  BY <1>1, <1>3
<1>7. /\ Len(G[l]) = Len(H[l]) + 1
      /\ \A j \in 1..Len(H[l]) : G[l][j] = H[l][j]
      /\ \A j \in 1..1 : G[l][Len(H[l]) + j] = H[k][i - 1 + j]
  BY <1>1, <1>4, <1>5
<1>8. PICK m \in Nat, n \in Nat : m = i - 1 /\ n = 1
  BY <1>5
<1>9. /\ m + n <= Len(H[k]) /\ Len(G[k]) = Len(H[k]) - n /\ Len(G[l]) = Len(H[l]) + n
      /\ \A j \in 1..Len(G[k]) : G[k][j] = IF j <= m THEN H[k][j] ELSE H[k][j + n]
      /\ \A j \in 1..Len(H[l]) : G[l][j] = H[l][j]
      /\ \A j \in 1..n : G[l][Len(H[l]) + j] = H[k][m + j]
  BY <1>1, <1>2, <1>5, <1>6, <1>7, <1>8
<1>10. Moved(H, G, k, l, m, n)
  BY <1>9 DEF Moved
<1> QED BY <1>10, MoveFrames

\* A step that moves nothing.
LEMMA PlacedKept ==
  ASSUME UNCHANGED <<fq, dma, rx, batch, tx, sending, cq, done>>
  PROVE  Placed(Held') <=> Placed(Held)
BY DEF Held

\* The loops that do not only transmit keep every frame in one place; rx_drop's
\* array is empty but between its dequeue and its refill.
FrameInv ==
  /\ conf.mode # "txonly" => Placed(Held)
  /\ conf.mode = "rxdrop" /\ pc # "refill" => batch = <<>>

\* A holder whose sequence a step leaves alone.
LEMMA Untouched ==
  ASSUME TypeInv, TypeInv', NEW h \in Holders,
         h = Of("fq") => fq' = fq, h = Of("dma") => dma' = dma,
         h = Of("batch") => batch' = batch, h = Of("tx") => tx' = tx,
         h = Of("sending") => sending' = sending, h = Of("cq") => cq' = cq,
         h = Of("done") => done' = done,
         \A s \in Socks : h = <<"rx", s>> => rx'[s] = rx[s]
  PROVE  Held'[h] = Held[h]
<1>1. CASE \E s \in Socks : h = <<"rx", s>>
  BY <1>1, HeldFacts, HeldNext
<1>2. CASE ~\E s \in Socks : h = <<"rx", s>>
  <2>1. h \in {Of("fq"), Of("dma"), Of("batch"), Of("tx"), Of("sending"), Of("cq"), Of("done")}
    BY <1>2, HolderNames
  <2> QED BY <2>1, HeldFacts, HeldNext
<1> QED BY <1>1, <1>2

LEMMA FrameTakeBuffer ==
  CoreInv /\ CoreInv' /\ FrameInv /\ KernelTakeBuffer => FrameInv'
<1> SUFFICES ASSUME CoreInv, CoreInv', FrameInv, KernelTakeBuffer PROVE FrameInv'
  OBVIOUS
<1> USE DEF CoreInv, KernelTakeBuffer, loopVars
<1>1. PICK H, G, k, l : H = Held /\ G = Held' /\ k = Of("fq") /\ l = Of("dma")
  OBVIOUS
<1>2. /\ H \in [Holders -> Seq(Frames)] /\ G \in [Holders -> Seq(Frames)]
      /\ H[k] = fq /\ H[l] = dma /\ G[k] = fq' /\ G[l] = dma'
      /\ k \in Holders /\ l \in Holders /\ k # l
  BY <1>1, HeldFacts, HeldNext, HolderNames DEF Of
<1>3. ASSUME NEW h \in Holders \ {k, l}
      PROVE  G[h] = H[h]
  BY <1>1, <1>3, Untouched
<1>4. 1 \in 1..Len(fq) /\ fq' = RemoveAt(fq, 1) /\ dma' = Append(dma, fq[1])
  BY RemoveFirstIsTail, HeadTailProperties, LenProperties, EmptySeq DEF TypeInv
<1>5. OneMoved(H, G, k, l, 1)
  BY <1>2, <1>3, <1>4 DEF OneMoved
<1>6. Placed(H) => Placed(G)
  BY <1>2, <1>5, MoveOne
<1> QED BY <1>1, <1>6 DEF FrameInv

LEMMA FrameReceive ==
  ASSUME CoreInv, CoreInv', FrameInv, NEW s \in 1..conf.socks, NEW i \in 1..Len(dma),
         KernelReceive(s, i)
  PROVE  FrameInv'
<1> USE DEF CoreInv, KernelReceive, loopVars
<1>1. PICK H, G, k, l : H = Held /\ G = Held' /\ k = Of("dma") /\ l = <<"rx", s>>
  OBVIOUS
<1>2. s \in Socks
  BY ConfFacts, Params DEF Socks
<1>3. /\ H \in [Holders -> Seq(Frames)] /\ G \in [Holders -> Seq(Frames)]
      /\ H[k] = dma /\ H[l] = rx[s] /\ G[k] = dma' /\ G[l] = rx'[s]
      /\ k \in Holders /\ l \in Holders /\ k # l
  BY <1>1, <1>2, HeldFacts, HeldNext, HolderNames DEF Of
<1>4. ASSUME NEW h \in Holders \ {k, l}
      PROVE  G[h] = H[h]
  <2>1. \A r \in Socks : h = <<"rx", r>> => rx'[r] = rx[r]
    BY <1>1, <1>4 DEF TypeInv
  <2> QED BY <1>1, <1>4, <2>1, Untouched
<1>5. dma' = RemoveAt(dma, i) /\ rx'[s] = Append(rx[s], dma[i])
  BY <1>2 DEF TypeInv
<1>6. OneMoved(H, G, k, l, i)
  BY <1>3, <1>4, <1>5 DEF OneMoved
<1>7. Placed(H) => Placed(G)
  BY <1>3, <1>6, MoveOne
<1> QED BY <1>1, <1>7 DEF FrameInv

LEMMA FrameTakeDesc == CoreInv /\ CoreInv' /\ FrameInv /\ KernelTakeDesc => FrameInv'
<1> SUFFICES ASSUME CoreInv, CoreInv', FrameInv, KernelTakeDesc PROVE FrameInv'
  OBVIOUS
<1> USE DEF CoreInv, KernelTakeDesc, loopVars
<1>1. PICK H, G, k, l : H = Held /\ G = Held' /\ k = Of("tx") /\ l = Of("sending")
  OBVIOUS
<1>2. /\ H \in [Holders -> Seq(Frames)] /\ G \in [Holders -> Seq(Frames)]
      /\ H[k] = tx /\ H[l] = sending /\ G[k] = tx' /\ G[l] = sending'
      /\ k \in Holders /\ l \in Holders /\ k # l
  BY <1>1, HeldFacts, HeldNext, HolderNames DEF Of
<1>3. ASSUME NEW h \in Holders \ {k, l}
      PROVE  G[h] = H[h]
  BY <1>1, <1>3, Untouched
<1>4. 1 \in 1..Len(tx) /\ tx' = RemoveAt(tx, 1) /\ sending' = Append(sending, tx[1])
  BY RemoveFirstIsTail, HeadTailProperties, LenProperties, EmptySeq DEF TypeInv
<1>5. OneMoved(H, G, k, l, 1)
  BY <1>2, <1>3, <1>4 DEF OneMoved
<1>6. Placed(H) => Placed(G)
  BY <1>2, <1>5, MoveOne
<1> QED BY <1>1, <1>6 DEF FrameInv

LEMMA FrameComplete ==
  ASSUME CoreInv, CoreInv', FrameInv, NEW f \in Frames, KernelComplete(f)
  PROVE  FrameInv'
<1> USE DEF CoreInv, loopVars
<1>1. PICK i \in 1..Len(sending) :
        /\ sending[i] = f
        /\ cq' = Append(cq, f)
        /\ sending' = RemoveAt(sending, i)
        /\ UNCHANGED <<fq, rx, tx, dma, kicked, content, pc, loopVars>>
  BY DEF KernelComplete
<1>2. PICK H, G, k, l : H = Held /\ G = Held' /\ k = Of("sending") /\ l = Of("cq")
  OBVIOUS
<1>3. /\ H \in [Holders -> Seq(Frames)] /\ G \in [Holders -> Seq(Frames)]
      /\ H[k] = sending /\ H[l] = cq /\ G[k] = sending' /\ G[l] = cq'
      /\ k \in Holders /\ l \in Holders /\ k # l
  BY <1>2, HeldFacts, HeldNext, HolderNames DEF Of
<1>4. ASSUME NEW h \in Holders \ {k, l}
      PROVE  G[h] = H[h]
  BY <1>1, <1>2, <1>4, Untouched
<1>5. OneMoved(H, G, k, l, i)
  BY <1>1, <1>3, <1>4 DEF OneMoved
<1>6. Placed(H) => Placed(G)
  BY <1>3, <1>5, MoveOne
<1> QED BY <1>1, <1>2, <1>6 DEF FrameInv

\* All of a sequence is its first Len frames; an empty one takes what comes.
LEMMA WholeSequence ==
  ASSUME NEW S, NEW q \in Seq(S), NEW r \in Seq(S)
  PROVE  /\ Len(q) \in 0..Len(q) /\ First(q, Len(q)) = q /\ Rest(q, Len(q)) = <<>>
         /\ <<>> \o r = r
<1>1. Len(q) \in Nat /\ Len(q) \in 0..Len(q)
  BY LenProperties
<1>2. First(q, Len(q)) = q
  <2>1. /\ First(q, Len(q)) \in Seq(S) /\ Len(First(q, Len(q))) = Len(q)
        /\ \A i \in 1..Len(q) : First(q, Len(q))[i] = q[i]
    BY <1>1, FirstRest
  <2>2. PICK p : p = First(q, Len(q))
    OBVIOUS
  <2>3. p = q
    BY <2>1, <2>2, SeqEqual
  <2> QED BY <2>2, <2>3
<1>3. Rest(q, Len(q)) = <<>>
  <2>1. Rest(q, Len(q)) \in Seq(S) /\ Len(Rest(q, Len(q))) = 0
    BY <1>1, FirstRest
  <2> QED BY <2>1, EmptySeq
<1> QED BY <1>1, <1>2, <1>3, ConcatEmptySeq

LEMMA FrameDrain == CoreInv /\ CoreInv' /\ FrameInv /\ Drain => FrameInv'
<1> SUFFICES ASSUME CoreInv, CoreInv', FrameInv, Drain PROVE FrameInv'
  OBVIOUS
<1> USE DEF CoreInv, kernelVars
<1>1. PICK n \in NbAvail(cq, CompletionsWanted) :
        /\ done' = First(cq, n)
        /\ cq' = Rest(cq, n)
        /\ pc' = IF n > 0 THEN "recycle" ELSE AfterComplete
  BY DEF Drain
<1>2. /\ UNCHANGED <<fq, rx, tx, kernelVars, kicked, content, sock, batch, outstanding,
                     idx>>
      /\ pc = "drain" /\ done = <<>>
  BY DEF Drain, CountInv
<1>3. n \in 0..Len(cq)
  <2>1. CompletionsWanted \in Nat
    BY Lengths, Params DEF CompletionsWanted
  <2> QED BY <1>1, <2>1, NbAvailBounds DEF TypeInv
<1>4. PICK H, G, k, l : H = Held /\ G = Held' /\ k = Of("cq") /\ l = Of("done")
  OBVIOUS
<1>5. /\ H \in [Holders -> Seq(Frames)] /\ G \in [Holders -> Seq(Frames)]
      /\ H[k] = cq /\ H[l] = done /\ G[k] = cq' /\ G[l] = done'
      /\ k \in Holders /\ l \in Holders /\ k # l
  BY <1>4, HeldFacts, HeldNext, HolderNames DEF Of
<1>6. ASSUME NEW h \in Holders \ {k, l}
      PROVE  G[h] = H[h]
  BY <1>2, <1>4, <1>6, Untouched
<1>7. done' = done \o First(cq, n)
  BY <1>1, <1>2, WholeSequence DEF TypeInv
<1>8. FirstMoved(H, G, k, l, n)
  BY <1>1, <1>3, <1>5, <1>6, <1>7 DEF FirstMoved
<1>9. Placed(H) => Placed(G)
  BY <1>5, <1>8, MoveFirst
<1>10. conf.mode # "rxdrop"
  BY <1>2, OwnSteps
<1> QED BY <1>2, <1>4, <1>9, <1>10 DEF FrameInv

\* umem_fill_to_kernel puts all of the frames back: there is room.
LEMMA FrameRecycle == CoreInv /\ CoreInv' /\ FrameInv /\ Recycle => FrameInv'
<1> SUFFICES ASSUME CoreInv, CoreInv', FrameInv, Recycle PROVE FrameInv'
  OBVIOUS
<1> USE DEF CoreInv, kernelVars
<1>1. /\ UNCHANGED <<cq, rx, tx, kernelVars, kicked, content, sock, batch, idx>>
      /\ pc = "recycle" /\ done' = <<>>
      /\ fq' = IF conf.mode = "l2fwd" THEN Filled(done) ELSE fq
  BY DEF Recycle
<1>2. conf.mode # "rxdrop" /\ conf.mode \in {"rxdrop", "txonly", "l2fwd"}
  BY <1>1, OwnSteps, ConfFacts
<1>3. CASE conf.mode = "l2fwd"
  <2>1. PICK H, G, k, l, n : /\ H = Held /\ G = Held' /\ k = Of("done") /\ l = Of("fq")
                             /\ n = Len(done)
    OBVIOUS
  <2>2. /\ H \in [Holders -> Seq(Frames)] /\ G \in [Holders -> Seq(Frames)]
        /\ H[k] = done /\ H[l] = fq /\ G[k] = done' /\ G[l] = fq'
        /\ k \in Holders /\ l \in Holders /\ k # l
    BY <2>1, HeldFacts, HeldNext, HolderNames DEF Of
  <2>3. ASSUME NEW h \in Holders \ {k, l}
        PROVE  G[h] = H[h]
    BY <1>1, <2>1, <2>3, Untouched
  <2>4. Placed(H)
    BY <1>3, <2>1 DEF FrameInv
  <2>5. fq' = fq \o done
    <3>1. Len(H[k]) + Len(H[l]) <= NumDescs
      BY <2>2, <2>4, PlacedRoom
    <3> QED BY <1>1, <1>3, <2>2, <3>1, Lengths DEF Filled, HasFree
  <2>6. FirstMoved(H, G, k, l, n)
    BY <1>1, <2>1, <2>2, <2>3, <2>5, WholeSequence DEF FirstMoved, TypeInv
  <2>7. Placed(G)
    BY <2>2, <2>4, <2>6, MoveFirst
  <2> QED BY <1>1, <1>2, <2>1, <2>7 DEF FrameInv
<1>4. CASE conf.mode = "txonly"
  BY <1>1, <1>4 DEF FrameInv
<1> QED BY <1>2, <1>3, <1>4

LEMMA FrameDequeue == CoreInv /\ CoreInv' /\ FrameInv /\ Dequeue => FrameInv'
<1> SUFFICES ASSUME CoreInv, CoreInv', FrameInv, Dequeue PROVE FrameInv'
  OBVIOUS
<1> USE DEF CoreInv, kernelVars
<1>1. PICK n \in NbAvail(rx[1], BatchSize) :
        /\ batch' = First(rx[1], n)
        /\ rx' = [rx EXCEPT ![1] = Rest(@, n)]
  BY DEF Dequeue
<1>2. /\ UNCHANGED <<fq, cq, tx, kernelVars, kicked, content, sock, done, outstanding, idx>>
      /\ conf.mode = "l2fwd" /\ batch = <<>>
  BY DEF Dequeue, CountInv
<1>3. n \in 0..Len(rx[1]) /\ 1 \in Socks /\ rx[1] \in Seq(Frames)
  BY <1>1, NbAvailBounds, Lengths, Params
<1>4. PICK H, G, k, l : H = Held /\ G = Held' /\ k = <<"rx", 1>> /\ l = Of("batch")
  OBVIOUS
<1>5. /\ H \in [Holders -> Seq(Frames)] /\ G \in [Holders -> Seq(Frames)]
      /\ H[k] = rx[1] /\ H[l] = batch /\ G[k] = rx'[1] /\ G[l] = batch'
      /\ k \in Holders /\ l \in Holders /\ k # l
  BY <1>3, <1>4, HeldFacts, HeldNext, HolderNames DEF Of
<1>6. ASSUME NEW h \in Holders \ {k, l}
      PROVE  G[h] = H[h]
  <2>1. \A r \in Socks : h = <<"rx", r>> => rx'[r] = rx[r]
    BY <1>1, <1>4, <1>6 DEF TypeInv
  <2> QED BY <1>2, <1>4, <1>6, <2>1, Untouched
<1>7. rx'[1] = Rest(rx[1], n)
  BY <1>1, <1>3 DEF TypeInv
<1>8. batch' = batch \o First(rx[1], n)
  BY <1>1, <1>2, WholeSequence DEF TypeInv
<1>9. FirstMoved(H, G, k, l, n)
  BY <1>3, <1>5, <1>6, <1>7, <1>8 DEF FirstMoved
<1>10. Placed(H) => Placed(G)
  BY <1>5, <1>9, MoveFirst
<1> QED BY <1>2, <1>4, <1>10 DEF FrameInv

LEMMA FrameForward == CoreInv /\ CoreInv' /\ FrameInv /\ Forward => FrameInv'
<1> SUFFICES ASSUME CoreInv, CoreInv', FrameInv, Forward PROVE FrameInv'
  OBVIOUS
<1> USE DEF CoreInv, kernelVars
<1>1. pc' # "failed"
  BY DEF CountInv
<1>2. /\ tx' = tx \o batch /\ batch' = <<>>
      /\ UNCHANGED <<fq, cq, rx, kernelVars, done>> /\ conf.mode = "l2fwd"
  BY <1>1 DEF Forward
<1>3. PICK H, G, k, l, n : /\ H = Held /\ G = Held' /\ k = Of("batch") /\ l = Of("tx")
                           /\ n = Len(batch)
  OBVIOUS
<1>4. /\ H \in [Holders -> Seq(Frames)] /\ G \in [Holders -> Seq(Frames)]
      /\ H[k] = batch /\ H[l] = tx /\ G[k] = batch' /\ G[l] = tx'
      /\ k \in Holders /\ l \in Holders /\ k # l
  BY <1>3, HeldFacts, HeldNext, HolderNames DEF Of
<1>5. ASSUME NEW h \in Holders \ {k, l}
      PROVE  G[h] = H[h]
  BY <1>2, <1>3, <1>5, Untouched
<1>6. FirstMoved(H, G, k, l, n)
  BY <1>2, <1>3, <1>4, <1>5, WholeSequence DEF FirstMoved, TypeInv
<1>7. Placed(H) => Placed(G)
  BY <1>4, <1>6, MoveFirst
<1> QED BY <1>2, <1>3, <1>7 DEF FrameInv

LEMMA FrameRxDropDequeue ==
  CoreInv /\ CoreInv' /\ FrameInv /\ RxDropDequeue => FrameInv'
<1> SUFFICES ASSUME CoreInv, CoreInv', FrameInv, RxDropDequeue PROVE FrameInv'
  OBVIOUS
<1> USE DEF CoreInv, kernelVars
<1>1. PICK n \in NbAvail(rx[sock], BatchSize) :
        /\ batch' = First(rx[sock], n)
        /\ rx' = [rx EXCEPT ![sock] = Rest(@, n)]
        /\ n > 0 => pc' = "refill"
  BY DEF RxDropDequeue
<1>2. /\ UNCHANGED <<fq, cq, tx, kernelVars, kicked, content, done, outstanding, idx>>
      /\ conf.mode = "rxdrop" /\ batch = <<>>
  BY DEF RxDropDequeue, FrameInv
<1>3. sock \in Socks /\ rx[sock] \in Seq(Frames)
  BY Lengths DEF TypeInv
<1>4. n \in 0..Len(rx[sock]) /\ n \in Nat
  BY <1>1, <1>3, NbAvailBounds, Lengths, Params
<1>5. PICK H, G, k, l : H = Held /\ G = Held' /\ k = <<"rx", sock>> /\ l = Of("batch")
  OBVIOUS
<1>6. /\ H \in [Holders -> Seq(Frames)] /\ G \in [Holders -> Seq(Frames)]
      /\ H[k] = rx[sock] /\ H[l] = batch /\ G[k] = rx'[sock] /\ G[l] = batch'
      /\ k \in Holders /\ l \in Holders /\ k # l
  BY <1>3, <1>5, HeldFacts, HeldNext, HolderNames DEF Of
<1>7. ASSUME NEW h \in Holders \ {k, l}
      PROVE  G[h] = H[h]
  <2>1. \A r \in Socks : h = <<"rx", r>> => rx'[r] = rx[r]
    BY <1>1, <1>5, <1>7 DEF TypeInv
  <2> QED BY <1>2, <1>5, <1>7, <2>1, Untouched
<1>8. rx'[sock] = Rest(rx[sock], n)
  BY <1>1, <1>3 DEF TypeInv
<1>9. batch' = batch \o First(rx[sock], n)
  BY <1>1, <1>2, WholeSequence DEF TypeInv
<1>10. FirstMoved(H, G, k, l, n)
  BY <1>4, <1>6, <1>7, <1>8, <1>9 DEF FirstMoved
<1>11. Placed(H) => Placed(G)
  BY <1>6, <1>10, MoveFirst
<1>12. pc' # "refill" => batch' = <<>>
  <2> SUFFICES ASSUME pc' # "refill" PROVE batch' = <<>>
    OBVIOUS
  <2>1. n = 0
    BY <1>1, <1>4
  <2>2. Len(First(rx[sock], n)) = 0 /\ First(rx[sock], n) \in Seq(Frames)
    BY <1>3, <1>4, <2>1, FirstRest
  <2> QED BY <1>1, <2>2, EmptySeq
<1> QED BY <1>2, <1>5, <1>11, <1>12 DEF FrameInv

\* And so there is for umem_fill_to_kernel_ex in rx_drop.
LEMMA FrameRxDropRefill == CoreInv /\ CoreInv' /\ FrameInv /\ RxDropRefill => FrameInv'
<1> SUFFICES ASSUME CoreInv, CoreInv', FrameInv, RxDropRefill PROVE FrameInv'
  OBVIOUS
<1> USE DEF CoreInv, kernelVars
<1>1. /\ UNCHANGED <<cq, rx, tx, kernelVars, done>> /\ conf.mode = "rxdrop"
      /\ fq' = Filled(batch) /\ batch' = <<>>
  BY OwnSteps DEF RxDropRefill
<1>2. PICK H, G, k, l, n : /\ H = Held /\ G = Held' /\ k = Of("batch") /\ l = Of("fq")
                           /\ n = Len(batch)
  OBVIOUS
<1>3. /\ H \in [Holders -> Seq(Frames)] /\ G \in [Holders -> Seq(Frames)]
      /\ H[k] = batch /\ H[l] = fq /\ G[k] = batch' /\ G[l] = fq'
      /\ k \in Holders /\ l \in Holders /\ k # l
  BY <1>2, HeldFacts, HeldNext, HolderNames DEF Of
<1>4. ASSUME NEW h \in Holders \ {k, l}
      PROVE  G[h] = H[h]
  BY <1>1, <1>2, <1>4, Untouched
<1>5. Placed(H)
  BY <1>1, <1>2 DEF FrameInv
<1>6. fq' = fq \o batch
  <2>1. Len(H[k]) + Len(H[l]) <= NumDescs
    BY <1>3, <1>5, PlacedRoom
  <2> QED BY <1>1, <1>3, <2>1, Lengths DEF Filled, HasFree
<1>7. FirstMoved(H, G, k, l, n)
  BY <1>1, <1>2, <1>3, <1>4, <1>6, WholeSequence DEF FirstMoved, TypeInv
<1>8. Placed(G)
  BY <1>3, <1>5, <1>7, MoveFirst
<1> QED BY <1>1, <1>2, <1>8 DEF FrameInv

LEMMA FrameOthers ==
  ASSUME CoreInv, FrameInv,
         KernelStop \/ CompleteTx \/ Swap \/ RxPoll \/ TxOnlyEnqueue \/ UNCHANGED vars
  PROVE  FrameInv'
<1>1. CASE KernelStop \/ CompleteTx \/ Swap \/ RxPoll \/ UNCHANGED vars
  <2>1. UNCHANGED <<conf, fq, dma, rx, batch, tx, sending, cq, done>>
    BY <1>1 DEF KernelStop, CompleteTx, Swap, RxPoll, vars, kernelVars, loopVars
  <2>2. conf.mode = "rxdrop" /\ pc' # "refill" => pc # "refill"
    BY <1>1 DEF KernelStop, CompleteTx, Swap, RxPoll, vars
  <2>3. Placed(Held') <=> Placed(Held)
    BY <2>1, PlacedKept
  <2> QED BY <2>1, <2>2, <2>3 DEF FrameInv
<1>2. CASE TxOnlyEnqueue
  BY <1>2 DEF TxOnlyEnqueue, FrameInv, kernelVars
<1> QED BY <1>1, <1>2

LEMMA FrameStep == CoreInv /\ CoreInv' /\ FrameInv /\ [Next]_vars => FrameInv'
BY FrameTakeBuffer, FrameReceive, FrameTakeDesc, FrameComplete, FrameDrain, FrameRecycle,
   FrameDequeue, FrameForward, FrameRxDropDequeue, FrameRxDropRefill, FrameOthers
   DEF Next, Kernel, Program

\* xsk_configure fills the fill ring to the brim, with the first frames.
LEMMA InitFrame == Init => FrameInv
<1> SUFFICES ASSUME Init PROVE Placed(Held)
  BY DEF Init, FrameInv
<1>1. TypeInv
  BY InitCore DEF CoreInv
<1>2. PICK H : H = Held
  OBVIOUS
<1>3. /\ H \in [Holders -> Seq(Frames)]
      /\ H[Of("fq")] = [i \in 1..NumDescs |-> i - 1]
      /\ Of("fq") \in Holders
  BY <1>1, <1>2, HeldFacts, HolderNames DEF Init
<1>4. Len(H[Of("fq")]) = NumDescs
  BY <1>3, Params
<1>5. ASSUME NEW h \in Holders, h # Of("fq")
      PROVE  H[h] = <<>>
  <2>1. CASE \E s \in Socks : h = <<"rx", s>>
    BY <1>1, <1>2, <2>1, HeldFacts DEF Init
  <2>2. CASE ~\E s \in Socks : h = <<"rx", s>>
    <3>1. h \in {Of("dma"), Of("batch"), Of("tx"), Of("sending"), Of("cq"), Of("done")}
      BY <1>5, <2>2, HolderNames
    <3> QED BY <1>1, <1>2, <3>1, HeldFacts DEF Init
  <2> QED BY <2>1, <2>2
<1>6. \A h \in Holders : \A i \in 1..Len(H[h]) :
        h = Of("fq") /\ i \in 1..NumDescs /\ H[h][i] = i - 1
  <2> SUFFICES ASSUME NEW h \in Holders, NEW i \in 1..Len(H[h])
               PROVE  h = Of("fq") /\ i \in 1..NumDescs /\ H[h][i] = i - 1
    OBVIOUS
  <2>1. h = Of("fq")
    <3>1. CASE h # Of("fq")
      BY <1>5, <3>1
    <3> QED BY <3>1
  <2> QED BY <1>3, <1>4, <2>1
<1>7. Known(H)
  BY <1>6, Params DEF Known, Initial
<1>8. Once(H)
  <2>1. ASSUME NEW h \in Holders, NEW g \in Holders, NEW i \in 1..Len(H[h]),
               NEW j \in 1..Len(H[g]), H[h][i] = H[g][j]
        PROVE  h = g /\ i = j
    BY <1>6, <2>1, Params
  <2> QED BY <2>1, Zenon DEF Once
<1>9. Somewhere(H)
  <2>1. ASSUME NEW f \in Initial
        PROVE  \E h \in Holders : \E i \in 1..Len(H[h]) : H[h][i] = f
    <3>1. f + 1 \in 1..Len(H[Of("fq")]) /\ (f + 1) - 1 = f
      BY <1>4, Params DEF Initial
    <3>2. H[Of("fq")][f + 1] = f
      BY <1>6, <1>3, <3>1
    <3> QED BY <1>3, <3>1, <3>2
  <2> QED BY <2>1 DEF Somewhere
<1> QED BY <1>2, <1>3, <1>7, <1>8, <1>9, PlacedParts

LEMMA AlwaysFrame == Spec => [](CoreInv /\ FrameInv)
<1>1. CoreInv /\ BatchInv /\ FrameInv /\ [Next]_vars => FrameInv'
  BY StepCore, FrameStep
<1> QED BY <1>1, InitCore, InitFrame, StepCore, BatchesWhole, PTL DEF Spec

\* No frame of the fill ring is lost or in two places, although rx_drop and
\* complete_tx_l2fwd do not look at what umem_fill_to_kernel(_ex) returns and the
\* device completes in any order.
THEOREM FramesConserved == Spec => []FrameConservation
<1>1. CoreInv /\ FrameInv => FrameConservation
  BY DEF FrameInv, FrameConservation, Placed, Initial
<1> QED BY <1>1, AlwaysFrame, PTL

-----------------------------------------------------------------------------
(* What the frames hold in l2fwd *)

\* Received packets are as they came up to the swap, and swapped from there on.
Holding(q, c) == \A j \in 1..Len(q) : content[q[j]] = c
ContentInv ==
  conf.mode = "l2fwd" =>
    /\ Holding(rx[1], "in")
    /\ pc = "swap" => Holding(batch, "in")
    /\ pc = "enq" => Holding(batch, "swapped")
    /\ Holding(tx, "swapped") /\ Holding(sending, "swapped")

\* Two holders have no frame in common.
LEMMA HeldApart ==
  ASSUME TypeInv, Placed(Held), NEW h \in Holders, NEW g \in Holders, h # g
  PROVE  \A i \in 1..Len(Held[h]), j \in 1..Len(Held[g]) : Held[h][i] # Held[g][j]
<1>1. PICK H : H = Held
  OBVIOUS
<1>2. Once(H)
  BY <1>1, HeldFacts, PlacedParts
<1>3. \A i \in 1..Len(H[h]), j \in 1..Len(H[g]) : H[h][i] # H[g][j]
  BY <1>2, OnceAt
<1> QED BY <1>1, <1>3

\* A packet is received into a frame that is nowhere but with the kernel.
LEMMA ContentReceive ==
  ASSUME CoreInv, FrameInv, ContentInv, NEW s \in 1..conf.socks, NEW i \in 1..Len(dma),
         KernelReceive(s, i)
  PROVE  ContentInv'
<1> SUFFICES ASSUME conf.mode = "l2fwd" PROVE ContentInv'
  BY DEF KernelReceive, loopVars, ContentInv
<1> USE DEF CoreInv, KernelReceive, loopVars
<1>1. s = 1 /\ 1 \in Socks /\ rx[1] \in Seq(Frames) /\ dma[i] \in Frames
  BY ConfFacts, Lengths, ElementOfSeq DEF TypeInv
<1>2. /\ \A j \in 1..Len(rx[1]) : dma[i] # rx[1][j] /\ rx[1][j] \in Frames
      /\ \A j \in 1..Len(batch) : dma[i] # batch[j] /\ batch[j] \in Frames
      /\ \A j \in 1..Len(tx) : dma[i] # tx[j] /\ tx[j] \in Frames
      /\ \A j \in 1..Len(sending) : dma[i] # sending[j] /\ sending[j] \in Frames
  <2>1. Placed(Held)
    BY DEF FrameInv
  <2>2. ASSUME NEW g \in Holders, g # Of("dma")
        PROVE  \A j \in 1..Len(Held[g]) : dma[i] # Held[g][j]
    BY <2>1, <2>2, HeldApart, HeldFacts, HolderNames
  <2>3. /\ <<"rx", 1>> \in Holders /\ <<"rx", 1>> # Of("dma") /\ Of("batch") # Of("dma")
        /\ Of("tx") # Of("dma") /\ Of("sending") # Of("dma")
    BY <1>1, HolderNames DEF Of
  <2>4. /\ \A j \in 1..Len(rx[1]) : rx[1][j] \in Frames
        /\ \A j \in 1..Len(batch) : batch[j] \in Frames
        /\ \A j \in 1..Len(tx) : tx[j] \in Frames
        /\ \A j \in 1..Len(sending) : sending[j] \in Frames
    BY <1>1, ElementOfSeq DEF TypeInv
  <2>5. \A j \in 1..Len(rx[1]) : dma[i] # rx[1][j]
    BY <1>1, <2>2, <2>3, HeldFacts
  <2>6. \A j \in 1..Len(batch) : dma[i] # batch[j]
    BY <2>2, <2>3, HeldFacts, HolderNames
  <2>7. \A j \in 1..Len(tx) : dma[i] # tx[j]
    BY <2>2, <2>3, HeldFacts, HolderNames
  <2>8. \A j \in 1..Len(sending) : dma[i] # sending[j]
    BY <2>2, <2>3, HeldFacts, HolderNames
  <2> QED BY <2>4, <2>5, <2>6, <2>7, <2>8
<1>3. \A f \in Frames : content'[f] = IF f = dma[i] THEN "in" ELSE content[f]
  BY DEF TypeInv
<1>4. Holding(rx[1], "in")'
  <2>1. rx'[1] = Append(rx[1], dma[i])
    BY <1>1 DEF TypeInv
  <2>2. /\ Len(Append(rx[1], dma[i])) = Len(rx[1]) + 1
        /\ \A j \in 1..Len(rx[1]) : Append(rx[1], dma[i])[j] = rx[1][j]
        /\ Append(rx[1], dma[i])[Len(rx[1]) + 1] = dma[i]
        /\ Len(rx[1]) \in Nat
    BY <1>1, AppendProperties, LenProperties
  <2>3. ASSUME NEW j \in 1..Len(rx[1]) + 1
        PROVE  content'[rx'[1][j]] = "in"
    <3>1. CASE j = Len(rx[1]) + 1
      BY <1>1, <1>3, <2>1, <2>2, <3>1
    <3>2. CASE j \in 1..Len(rx[1])
      BY <1>2, <1>3, <2>1, <2>2, <3>2 DEF ContentInv, Holding
    <3> QED BY <2>2, <3>1, <3>2
  <2> QED BY <2>1, <2>2, <2>3 DEF Holding
<1>5. /\ pc' = "swap" => Holding(batch, "in")'
      /\ pc' = "enq" => Holding(batch, "swapped")'
      /\ Holding(tx, "swapped")' /\ Holding(sending, "swapped")'
  BY <1>2, <1>3 DEF ContentInv, Holding
<1> QED BY <1>4, <1>5 DEF ContentInv

\* swap_mac_addresses changes the packets of the batch and no others.
LEMMA ContentSwap == CoreInv /\ FrameInv /\ ContentInv /\ Swap => ContentInv'
<1> SUFFICES ASSUME CoreInv, FrameInv, ContentInv, Swap, conf.mode = "l2fwd"
             PROVE  ContentInv'
  BY DEF Swap, loopVars, ContentInv
<1> USE DEF CoreInv, loopVars
<1>1. 1 \in Socks /\ rx[1] \in Seq(Frames)
  BY Lengths
<1>2. /\ \A j \in 1..Len(rx[1]) : rx[1][j] \notin ToSet(batch) /\ rx[1][j] \in Frames
      /\ \A j \in 1..Len(tx) : tx[j] \notin ToSet(batch) /\ tx[j] \in Frames
      /\ \A j \in 1..Len(sending) : sending[j] \notin ToSet(batch) /\ sending[j] \in Frames
  <2>1. Placed(Held) /\ DOMAIN batch = 1..Len(batch)
    BY LenProperties DEF FrameInv, TypeInv
  <2>2. ASSUME NEW g \in Holders, g # Of("batch")
        PROVE  \A j \in 1..Len(Held[g]) : Held[g][j] \notin ToSet(batch)
    BY <2>1, <2>2, HeldApart, HeldFacts, HolderNames DEF ToSet
  <2>3. /\ <<"rx", 1>> \in Holders /\ <<"rx", 1>> # Of("batch")
        /\ Of("tx") # Of("batch") /\ Of("sending") # Of("batch")
    BY <1>1, HolderNames DEF Of
  <2>4. /\ \A j \in 1..Len(rx[1]) : rx[1][j] \in Frames
        /\ \A j \in 1..Len(tx) : tx[j] \in Frames
        /\ \A j \in 1..Len(sending) : sending[j] \in Frames
    BY <1>1, ElementOfSeq DEF TypeInv
  <2> QED BY <1>1, <2>2, <2>3, <2>4, HeldFacts, HolderNames
<1>3. \A f \in Frames : f \notin ToSet(batch) => content'[f] = content[f]
  BY DEF Swap
<1>4. Holding(rx[1], "in")' /\ Holding(tx, "swapped")' /\ Holding(sending, "swapped")'
  <2>1. UNCHANGED <<rx, tx, sending>>
    BY DEF Swap, kernelVars
  <2>2. /\ \A j \in 1..Len(rx[1]) : content'[rx[1][j]] = content[rx[1][j]]
        /\ \A j \in 1..Len(tx) : content'[tx[j]] = content[tx[j]]
        /\ \A j \in 1..Len(sending) : content'[sending[j]] = content[sending[j]]
    BY <1>2, <1>3
  <2> QED BY <2>1, <2>2 DEF ContentInv, Holding
<1>5. Holding(batch, "swapped")'
  <2>1. ASSUME NEW j \in 1..Len(batch)
        PROVE  content'[batch[j]] = "swapped"
    <3>1. batch[j] \in Frames /\ batch[j] \in ToSet(batch)
      BY ElementOfSeq, LenProperties DEF TypeInv, ToSet
    <3>2. content[batch[j]] = "in"
      BY DEF Swap, ContentInv, Holding
    <3> QED BY <3>1, <3>2 DEF Swap
  <2> QED BY <2>1 DEF Swap, Holding
<1> QED BY <1>4, <1>5 DEF Swap, ContentInv

\* Frames that are only passed on: by the kernel from the TX ring, out of what is
\* sent, and by the loop from the RX ring to its array and from there to the TX ring.
LEMMA ContentTakeDesc == CoreInv /\ ContentInv /\ KernelTakeDesc => ContentInv'
<1> SUFFICES ASSUME CoreInv, ContentInv, KernelTakeDesc, conf.mode = "l2fwd"
             PROVE  ContentInv'
  BY DEF KernelTakeDesc, loopVars, ContentInv
<1> USE DEF CoreInv, KernelTakeDesc, loopVars
<1>1. /\ Len(tx) \in Nat /\ 1 \in 1..Len(tx) /\ Head(tx) = tx[1] /\ Head(tx) \in Frames
      /\ Len(Tail(tx)) = Len(tx) - 1
      /\ \A j \in 1..Len(tx) - 1 : Tail(tx)[j] = tx[j + 1]
  BY HeadTailProperties, LenProperties, EmptySeq DEF TypeInv
<1>2. Holding(tx, "swapped")'
  <2>1. ASSUME NEW j \in 1..Len(tx) - 1
        PROVE  content[Tail(tx)[j]] = "swapped"
    <3>1. j + 1 \in 1..Len(tx)
      BY <1>1
    <3> QED BY <1>1, <3>1 DEF ContentInv, Holding
  <2> QED BY <1>1, <2>1 DEF Holding
<1>3. Holding(sending, "swapped")'
  <2>1. /\ Len(Append(sending, tx[1])) = Len(sending) + 1 /\ Len(sending) \in Nat
        /\ \A j \in 1..Len(sending) : Append(sending, tx[1])[j] = sending[j]
        /\ Append(sending, tx[1])[Len(sending) + 1] = tx[1]
    BY <1>1, AppendProperties, LenProperties DEF TypeInv
  <2>2. ASSUME NEW j \in 1..Len(sending) + 1
        PROVE  content[Append(sending, tx[1])[j]] = "swapped"
    <3>1. CASE j = Len(sending) + 1
      BY <1>1, <2>1, <3>1 DEF ContentInv, Holding
    <3>2. CASE j \in 1..Len(sending)
      BY <2>1, <3>2 DEF ContentInv, Holding
    <3> QED BY <2>1, <3>1, <3>2
  <2> QED BY <1>1, <2>1, <2>2 DEF Holding
<1> QED BY <1>2, <1>3 DEF ContentInv, Holding

LEMMA ContentComplete ==
  ASSUME CoreInv, ContentInv, NEW f \in Frames, KernelComplete(f)
  PROVE  ContentInv'
<1> USE DEF CoreInv, loopVars
<1>1. PICK i \in 1..Len(sending) :
        /\ sending' = RemoveAt(sending, i)
        /\ UNCHANGED <<fq, rx, tx, dma, kicked, content, pc, loopVars>>
  BY DEF KernelComplete
<1> SUFFICES ASSUME conf.mode = "l2fwd" PROVE ContentInv'
  BY <1>1 DEF ContentInv
<1>2. /\ Len(RemoveAt(sending, i)) = Len(sending) - 1 /\ Len(sending) \in Nat
      /\ \A j \in 1..Len(sending) - 1 :
           RemoveAt(sending, i)[j] = IF j <= i - 1 THEN sending[j] ELSE sending[j + 1]
  BY RemoveAtProperties, RemoveAtElements, LenProperties DEF TypeInv
<1>3. ASSUME NEW j \in 1..Len(sending) - 1
      PROVE  content[RemoveAt(sending, i)[j]] = "swapped"
  <2>1. j \in 1..Len(sending) /\ j + 1 \in 1..Len(sending)
    BY <1>2
  <2> QED BY <1>2, <2>1 DEF ContentInv, Holding
<1>4. Holding(sending, "swapped")'
  BY <1>1, <1>2, <1>3 DEF Holding
<1> QED BY <1>1, <1>4 DEF ContentInv, Holding

LEMMA ContentDequeue == CoreInv /\ ContentInv /\ Dequeue => ContentInv'
<1> SUFFICES ASSUME CoreInv, ContentInv, Dequeue PROVE ContentInv'
  OBVIOUS
<1> USE DEF CoreInv, kernelVars
<1>1. PICK n \in NbAvail(rx[1], BatchSize) :
        /\ batch' = First(rx[1], n)
        /\ rx' = [rx EXCEPT ![1] = Rest(@, n)]
        /\ pc' = IF n > 0 THEN "swap" ELSE "complete"
  BY DEF Dequeue
<1>2. /\ UNCHANGED <<tx, kernelVars, content>> /\ conf.mode = "l2fwd"
  BY DEF Dequeue
<1>3. n \in 0..Len(rx[1]) /\ 1 \in Socks /\ rx[1] \in Seq(Frames)
  BY <1>1, NbAvailBounds, Lengths, Params
<1>4. PICK q \in Seq(Frames) : q = rx[1] /\ n \in 0..Len(q)
  BY <1>3
<1>5. /\ Len(q) \in Nat /\ Len(First(q, n)) = n /\ Len(Rest(q, n)) = Len(q) - n
      /\ \A j \in 1..n : First(q, n)[j] = q[j]
      /\ \A j \in 1..Len(q) - n : Rest(q, n)[j] = q[n + j]
  <2>1. Len(q) \in Nat
    BY <1>4, LenProperties
  <2>2. n \in 0..Len(q)
    BY <1>4
  <2> QED BY <2>1, <2>2, FirstRest
<1>6. \A j \in 1..Len(q) : content[q[j]] = "in"
  BY <1>2, <1>4 DEF ContentInv, Holding
<1>7. Holding(batch, "in")'
  <2>1. ASSUME NEW j \in 1..n
        PROVE  content[First(q, n)[j]] = "in"
    <3>1. j \in 1..Len(q)
      BY <1>3, <1>4, <1>5
    <3> QED BY <1>5, <1>6, <3>1
  <2> QED BY <1>1, <1>2, <1>4, <1>5, <2>1 DEF Holding
<1>8. Holding(rx[1], "in")'
  <2>1. ASSUME NEW j \in 1..Len(q) - n
        PROVE  content[Rest(q, n)[j]] = "in"
    <3>1. n + j \in 1..Len(q)
      BY <1>3, <1>4, <1>5
    <3> QED BY <1>5, <1>6, <3>1
  <2>2. rx'[1] = Rest(q, n)
    BY <1>1, <1>3, <1>4 DEF TypeInv
  <2> QED BY <1>2, <1>5, <2>1, <2>2 DEF Holding
<1>9. pc' # "enq"
  BY <1>1
<1> QED BY <1>2, <1>7, <1>8, <1>9 DEF ContentInv, Holding

LEMMA ContentForward == CoreInv /\ CoreInv' /\ ContentInv /\ Forward => ContentInv'
<1> SUFFICES ASSUME CoreInv, CoreInv', ContentInv, Forward PROVE ContentInv'
  OBVIOUS
<1> USE DEF CoreInv, kernelVars
<1>1. pc' # "failed"
  BY DEF CountInv
<1>2. /\ tx' = tx \o batch /\ pc' = "complete" /\ UNCHANGED <<rx, sending, content, conf>>
      /\ conf.mode = "l2fwd" /\ pc = "enq"
  BY <1>1 DEF Forward
<1>3. /\ Len(tx \o batch) = Len(tx) + Len(batch) /\ Len(tx) \in Nat /\ Len(batch) \in Nat
      /\ \A j \in 1..Len(tx) + Len(batch) :
           (tx \o batch)[j] = IF j <= Len(tx) THEN tx[j] ELSE batch[j - Len(tx)]
  BY ConcatProperties, LenProperties DEF TypeInv
<1>4. ASSUME NEW j \in 1..Len(tx) + Len(batch)
      PROVE  content[(tx \o batch)[j]] = "swapped"
  <2>1. CASE j <= Len(tx)
    <3>1. j \in 1..Len(tx)
      BY <1>3, <2>1
    <3> QED BY <1>2, <1>3, <2>1, <3>1 DEF ContentInv, Holding
  <2>2. CASE ~(j <= Len(tx))
    <3>1. j - Len(tx) \in 1..Len(batch)
      BY <1>3, <2>2
    <3> QED BY <1>2, <1>3, <2>2, <3>1 DEF ContentInv, Holding
  <2> QED BY <2>1, <2>2
<1>5. Holding(tx, "swapped")'
  BY <1>2, <1>3, <1>4 DEF Holding
<1> QED BY <1>2, <1>5 DEF ContentInv, Holding

LEMMA ContentOthers ==
  ASSUME ContentInv,
         \/ KernelTakeBuffer \/ KernelStop \/ CompleteTx \/ Drain \/ Recycle
         \/ RxPoll \/ RxDropDequeue \/ RxDropRefill \/ TxOnlyEnqueue \/ UNCHANGED vars,
         TypeInv
  PROVE  ContentInv'
<1>1. CASE KernelTakeBuffer \/ KernelStop \/ UNCHANGED vars
  <2>1. UNCHANGED <<conf, pc, content, rx, batch, tx, sending>>
    BY <1>1 DEF KernelTakeBuffer, KernelStop, vars, kernelVars, loopVars
  <2> QED BY <2>1 DEF ContentInv, Holding
<1>2. CASE CompleteTx \/ Drain \/ Recycle
  <2>1. UNCHANGED <<conf, content, rx, batch, tx, sending>>
    BY <1>2 DEF CompleteTx, Drain, Recycle, kernelVars, loopVars
  <2>2. conf.mode = "l2fwd" => pc' \notin {"swap", "enq"}
    BY <1>2 DEF CompleteTx, Drain, Recycle, AfterComplete
  <2> QED BY <2>1, <2>2 DEF ContentInv, Holding
<1>3. CASE RxPoll \/ RxDropDequeue \/ RxDropRefill \/ TxOnlyEnqueue
  <2>1. conf' = conf /\ conf.mode # "l2fwd"
    BY <1>3, OwnSteps DEF RxPoll, RxDropDequeue, RxDropRefill, TxOnlyEnqueue, kernelVars
  <2> QED BY <2>1 DEF ContentInv
<1> QED BY <1>1, <1>2, <1>3

LEMMA ContentStep ==
  CoreInv /\ CoreInv' /\ FrameInv /\ ContentInv /\ [Next]_vars => ContentInv'
<1> SUFFICES ASSUME CoreInv, CoreInv', FrameInv, ContentInv, [Next]_vars PROVE ContentInv'
  OBVIOUS
<1>1. TypeInv
  BY DEF CoreInv
<1> QED BY <1>1, ContentReceive, ContentTakeDesc, ContentComplete, ContentDequeue, ContentSwap,
           ContentForward, ContentOthers
        DEF Next, Kernel, Program

LEMMA InitContent == Init => ContentInv
<1> SUFFICES ASSUME Init PROVE ContentInv
  OBVIOUS
<1>1. 1 \in Socks /\ Len(<<>>) = 0
  BY Params DEF Socks
<1>2. \A c : Holding(<<>>, c)
  BY <1>1 DEF Holding
<1> QED BY <1>1, <1>2 DEF Init, ContentInv

\* What l2fwd transmits has its addresses swapped, and once: its frame is not
\* received into, and not in another batch, before the device is done with it.
THEOREM SwappedOnce == Spec => []ForwardsSwapped
<1>1. CoreInv /\ FrameInv /\ ContentInv => ForwardsSwapped
  <2> SUFFICES ASSUME CoreInv, ContentInv, conf.mode = "l2fwd",
                      NEW f \in ToSet(tx \o sending)
               PROVE  content[f] = "swapped"
    BY DEF ForwardsSwapped
  <2>1. /\ tx \o sending \in Seq(Frames) /\ Len(tx \o sending) = Len(tx) + Len(sending)
        /\ Len(tx) \in Nat /\ Len(sending) \in Nat
        /\ \A j \in 1..Len(tx) + Len(sending) :
             (tx \o sending)[j] = IF j <= Len(tx) THEN tx[j] ELSE sending[j - Len(tx)]
    BY ConcatProperties, LenProperties DEF CoreInv, TypeInv
  <2>2. PICK j \in 1..Len(tx) + Len(sending) : f = (tx \o sending)[j]
    BY <2>1, LenProperties DEF ToSet
  <2>3. CASE j <= Len(tx)
    <3>1. j \in 1..Len(tx)
      BY <2>1, <2>3
    <3> QED BY <2>1, <2>2, <2>3, <3>1 DEF ContentInv, Holding
  <2>4. CASE ~(j <= Len(tx))
    <3>1. j - Len(tx) \in 1..Len(sending)
      BY <2>1, <2>4
    <3> QED BY <2>1, <2>2, <2>4, <3>1 DEF ContentInv, Holding
  <2> QED BY <2>3, <2>4
<1>2. CoreInv /\ BatchInv /\ FrameInv /\ ContentInv /\ [Next]_vars => FrameInv' /\ ContentInv'
  BY StepCore, FrameStep, ContentStep
<1> QED BY <1>1, <1>2, InitCore, InitFrame, InitContent, StepCore, BatchesWhole, PTL DEF Spec

=============================================================================
