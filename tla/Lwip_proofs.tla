---------------------------- MODULE Lwip_proofs ----------------------------
(***************************************************************************)
(* Proofs about the two modules of the lwIP side: AfXdpIf, for every ring  *)
(* size, number of frames and set of packets that AfXdpIfAssumption        *)
(* allows, and Ping, for every counter width, life of a packet and size of *)
(* the socket that PingAssumption allows.                                  *)
(***************************************************************************)
EXTENDS Integers, AfXdpIf, Ping, SequenceTheorems, FiniteSetTheorems, TLAPS

-----------------------------------------------------------------------------
(* Sequences *)

\* An entry is taken off a ring.
LEMMA Taken ==
  ASSUME NEW S, NEW q \in Seq(S), q # <<>>
  PROVE  /\ Len(q) \in Nat /\ 1 \in 1..Len(q)
         /\ Head(q) \in S /\ Head(q) = q[1]
         /\ Tail(q) \in Seq(S) /\ Len(Tail(q)) = Len(q) - 1
         /\ \A i \in 1..Len(q) - 1 : Tail(q)[i] = q[i + 1]
<1>1. Len(q) \in Nat /\ Len(q) # 0
  BY LenProperties, EmptySeq
<1>2. /\ Head(q) \in S /\ Tail(q) \in Seq(S) /\ Len(Tail(q)) = Len(q) - 1
      /\ \A i \in 1..Len(Tail(q)) : Tail(q)[i] = q[i + 1]
  BY HeadTailProperties
<1> QED BY <1>1, <1>2

\* An entry is put on a ring.
LEMMA Added ==
  ASSUME NEW S, NEW q \in Seq(S), NEW e \in S
  PROVE  /\ Len(q) \in Nat
         /\ Append(q, e) \in Seq(S) /\ Len(Append(q, e)) = Len(q) + 1
         /\ \A i \in 1..Len(q) : Append(q, e)[i] = q[i]
         /\ Append(q, e)[Len(q) + 1] = e
BY LenProperties, AppendProperties

-----------------------------------------------------------------------------
(* Types *)

Addresses == 0..(NumDescs - 1)

\* Room on the TX ring is found one step before it is used.
TypeInv ==
  /\ TypeOK
  /\ txpc = "publish" => HasFree(tx) /\ pbuf \in Packets

\* The parameters are numbers, and the frames are addresses.
LEMMA Params ==
  /\ NumDescs \in Nat /\ NumDescs > 0
  /\ NumFrames \in Nat /\ 1 <= NumFrames /\ NumFrames <= NumDescs
  /\ TxFrame \in Frames /\ Frames \subseteq Addresses
  /\ "blank" \notin Packets
BY AfXdpIfAssumption DEF TxFrame, Frames, Addresses

LEMMA TypeInit == Init => TypeInv
<1> SUFFICES ASSUME Init PROVE TypeInv
  OBVIOUS
<1>1. fq \in Seq(Addresses) /\ Len(fq) = NumDescs
  <2>1. \A i \in 1..NumDescs : i - 1 \in Addresses
    BY Params DEF Addresses
  <2>2. fq \in [1..NumDescs -> Addresses]
    BY <2>1 DEF Init
  <2>3. fq \in Seq(Addresses)
    BY <2>2, Params, IsASeq
  <2> QED BY <2>2, <2>3, Params, LenProperties
<1>2. /\ cq \in Seq({TxFrame}) /\ rx \in Seq(RxDescs) /\ tx \in Seq(Packets)
      /\ Len(cq) = 0 /\ Len(rx) = 0 /\ Len(tx) = 0
  BY EmptySeq DEF Init
<1> QED BY <1>1, <1>2, Params DEF Init, TypeInv, TypeOK, Addresses

LEMMA TypeKernel == TypeInv /\ Kernel => TypeInv'
<1> SUFFICES ASSUME TypeInv, Kernel PROVE TypeInv'
  OBVIOUS
<1> USE DEF inVars, outVars, ringVars, kernelVars
<1>1. CASE KernelTakeBuffer
  BY <1>1, Taken, Params DEF KernelTakeBuffer, TypeInv, TypeOK, HasFree
<1>2. ASSUME NEW f \in dma, NEW p \in Packets, KernelReceive(f, p)
      PROVE  TypeInv'
  <2>1. f \in Frames /\ [frame |-> f, arrived |-> p] \in RxDescs
    BY DEF TypeInv, TypeOK, RxDescs
  <2>2. rx' \in Seq(RxDescs) /\ Len(rx') = Len(rx) + 1 /\ Len(rx) \in Nat
    BY <1>2, <2>1, Added DEF KernelReceive, TypeInv, TypeOK
  <2>3. content' \in [Frames -> Packets \cup {"blank"}]
    BY <1>2, <2>1 DEF KernelReceive, TypeInv, TypeOK
  <2> QED BY <1>2, <2>2, <2>3, Params DEF KernelReceive, TypeInv, TypeOK, HasFree
<1>3. CASE KernelTransmit
  <2>1. tx' \in Seq(Packets) /\ Len(tx') = Len(tx) - 1 /\ Len(tx) \in Nat
    BY <1>3, Taken DEF KernelTransmit, TypeInv, TypeOK
  <2>2. Len(cq) \in Nat
    BY LenProperties DEF TypeInv, TypeOK
  <2>3. wire' \in [intact : BOOLEAN, nr : {0, 1}]
    BY <1>3 DEF KernelTransmit, TypeInv, TypeOK
  <2> QED BY <1>3, <2>1, <2>2, <2>3, Params DEF KernelTransmit, TypeInv, TypeOK, HasFree
<1>4. CASE KernelStop
  BY <1>4 DEF KernelStop, TypeInv, TypeOK, HasFree
<1>5. CASE KernelComplete
  <2>1. cq' \in Seq({TxFrame}) /\ Len(cq') = Len(cq) + 1 /\ Len(cq) \in Nat
    BY <1>5, Added DEF KernelComplete, TypeInv, TypeOK
  <2> QED BY <1>5, <2>1, Params DEF KernelComplete, TypeInv, TypeOK, HasFree
<1> QED BY <1>1, <1>2, <1>3, <1>4, <1>5 DEF Kernel

LEMMA TypeInput == TypeInv /\ Input => TypeInv'
<1> SUFFICES ASSUME TypeInv, Input PROVE TypeInv'
  OBVIOUS
<1> USE DEF inVars, outVars, ringVars, kernelVars
<1>1. desc.frame \in Frames /\ desc.frame \in Addresses
  BY Params DEF TypeInv, TypeOK, RxDescs, NoDesc
<1>2. CASE InputDequeue
  <2>1. /\ rx' \in Seq(RxDescs) /\ Len(rx') = Len(rx) - 1 /\ Len(rx) \in Nat
        /\ desc' \in RxDescs
    BY <1>2, Taken DEF InputDequeue, TypeInv, TypeOK
  <2> QED BY <1>2, <2>1, Params DEF InputDequeue, TypeInv, TypeOK, HasFree
<1>3. CASE InputPass
  BY <1>1, <1>3 DEF InputPass, TypeInv, TypeOK, HasFree
<1>4. CASE InputRefill
  <2>1. fq' \in Seq(Addresses) /\ Len(fq') <= NumDescs
    <3>1. fq \in Seq(Addresses) /\ Len(fq) <= NumDescs
      BY DEF TypeInv, TypeOK, Addresses
    <3>2. /\ Append(fq, desc.frame) \in Seq(Addresses)
          /\ Len(Append(fq, desc.frame)) = Len(fq) + 1 /\ Len(fq) \in Nat
      BY <1>1, <3>1, Added
    <3> QED BY <1>4, <3>1, <3>2, Params DEF InputRefill, HasFree
  <2> QED BY <1>4, <2>1 DEF InputRefill, TypeInv, TypeOK, HasFree, Addresses
<1> QED BY <1>2, <1>3, <1>4 DEF Input

LEMMA TypeOutput == TypeInv /\ Output => TypeInv'
<1> SUFFICES ASSUME TypeInv, Output PROVE TypeInv'
  OBVIOUS
<1> USE DEF inVars, outVars, ringVars, kernelVars
<1>1. ASSUME NEW p \in Packets, OutputCopy(p) PROVE TypeInv'
  BY <1>1, Params DEF OutputCopy, TypeInv, TypeOK, HasFree
<1>2. CASE OutputPublish
  <2>1. tx' \in Seq(Packets) /\ Len(tx') = Len(tx) + 1 /\ Len(tx) \in Nat
    BY <1>2, Added DEF OutputPublish, TypeInv, TypeOK
  <2> QED BY <1>2, <2>1, Params DEF OutputPublish, TypeInv, TypeOK, HasFree
<1>3. CASE OutputKick
  BY <1>3 DEF OutputKick, TypeInv, TypeOK, HasFree
<1>4. CASE OutputDrain
  <2>1. cq' \in Seq({TxFrame}) /\ Len(cq') <= Len(cq) /\ Len(cq') \in Nat /\ Len(cq) \in Nat
    BY <1>4, Taken, LenProperties DEF OutputDrain, TypeInv, TypeOK
  <2> QED BY <1>4, <2>1, Params DEF OutputDrain, TypeInv, TypeOK, HasFree
<1> QED BY <1>1, <1>2, <1>3, <1>4 DEF Output

LEMMA TypeStep == TypeInv /\ [Next]_vars => TypeInv'
<1>1. TypeInv /\ UNCHANGED vars => TypeInv'
  BY DEF vars, TypeInv, TypeOK, HasFree
<1> QED BY <1>1, TypeKernel, TypeInput, TypeOutput DEF Next

-----------------------------------------------------------------------------
(* Where the frames are *)

\* No frame is in two places on the receive side.
Once ==
  /\ \A i, j \in 1..Len(fq) : fq[i] = fq[j] => i = j
  /\ \A i, j \in 1..Len(rx) : rx[i].frame = rx[j].frame => i = j
  /\ \A i \in 1..Len(fq) : fq[i] \notin dma /\ ~Held(fq[i])
  /\ \A i \in 1..Len(fq), j \in 1..Len(rx) : fq[i] # rx[j].frame
  /\ \A j \in 1..Len(rx) : rx[j].frame \notin dma /\ ~Held(rx[j].frame)
  /\ \A f \in dma : ~Held(f)

\* And each is in one.
Somewhere ==
  \A f \in Frames : \/ \E i \in 1..Len(fq) : fq[i] = f
                    \/ \E j \in 1..Len(rx) : rx[j].frame = f
                    \/ f \in dma
                    \/ Held(f)

\* There are no more of them than the fill ring has room for.
InHand == IF rxpc = "poll" THEN 0 ELSE 1
Counted ==
  /\ IsFiniteSet(dma)
  /\ Len(fq) + Len(rx) + Cardinality(dma) + InHand <= NumDescs

PlaceInv == Once /\ Somewhere /\ Counted

LEMMA Numbers ==
  ASSUME TypeInv, Counted
  PROVE  Len(fq) \in Nat /\ Len(rx) \in Nat /\ Cardinality(dma) \in Nat
BY LenProperties, FS_CardinalityType DEF TypeInv, TypeOK, Counted

\* xsk_configure: the fill ring has every address once.
LEMMA PlaceInit == Init => PlaceInv
<1> SUFFICES ASSUME Init PROVE PlaceInv
  OBVIOUS
<1>1. Len(fq) = NumDescs /\ \A i \in 1..Len(fq) : fq[i] = i - 1
  <2>1. fq \in Seq(Addresses)
    BY TypeInit DEF TypeInv, TypeOK, Addresses
  <2>2. Len(fq) = NumDescs
    BY <2>1, Params, LenProperties DEF Init
  <2> QED BY <2>2 DEF Init
<1>2. Len(rx) = 0
  BY EmptySeq DEF Init
<1>3. Once
  BY <1>1, <1>2, Params DEF Init, Once, Held
<1>4. Somewhere
  <2>1. ASSUME NEW f \in Frames PROVE \E i \in 1..Len(fq) : fq[i] = f
    <3>1. f \in Nat /\ f + 1 \in 1..Len(fq)
      BY <1>1, Params DEF Frames
    <3>2. fq[f + 1] = f
      <4>1. fq[f + 1] = (f + 1) - 1
        BY <1>1, <3>1
      <4> QED BY <3>1, <4>1
    <3> QED BY <3>1, <3>2
  <2> QED BY <2>1 DEF Somewhere
<1>5. Counted
  BY <1>1, <1>2, Params, FS_EmptySet DEF Init, Counted, InHand
<1> QED BY <1>3, <1>4, <1>5 DEF PlaceInv

\* The kernel moves a frame from the fill ring to its buffers; an address beyond
\* the UMEM is dropped.
LEMMA PlaceTakeBuffer == TypeInv /\ PlaceInv /\ KernelTakeBuffer => PlaceInv'
<1> SUFFICES ASSUME TypeInv, PlaceInv, KernelTakeBuffer PROVE PlaceInv'
  OBVIOUS
<1> USE DEF inVars, outVars
<1>1. /\ Len(fq') = Len(fq) - 1 /\ Len(fq) \in Nat /\ 1 \in 1..Len(fq)
      /\ \A i \in 1..Len(fq') : fq'[i] = fq[i + 1] /\ i + 1 \in 1..Len(fq)
      /\ Head(fq) = fq[1]
  BY Taken DEF KernelTakeBuffer, TypeInv, TypeOK
<1>2. /\ rx' = rx /\ rxpc' = rxpc /\ desc' = desc
      /\ dma' = IF fq[1] \in Frames THEN dma \cup {fq[1]} ELSE dma
  BY <1>1 DEF KernelTakeBuffer
<1>3. Once'
  <2>1. \A i \in 1..Len(fq') : fq'[i] # fq[1]
    BY <1>1 DEF PlaceInv, Once
  <2> QED BY <1>1, <1>2, <2>1 DEF PlaceInv, Once, Held
<1>4. Somewhere'
  <2>1. ASSUME NEW f \in Frames, NEW i \in 1..Len(fq), fq[i] = f
        PROVE  f \in dma' \/ \E j \in 1..Len(fq') : fq'[j] = f
    <3>1. CASE i = 1
      BY <1>2, <2>1, <3>1
    <3>2. CASE i # 1
      <4>1. i - 1 \in 1..Len(fq') /\ i - 1 + 1 = i
        BY <1>1, <3>2
      <4> QED BY <1>1, <2>1, <4>1
    <3> QED BY <3>1, <3>2
  <2> QED BY <1>2, <2>1 DEF PlaceInv, Somewhere, Held
<1>5. Counted'
  <2>1. /\ IsFiniteSet(dma')
        /\ Cardinality(dma') <= Cardinality(dma) + 1 /\ Cardinality(dma') \in Nat
    <3>1. IsFiniteSet(dma) /\ Cardinality(dma) \in Nat
      BY Numbers DEF PlaceInv, Counted
    <3>2. /\ IsFiniteSet(dma \cup {fq[1]})
          /\ Cardinality(dma \cup {fq[1]}) =
               IF fq[1] \in dma THEN Cardinality(dma) ELSE Cardinality(dma) + 1
      BY <3>1, FS_AddElement
    <3> QED BY <1>2, <3>1, <3>2
  <2> QED BY <1>1, <1>2, <2>1, Numbers, Params DEF PlaceInv, Counted, InHand
<1> QED BY <1>3, <1>4, <1>5 DEF PlaceInv

\* And from there to the RX ring.
LEMMA PlaceReceive ==
  ASSUME TypeInv, PlaceInv, NEW f \in dma, NEW p \in Packets, KernelReceive(f, p)
  PROVE  PlaceInv'
<1> USE DEF inVars, outVars
<1>1. f \in Frames /\ [frame |-> f, arrived |-> p] \in RxDescs
  BY DEF TypeInv, TypeOK, RxDescs
<1>2. /\ Len(rx') = Len(rx) + 1 /\ Len(rx) \in Nat
      /\ \A i \in 1..Len(rx) : rx'[i] = rx[i]
      /\ rx'[Len(rx) + 1].frame = f
  BY <1>1, Added DEF KernelReceive, TypeInv, TypeOK
<1>3. fq' = fq /\ rxpc' = rxpc /\ desc' = desc /\ dma' = dma \ {f}
  BY DEF KernelReceive
<1>4. \A j \in 1..Len(rx') : j \in 1..Len(rx) \/ j = Len(rx) + 1
  BY <1>2
<1>5. Once'
  <2>1. \A j \in 1..Len(rx') :
          \/ j \in 1..Len(rx) /\ rx'[j].frame = rx[j].frame /\ rx[j].frame # f
          \/ j = Len(rx) + 1 /\ rx'[j].frame = f
    BY <1>2, <1>4 DEF PlaceInv, Once
  <2>2. \A i, j \in 1..Len(rx') : rx'[i].frame = rx'[j].frame => i = j
    BY <2>1 DEF PlaceInv, Once
  <2>3. /\ \A i \in 1..Len(fq) : fq[i] # f
        /\ ~Held(f) /\ f \notin dma'
    BY <1>3 DEF PlaceInv, Once
  <2>4. \A i \in 1..Len(fq), j \in 1..Len(rx') : fq[i] # rx'[j].frame
    BY <2>1, <2>3 DEF PlaceInv, Once
  <2>5. \A j \in 1..Len(rx') : rx'[j].frame \notin dma' /\ ~Held(rx'[j].frame)
    BY <1>3, <2>1, <2>3 DEF PlaceInv, Once
  <2> QED BY <1>3, <2>2, <2>4, <2>5 DEF PlaceInv, Once, Held
<1>6. Somewhere'
  <2>1. Len(rx) + 1 \in 1..Len(rx') /\ \A j \in 1..Len(rx) : j \in 1..Len(rx')
    BY <1>2
  <2> QED BY <1>2, <1>3, <2>1 DEF PlaceInv, Somewhere, Held
<1>7. Counted'
  <2>1. IsFiniteSet(dma') /\ Cardinality(dma') = Cardinality(dma) - 1
    BY <1>3, FS_RemoveElement DEF PlaceInv, Counted
  <2> QED BY <1>2, <1>3, <2>1, Numbers DEF PlaceInv, Counted, InHand
<1> QED BY <1>5, <1>6, <1>7 DEF PlaceInv

\* af_xdp_if_input takes a descriptor.
LEMMA PlaceDequeue == TypeInv /\ PlaceInv /\ InputDequeue => PlaceInv'
<1> SUFFICES ASSUME TypeInv, PlaceInv, InputDequeue PROVE PlaceInv'
  OBVIOUS
<1> USE DEF kernelVars, outVars
<1>1. /\ Len(rx') = Len(rx) - 1 /\ Len(rx) \in Nat /\ 1 \in 1..Len(rx)
      /\ \A i \in 1..Len(rx') : rx'[i] = rx[i + 1] /\ i + 1 \in 1..Len(rx)
      /\ desc' = rx[1]
  BY Taken DEF InputDequeue, TypeInv, TypeOK
<1>2. fq' = fq /\ dma' = dma /\ rxpc = "poll" /\ rxpc' = "take"
  BY DEF InputDequeue
<1>3. Once'
  <2>1. \A i \in 1..Len(rx') : rx'[i].frame # rx[1].frame
    BY <1>1 DEF PlaceInv, Once
  <2>2. \A i, j \in 1..Len(rx') : rx'[i].frame = rx'[j].frame => i = j
    <3>1. ASSUME NEW i \in 1..Len(rx'), NEW j \in 1..Len(rx'),
                 rx'[i].frame = rx'[j].frame
          PROVE  i = j
      <4>1. i + 1 = j + 1
        BY <1>1, <3>1 DEF PlaceInv, Once
      <4> QED BY <1>1, <4>1
    <3> QED BY <3>1
  <2>3. \A i \in 1..Len(fq), j \in 1..Len(rx') : fq[i] # rx'[j].frame
    BY SMTT(30), <1>1 DEF PlaceInv, Once
  <2>4. \A j \in 1..Len(rx') : rx'[j].frame \notin dma /\ rx'[j].frame # desc'.frame
    BY <1>1, <2>1 DEF PlaceInv, Once
  <2>5. \A i \in 1..Len(fq) : fq[i] \notin dma /\ fq[i] # desc'.frame
    BY <1>1 DEF PlaceInv, Once
  <2>6. \A f \in dma : f # desc'.frame
    BY <1>1 DEF PlaceInv, Once
  <2>7. \A i, j \in 1..Len(fq) : fq[i] = fq[j] => i = j
    BY DEF PlaceInv, Once
  <2> QED BY <1>2, <2>2, <2>3, <2>4, <2>5, <2>6, <2>7 DEF Once, Held
<1>4. Somewhere'
  <2>1. ASSUME NEW f \in Frames, NEW j \in 1..Len(rx), rx[j].frame = f
        PROVE  Held(f)' \/ \E i \in 1..Len(rx') : rx'[i].frame = f
    <3>1. CASE j = 1
      BY <1>1, <1>2, <2>1, <3>1 DEF Held
    <3>2. CASE j # 1
      <4>1. j - 1 \in 1..Len(rx') /\ j - 1 + 1 = j
        BY <1>1, <3>2
      <4> QED BY <1>1, <2>1, <4>1
    <3> QED BY <3>1, <3>2
  <2> QED BY <1>2, <2>1 DEF PlaceInv, Somewhere, Held
<1>5. Counted'
  BY <1>1, <1>2, Numbers DEF PlaceInv, Counted, InHand
<1> QED BY <1>3, <1>4, <1>5 DEF PlaceInv

\* The refill always finds room, and the frame is back on the fill ring.
LEMMA PlaceRefill == TypeInv /\ PlaceInv /\ InputRefill => PlaceInv'
<1> SUFFICES ASSUME TypeInv, PlaceInv, InputRefill PROVE PlaceInv'
  OBVIOUS
<1> USE DEF kernelVars, outVars
<1>1. HasFree(fq)
  BY Numbers, Params DEF InputRefill, PlaceInv, Counted, InHand, HasFree
<1>2. desc.frame \in Addresses
  BY Params DEF TypeInv, TypeOK, RxDescs, NoDesc
<1>3. fq \in Seq(Addresses)
  BY DEF TypeInv, TypeOK, Addresses
<1>4. /\ Len(fq') = Len(fq) + 1 /\ Len(fq) \in Nat
      /\ \A i \in 1..Len(fq) : fq'[i] = fq[i]
      /\ fq'[Len(fq) + 1] = desc.frame
  BY <1>1, <1>2, <1>3, Added DEF InputRefill
<1>5. \A i \in 1..Len(fq') : i \in 1..Len(fq) \/ i = Len(fq) + 1
  BY <1>4
<1>6. rx' = rx /\ dma' = dma /\ rxpc = "refill" /\ rxpc' = "poll"
  BY DEF InputRefill
<1>7. Once'
  BY SMTT(30), <1>4, <1>5, <1>6 DEF PlaceInv, Once, Held
<1>8. Somewhere'
  <2>1. Len(fq) + 1 \in 1..Len(fq') /\ \A i \in 1..Len(fq) : i \in 1..Len(fq')
    BY <1>4
  <2> QED BY <1>4, <1>6, <2>1 DEF PlaceInv, Somewhere, Held
<1>9. Counted'
  BY <1>4, <1>6, Numbers DEF PlaceInv, Counted, InHand
<1> QED BY <1>7, <1>8, <1>9 DEF PlaceInv

\* The other steps move no receive buffer.
LEMMA PlaceOthers ==
  ASSUME PlaceInv, UNCHANGED <<fq, rx, dma, desc>>,
         rxpc' = rxpc \/ (rxpc # "poll" /\ rxpc' # "poll")
  PROVE  PlaceInv'
BY DEF PlaceInv, Once, Somewhere, Counted, InHand, Held

LEMMA PlaceStep == TypeInv /\ PlaceInv /\ [Next]_vars => PlaceInv'
<1> SUFFICES ASSUME TypeInv, PlaceInv, [Next]_vars PROVE PlaceInv'
  OBVIOUS
<1> USE DEF inVars, outVars, ringVars, kernelVars
<1>1. CASE Kernel
  BY <1>1, PlaceTakeBuffer, PlaceReceive, PlaceOthers
     DEF Kernel, KernelTransmit, KernelStop, KernelComplete
<1>2. CASE Input
  BY <1>2, PlaceDequeue, PlaceRefill, PlaceOthers DEF Input, InputPass
<1>3. CASE Output
  BY <1>3, PlaceOthers DEF Output, OutputCopy, OutputPublish, OutputKick, OutputDrain
<1>4. CASE UNCHANGED vars
  BY <1>4, PlaceOthers DEF vars
<1> QED BY <1>1, <1>2, <1>3, <1>4 DEF Next

-----------------------------------------------------------------------------
(* What the frames hold *)

\* The packet of an RX descriptor stays in its frame until it was copied, unless
\* low_level_output writes to the frame.
ContentInv ==
  /\ \A j \in 1..Len(rx) :
       rx[j].frame # TxFrame => content[rx[j].frame] = rx[j].arrived
  /\ rxpc # "poll" /\ desc.frame # TxFrame => content[desc.frame] = desc.arrived
  /\ stack # "blank" =>
       rxpc = "refill" /\ (desc.frame # TxFrame => stack = desc.arrived)

LEMMA ContentInit == Init => ContentInv
<1>1. Len(<<>>) = 0
  BY EmptySeq
<1> QED BY <1>1 DEF Init, ContentInv

\* A packet that arrives overwrites no frame that is still to be read.
LEMMA ContentReceive ==
  ASSUME TypeInv, PlaceInv, ContentInv,
         NEW f \in dma, NEW p \in Packets, KernelReceive(f, p)
  PROVE  ContentInv'
<1> USE DEF inVars, outVars
<1>1. f \in Frames /\ [frame |-> f, arrived |-> p] \in RxDescs
  BY DEF TypeInv, TypeOK, RxDescs
<1>2. /\ Len(rx') = Len(rx) + 1 /\ Len(rx) \in Nat
      /\ \A i \in 1..Len(rx) : rx'[i] = rx[i]
      /\ rx'[Len(rx) + 1] = [frame |-> f, arrived |-> p]
  BY <1>1, Added DEF KernelReceive, TypeInv, TypeOK
<1>3. content'[f] = p /\ \A g \in Frames \ {f} : content'[g] = content[g]
  BY <1>1 DEF KernelReceive, TypeInv, TypeOK
<1>4. \A i \in 1..Len(rx) : rx[i].frame \in Frames \ {f}
  <2>1. \A i \in 1..Len(rx) : rx[i] \in RxDescs
    BY ElementOfSeq DEF TypeInv, TypeOK
  <2> QED BY <2>1 DEF RxDescs, PlaceInv, Once
<1>5. ASSUME NEW j \in 1..Len(rx'), rx'[j].frame # TxFrame
      PROVE  content'[rx'[j].frame] = rx'[j].arrived
  <2>1. CASE j = Len(rx) + 1
    BY <1>2, <1>3, <2>1
  <2>2. CASE j # Len(rx) + 1
    <3>1. j \in 1..Len(rx)
      BY <1>2, <2>2
    <3> QED BY <1>2, <1>3, <1>4, <1>5, <3>1 DEF ContentInv
  <2> QED BY <2>1, <2>2
<1>6. rxpc # "poll" => desc.frame \in Frames \ {f}
  BY Params DEF PlaceInv, Once, Held, TypeInv, TypeOK, RxDescs, NoDesc
<1> QED BY <1>3, <1>5, <1>6 DEF ContentInv, KernelReceive

LEMMA ContentInput == TypeInv /\ ContentInv /\ Input => ContentInv'
<1> SUFFICES ASSUME TypeInv, ContentInv, Input PROVE ContentInv'
  OBVIOUS
<1> USE DEF ringVars, kernelVars, outVars
<1>1. CASE InputDequeue
  <2>1. /\ Len(rx') = Len(rx) - 1 /\ Len(rx) \in Nat /\ 1 \in 1..Len(rx)
        /\ \A i \in 1..Len(rx') : rx'[i] = rx[i + 1] /\ i + 1 \in 1..Len(rx)
        /\ desc' = rx[1]
    BY <1>1, Taken DEF InputDequeue, TypeInv, TypeOK
  <2> QED BY <1>1, <2>1 DEF InputDequeue, ContentInv
<1>2. CASE InputPass
  BY <1>2 DEF InputPass, ContentInv
<1>3. CASE InputRefill
  BY <1>3 DEF InputRefill, ContentInv
<1> QED BY <1>1, <1>2, <1>3 DEF Input

\* low_level_output writes to TxFrame only.
LEMMA ContentOutput == TypeInv /\ ContentInv /\ Output => ContentInv'
<1> SUFFICES ASSUME TypeInv, ContentInv, Output PROVE ContentInv'
  OBVIOUS
<1> USE DEF ringVars, kernelVars, inVars
<1>1. ASSUME NEW p \in Packets, OutputCopy(p) PROVE ContentInv'
  <2>1. \A g \in Frames \ {TxFrame} : content'[g] = content[g]
    BY <1>1 DEF OutputCopy, TypeInv, TypeOK
  <2>2. desc.frame \in Frames
    BY Params DEF TypeInv, TypeOK, RxDescs, NoDesc
  <2>3. \A j \in 1..Len(rx) : rx[j].frame \in Frames
    <3>1. \A j \in 1..Len(rx) : rx[j] \in RxDescs
      BY ElementOfSeq DEF TypeInv, TypeOK
    <3> QED BY <3>1 DEF RxDescs
  <2> QED BY <1>1, <2>1, <2>2, <2>3 DEF OutputCopy, ContentInv
<1>2. OutputPublish \/ OutputKick \/ OutputDrain => ContentInv'
  BY DEF OutputPublish, OutputKick, OutputDrain, ContentInv
<1> QED BY <1>1, <1>2 DEF Output

LEMMA ContentStep == TypeInv /\ PlaceInv /\ ContentInv /\ [Next]_vars => ContentInv'
<1> SUFFICES ASSUME TypeInv, PlaceInv, ContentInv, [Next]_vars PROVE ContentInv'
  OBVIOUS
<1>1. KernelTakeBuffer \/ KernelTransmit \/ KernelStop \/ KernelComplete
        \/ UNCHANGED vars => ContentInv'
  BY DEF KernelTakeBuffer, KernelTransmit, KernelStop, KernelComplete, ContentInv,
         vars, ringVars, inVars, outVars
<1> QED BY <1>1, ContentReceive, ContentInput, ContentOutput DEF Next, Kernel

-----------------------------------------------------------------------------
(* The theorems *)

\* The rings and the variables of both threads keep their types and sizes through
\* every step of low_level_output, af_xdp_if_input and the kernel.
THEOREM TypeCorrect == Spec => []TypeOK
<1>1. TypeInv => TypeOK
  BY DEF TypeInv
<1> QED BY <1>1, TypeInit, TypeStep, PTL DEF Spec

\* af_xdp_if_input gives back every buffer: although the fill ring was filled to
\* the brim and -ENOSPC is not looked at, the refill finds room, and no frame is
\* on the way twice.
THEOREM BuffersConserved == Spec => []ReceiveBuffersConserved
<1>1. ASSUME TypeInv, PlaceInv, NEW f \in Frames
      PROVE  \E p \in Places(f) : Places(f) = {p}
  <2>1. CASE \E i \in 1..Len(fq) : fq[i] = f
    <3>1. PICK i \in 1..Len(fq) : fq[i] = f
      BY <2>1
    <3>2. Places(f) = {<<"fill", i>>}
      BY <1>1, <3>1 DEF Places, PlaceInv, Once
    <3> QED BY <3>2
  <2>2. CASE \E j \in 1..Len(rx) : rx[j].frame = f
    <3>1. PICK j \in 1..Len(rx) : rx[j].frame = f
      BY <2>2
    <3>2. Places(f) = {<<"rx", j>>}
      BY <1>1, <3>1 DEF Places, PlaceInv, Once
    <3> QED BY <3>2
  <2>3. CASE f \in dma
    <3>1. Places(f) = {<<"kernel", 0>>}
      BY <1>1, <2>3 DEF Places, PlaceInv, Once
    <3> QED BY <3>1
  <2>4. CASE Held(f)
    <3>1. Places(f) = {<<"thread", 0>>}
      BY <1>1, <2>4 DEF Places, PlaceInv, Once
    <3> QED BY <3>1
  <2> QED BY <1>1, <2>1, <2>2, <2>3, <2>4 DEF PlaceInv, Somewhere
<1>2. TypeInv /\ PlaceInv => ReceiveBuffersConserved
  BY <1>1 DEF ReceiveBuffersConserved
<1> QED BY <1>2, TypeInit, TypeStep, PlaceInit, PlaceStep, PTL DEF Spec

\* netif->input gets the packet that arrived in the buffer, except in the frame
\* low_level_output writes to: xq_deq, pbuf_take and the refill come in this order.
THEOREM DeliversWhatArrived == Spec => []DeliversReceived
<1>1. ContentInv => DeliversReceived
  BY DEF ContentInv, DeliversReceived
<1> QED BY <1>1, TypeInit, TypeStep, PlaceInit, PlaceStep, ContentInit, ContentStep, PTL
        DEF Spec

-----------------------------------------------------------------------------
(* ping.c: the invariant                                                   *)

\* The number that ping_prepare_echo gave to the request of age rounds ago, when
\* the last one had n.
NumberOf(n, age) == (n + SeqSize - age) % SeqSize

EchoPackets == [type : {"ER", "ECHO", "other", "timeout"}, seqno : 0..SeqSize - 1,
                age : Nat]

\* Each round reads at least one packet, so the further ahead a packet is, the
\* longer it may have waited; a round that reads has aged it once more.
Waited(at, i) == IF at = "recv" THEN Mbox - i + 1 ELSE Mbox - i

\* Every answer in the socket has the number of its request, and is younger than
\* the numbers take to come round again.
Numbered ==
  \A i \in 1..Len(mbox) :
    mbox[i].type = "ER" => /\ mbox[i].seqno = NumberOf(ping_seq_num, mbox[i].age)
                           /\ mbox[i].age <= MaxAge + Waited(pc, i)

PingInv ==
  /\ PingTypeOK
  /\ mbox \in Seq(EchoPackets)
  /\ Numbered
  /\ SuccessIsCurrent

-----------------------------------------------------------------------------
(* u16 arithmetic *)

\* The parameters are numbers.
LEMMA PingParams ==
  /\ SeqSize \in Nat /\ MaxAge \in Nat /\ Mbox \in Nat /\ Mbox > 0
  /\ MaxAge + Mbox < SeqSize
BY PingAssumption

\* The remainder of a number below twice the modulus.
LEMMA ModTwice ==
  ASSUME NEW x \in 0..2 * SeqSize - 1
  PROVE  x % SeqSize = IF x < SeqSize THEN x ELSE x - SeqSize
BY PingParams

\* Only the last request has the number of the last request (iecho->seqno is
\* compared with ping_seq_num).
LEMMA NumberDistinct ==
  ASSUME PingTypeOK, NEW age \in 0..SeqSize - 1,
         NumberOf(ping_seq_num, age) = ping_seq_num
  PROVE  age = 0
<1>1. ping_seq_num + SeqSize - age \in 0..2 * SeqSize - 1
  BY PingParams DEF PingTypeOK
<1>2. NumberOf(ping_seq_num, age) = IF ping_seq_num < age THEN ping_seq_num + SeqSize - age
                                    ELSE ping_seq_num - age
  <2> DEFINE x == ping_seq_num + SeqSize - age
  <2>1. x % SeqSize = IF x < SeqSize THEN x ELSE x - SeqSize
    <3>1. x \in 0..2 * SeqSize - 1
      BY <1>1
    <3> HIDE DEF x
    <3> QED BY <3>1, ModTwice
  <2>2. ping_seq_num \in Nat /\ age \in Nat
    BY DEF PingTypeOK
  <2>3. x < SeqSize <=> ping_seq_num < age
    BY <2>2, PingParams
  <2>4. NumberOf(ping_seq_num, age) = x % SeqSize
    BY DEF NumberOf
  <2>5. x - SeqSize = ping_seq_num - age
    BY <2>2, PingParams
  <2> HIDE DEF x
  <2>6. NumberOf(ping_seq_num, age) = IF ping_seq_num < age THEN x ELSE x - SeqSize
    BY <2>1, <2>3, <2>4
  <2> QED BY <2>5, <2>6 DEF x
<1> QED BY <1>2, PingParams DEF PingTypeOK

\* ++ping_seq_num makes every request a round older.
LEMMA NumberAges ==
  ASSUME NEW n \in 0..SeqSize - 1, NEW age \in 0..SeqSize - 2
  PROVE  NumberOf((n + 1) % SeqSize, age + 1) = NumberOf(n, age)
<1> DEFINE m == (n + 1) % SeqSize
<1>1. m = IF n + 1 < SeqSize THEN n + 1 ELSE 0
  <2> DEFINE x == n + 1
  <2>1. x \in 0..2 * SeqSize - 1 /\ x <= SeqSize
    BY PingParams
  <2>2. x % SeqSize = IF x < SeqSize THEN x ELSE 0
    <3> HIDE DEF x
    <3> QED BY <2>1, ModTwice, PingParams
  <2> QED BY <2>2
<1> HIDE DEF m
<1>2. n + SeqSize - age \in 0..2 * SeqSize - 1
  BY PingParams
<1>3. m + SeqSize - (age + 1) \in 0..2 * SeqSize - 1
  BY <1>1, PingParams
<1>4. NumberOf(n, age) = IF n < age THEN n + SeqSize - age ELSE n - age
  BY <1>2, ModTwice, PingParams DEF NumberOf
<1>5. NumberOf(m, age + 1) = IF m < age + 1 THEN m + SeqSize - (age + 1)
                             ELSE m - (age + 1)
  BY <1>1, <1>3, ModTwice, PingParams DEF NumberOf
<1>6. NumberOf(m, age + 1) = NumberOf(n, age)
  BY <1>1, <1>4, <1>5, PingParams
<1> QED BY <1>6 DEF m

-----------------------------------------------------------------------------
(* The steps *)

LEMMA InitPing == PingInit => PingInv
<1> SUFFICES ASSUME PingInit PROVE PingInv
  OBVIOUS
<1>1. mbox \in Seq(EchoPackets) /\ Len(mbox) = 0
  BY DEF PingInit
<1>2. PingTypeOK
  <2>1. 0 \in 0..SeqSize - 1 /\ 0 <= Mbox
    BY PingParams
  <2> QED BY <1>1, <2>1 DEF PingInit, PingTypeOK
<1>3. Numbered
  BY <1>1 DEF Numbered
<1>4. SuccessIsCurrent
  BY DEF PingInit, Nothing, SuccessIsCurrent
<1> QED BY <1>1, <1>2, <1>3, <1>4 DEF PingInv

\* Sending makes every answer in the socket a round older.
LEMMA SendInv == PingInv /\ Send => PingInv'
<1> SUFFICES ASSUME PingInv, Send PROVE PingInv'
  OBVIOUS
<1>1. PingTypeOK'
  <2>1. ping_seq_num' \in 0..SeqSize - 1
    BY PingParams DEF PingInv, PingTypeOK, Send
  <2>2. Len(mbox') = Len(mbox)
    BY DEF PingInv, Send
  <2> QED BY <2>1, <2>2, PingParams DEF PingInv, PingTypeOK, Send
<1>2. mbox' \in Seq(EchoPackets) /\ Len(mbox') = Len(mbox)
      /\ \A i \in 1..Len(mbox) : mbox'[i] = Older(mbox[i])
  <2>1. ASSUME NEW i \in 1..Len(mbox)
        PROVE  Older(mbox[i]) \in EchoPackets
    <3>1. mbox[i] \in EchoPackets
      BY ElementOfSeq DEF PingInv
    <3>2. CASE mbox[i].type = "ER"
      BY <3>1, <3>2 DEF Older, EchoPackets
    <3> QED BY <3>1, <3>2 DEF Older
  <2> QED BY <2>1 DEF PingInv, Send
<1>3. Numbered'
  <2> SUFFICES ASSUME NEW i \in 1..Len(mbox), mbox'[i].type = "ER"
               PROVE  /\ mbox'[i].seqno = NumberOf(ping_seq_num', mbox'[i].age)
                      /\ mbox'[i].age <= MaxAge + Waited(pc', i)
    BY <1>2 DEF Numbered, NumberOf
  <2>1. mbox[i] \in EchoPackets
    BY ElementOfSeq DEF PingInv
  <2>2. /\ mbox[i].type = "ER" /\ mbox'[i].seqno = mbox[i].seqno
        /\ mbox'[i].age = mbox[i].age + 1
    BY <1>2, <2>1 DEF Older, EchoPackets
  <2>3. /\ mbox[i].seqno = NumberOf(ping_seq_num, mbox[i].age)
        /\ mbox[i].age <= MaxAge + (Mbox - i)
    <3>1. Waited(pc, i) = Mbox - i
      BY DEF Waited, Send
    <3> QED BY <2>2, <3>1 DEF PingInv, Numbered
  <2>4. mbox[i].age \in 0..SeqSize - 2
    <3>1. mbox[i].age \in Nat
      BY <2>1 DEF EchoPackets
    <3>2. i \in Nat /\ i > 0
      BY LenProperties DEF PingInv
    <3> QED BY <2>3, <3>1, <3>2, PingParams
  <2>5. NumberOf(ping_seq_num', mbox[i].age + 1) = NumberOf(ping_seq_num, mbox[i].age)
    BY <2>4, NumberAges DEF PingInv, PingTypeOK, Send
  <2>6. Waited(pc', i) = Mbox - i + 1
    BY DEF Waited, Send
  <2>7. mbox'[i].seqno = NumberOf(ping_seq_num', mbox'[i].age)
    BY <2>2, <2>3, <2>5
  <2>8. mbox'[i].age <= MaxAge + Waited(pc', i)
    <3>1. i \in Nat /\ mbox[i].age \in Nat
      BY <2>4, LenProperties DEF PingInv
    <3> QED BY <2>2, <2>3, <2>6, <3>1, PingParams
  <2> QED BY <2>7, <2>8
<1>4. SuccessIsCurrent'
  BY DEF PingInv, Send, SuccessIsCurrent
<1> QED BY <1>1, <1>2, <1>3, <1>4 DEF PingInv

\* Reading moves every answer one place ahead, and the one that ends the round
\* is the current one.
LEMMA RecvInv == PingInv /\ Recv => PingInv'
<1> SUFFICES ASSUME PingInv, Recv PROVE PingInv'
  OBVIOUS
<1> USE DEF PingInv
<1>1. /\ mbox' \in Seq(EchoPackets) /\ Len(mbox') = Len(mbox) - 1
      /\ \A i \in 1..Len(mbox') : mbox'[i] = mbox[i + 1]
      /\ Head(mbox) = mbox[1] /\ Len(mbox) \in Nat /\ Len(mbox) > 0
  BY HeadTailProperties, EmptySeq, LenProperties DEF Recv
<1>2. PingTypeOK'
  BY <1>1, PingParams DEF PingTypeOK, Recv
<1>3. Numbered'
  <2> SUFFICES ASSUME NEW i \in 1..Len(mbox'), mbox'[i].type = "ER"
               PROVE  /\ mbox'[i].seqno = NumberOf(ping_seq_num', mbox'[i].age)
                      /\ mbox'[i].age <= MaxAge + Waited(pc', i)
    BY DEF Numbered, NumberOf
  <2>1. i + 1 \in 1..Len(mbox) /\ mbox'[i] = mbox[i + 1]
    BY <1>1
  <2>2. /\ mbox[i + 1].seqno = NumberOf(ping_seq_num, mbox[i + 1].age)
        /\ mbox[i + 1].age <= MaxAge + (Mbox - i)
    <3>1. Waited(pc, i + 1) = Mbox - i
      BY <1>1, <2>1, PingParams DEF Waited, Recv
    <3> QED BY <2>1, <3>1 DEF Numbered, Recv
  <2>3. Waited(pc', i) = Mbox - i \/ Waited(pc', i) = Mbox - i + 1
    BY <2>1, PingParams DEF Waited
  <2>4. mbox[i + 1].age \in Nat
    <3>1. mbox[i + 1] \in EchoPackets
      BY <1>1, <2>1, ElementOfSeq
    <3> QED BY <3>1 DEF EchoPackets
  <2> QED BY <2>1, <2>2, <2>3, <2>4, PingParams DEF NumberOf, Recv
<1>4. SuccessIsCurrent'
  <2>1. CASE Goes(Head(mbox))
    BY <2>1 DEF Recv, SuccessIsCurrent
  <2>2. CASE ~Goes(Head(mbox)) /\ mbox[1].type = "ER"
    <3>1. /\ mbox[1].seqno = ping_seq_num
          /\ mbox[1].seqno = NumberOf(ping_seq_num, mbox[1].age)
          /\ mbox[1].age <= MaxAge + Mbox
      BY <1>1, <2>2, PingParams DEF Goes, Matches, Numbered, Waited, Recv
    <3>2. mbox[1].age \in 0..SeqSize - 1
      <4>1. mbox[1] \in EchoPackets
        BY <1>1, ElementOfSeq
      <4> QED BY <3>1, <4>1, PingParams DEF EchoPackets
    <3> QED BY <1>1, <2>2, <3>1, <3>2, NumberDistinct DEF Recv, SuccessIsCurrent
  <2>3. CASE ~Goes(Head(mbox)) /\ mbox[1].type # "ER"
    BY <1>1, <2>3 DEF Recv, SuccessIsCurrent
  <2> QED BY <2>1, <2>2, <2>3
<1> QED BY <1>1, <1>2, <1>3, <1>4

\* A packet is appended behind those that wait; a fresh answer is at most MaxAge
\* rounds old.
LEMMA ArriveInv ==
  ASSUME PingInv, NEW p \in EchoPackets, Arrive(p), flying' \subseteq flying,
         p.type = "ER" => p.age <= MaxAge /\ p.seqno = NumberOf(ping_seq_num, p.age)
  PROVE  PingInv'
<1> USE DEF PingInv
<1>1. CASE ~(Len(mbox) < Mbox)
  BY <1>1 DEF Arrive, PingTypeOK, Numbered, NumberOf, Waited, SuccessIsCurrent
<1>2. CASE Len(mbox) < Mbox
  <2>1. /\ mbox' \in Seq(EchoPackets) /\ Len(mbox') = Len(mbox) + 1
        /\ \A i \in 1..Len(mbox) : mbox'[i] = mbox[i]
        /\ mbox'[Len(mbox) + 1] = p /\ Len(mbox) \in Nat
    BY <1>2, AppendProperties, LenProperties DEF Arrive
  <2>2. PingTypeOK' /\ SuccessIsCurrent'
    BY <1>2, <2>1, PingParams DEF Arrive, PingTypeOK, SuccessIsCurrent
  <2>3. Numbered'
    <3> SUFFICES ASSUME NEW i \in 1..Len(mbox) + 1, mbox'[i].type = "ER"
                 PROVE  /\ mbox'[i].seqno = NumberOf(ping_seq_num', mbox'[i].age)
                        /\ mbox'[i].age <= MaxAge + Waited(pc', i)
      BY <2>1 DEF Numbered, NumberOf
    <3>1. Waited(pc', i) = Waited(pc, i)
      BY DEF Waited, Arrive
    <3>2. CASE i \in 1..Len(mbox)
      BY <2>1, <3>1, <3>2 DEF Numbered, NumberOf, Arrive
    <3>3. CASE i = Len(mbox) + 1
      <4>1. Waited(pc, i) \in Nat
        BY <1>2, <2>1, <3>3, PingParams DEF Waited
      <4>2. p.age <= MaxAge + Waited(pc, i)
        BY <2>1, <3>3, <4>1, PingParams DEF EchoPackets
      <4> QED BY <2>1, <3>1, <3>3, <4>2 DEF NumberOf, Arrive
    <3> QED BY <2>1, <3>2, <3>3
  <2> QED BY <2>1, <2>2, <2>3
<1> QED BY <1>1, <1>2

\* Answers and other packets are packets.
LEMMA PacketTypes ==
  ASSUME PingTypeOK
  PROVE  /\ \A age \in 0..MaxAge : Reply(age) \in EchoPackets
         /\ \A n \in 0..SeqSize - 1 : Request(n) \in EchoPackets
         /\ Other \in EchoPackets
<1>1. ASSUME NEW age \in 0..MaxAge
      PROVE  (ping_seq_num + SeqSize - age) % SeqSize \in 0..SeqSize - 1
  BY PingParams DEF PingTypeOK
<1> QED BY <1>1, PingParams DEF Reply, Request, Other, EchoPackets

LEMMA StepPing == PingInv /\ [PingNext]_pingVars => PingInv'
<1> SUFFICES ASSUME PingInv, [PingNext]_pingVars PROVE PingInv'
  OBVIOUS
<1>1. CASE Open \/ SendNoMemory \/ Timeout \/ Wake \/ UNCHANGED pingVars
  <2> USE DEF PingInv, PingTypeOK, Numbered, NumberOf, Waited, SuccessIsCurrent
  <2>1. CASE Open
    BY <2>1, PingParams DEF Open
  <2>2. CASE SendNoMemory
    BY <2>2 DEF SendNoMemory, Nothing
  <2>3. CASE Timeout
    BY <2>3, PingParams DEF Timeout, AfterTimeout, Nothing
  <2>4. CASE Wake
    BY <2>4 DEF Wake
  <2>5. CASE UNCHANGED pingVars
    BY <2>5 DEF pingVars
  <2> QED BY <1>1, <2>1, <2>2, <2>3, <2>4, <2>5
<1>2. CASE Send
  BY <1>2, SendInv
<1>3. CASE Recv
  BY <1>3, RecvInv
<1>4. ASSUME NEW age \in 0..MaxAge, Answer(age)
      PROVE  PingInv'
  BY <1>4, ArriveInv, PacketTypes DEF Answer, Reply, NumberOf, PingInv
<1>5. CASE Unrelated
  <2>1. PICK p \in {Request(n) : n \in 0..SeqSize - 1} \cup {Other} : Arrive(p)
    BY <1>5 DEF Unrelated
  <2>2. p \in EchoPackets /\ p.type # "ER"
    BY <2>1, PacketTypes DEF Request, Other, PingInv
  <2> QED BY <1>5, <2>1, <2>2, ArriveInv DEF Unrelated
<1> QED BY <1>1, <1>2, <1>3, <1>4, <1>5 DEF PingNext, Thread

-----------------------------------------------------------------------------
(* The theorems *)

\* The thread's and the network's variables keep their types through every step
\* of ping_thread and every packet.
THEOREM PingTypeCorrect == PingSpec => []PingTypeOK
<1>1. PingInv => PingTypeOK
  BY DEF PingInv
<1> QED BY <1>1, InitPing, StepPing, PTL DEF PingSpec

\* PING_RESULT reports a success only for the answer to the request of the round,
\* however many late and doubled answers wait and however often the 16-bit number
\* has wrapped.
THEOREM OnlyCurrentSucceeds == PingSpec => []SuccessIsCurrent
<1>1. PingInv => SuccessIsCurrent
  BY DEF PingInv
<1> QED BY <1>1, InitPing, StepPing, PTL DEF PingSpec

\* A round that fails has read the request of a twin with its number, or has found
\* no answer to its request in the socket: ping_recv does not return before.
THEOREM MissedOnly == PingSpec => MissedOnlyForTwin
<1> DEFINE Missed == pc = "recv" /\ pc' = "sleep" /\ end'.type # "ER"
           Excused == \/ end'.type = "ECHO" /\ end'.seqno = ping_seq_num
                      \/ \A i \in DOMAIN mbox : ~(mbox[i].type = "ER" /\ mbox[i].age = 0)
<1>1. [PingNext]_pingVars => [Missed => Excused]_pingVars
  <2> SUFFICES ASSUME PingNext, Missed PROVE Excused
    OBVIOUS
  <2>1. CASE Recv
    BY <2>1 DEF Recv, Goes, Matches
  <2>2. CASE Timeout
    BY <2>2 DEF Timeout
  <2>3. Recv \/ Timeout
    BY DEF PingNext, Thread, Open, SendNoMemory, Send, Wake, Answer, Unrelated, Arrive
  <2> QED BY <2>1, <2>2, <2>3
<1> QED BY <1>1, PTL DEF PingSpec, MissedOnlyForTwin

=============================================================================
