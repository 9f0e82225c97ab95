------------------------------- MODULE XskRing -------------------------------
(***************************************************************************)
(* One AF_XDP descriptor ring: the array the user process shares with the  *)
(* kernel, its two shared u32 indices, and the private copies each side    *)
(* keeps of both.  The fill and TX rings are produced by the program       *)
(* (umem_fill_to_kernel, umem_fill_to_kernel_ex, xq_enq, xq_enq_tx_only,   *)
(* low_level_output) and the RX and completion rings are consumed by it    *)
(* (xq_deq, umem_complete_from_kernel).  There is one producer and one     *)
(* consumer, the kernel being the other party of each ring, and every      *)
(* access to shared memory is a step of its own.                           *)
(*                                                                         *)
(* The indices are free-running u32 counters: only their difference modulo *)
(* 2^32 and their value modulo the ring size (index & mask) are used.      *)
(***************************************************************************)
EXTENDS Naturals, Sequences

CONSTANTS
  Size,      \* entries of the ring: NUM_DESCS, FQ_NUM_DESCS, CQ_NUM_DESCS
  Wrap,      \* an index is a number modulo Wrap: 2^32 in the program
  Batch,     \* the most entries one call asks for: BATCH_SIZE
  Values,    \* what a slot may hold once written: a descriptor, an address
  Unwritten  \* what a slot holds when the kernel maps the ring

\* The mask of the code is Size - 1, so Size is a power of two and divides 2^32.
ASSUME RingAssumption ==
  /\ Size \in Nat \ {0}
  /\ Wrap \in Nat
  /\ Wrap > Size
  /\ Wrap % Size = 0
  /\ Batch \in 1..Size

VARIABLES
  \* shared memory
  producer,     \* *q->producer
  consumer,     \* *q->consumer
  ring,         \* q->ring
  \* the producer's struct xdp_uqueue / xdp_umem_uqueue
  pCachedProd,  \* cached_prod: the next slot to write
  pCachedCons,  \* cached_cons: the last consumer index seen, plus size
  pLeft,        \* slots the running call has still to write
  \* the consumer's struct xdp_uqueue / xdp_umem_uqueue
  cCachedProd,  \* cached_prod: the last producer index seen
  cCachedCons,  \* cached_cons: the next slot to read
  cLeft,        \* slots the running call has still to read
  descs,        \* what the running call has copied out
  returned      \* what the last call that found something handed out

pVars == <<producer, pCachedProd, pCachedCons, pLeft>>
cVars == <<consumer, cCachedProd, cCachedCons, cLeft, descs, returned>>
vars == <<producer, consumer, ring, pCachedProd, pCachedCons, pLeft,
          cCachedProd, cCachedCons, cLeft, descs, returned>>

-----------------------------------------------------------------------------
(* u32 arithmetic *)

Counters == 0..(Wrap - 1)
Slots == 0..(Size - 1)

\* a - b on u32
Sub(a, b) == IF a >= b THEN a - b ELSE (a + Wrap) - b

\* a + n on u32, for n <= Wrap
Plus(a, n) == IF a + n < Wrap THEN a + n ELSE (a + n) - Wrap

\* a & mask
Idx(a) == a % Size

-----------------------------------------------------------------------------
(* The rings as the kernel and xsk_configure hand them over: all zero, but *)
(* for the producer's cached_cons, which starts one full ring ahead.       *)

Init ==
  /\ producer = 0 /\ consumer = 0
  /\ ring = [i \in Slots |-> Unwritten]
  /\ pCachedProd = 0 /\ pCachedCons = Size /\ pLeft = 0
  /\ cCachedProd = 0 /\ cCachedCons = 0 /\ cLeft = 0
  /\ descs = <<>> /\ returned = <<>>

-----------------------------------------------------------------------------
(* The producer *)

\* No enqueue call is under way.
ProducerIdle == pLeft = 0 /\ pCachedProd = producer

\* Mutants of FreeUpTo: the refresh is forgotten, or reads the other index.
FreeUpToStale(n) == pCachedCons
FreeUpToProducer(n) ==
  IF Sub(pCachedCons, pCachedProd) >= n THEN pCachedCons
                                        ELSE Plus(producer, Size)

\* cached_cons after nb_free(q, n): refreshed from the shared index only when
\* the cached one does not leave room for n entries.
FreeUpTo(n) ==
  IF Sub(pCachedCons, pCachedProd) >= n THEN pCachedCons
                                        ELSE Plus(consumer, Size)

\* Mutant of Reserve: nb_free is called and its result not compared with n.
ReserveUnchecked(n) ==
  /\ ProducerIdle
  /\ pCachedCons' = FreeUpTo(n)
  /\ pLeft' = n
  /\ UNCHANGED <<producer, pCachedProd, ring, cVars>>

\* An enqueue call begins: it goes on to write its n entries when nb_free finds
\* room for all of them and returns -ENOSPC otherwise.
Reserve(n) ==
  /\ ProducerIdle
  /\ pCachedCons' = FreeUpTo(n)
  /\ pLeft' = IF Sub(FreeUpTo(n), pCachedProd) >= n THEN n ELSE 0
  /\ UNCHANGED <<producer, pCachedProd, ring, cVars>>

\* One turn of the loop: ring[cached_prod++ & mask] = entry.
WriteSlot(v) ==
  /\ pLeft > 0
  /\ ring' = [ring EXCEPT ![Idx(pCachedProd)] = v]
  /\ pCachedProd' = Plus(pCachedProd, 1)
  /\ pLeft' = pLeft - 1
  /\ UNCHANGED <<producer, pCachedCons, cVars>>

\* After the write barrier: *q->producer = q->cached_prod.
Publish ==
  /\ pLeft = 0
  /\ pCachedProd # producer
  /\ producer' = pCachedProd
  /\ UNCHANGED <<pCachedProd, pCachedCons, pLeft, ring, cVars>>

Produce == \/ \E n \in 1..Batch : Reserve(n)
           \/ \E v \in Values : WriteSlot(v)
           \/ Publish

-----------------------------------------------------------------------------
(* The consumer *)

\* No dequeue call is under way.
ConsumerIdle == cLeft = 0 /\ cCachedCons = consumer

\* Mutant of SeenUpTo: the refresh is forgotten.
SeenUpToStale == cCachedProd

\* cached_prod after nb_avail: refreshed from the shared index only when the
\* cached one shows nothing.
SeenUpTo ==
  IF Sub(cCachedProd, cCachedCons) = 0 THEN producer ELSE cCachedProd

\* Mutant of Peek: as many entries as asked for, once there is one.
PeekAll(n) ==
  /\ ConsumerIdle
  /\ cCachedProd' = SeenUpTo
  /\ cLeft' = IF Sub(SeenUpTo, cCachedCons) = 0 THEN 0 ELSE n
  /\ descs' = <<>>
  /\ UNCHANGED <<consumer, cCachedCons, returned, ring, pVars>>

\* A dequeue call for at most n entries begins.
Peek(n) ==
  LET entries == Sub(SeenUpTo, cCachedCons)
  IN /\ ConsumerIdle
     /\ cCachedProd' = SeenUpTo
     /\ cLeft' = IF entries > n THEN n ELSE entries
     /\ descs' = <<>>
     /\ UNCHANGED <<consumer, cCachedCons, returned, ring, pVars>>

\* One turn of the loop: descs[i] = ring[cached_cons++ & mask].
ReadSlot ==
  /\ cLeft > 0
  /\ descs' = Append(descs, ring[Idx(cCachedCons)])
  /\ cCachedCons' = Plus(cCachedCons, 1)
  /\ cLeft' = cLeft - 1
  /\ UNCHANGED <<consumer, cCachedProd, returned, ring, pVars>>

\* Mutant of Release: everything seen is released, not everything read.
ReleaseSeen ==
  /\ cLeft = 0
  /\ cCachedCons # consumer
  /\ consumer' = cCachedProd
  /\ cCachedCons' = cCachedProd
  /\ returned' = descs
  /\ descs' = <<>>
  /\ UNCHANGED <<cCachedProd, cLeft, ring, pVars>>

\* entries > 0: *q->consumer = q->cached_cons, and the call returns.
Release ==
  /\ cLeft = 0
  /\ cCachedCons # consumer
  /\ consumer' = cCachedCons
  /\ returned' = descs
  /\ descs' = <<>>
  /\ UNCHANGED <<cCachedProd, cCachedCons, cLeft, ring, pVars>>

Consume == \/ \E n \in 1..Batch : Peek(n)
           \/ ReadSlot
           \/ Release

-----------------------------------------------------------------------------
Next == Produce \/ Consume

Spec == Init /\ [][Next]_vars

\* Both parties run: neither side of a ring blocks inside a call, and the
\* programs call again in endless loops (tx_only, l2fwd, rx_drop_all,
\* af_xdp_if_thread; the kernel's side is driven by the device).
FairSpec == Spec /\ WF_vars(Produce) /\ WF_vars(Consume)

-----------------------------------------------------------------------------
(* Correctness *)

\* The slots the consumer may be reading: published and not yet released.
Unreleased == {Idx(Plus(consumer, k)) : k \in 0..(Sub(producer, consumer) - 1)}

\* The fields of the structures of both sides stay in their types.
TypeOK ==
  /\ producer \in Counters /\ consumer \in Counters
  /\ ring \in [Slots -> Values \cup {Unwritten}]
  /\ pCachedProd \in Counters /\ pCachedCons \in Counters
  /\ pLeft \in 0..Batch
  /\ cCachedProd \in Counters /\ cCachedCons \in Counters
  /\ cLeft \in 0..Batch
  /\ descs \in Seq(Values \cup {Unwritten})
  /\ returned \in Seq(Values \cup {Unwritten})

\* How the six indices stay in order around the 2^32 circle whatever is stale:
\* consumer <= cCachedCons <= cCachedProd <= producer <= pCachedProd, and the
\* slots still to write lie before pCachedCons, which lies at most one ring
\* size after consumer.
IndexInv ==
  LET used     == Sub(producer, consumer)
      read     == Sub(cCachedCons, consumer)
      seen     == Sub(cCachedProd, cCachedCons)
      unseen   == Sub(producer, cCachedProd)
      written  == Sub(pCachedProd, producer)
      room     == Sub(pCachedCons, pCachedProd)
  IN /\ used + written + room <= Size
     /\ pLeft <= room
     /\ read + seen + unseen = used
     /\ cLeft <= seen

\* No enqueue call changes a slot the other side may be reading, at whatever
\* moment the cached copy of the consumer index was refreshed (xq_nb_free,
\* umem_nb_free against the writes of the enqueue loops).
StableEntries == [][\A i \in Unreleased : ring'[i] = ring[i]]_vars

\* A dequeue call reads only slots that were published to it, and never one the
\* producer is filling for the next publication (xq_nb_avail, umem_nb_avail).
ReadsPublished ==
  cLeft > 0 => /\ Idx(cCachedCons) \in Unreleased
               /\ ring[Idx(cCachedCons)] \in Values

\* What is published is eventually taken off the ring: the consumer's stale
\* cached_prod never hides it for good.
ConsumerNeverStuck ==
  \A c \in Counters : (consumer = c /\ producer # c) ~> consumer # c

\* A producer that keeps calling gets its entries in: a stale cached_cons never
\* makes nb_free report a full ring for good.
ProducerNeverStuck == \A c \in Counters : producer = c ~> producer # c

-----------------------------------------------------------------------------
(* A ring is a bounded FIFO channel: an enqueue call takes effect when it  *)
(* publishes the producer index, a dequeue call when it releases the       *)
(* consumer index.                                                         *)

Contents ==
  [i \in 1..Sub(producer, consumer) |-> ring[Idx(Plus(consumer, i - 1))]]

Channel == INSTANCE BoundedChannel
  WITH Capacity <- Size, MaxBatch <- Batch, Entries <- Values,
       chan <- Contents, received <- returned

\* The ring implements the channel (every enqueue and dequeue of both sides).
ImplementsChannel == Channel!Spec

=============================================================================
