---------------------------- MODULE XskRing_proofs ----------------------------
(***************************************************************************)
(* Proofs about XskRing, for every ring size, index width and batch that   *)
(* RingAssumption allows; at the end, that a ring implements the bounded   *)
(* FIFO channel of BoundedChannel: an enqueue call takes effect when it    *)
(* publishes the producer index, a dequeue call when it releases the       *)
(* consumer index.                                                         *)
(***************************************************************************)
EXTENDS Integers, Sequences, XskRing, SequenceTheorems, TLAPS

-----------------------------------------------------------------------------
(* u32 arithmetic *)

\* The difference of two indices is an index (a - b on u32).
LEMMA SubType ==
  ASSUME NEW a \in Counters, NEW b \in Counters
  PROVE  Sub(a, b) \in Counters
BY RingAssumption DEF Counters, Sub

\* Advancing an index gives an index (cached_prod++, *q->consumer + q->size).
LEMMA PlusType ==
  ASSUME NEW a \in Counters, NEW n \in 0..Wrap
  PROVE  Plus(a, n) \in Counters
BY RingAssumption DEF Counters, Plus

\* Masking an index gives a slot of the ring (index & mask).
LEMMA IdxType ==
  ASSUME NEW a \in Counters
  PROVE  Idx(a) \in Slots
BY RingAssumption DEF Counters, Slots, Idx

\* Two indices less than one ring apart do not fall on the same slot, on either
\* side of the wrap of the counter.
LEMMA IdxDistinct ==
  ASSUME NEW a \in Counters, NEW b \in Counters,
         0 < Sub(a, b), Sub(a, b) < Size
  PROVE  Idx(a) # Idx(b)
<1> SUFFICES ASSUME Idx(a) = Idx(b) PROVE FALSE
  OBVIOUS
<1> DEFINE qa == a \div Size
           qb == b \div Size
           qw == Wrap \div Size
<1>1. /\ qa \in Int /\ qb \in Int /\ qw \in Int
      /\ a = Size * qa + Idx(a)
      /\ b = Size * qb + Idx(b)
      /\ Wrap = Size * qw
  BY RingAssumption DEF Counters, Idx
<1>2. \E m \in Int : Sub(a, b) = Size * m
  <2>1. CASE a >= b
    <3>1. Sub(a, b) = Size * (qa - qb)
      BY <1>1, <2>1, RingAssumption, IdxType DEF Sub, Counters, Slots
    <3> QED BY <3>1, <1>1
  <2>2. CASE ~(a >= b)
    <3>1. Sub(a, b) = Size * (qa + qw - qb)
      BY <1>1, <2>2, RingAssumption, IdxType DEF Sub, Counters, Slots
    <3> QED BY <3>1, <1>1
  <2> QED BY <2>1, <2>2
<1>3. PICK m \in Int : Sub(a, b) = Size * m
  BY <1>2
<1>4. CASE m <= 0
  <2>1. Size * m <= 0
    BY <1>4, RingAssumption
  <2> QED BY <1>3, <2>1, RingAssumption
<1>5. CASE m >= 1
  <2>1. Size * m >= Size
    BY <1>5, RingAssumption
  <2> QED BY <1>3, <2>1, SubType, RingAssumption DEF Counters
<1> QED BY <1>4, <1>5

-----------------------------------------------------------------------------
(* The types of the fields *)

\* Every field of both sides keeps its type through every call of nb_free,
\* nb_avail and of the enqueue and dequeue loops.
THEOREM TypeCorrect == Spec => []TypeOK
<1>1. Init => TypeOK
  BY RingAssumption DEF Init, TypeOK, Counters, Slots
<1>2. TypeOK /\ [Next]_vars => TypeOK'
  <2> SUFFICES ASSUME TypeOK, [Next]_vars
               PROVE  TypeOK'
    OBVIOUS
  <2> USE RingAssumption DEF TypeOK
  <2>0. /\ \A n \in 1..Batch : FreeUpTo(n) \in Counters
        /\ SeenUpTo \in Counters
        /\ Sub(SeenUpTo, cCachedCons) \in Counters
    BY PlusType, SubType DEF FreeUpTo, SeenUpTo
  <2>1. ASSUME NEW n \in 1..Batch, Reserve(n)
        PROVE  TypeOK'
    BY <2>0, <2>1 DEF Reserve, cVars
  <2>2. ASSUME NEW v \in Values, WriteSlot(v)
        PROVE  TypeOK'
    <3>1. pCachedProd' \in Counters
      BY <2>2, PlusType DEF WriteSlot
    <3>2. ring' \in [Slots -> Values \cup {Unwritten}]
      BY <2>2, IdxType DEF WriteSlot
    <3> QED BY <2>2, <3>1, <3>2 DEF WriteSlot, cVars
  <2>3. CASE Publish
    BY <2>3 DEF Publish, cVars
  <2>4. ASSUME NEW n \in 1..Batch, Peek(n)
        PROVE  TypeOK'
    <3>1. cLeft' \in 0..Batch
      BY <2>0, <2>4 DEF Peek, Counters
    <3> QED BY <2>0, <2>4, <3>1 DEF Peek, pVars
  <2>5. CASE ReadSlot
    <3>1. cCachedCons' \in Counters
      BY <2>5, PlusType DEF ReadSlot
    <3>2. descs' \in Seq(Values \cup {Unwritten})
      BY <2>5, IdxType DEF ReadSlot
    <3> QED BY <2>5, <3>1, <3>2 DEF ReadSlot, pVars
  <2>6. CASE Release
    BY <2>6 DEF Release, pVars
  <2>7. CASE UNCHANGED vars
    BY <2>7 DEF vars
  <2> QED BY <2>1, <2>2, <2>3, <2>4, <2>5, <2>6, <2>7
          DEF Next, Produce, Consume
<1> QED BY <1>1, <1>2, PTL DEF Spec

-----------------------------------------------------------------------------
(* The order of the indices *)

\* The invariant that makes the ring safe is inductive together with the types:
\* each call takes at most what its own stale view of the other side allows.
LEMMA IndexStep == TypeOK /\ IndexInv /\ [Next]_vars => IndexInv'
<1> SUFFICES ASSUME TypeOK, IndexInv, [Next]_vars
             PROVE  IndexInv'
  OBVIOUS
<1> USE RingAssumption DEF TypeOK, IndexInv, Counters, Sub, Plus
<1>1. ASSUME NEW n \in 1..Batch, Reserve(n)
      PROVE  IndexInv'
  BY <1>1 DEF Reserve, FreeUpTo, ProducerIdle, cVars
<1>2. ASSUME NEW v \in Values, WriteSlot(v)
      PROVE  IndexInv'
  BY <1>2 DEF WriteSlot, cVars
<1>3. CASE Publish
  BY <1>3 DEF Publish, cVars
<1>4. ASSUME NEW n \in 1..Batch, Peek(n)
      PROVE  IndexInv'
  BY <1>4 DEF Peek, SeenUpTo, ConsumerIdle, pVars
<1>5. CASE ReadSlot
  BY <1>5 DEF ReadSlot, pVars
<1>6. CASE Release
  BY <1>6 DEF Release, pVars
<1>7. CASE UNCHANGED vars
  BY <1>7 DEF vars
<1> QED BY <1>1, <1>2, <1>3, <1>4, <1>5, <1>6, <1>7
        DEF Next, Produce, Consume

\* The six indices of a ring stay in order around the u32 circle, and no ring
\* ever holds more than its size, whatever the two cached copies are.
THEOREM IndicesOrdered == Spec => []IndexInv
<1>1. Init => IndexInv
  BY RingAssumption DEF Init, IndexInv, Sub
<1>2. TypeOK /\ IndexInv /\ [Next]_vars => IndexInv'
  BY IndexStep
<1> QED BY <1>1, <1>2, TypeCorrect, PTL DEF Spec

-----------------------------------------------------------------------------
(* What the consumer may read is left alone *)

\* The slot of a published entry is never the slot being written.
LEMMA WriteElsewhere ==
  ASSUME TypeOK, IndexInv, pLeft > 0,
         NEW k \in 0..(Sub(producer, consumer) - 1)
  PROVE  Idx(Plus(consumer, k)) # Idx(pCachedProd)
<1>1. Plus(consumer, k) \in Counters
  <2>1. Sub(producer, consumer) \in Counters
    BY SubType DEF TypeOK
  <2>2. k \in 0..Wrap
    BY <2>1, RingAssumption DEF Counters
  <2> QED BY <2>2, PlusType DEF TypeOK
<1>2. /\ 0 < Sub(pCachedProd, Plus(consumer, k))
      /\ Sub(pCachedProd, Plus(consumer, k)) < Size
  BY RingAssumption DEF TypeOK, IndexInv, Counters, Sub, Plus
<1> QED BY <1>1, <1>2, IdxDistinct DEF TypeOK

\* Enqueue calls never touch a slot between the consumer index and the producer
\* index (the enqueue loops of af_xdp.c and xdpsock_user.c).
THEOREM EntriesStable == Spec => StableEntries
<1>1. TypeOK /\ IndexInv /\ [Next]_vars
        => [\A i \in Unreleased : ring'[i] = ring[i]]_vars
  <2> SUFFICES ASSUME TypeOK, IndexInv, [Next]_vars, NEW i \in Unreleased
               PROVE  ring'[i] = ring[i]
    BY DEF vars
  <2>1. ASSUME NEW v \in Values, WriteSlot(v)
        PROVE  ring'[i] = ring[i]
    <3>1. i # Idx(pCachedProd)
      BY <2>1, WriteElsewhere DEF Unreleased, WriteSlot
    <3> QED BY <2>1, <3>1 DEF WriteSlot, TypeOK
  <2>2. CASE UNCHANGED ring
    BY <2>2
  <2> QED BY <2>1, <2>2
          DEF Next, Produce, Consume, Reserve, Publish, Peek, ReadSlot, Release,
              vars
<1> QED BY <1>1, TypeCorrect, IndicesOrdered, PTL DEF Spec, StableEntries

-----------------------------------------------------------------------------
(* What the consumer reads was written *)

\* Every slot from the consumer index up to the next slot to write holds an
\* entry: the strengthening that ReadsPublished needs.
Filled ==
  \A k \in 0..(Sub(pCachedProd, consumer) - 1) :
    ring[Idx(Plus(consumer, k))] \in Values

\* Writing the next slot and releasing slots already read both keep the filled
\* part of the ring contiguous.
LEMMA FilledStep ==
  TypeOK /\ IndexInv /\ Filled /\ [Next]_vars => Filled'
<1> SUFFICES ASSUME TypeOK, IndexInv, Filled, [Next]_vars,
                    NEW k \in 0..(Sub(pCachedProd, consumer) - 1)'
             PROVE  (ring[Idx(Plus(consumer, k))])' \in Values
  BY DEF Filled
<1> USE RingAssumption
<1>1. ASSUME NEW v \in Values, WriteSlot(v)
      PROVE  (ring[Idx(Plus(consumer, k))])' \in Values
  <2>1. /\ consumer' = consumer
        /\ ring' = [ring EXCEPT ![Idx(pCachedProd)] = v]
    BY <1>1 DEF WriteSlot, cVars
  <2>2. CASE Idx(Plus(consumer, k)) = Idx(pCachedProd)
    <3>1. Idx(pCachedProd) \in Slots
      BY IdxType DEF TypeOK
    <3> QED BY <2>1, <2>2, <3>1 DEF TypeOK
  <2>3. CASE Idx(Plus(consumer, k)) # Idx(pCachedProd)
    <3>1. k \in 0..(Sub(pCachedProd, consumer) - 1)
      <4>1. Plus(consumer, k) # pCachedProd
        BY <2>3
      <4> QED BY <1>1, <4>1
              DEF WriteSlot, cVars, TypeOK, IndexInv, Counters, Sub, Plus
    <3>2. ring'[Idx(Plus(consumer, k))] = ring[Idx(Plus(consumer, k))]
      BY <2>1, <2>3 DEF TypeOK
    <3> QED BY <2>1, <3>1, <3>2 DEF Filled
  <2> QED BY <2>2, <2>3
<1>2. CASE Release
  <2> DEFINE j == k + Sub(cCachedCons, consumer)
  <2>1. /\ j \in 0..(Sub(pCachedProd, consumer) - 1)
        /\ Plus(consumer', k) = Plus(consumer, j)
    BY <1>2 DEF Release, pVars, TypeOK, IndexInv, Counters, Sub, Plus
  <2> QED BY <1>2, <2>1 DEF Release, Filled
<1>3. CASE UNCHANGED <<pCachedProd, consumer, ring>>
  BY <1>3 DEF Filled
<1> QED BY <1>1, <1>2, <1>3
        DEF Next, Produce, Consume, Reserve, Publish, Peek, ReadSlot, vars,
            pVars, cVars

LEMMA AlwaysFilled == Spec => []Filled
<1>1. Init => Filled
  BY RingAssumption DEF Init, Filled, Sub
<1>2. TypeOK /\ IndexInv /\ Filled /\ [Next]_vars => Filled'
  BY FilledStep
<1> QED BY <1>1, <1>2, TypeCorrect, IndicesOrdered, PTL DEF Spec

\* A dequeue call reads only entries that were written and published to it
\* (xq_deq, umem_complete_from_kernel).
THEOREM OnlyPublishedRead == Spec => []ReadsPublished
<1>1. TypeOK /\ IndexInv /\ Filled => ReadsPublished
  <2> SUFFICES ASSUME TypeOK, IndexInv, Filled, cLeft > 0
               PROVE  /\ Idx(cCachedCons) \in Unreleased
                      /\ ring[Idx(cCachedCons)] \in Values
    BY DEF ReadsPublished
  <2> DEFINE k == Sub(cCachedCons, consumer)
  <2>1. /\ k \in 0..(Sub(producer, consumer) - 1)
        /\ k \in 0..(Sub(pCachedProd, consumer) - 1)
        /\ Plus(consumer, k) = cCachedCons
    BY RingAssumption DEF TypeOK, IndexInv, Counters, Sub, Plus
  <2> QED BY <2>1 DEF Filled, Unreleased
<1> QED BY <1>1, TypeCorrect, IndicesOrdered, AlwaysFilled, PTL

-----------------------------------------------------------------------------
(* What a call under way has done *)

\* The entry k places after the consumer index.
Entry(k) == ring[Idx(Plus(consumer, k))]

\* An enqueue call writes no more than a batch; a dequeue call has copied out the
\* entries it has gone past, in order, and no more than a batch.
CallInv ==
  /\ Sub(pCachedProd, producer) + pLeft <= Batch
  /\ Len(descs) = Sub(cCachedCons, consumer)
  /\ Len(descs) + cLeft <= Batch
  /\ \A k \in 1..Len(descs) : descs[k] = Entry(k - 1)

\* Writing a slot changes none of the entries from the consumer index up to the
\* producer index.
LEMMA EntriesKept ==
  ASSUME TypeOK, IndexInv, NEW v \in Values, WriteSlot(v),
         NEW k \in 0..(Sub(producer, consumer) - 1)
  PROVE  Entry(k)' = Entry(k)
<1>1. Idx(Plus(consumer, k)) # Idx(pCachedProd)
  BY WriteElsewhere DEF WriteSlot
<1> QED BY <1>1 DEF WriteSlot, Entry, TypeOK, cVars

\* The calls of both sides keep CallInv.
LEMMA CallStep == TypeOK /\ IndexInv /\ CallInv /\ [Next]_vars => CallInv'
<1> SUFFICES ASSUME TypeOK, IndexInv, CallInv, [Next]_vars
             PROVE  CallInv'
  OBVIOUS
<1> USE RingAssumption
<1>0. Len(descs) \in Nat
  BY LenProperties DEF TypeOK
<1>1. ASSUME NEW n \in 1..Batch, Reserve(n)
      PROVE  CallInv'
  BY <1>1 DEF Reserve, ProducerIdle, cVars, CallInv, Entry, Sub, TypeOK, Counters
<1>2. ASSUME NEW v \in Values, WriteSlot(v)
      PROVE  CallInv'
  <2>1. Sub(pCachedProd, producer)' + pLeft' = Sub(pCachedProd, producer) + pLeft
    BY <1>2 DEF WriteSlot, cVars, TypeOK, IndexInv, Counters, Sub, Plus
  <2>2. ASSUME NEW k \in 1..Len(descs) PROVE descs[k] = Entry(k - 1)'
    <3>1. k - 1 \in 0..(Sub(producer, consumer) - 1)
      BY <1>0 DEF CallInv, TypeOK, IndexInv, Counters, Sub
    <3> QED BY <1>2, <3>1, EntriesKept DEF CallInv
  <2> QED BY <1>2, <2>1, <2>2 DEF WriteSlot, cVars, CallInv, Sub
<1>3. CASE Publish
  BY <1>3 DEF Publish, cVars, CallInv, Entry, Sub, TypeOK, Counters
<1>4. ASSUME NEW n \in 1..Batch, Peek(n)
      PROVE  CallInv'
  <2>1. Len(descs') = 0
    BY <1>4 DEF Peek
  <2>2. cLeft' \in Nat /\ Batch \in Nat /\ cLeft' <= Batch
    <3>1. Sub(SeenUpTo, cCachedCons) \in Counters
      BY SubType DEF SeenUpTo, TypeOK
    <3> QED BY <1>4, <3>1 DEF Peek, Counters
  <2>3. Sub(cCachedCons, consumer)' = 0
    BY <1>4 DEF Peek, ConsumerIdle, Sub, TypeOK, Counters
  <2>4. (Sub(pCachedProd, producer) + pLeft)' = Sub(pCachedProd, producer) + pLeft
    BY <1>4 DEF Peek, pVars, Sub
  <2>5. (Len(descs) + cLeft <= Batch)'
    <3>1. Len(descs') \in Nat /\ Len(descs') <= 0
      BY <2>1
    <3> QED BY <3>1, <2>2
  <2>6. 1..Len(descs') = {}
    BY <2>1
  <2> QED BY <2>1, <2>3, <2>4, <2>5, <2>6 DEF CallInv, Sub
<1>5. CASE ReadSlot
  <2>1. /\ descs' = Append(descs, ring[Idx(cCachedCons)])
        /\ UNCHANGED <<consumer, ring, pCachedProd, producer, pLeft>>
    BY <1>5 DEF ReadSlot, pVars
  <2>2. Plus(consumer, Len(descs)) = cCachedCons
    BY DEF CallInv, Sub, Plus, TypeOK, IndexInv, Counters
  <2>3. Sub(cCachedCons, consumer)' = Len(descs) + 1
    BY <1>5 DEF ReadSlot, pVars, CallInv, Sub, Plus, TypeOK, IndexInv, Counters
  <2>4. /\ Len(descs') = Len(descs) + 1
        /\ \A k \in 1..Len(descs) : descs'[k] = descs[k]
        /\ descs'[Len(descs) + 1] = ring[Idx(cCachedCons)]
    BY <2>1, IdxType DEF TypeOK
  <2>5. \A k \in 1..Len(descs') : descs'[k] = Entry(k - 1)'
    BY <1>0, <2>1, <2>2, <2>4 DEF CallInv, Entry
  <2>6. Len(descs') + cLeft' <= Batch
    BY <1>0, <1>5, <2>4 DEF CallInv, ReadSlot, TypeOK
  <2> QED BY <2>1, <2>3, <2>4, <2>5, <2>6 DEF CallInv, Sub
<1>6. CASE Release
  <2>1. descs' = <<>> /\ Len(descs') = 0
    BY <1>6 DEF Release
  <2>2. Sub(cCachedCons, consumer)' = 0
    BY <1>6 DEF Release, Sub, TypeOK, Counters
  <2> QED BY <1>6, <2>1, <2>2 DEF Release, pVars, CallInv, Sub
<1>7. CASE UNCHANGED vars
  BY <1>7 DEF vars, CallInv, Entry, Sub
<1> QED BY <1>1, <1>2, <1>3, <1>4, <1>5, <1>6, <1>7
        DEF Next, Produce, Consume

LEMMA CallAlways == Spec => []CallInv
<1>1. Init => CallInv
  BY RingAssumption DEF Init, CallInv, Sub
<1>2. TypeOK /\ IndexInv /\ CallInv /\ [Next]_vars => CallInv'
  BY CallStep
<1> QED BY <1>1, <1>2, TypeCorrect, IndicesOrdered, PTL DEF Spec

-----------------------------------------------------------------------------
(* What is on the ring, as a sequence *)

\* The entries from the consumer index up to the producer index.
ContentsRead ==
  /\ Contents \in Seq(Values)
  /\ Len(Contents) = Sub(producer, consumer)
  /\ \A i \in 1..Len(Contents) : Contents[i] = Entry(i - 1)

LEMMA ContentsSeq == TypeOK /\ IndexInv /\ Filled => ContentsRead
<1> SUFFICES ASSUME TypeOK, IndexInv, Filled
             PROVE  ContentsRead
  OBVIOUS
<1> DEFINE n == Sub(producer, consumer)
<1>1. n \in Nat
  BY SubType DEF TypeOK, Counters
<1>2. \A i \in 1..n : Entry(i - 1) \in Values
  <2> SUFFICES ASSUME NEW i \in 1..n
               PROVE  Entry(i - 1) \in Values
    OBVIOUS
  <2>1. i - 1 \in 0..(Sub(pCachedProd, consumer) - 1)
    BY <1>1, RingAssumption DEF TypeOK, IndexInv, Counters, Sub
  <2> QED BY <2>1 DEF Filled, Entry
<1>3. Contents = [i \in 1..n |-> Entry(i - 1)]
  BY DEF Contents, Entry
<1> QED BY <1>1, <1>2, <1>3 DEF ContentsRead

\* A step that leaves the shared memory and the result alone is a stutter.
LEMMA StutterStep ==
  ASSUME UNCHANGED <<producer, consumer, ring, returned>>
  PROVE  UNCHANGED Channel!vars
BY DEF Contents, Sub, Plus, Idx, Channel!vars

\* So is a write, which is to a slot outside the contents.
LEMMA WriteStutters ==
  ASSUME TypeOK, IndexInv, ContentsRead, ContentsRead',
         NEW v \in Values, WriteSlot(v)
  PROVE  UNCHANGED Channel!vars
<1>1. UNCHANGED <<producer, consumer, returned>>
  BY DEF WriteSlot, cVars
<1>2. /\ Contents \in Seq(Values) /\ Contents' \in Seq(Values)
      /\ Len(Contents) = Sub(producer, consumer)
      /\ Len(Contents') = Len(Contents)
  BY <1>1 DEF ContentsRead, Sub
<1>3. ASSUME NEW i \in 1..Len(Contents)
      PROVE  Contents'[i] = Contents[i]
  <2>1. i - 1 \in 0..(Sub(producer, consumer) - 1)
    BY <1>2
  <2>2. Contents[i] = Entry(i - 1) /\ Contents'[i] = Entry(i - 1)'
    BY <1>2 DEF ContentsRead
  <2> QED BY <2>1, <2>2, EntriesKept
<1> QED BY <1>1, <1>2, <1>3, SeqEqual DEF Channel!vars

\* Publishing the producer index sends what the call has written.
LEMMA PublishSends ==
  ASSUME TypeOK, IndexInv, CallInv, Filled, ContentsRead, ContentsRead', Publish
  PROVE  Channel!Send
<1> DEFINE m == Len(Contents)
           n == Sub(pCachedProd, producer)
           batch == [i \in 1..n |-> Entry(m + i - 1)]
<1>1. /\ UNCHANGED <<consumer, ring, returned>>
      /\ producer' = pCachedProd
  BY DEF Publish, cVars
<1>2. /\ m = Sub(producer, consumer) /\ m \in Nat
      /\ n \in 1..Batch
      /\ m + n <= Size
      /\ Sub(pCachedProd, consumer) = m + n
  <2>1. m = Sub(producer, consumer)
    BY DEF ContentsRead
  <2> QED BY <2>1, RingAssumption
          DEF Publish, CallInv, TypeOK, IndexInv, Counters, Sub
<1> HIDE DEF n
<1>3. ASSUME NEW i \in 1..n
      PROVE  Entry(m + i - 1) \in Values
  <2>1. m + i - 1 \in 0..(Sub(pCachedProd, consumer) - 1)
    BY <1>2, RingAssumption
  <2> QED BY <2>1 DEF Filled, Entry
<1>4. /\ batch \in Seq(Values) /\ Len(batch) = n
      /\ \A i \in 1..n : batch[i] = Entry(m + i - 1)
  BY <1>2, <1>3, RingAssumption
<1>5. batch \in Channel!BoundedSeq(Values, Batch) /\ batch # <<>>
  <2>1. batch \in [1..n -> Values]
    BY <1>3
  <2>2. n \in 0..Batch
    BY <1>2, RingAssumption
  <2>3. batch # <<>>
    BY <1>2, <1>4
  <2> QED BY <2>1, <2>2, <2>3 DEF Channel!BoundedSeq, Channel!SeqOf
<1> HIDE DEF batch
<1>6. Contents' = Contents \o batch
  <2>0. Contents \in Seq(Values) /\ Len(Contents) = m
    BY DEF ContentsRead
  <2>1. /\ Contents \o batch \in Seq(Values)
        /\ Len(Contents \o batch) = m + n
        /\ \A i \in 1..(m + n) :
             (Contents \o batch)[i] = IF i <= m THEN Contents[i] ELSE batch[i - m]
    <3> HIDE DEF m
    <3> QED BY <1>4, <2>0, ConcatProperties
  <2>2. Contents' \in Seq(Values) /\ Len(Contents') = m + n
    BY <1>1, <1>2 DEF ContentsRead, Sub
  <2>3. ASSUME NEW i \in 1..(m + n)
        PROVE  Contents'[i] = (Contents \o batch)[i]
    <3>1. Contents'[i] = Entry(i - 1)
      BY <1>1, <2>2 DEF ContentsRead, Entry
    <3>2. CASE i <= m
      BY <1>2, <2>1, <3>1, <3>2 DEF ContentsRead
    <3>3. CASE ~(i <= m)
      <4>1. i - m \in 1..n /\ m + (i - m) - 1 = i - 1
        BY <1>2, <3>3, RingAssumption
      <4>2. batch[i - m] = Entry(i - 1)
        BY <1>4, <4>1
      <4> QED BY <2>1, <3>1, <3>3, <4>2
    <3> QED BY <3>2, <3>3
  <2> QED BY <2>1, <2>2, <2>3, SeqEqual
<1> QED BY <1>1, <1>2, <1>4, <1>5, <1>6 DEF Channel!Send

\* Releasing the consumer index receives what the call has copied out.
LEMMA ReleaseReceives ==
  ASSUME TypeOK, IndexInv, CallInv, ContentsRead, ContentsRead', Release
  PROVE  Channel!Receive
<1> DEFINE m == Len(Contents)
           n == Len(descs)
<1>1. /\ UNCHANGED <<producer, ring>>
      /\ consumer' = cCachedCons
      /\ returned' = descs
  BY DEF Release, pVars
<1>2. /\ m = Sub(producer, consumer) /\ m \in Nat
      /\ n \in 1..Batch /\ n <= m
      /\ Sub(producer, cCachedCons) = m - n
      /\ cCachedCons = Plus(consumer, n)
  <2>1. m = Sub(producer, consumer) /\ n = Sub(cCachedCons, consumer)
    BY DEF ContentsRead, CallInv
  <2>2. n + cLeft <= Batch
    BY DEF CallInv
  <2> QED BY <2>1, <2>2, RingAssumption
          DEF Release, TypeOK, IndexInv, Counters, Sub, Plus
<1>3. ASSUME NEW k \in 1..m
      PROVE  Contents[k] \in Values /\ Contents[k] = Entry(k - 1)
  BY <1>2, ElementOfSeq DEF ContentsRead
<1>4. descs = SubSeq(Contents, 1, n)
  <2>1. /\ SubSeq(Contents, 1, n) \in Seq(Values \cup {Unwritten})
        /\ Len(SubSeq(Contents, 1, n)) = n
        /\ \A i \in 1..n : SubSeq(Contents, 1, n)[i] = Contents[i]
    BY <1>2, <1>3, SubSeqProperties, RingAssumption
  <2>2. \A i \in 1..n : descs[i] = Contents[i]
    BY <1>2, <1>3, RingAssumption DEF CallInv
  <2> QED BY <2>1, <2>2, SeqEqual DEF TypeOK
<1>5. Contents' = SubSeq(Contents, n + 1, m)
  <2>1. /\ SubSeq(Contents, n + 1, m) \in Seq(Values)
        /\ Len(SubSeq(Contents, n + 1, m)) = m - n
        /\ \A i \in 1..(m - n) : SubSeq(Contents, n + 1, m)[i] = Contents[n + i]
    BY <1>2, <1>3, SubSeqProperties, RingAssumption
  <2>2. Contents' \in Seq(Values) /\ Len(Contents') = m - n
    BY <1>1, <1>2 DEF ContentsRead, Sub
  <2>3. ASSUME NEW i \in 1..(m - n)
        PROVE  Contents'[i] = Contents[n + i]
    <3>1. Contents'[i] = ring[Idx(Plus(cCachedCons, i - 1))]
      BY <1>1, <2>2 DEF ContentsRead, Entry
    <3>2. Plus(cCachedCons, i - 1) = Plus(consumer, (n + i) - 1)
      BY <1>2, RingAssumption DEF TypeOK, Counters, Sub, Plus
    <3>3. n + i \in 1..m
      BY <1>2, RingAssumption
    <3> QED BY <1>3, <3>1, <3>2, <3>3 DEF Entry
  <2> QED BY <2>1, <2>2, <2>3, SeqEqual
<1> QED BY <1>1, <1>2, <1>4, <1>5 DEF Channel!Receive

-----------------------------------------------------------------------------
(* The refinement *)

\* The enqueue and dequeue calls of both programs, interleaved access by access
\* and each working with a stale copy of the other side's index, send and receive
\* whole batches in order and never overfill the ring.
THEOREM RingImplementsChannel == Spec => ImplementsChannel
<1>1. Init => Channel!Init
  BY RingAssumption DEF Init, Channel!Init, Contents, Sub
<1>2. /\ TypeOK /\ IndexInv /\ CallInv /\ Filled
      /\ ContentsRead /\ ContentsRead'
      /\ [Next]_vars
      => [Channel!Next]_Channel!vars
  <2> SUFFICES ASSUME TypeOK, IndexInv, CallInv, Filled,
                      ContentsRead, ContentsRead', [Next]_vars
               PROVE  Channel!Next \/ UNCHANGED Channel!vars
    OBVIOUS
  <2>1. ASSUME NEW v \in Values, WriteSlot(v)
        PROVE  UNCHANGED Channel!vars
    BY <2>1, WriteStutters
  <2>2. CASE Publish
    BY <2>2, PublishSends DEF Channel!Next
  <2>3. CASE Release
    BY <2>3, ReleaseReceives DEF Channel!Next
  <2>4. CASE UNCHANGED <<producer, consumer, ring, returned>>
    BY <2>4, StutterStep
  <2> QED BY <2>1, <2>2, <2>3, <2>4
          DEF Next, Produce, Consume, Reserve, Peek, ReadSlot, vars, pVars, cVars
<1>3. Spec => []ContentsRead
  BY ContentsSeq, TypeCorrect, IndicesOrdered, AlwaysFilled, PTL
<1> QED BY <1>1, <1>2, <1>3, TypeCorrect, IndicesOrdered, AlwaysFilled, CallAlways,
           PTL DEF Spec, ImplementsChannel, Channel!Spec

=============================================================================
