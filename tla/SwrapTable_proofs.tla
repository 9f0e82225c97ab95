---------------------------- MODULE SwrapTable_proofs ----------------------------
(***************************************************************************)
(* Proofs about SwrapTable, for any number of threads, descriptors and     *)
(* slots.  They are about disciplined applications, see Begin and GivesUp. *)
(***************************************************************************)
EXTENDS SwrapTable, FiniteSetTheorems, TLAPS

-----------------------------------------------------------------------------
(* Least elements and cardinalities *)

\* A finite set of integers has a least element.  (The segments below its elements
\* are ordered by inclusion, which is well-founded.)
LEMMA LeastElement ==
  ASSUME NEW S, S \subseteq Int, IsFiniteSet(S), S # {}
  PROVE  Min(S) \in S /\ \A y \in S : Min(S) <= y
<1> DEFINE below(x) == {y \in S : y <= x}
           T == {below(x) : x \in S}
           R == StrictSubsetOrdering(S)
<1>1. T \subseteq SUBSET S /\ T # {}
  OBVIOUS
<1>2. FiniteSubsetsOf(S) = SUBSET S
  BY FS_FiniteSubsetsOfFinite
<1>3. IsWellFoundedOn(R, FiniteSubsetsOf(S))
  BY FS_StrictSubsetOrderingWellFounded
<1>4. PICK B \in T : \A C \in T : ~(<<C, B>> \in R)
  <2> HIDE DEF T, R
  <2>1. T \subseteq FiniteSubsetsOf(S)
    BY <1>1, <1>2
  <2> QED BY <1>1, <1>3, <2>1, WFMin, Zenon
<1>5. PICK x \in S : B = below(x)
  OBVIOUS
<1>6. \A y \in S : x <= y
  <2> SUFFICES ASSUME NEW y \in S, y < x PROVE FALSE
    BY SMT
  <2>0. \A z \in S : z \in Int
    OBVIOUS
  <2>1. below(y) \subseteq below(x) /\ x \in below(x) /\ x \notin below(y)
    <3>1. x \in Int /\ y \in Int
      BY <2>0
    <3>2. ASSUME NEW z \in S, z <= y PROVE z <= x
      BY <2>0, <3>1, <3>2, SMT
    <3>3. x <= x /\ ~(x <= y)
      BY <3>1, SMT
    <3> QED BY <3>2, <3>3, Zenon
  <2>2. below(y) \in T
    OBVIOUS
  <2>3. <<below(y), B>> \in R
    BY <1>5, <2>1, <1>1 DEF StrictSubsetOrdering
  <2> QED BY <1>4, <2>2, <2>3
<1> QED BY <1>6 DEF Min

LEMMA Finite ==
  /\ IsFiniteSet(Threads) /\ IsFiniteSet(Fds) /\ IsFiniteSet(Slots)
  /\ Cardinality(Fds) = NumFds /\ Cardinality(Slots) = NumSlots
  /\ NumFds \in Nat /\ NumFds > 0 /\ NumSlots \in Nat /\ NumSlots > 0
<1>1. NumFds \in Nat /\ NumFds > 0 /\ NumSlots \in Nat /\ NumSlots > 0
      /\ IsFiniteSet(Threads)
  BY SwrapTableAssumption
<1>2. ASSUME NEW n \in Nat
      PROVE  IsFiniteSet(0..(n - 1)) /\ Cardinality(0..(n - 1)) = n
  <2>1. 0 \in Int /\ n - 1 \in Int
    OBVIOUS
  <2>2. /\ IsFiniteSet(0..(n - 1))
        /\ Cardinality(0..(n - 1)) = IF 0 > n - 1 THEN 0 ELSE n - 1 - 0 + 1
    BY <2>1, FS_Interval
  <2> QED BY <2>2
<1> QED BY <1>1, <1>2 DEF Fds, Slots

Bit(b) == IF b THEN 1 ELSE 0

\* Two sets that differ in x at most.
LEMMA DifferInOne ==
  ASSUME NEW S, NEW T, IsFiniteSet(S), IsFiniteSet(T), NEW x,
         \A y : y # x => (y \in S <=> y \in T)
  PROVE  /\ Cardinality(S) \in Nat /\ Cardinality(T) \in Nat
         /\ Cardinality(T) = Cardinality(S) + Bit(x \in T) - Bit(x \in S)
<1>1. S \ {x} = T \ {x}
  OBVIOUS
<1>2. /\ Cardinality(S \ {x}) = IF x \in S THEN Cardinality(S) - 1 ELSE Cardinality(S)
      /\ Cardinality(T \ {x}) = IF x \in T THEN Cardinality(T) - 1 ELSE Cardinality(T)
  BY FS_RemoveElement, Zenon
<1>3. Cardinality(S) \in Nat /\ Cardinality(T) \in Nat
  BY FS_CardinalityType
<1> QED BY <1>1, <1>2, <1>3 DEF Bit

-----------------------------------------------------------------------------
(* The invariant *)

Labels == {"idle", "stale", "staleReset", "staleDrop", "done", "create", "take", "set",
           "close", "libcclose", "closeReset", "closeDrop", "closed", "libcdup", "inc",
           "libcaccept", "copy"}
StaleSteps == {"stale", "staleReset", "staleDrop"}
CloseSteps == {"close", "libcclose", "closeReset", "closeDrop"}
DupOps == {"dup", "dupfd", "dup2"}

\* The steps of a call.
StepsOf(op) ==
  CASE op = "none"            -> {"idle"}
    [] op = "socket"          -> StaleSteps \cup {"create", "take", "set"}
    [] op \in {"plain", "signalfd"} -> StaleSteps \cup {"done"}
    [] op = "close"           -> CloseSteps \cup {"closed"}
    [] op = "accept"          -> CloseSteps \cup StaleSteps
                                   \cup {"done", "closed", "libcaccept", "copy", "create",
                                         "take", "set"}
    [] op \in {"dup", "dupfd"} -> StaleSteps \cup {"libcdup", "inc", "set"}
    [] op = "dup2"            -> CloseSteps \cup StaleSteps \cup {"libcdup", "inc", "set"}
    [] OTHER                  -> {}

CallType == [op : AllOps \cup {"none"}, fd : Fds \cup {-1}, new : Fds \cup {-1},
             idx : Slots \cup {-1}, target : Fds \cup {-1}, slot : Slots \cup {-1}]

\* A call on what is no socket, to drop its index.
NotSocketCall(t) ==
  \/ call[t].op = "signalfd"
  \/ call[t].op = "accept" /\ pc[t] \in StaleSteps \cup {"done"}

TypeInv ==
  /\ file \in [Fds -> Sockets \cup {Plain, Overlooked, Closed}]
  /\ fdIdx \in [Fds -> Slots \cup {-1}]
  /\ info \in [Slots -> Sockets \cup {0}]
  /\ refcount \in [Slots -> Nat]
  /\ nextFree \in [Slots -> Slots \cup {-1}]
  /\ firstFree \in Slots \cup {-1}
  /\ {resetMutex, ffMutex} \subseteq Threads \cup {NoThread}
  /\ app \in Applications /\ held \subseteq Fds
  /\ pc \in [Threads -> Labels]
  /\ call \in [Threads -> CallType]

\* Where a call is, and what it has filled in by then.
CallInv(t) ==
  LET c == call[t]
  IN /\ pc[t] \in StepsOf(c.op)
     /\ c.op \in app.ops \cup {"none"}
     /\ c.op = "none" => c = NoCall
     /\ c.op \in {"socket", "plain", "signalfd"} => c.new \in Fds
     /\ c.op \in DupOps => c.fd \in held
     /\ c.op = "accept" => IF NotSocketCall(t) THEN c.fd = -1 ELSE c.fd \in held
     /\ c.op = "dup2" => c.new \in Fds /\ c.new # c.fd
     /\ pc[t] \in {"inc", "take", "set", "create", "copy", "done"} \cup StaleSteps => c.new \in Fds
     /\ c.op = "close" => c.fd = c.target
     /\ pc[t] \in {"libcaccept"} => c.new = -1
     /\ c.op \in {"dup", "dupfd"} /\ pc[t] = "libcdup" => c.new = -1
     /\ c.op = "close" => c.new = -1
     /\ pc[t] \in {"inc"} \cup StaleSteps => c.target = c.new
     /\ pc[t] \in CloseSteps => c.target \in Fds /\ (c.op # "close" => c.target = c.new)
     /\ pc[t] \in {"staleReset", "staleDrop", "closeReset", "closeDrop"} => c.slot \in Slots
     /\ pc[t] \in {"inc", "set"} => c.idx \in Slots
     /\ c.op = "dup2" /\ pc[t] # "libcdup" => c.idx \in Slots
     /\ c.op \in DupOps /\ pc[t] \in StaleSteps => c.idx \in Slots

LockInv ==
  \A t \in Threads :
    /\ resetMutex = t <=> pc[t] \in {"staleReset", "staleDrop", "closeReset", "closeDrop"}
    /\ ffMutex = t <=> pc[t] = "take"
    /\ pc[t] = "take" => firstFree # -1

\* The descriptors a running call was given, or has yet to close.
Owns(t, f) ==
  /\ pc[t] # "closed"
  /\ \/ call[t].new = f
     \/ call[t].op = "close" /\ call[t].target = f

\* They are open and nobody else's; dup2 runs alone.
OwnInv(t) ==
  /\ \A f \in Fds : Owns(t, f) => f \notin held /\ (call[t].op # "dup2" => file[f] # Closed)
  /\ \A u \in Threads \ {t}, f \in Fds : ~(Owns(t, f) /\ Owns(u, f))
  /\ call[t].op = "dup2" => \A u \in Threads \ {t} : pc[u] = "idle"

\* What a descriptor with index i may refer to: the library overlooked it, or
\* describes it.
Describes(i, x) == x = Overlooked \/ (x \in Sockets /\ info[i] = x)

\* What a call knows of the descriptors and slots it works on.
InfoInv(t) ==
  LET c == call[t]
  IN /\ pc[t] \in {"staleReset", "closeReset"} => fdIdx[c.target] = c.slot
     /\ pc[t] = "staleDrop" => fdIdx[c.target] = -1
     /\ pc[t] = "done" => fdIdx[c.new] = -1
     /\ c.op = "plain" => file[c.new] = Plain
     /\ c.op = "socket" => file[c.new] \in Sockets
     /\ c.op = "accept" /\ ~NotSocketCall(t) /\ pc[t] \notin {"libcaccept", "closed"} =>
          file[c.new] \in Sockets
     /\ NotSocketCall(t) => file[c.new] \in {Plain, Overlooked}
     /\ c.op \in DupOps /\ pc[t] \in CloseSteps \cup {"libcdup", "inc"} => c.idx = fdIdx[c.fd]
     /\ c.op \in DupOps /\ pc[t] \in StaleSteps \cup {"inc"} => Describes(c.idx, file[c.new])
     /\ pc[t] = "set" => Describes(c.idx, file[c.new])
     /\ pc[t] = "libcaccept" => file[c.fd] \in Sockets

ThreadInv(t) == CallInv(t) /\ OwnInv(t) /\ InfoInv(t)

\* What the application holds.
HeldInv(f) ==
  /\ file[f] # Closed
  /\ file[f] \in Sockets => fdIdx[f] # -1 /\ info[fdIdx[f]] = file[f]
  /\ file[f] = Plain => fdIdx[f] = -1

\* The index of a descriptor the call was given is not dropped yet, or stays.
Leaves(t) ==
  \/ pc[t] \in {"close", "closeReset", "stale", "staleReset"}
  \/ call[t].op = "dup2" /\ pc[t] = "libcdup" /\ call[t].idx = -1

\* Unless descriptors disappear, only those that are held or that a call is about
\* to close, replace or look at have an index.
IndexInv ==
  "hidden" \notin app.ops => \A f \in Fds : fdIdx[f] # -1 =>
    f \in held \/ (\E t \in Threads : Owns(t, f) /\ Leaves(t))

Mapped(i) == {f \in Fds : fdIdx[f] = i}
Waiting(i) == {t \in Threads : Pending(t, i)}
Copying(i) == {t \in Threads : InDup(t, i)}
Count(i) == Cardinality(Mapped(i)) + Cardinality(Waiting(i)) + Cardinality(Copying(i))
CountInv == \A i \in Slots : /\ refcount[i] >= Count(i)
                             /\ "hidden" \notin app.ops => refcount[i] = Count(i)

FreeList(q, n) ==
  /\ \A j, k \in 1..n : q[j] = q[k] => j = k
  /\ \A i \in Slots : refcount[i] = 0 <=> \E k \in 1..n : q[k] = i
  /\ firstFree = IF n = 0 THEN -1 ELSE q[1]
  /\ \A k \in 1..n : nextFree[q[k]] = IF k = n THEN -1 ELSE q[k + 1]
ListInv == \E n \in Nat : \E q \in [1..n -> Slots] : FreeList(q, n)

Inv == /\ TypeInv /\ LockInv /\ IndexInv /\ CountInv /\ ListInv
       /\ \A f \in held : HeldInv(f)
       /\ \A t \in Threads : ThreadInv(t)

-----------------------------------------------------------------------------
(* Counting *)

LEMMA Counts ==
  ASSUME NEW i \in Slots
  PROVE  /\ IsFiniteSet(Mapped(i)) /\ IsFiniteSet(Waiting(i)) /\ IsFiniteSet(Copying(i))
         /\ Cardinality(Mapped(i)) \in Nat /\ Cardinality(Waiting(i)) \in Nat
         /\ Cardinality(Copying(i)) \in Nat /\ Count(i) \in Nat
<1>1. Mapped(i) \subseteq Fds /\ Waiting(i) \subseteq Threads /\ Copying(i) \subseteq Threads
  BY DEF Mapped, Waiting, Copying
<1>2. IsFiniteSet(Mapped(i)) /\ IsFiniteSet(Waiting(i)) /\ IsFiniteSet(Copying(i))
  BY <1>1, Finite, FS_Subset
<1>3. /\ Cardinality(Mapped(i)) \in Nat /\ Cardinality(Waiting(i)) \in Nat
      /\ Cardinality(Copying(i)) \in Nat
  BY <1>2, FS_CardinalityType
<1> QED BY <1>2, <1>3 DEF Count

\* What t and the entry of f contribute.
Weight(t, i) == Bit(Pending(t, i)) + Bit(InDup(t, i))
Entry(f, i) == Bit(fdIdx[f] = i)

\* A step of t that changes no entry but that of f.
LEMMA CountStep ==
  ASSUME NEW t \in Threads, NEW f \in Fds, NEW i \in Slots,
         \A u \in Threads \ {t} : pc'[u] = pc[u] /\ call'[u] = call[u],
         \A g \in Fds \ {f} : fdIdx'[g] = fdIdx[g]
  PROVE  /\ Count(i)' = Count(i) + Weight(t, i)' - Weight(t, i) + Entry(f, i)' - Entry(f, i)
         /\ Count(i)' \in Nat /\ Count(i) \in Nat
         /\ Weight(t, i) \in Nat /\ Weight(t, i)' \in Nat
         /\ Entry(f, i) \in Nat /\ Entry(f, i)' \in Nat
<1>1. /\ IsFiniteSet(Mapped(i)) /\ IsFiniteSet(Waiting(i)) /\ IsFiniteSet(Copying(i))
      /\ IsFiniteSet(Mapped(i)') /\ IsFiniteSet(Waiting(i)') /\ IsFiniteSet(Copying(i)')
      /\ Count(i) \in Nat
  <2>1. Mapped(i)' \subseteq Fds /\ Waiting(i)' \subseteq Threads /\ Copying(i)' \subseteq Threads
    BY DEF Mapped, Waiting, Copying
  <2> QED BY <2>1, Counts, Finite, FS_Subset
<1>2. /\ Cardinality(Mapped(i)) \in Nat /\ Cardinality(Mapped(i)') \in Nat
      /\ Cardinality(Mapped(i)') = Cardinality(Mapped(i)) + Entry(f, i)' - Entry(f, i)
  <2>1. \A g : g # f => (g \in Mapped(i) <=> g \in Mapped(i)')
    BY DEF Mapped
  <2>2. (f \in Mapped(i) <=> fdIdx[f] = i) /\ (f \in Mapped(i)' <=> fdIdx'[f] = i)
    BY DEF Mapped
  <2>3. /\ Cardinality(Mapped(i)) \in Nat /\ Cardinality(Mapped(i)') \in Nat
        /\ Cardinality(Mapped(i)') = Cardinality(Mapped(i)) + Bit(f \in Mapped(i)')
                                       - Bit(f \in Mapped(i))
    BY <1>1, <2>1, DifferInOne, Zenon
  <2> QED BY <2>2, <2>3 DEF Entry, Bit
<1>3. /\ Cardinality(Waiting(i)) \in Nat /\ Cardinality(Waiting(i)') \in Nat
      /\ Cardinality(Waiting(i)') = Cardinality(Waiting(i)) + Bit(Pending(t, i)')
                                      - Bit(Pending(t, i))
  <2>1. \A u : u # t => (u \in Waiting(i) <=> u \in Waiting(i)')
    BY DEF Waiting, Pending
  <2>2. (t \in Waiting(i) <=> Pending(t, i)) /\ (t \in Waiting(i)' <=> Pending(t, i)')
    BY DEF Waiting
  <2>3. /\ Cardinality(Waiting(i)) \in Nat /\ Cardinality(Waiting(i)') \in Nat
        /\ Cardinality(Waiting(i)') = Cardinality(Waiting(i)) + Bit(t \in Waiting(i)')
                                        - Bit(t \in Waiting(i))
    BY <1>1, <2>1, DifferInOne, Zenon
  <2> QED BY <2>2, <2>3 DEF Bit
<1>4. /\ Cardinality(Copying(i)) \in Nat /\ Cardinality(Copying(i)') \in Nat
      /\ Cardinality(Copying(i)') = Cardinality(Copying(i)) + Bit(InDup(t, i)')
                                      - Bit(InDup(t, i))
  <2>1. \A u : u # t => (u \in Copying(i) <=> u \in Copying(i)')
    BY DEF Copying, InDup
  <2>2. (t \in Copying(i) <=> InDup(t, i)) /\ (t \in Copying(i)' <=> InDup(t, i)')
    BY DEF Copying
  <2>3. /\ Cardinality(Copying(i)) \in Nat /\ Cardinality(Copying(i)') \in Nat
        /\ Cardinality(Copying(i)') = Cardinality(Copying(i)) + Bit(t \in Copying(i)')
                                        - Bit(t \in Copying(i))
    BY <1>1, <2>1, DifferInOne, Zenon
  <2> QED BY <2>2, <2>3 DEF Bit
<1> HIDE DEF Mapped, Waiting, Copying
<1>5. /\ Bit(Pending(t, i)) \in Nat /\ Bit(Pending(t, i)') \in Nat
      /\ Bit(InDup(t, i)) \in Nat /\ Bit(InDup(t, i)') \in Nat
      /\ Entry(f, i) \in Nat /\ Entry(f, i)' \in Nat
  BY DEF Bit, Entry
<1> QED BY <1>1, <1>2, <1>3, <1>4, <1>5 DEF Weight, Count

\* Whoever counts for a slot, it has references.
LEMMA Counted ==
  ASSUME NEW i \in Slots, CountInv, TypeInv
  PROVE  /\ \A f \in Fds : fdIdx[f] = i => refcount[i] >= 1
         /\ \A t \in Threads : Pending(t, i) \/ InDup(t, i) => refcount[i] >= 1
<1>1. /\ IsFiniteSet(Mapped(i)) /\ IsFiniteSet(Waiting(i)) /\ IsFiniteSet(Copying(i))
      /\ Cardinality(Mapped(i)) \in Nat /\ Cardinality(Waiting(i)) \in Nat
      /\ Cardinality(Copying(i)) \in Nat /\ refcount[i] >= Count(i) /\ refcount[i] \in Nat
  BY Counts DEF CountInv, TypeInv
<1>2. ASSUME NEW f \in Fds, fdIdx[f] = i PROVE refcount[i] >= 1
  <2>1. Mapped(i) # {}
    BY <1>2 DEF Mapped
  <2>2. Cardinality(Mapped(i)) # 0
    BY <1>1, <2>1, FS_EmptySet
  <2> QED BY <1>1, <2>2 DEF Count
<1>3. ASSUME NEW t \in Threads, Pending(t, i) PROVE refcount[i] >= 1
  <2>1. Waiting(i) # {}
    BY <1>3 DEF Waiting
  <2>2. Cardinality(Waiting(i)) # 0
    BY <1>1, <2>1, FS_EmptySet
  <2> QED BY <1>1, <2>2 DEF Count
<1>4. ASSUME NEW t \in Threads, InDup(t, i) PROVE refcount[i] >= 1
  <2>1. Copying(i) # {}
    BY <1>4 DEF Copying
  <2>2. Cardinality(Copying(i)) # 0
    BY <1>1, <2>1, FS_EmptySet
  <2> QED BY <1>1, <2>2 DEF Count
<1> QED BY <1>2, <1>3, <1>4

-----------------------------------------------------------------------------
(* What a step of t leaves to the others *)

\* Descriptors no call but that of t works on.
Private(t, f) ==
  \/ t \in Threads /\ Owns(t, f)
  \/ t \in Threads /\ file[f] = Closed
  \/ f \in held /\ Unused(f)
  \/ t \in Threads /\ \A u \in Threads \ {t} : pc[u] = "idle"

\* A step of t, or of no thread.
Frame(t) ==
  /\ app' = app
  /\ \A u \in Threads \ {t} : /\ pc'[u] = pc[u] /\ call'[u] = call[u]
                              /\ t \in Threads => call[u].op # "dup2"
  /\ \A f \in Fds :
       \/ file'[f] # file[f] \/ fdIdx'[f] # fdIdx[f] \/ (f \in held) # (f \in held')
       \/ Owns(t, f)' /\ ~Owns(t, f)
       => Private(t, f)
  /\ \A f \in held \cap held' : file'[f] = file[f] /\ fdIdx'[f] = fdIdx[f]
  /\ \A i \in Slots : info'[i] # info[i] => refcount[i] = 0

LEMMA IdleCall ==
  ASSUME Inv, NEW t \in Threads, pc[t] = "idle"
  PROVE  call[t] = NoCall
<1>1. CallInv(t) /\ call[t].op \in AllOps \cup {"none"}
  BY DEF Inv, ThreadInv, TypeInv, CallType
<1> QED BY <1>1 DEF CallInv, StepsOf, StaleSteps, CloseSteps, AllOps

\* A call is at most one of: the owner of f, about to use f.
LEMMA OthersDescriptors ==
  ASSUME Inv, NEW t, Frame(t), NEW u \in Threads \ {t}, NEW f \in Fds, Private(t, f)
  PROVE  /\ ~Owns(u, f)
         /\ call[u].op \in DupOps \cup {"accept"} => call[u].fd # f
<1>2. ThreadInv(u) /\ u \in Threads
  BY DEF Inv
<1>0. f # -1 /\ (call[u].op \in DupOps \cup {"accept"} => call[u].fd \in held \cup {-1})
  BY <1>2 DEF ThreadInv, CallInv, Fds
<1>3. ASSUME t \in Threads, Owns(t, f)
      PROVE  ~Owns(u, f) /\ (call[u].op \in DupOps \cup {"accept"} => call[u].fd # f)
  <2>1. ThreadInv(t)
    BY <1>3 DEF Inv
  <2> QED BY <1>0, <1>2, <1>3, <2>1 DEF ThreadInv, OwnInv
<1>4. ASSUME file[f] = Closed, t \in Threads
      PROVE  ~Owns(u, f) /\ (call[u].op \in DupOps \cup {"accept"} => call[u].fd # f)
  BY <1>0, <1>2, <1>4 DEF ThreadInv, OwnInv, Inv, HeldInv, Frame
<1>5. ASSUME f \in held, Unused(f)
      PROVE  ~Owns(u, f) /\ (call[u].op \in DupOps \cup {"accept"} => call[u].fd # f)
  BY <1>2, <1>5 DEF ThreadInv, OwnInv, Unused
<1>6. ASSUME pc[u] = "idle"
      PROVE  ~Owns(u, f) /\ (call[u].op \in DupOps \cup {"accept"} => call[u].fd # f)
  <2>1. call[u] = NoCall
    BY <1>2, <1>6, IdleCall
  <2> QED BY <2>1 DEF Owns, NoCall, Fds, DupOps
<1> QED BY <1>3, <1>4, <1>5, <1>6 DEF Private

LEMMA OthersCall ==
  ASSUME Inv, NEW t, Frame(t), NEW u \in Threads \ {t}
  PROVE  CallInv(u)'
<1>1. CallInv(u) /\ pc'[u] = pc[u] /\ call'[u] = call[u] /\ app' = app
  BY DEF Frame, Inv, ThreadInv
<1>2. call[u].op \in DupOps \cup {"accept"} /\ call[u].fd \in held => call[u].fd \in held'
  <2> SUFFICES ASSUME call[u].op \in DupOps \cup {"accept"}, call[u].fd \in held,
                      call[u].fd \notin held'
               PROVE  FALSE
    OBVIOUS
  <2>1. call[u].fd \in held /\ call[u].fd \in Fds
    BY DEF Inv, TypeInv
  <2>2. Private(t, call[u].fd)
    BY <2>1 DEF Frame
  <2> QED BY <2>1, <2>2, OthersDescriptors
<1> QED BY <1>1, <1>2 DEF CallInv, NotSocketCall

LEMMA OthersOwn ==
  ASSUME Inv, NEW t, Frame(t), NEW u \in Threads \ {t}, t \in Threads => OwnInv(t)'
  PROVE  OwnInv(u)'
<1>1. OwnInv(u) /\ pc'[u] = pc[u] /\ call'[u] = call[u]
  BY DEF Frame, Inv, ThreadInv
<1>2. ASSUME NEW f \in Fds, Owns(u, f)'
      PROVE  f \notin held' /\ (call'[u].op # "dup2" => file'[f] # Closed)
  <2>1. Owns(u, f)
    BY <1>1, <1>2 DEF Owns
  <2>2. f \notin held /\ (call[u].op # "dup2" => file[f] # Closed)
    BY <1>1, <2>1 DEF OwnInv
  <2>3. ~Private(t, f)
    BY <2>1, OthersDescriptors
  <2>4. file'[f] = file[f] /\ (f \in held <=> f \in held')
    BY <2>3 DEF Frame
  <2> QED BY <1>1, <2>2, <2>4
<1>3. ASSUME NEW v \in Threads \ {u}, NEW f \in Fds, Owns(u, f)', Owns(v, f)'
      PROVE  FALSE
  <2>1. CASE v = t
    BY <2>1, <1>3 DEF OwnInv
  <2>2. CASE v # t
    <3>1. pc'[v] = pc[v] /\ call'[v] = call[v]
      BY <2>2 DEF Frame
    <3>2. Owns(u, f) /\ Owns(v, f)
      BY <3>1, <1>1, <1>3 DEF Owns
    <3> QED BY <3>2, <1>1 DEF OwnInv
  <2> QED BY <2>1, <2>2
<1>4. ASSUME call'[u].op = "dup2", NEW v \in Threads \ {u}
      PROVE  pc'[v] = "idle"
  <2>1. pc[v] = "idle"
    BY <1>1, <1>4 DEF OwnInv
  <2>2. CASE v # t
    BY <2>1, <2>2 DEF Frame
  <2>3. CASE v = t
    BY <2>3, <1>1, <1>4 DEF Frame
  <2> QED BY <2>2, <2>3
<1> QED BY <1>2, <1>3, <1>4 DEF OwnInv

LEMMA OthersInfo ==
  ASSUME Inv, NEW t, Frame(t), NEW u \in Threads \ {t}
  PROVE  InfoInv(u)'
<1> DEFINE c == call[u]
<1>1. CallInv(u) /\ InfoInv(u) /\ pc'[u] = pc[u] /\ call'[u] = call[u]
  BY DEF Frame, Inv, ThreadInv
<1>2. ASSUME NEW f \in Fds, Owns(u, f) PROVE file'[f] = file[f] /\ fdIdx'[f] = fdIdx[f]
  <2>1. ~Private(t, f)
    BY <1>2, OthersDescriptors
  <2> QED BY <2>1 DEF Frame
<1>3. c.new \in Fds /\ pc[u] # "closed" =>
        file'[c.new] = file[c.new] /\ fdIdx'[c.new] = fdIdx[c.new]
  BY <1>2 DEF Owns
<1>4. pc[u] \in {"staleReset", "staleDrop", "closeReset"} =>
        fdIdx'[c.target] = fdIdx[c.target]
  <2>1. CASE pc[u] \in {"staleReset", "staleDrop"}
    BY <2>1, <1>1, <1>3 DEF CallInv, StaleSteps
  <2>2. CASE pc[u] = "closeReset" /\ c.op # "close"
    BY <2>2, <1>1, <1>3 DEF CallInv, CloseSteps
  <2>3. CASE pc[u] = "closeReset" /\ c.op = "close"
    <3>1. c.target \in Fds /\ Owns(u, c.target)
      BY <2>3, <1>1 DEF CallInv, CloseSteps, Owns
    <3> QED BY <3>1, <1>2
  <2> QED BY <2>1, <2>2, <2>3
<1>5. c.op \in DupOps \/ pc[u] = "libcaccept" =>
        c.fd \in Fds /\ file'[c.fd] = file[c.fd] /\ fdIdx'[c.fd] = fdIdx[c.fd]
  <2> SUFFICES ASSUME c.op \in DupOps \/ pc[u] = "libcaccept"
               PROVE  c.fd \in Fds /\ file'[c.fd] = file[c.fd] /\ fdIdx'[c.fd] = fdIdx[c.fd]
    OBVIOUS
  <2>1. c.fd \in Fds /\ c.op \in DupOps \cup {"accept"}
    BY <1>1 DEF CallInv, Inv, TypeInv, NotSocketCall, StepsOf, StaleSteps, CloseSteps
  <2>2. ~Private(t, c.fd)
    BY <2>1, OthersDescriptors
  <2> QED BY <2>1, <2>2 DEF Frame
<1>6. pc[u] = "set" \/ (c.op \in DupOps /\ pc[u] \in StaleSteps \cup {"inc"}) =>
        c.idx \in Slots /\ info'[c.idx] = info[c.idx]
  <2> SUFFICES ASSUME pc[u] = "set" \/ (c.op \in DupOps /\ pc[u] \in StaleSteps \cup {"inc"})
               PROVE  c.idx \in Slots /\ info'[c.idx] = info[c.idx]
    OBVIOUS
  <2>1. c.idx \in Slots
    BY <1>1 DEF CallInv, StaleSteps
  <2>2. TypeInv /\ CountInv /\ refcount[c.idx] \in Nat
    BY <2>1 DEF Inv, TypeInv
  <2>3. refcount[c.idx] >= 1
    <3>1. CASE pc[u] = "inc" /\ c.op \in DupOps
      <4>1. c.idx = fdIdx[c.fd] /\ c.fd \in Fds
        BY <3>1, <1>1, <1>5 DEF InfoInv
      <4> QED BY <4>1, <2>1, <2>2, Counted
    <3>2. CASE pc[u] # "inc" \/ c.op \notin DupOps
      <4>1. Pending(u, c.idx) \/ InDup(u, c.idx)
        BY <3>2 DEF Pending, InDup, StaleSteps, DupOps
      <4> QED BY <4>1, <2>1, <2>2, Counted
    <3> QED BY <3>1, <3>2
  <2>4. refcount[c.idx] # 0
    BY <2>2, <2>3
  <2> QED BY <2>1, <2>4 DEF Frame
<1>7. pc[u] \in {"done", "set", "inc"} \cup StaleSteps \/ c.op \in {"plain", "socket"}
        \/ NotSocketCall(u) => c.new \in Fds
  BY <1>1 DEF CallInv, NotSocketCall
<1>8. c.op \in {"plain", "socket"} \/ NotSocketCall(u) => pc[u] # "closed"
  BY <1>1 DEF CallInv, StepsOf, StaleSteps, NotSocketCall
<1>9. NotSocketCall(u)' <=> NotSocketCall(u)
  BY <1>1 DEF NotSocketCall
<1> QED
  <2> DEFINE d == call'[u]
  <2>0. d = c
    BY <1>1
  <2>1. pc'[u] \in {"staleReset", "closeReset"} => fdIdx'[d.target] = d.slot
    BY <1>1, <1>4 DEF InfoInv
  <2>2. pc'[u] = "staleDrop" => fdIdx'[d.target] = -1
    BY <1>1, <1>4 DEF InfoInv
  <2>3. pc'[u] = "done" => fdIdx'[d.new] = -1
    BY <1>1, <1>3, <1>7 DEF InfoInv
  <2>4. (d.op = "plain" => file'[d.new] = Plain) /\ (d.op = "socket" => file'[d.new] \in Sockets)
    BY <1>1, <1>3, <1>7, <1>8 DEF InfoInv
  <2>5. d.op = "accept" /\ ~NotSocketCall(u)' /\ pc'[u] \notin {"libcaccept", "closed"} =>
          file'[d.new] \in Sockets
    <3> SUFFICES ASSUME c.op = "accept", ~NotSocketCall(u), pc[u] \notin {"libcaccept", "closed"}
                 PROVE  file'[c.new] \in Sockets
      BY <1>1, <1>9
    <3>1. c.new \in Fds
      BY <1>1 DEF CallInv, StepsOf, CloseSteps, NotSocketCall, StaleSteps
    <3> QED BY <3>1, <1>1, <1>3 DEF InfoInv
  <2>6. d.op \in DupOps /\ pc'[u] \in CloseSteps \cup {"libcdup", "inc"} => d.idx = fdIdx'[d.fd]
    BY <1>1, <1>5 DEF InfoInv
  <2>7. (c.op \in DupOps /\ pc[u] \in StaleSteps \cup {"inc"}) \/ pc[u] = "set" =>
          Describes(call[u].idx, file[call[u].new])'
    <3> SUFFICES ASSUME (c.op \in DupOps /\ pc[u] \in StaleSteps \cup {"inc"}) \/ pc[u] = "set"
                 PROVE  Describes(call[u].idx, file[call[u].new])'
      OBVIOUS
    <3>1. Describes(c.idx, file[c.new])
      BY <1>1 DEF InfoInv
    <3>2. file'[c.new] = file[c.new] /\ info'[c.idx] = info[c.idx]
      BY <1>3, <1>6, <1>7 DEF StaleSteps
    <3> QED BY <1>1, <3>1, <3>2 DEF Describes
  <2>9. pc'[u] = "libcaccept" => file'[d.fd] \in Sockets
    BY <1>1, <1>5 DEF InfoInv
  <2>10. NotSocketCall(u)' => file'[d.new] \in {Plain, Overlooked}
    BY <1>1, <1>3, <1>7, <1>8, <1>9 DEF InfoInv
  <2> QED BY <2>1, <2>2, <2>3, <2>4, <2>5, <2>6, <2>7, <2>9, <2>10, <1>1 DEF InfoInv

LEMMA OthersHeld ==
  ASSUME Inv, NEW t, Frame(t)
  PROVE  \A f \in held \cap held' : HeldInv(f)'
<1>1. ASSUME NEW f \in held \cap held' PROVE HeldInv(f)'
  <2>1. HeldInv(f) /\ f \in Fds /\ file'[f] = file[f] /\ fdIdx'[f] = fdIdx[f]
    BY DEF Frame, Inv, TypeInv
  <2>2. CASE fdIdx[f] = -1
    BY <2>1, <2>2 DEF HeldInv
  <2>3. CASE fdIdx[f] # -1
    <3>1. fdIdx[f] \in Slots /\ TypeInv /\ CountInv
      BY <2>1, <2>3 DEF Inv, TypeInv
    <3>2. refcount[fdIdx[f]] >= 1 /\ refcount[fdIdx[f]] \in Nat
      BY <3>1, <2>1, Counted DEF TypeInv
    <3>3. refcount[fdIdx[f]] # 0
      BY <3>2
    <3>4. info'[fdIdx[f]] = info[fdIdx[f]]
      BY <3>1, <3>3 DEF Frame
    <3> QED BY <3>4, <2>1 DEF HeldInv
  <2> QED BY <2>2, <2>3
<1> QED BY <1>1

\* What is left to show of a step of t.
LEMMA Assemble ==
  ASSUME Inv, NEW t, Frame(t), t \in Threads => ThreadInv(t)',
         \A f \in held' \ held : HeldInv(f)',
         TypeInv', LockInv', IndexInv', CountInv', ListInv'
  PROVE  Inv'
<1>1. \A u \in Threads \ {t} : ThreadInv(u)'
  BY OthersCall, OthersOwn, OthersInfo DEF ThreadInv
<1>2. \A u \in Threads : ThreadInv(u)'
  BY <1>1
<1> QED BY <1>2, OthersHeld DEF Inv

\* Steps that leave the counts, the free list and the indices alone.
LEMMA CountSame ==
  ASSUME Inv, NEW t \in Threads, Frame(t), UNCHANGED <<fdIdx, refcount>>,
         \A i \in Slots : Weight(t, i)' = Weight(t, i)
  PROVE  CountInv'
<1>1. PICK f : f \in Fds
  BY Finite DEF Fds
<1>2. \A u \in Threads \ {t} : pc'[u] = pc[u] /\ call'[u] = call[u]
  BY DEF Frame
<1> SUFFICES ASSUME NEW i \in Slots PROVE Count(i)' = Count(i)
  BY DEF Inv, CountInv, Frame
<1>3. /\ Count(i)' = Count(i) + Weight(t, i)' - Weight(t, i) + Entry(f, i)' - Entry(f, i)
      /\ Count(i)' \in Nat /\ Count(i) \in Nat
      /\ Weight(t, i) \in Nat /\ Weight(t, i)' \in Nat
      /\ Entry(f, i) \in Nat /\ Entry(f, i)' \in Nat
  BY <1>1, <1>2, CountStep
<1>4. Entry(f, i)' = Entry(f, i) /\ Weight(t, i)' = Weight(t, i)
  BY DEF Entry
<1> QED BY <1>3, <1>4

LEMMA ListSame ==
  ASSUME ListInv, UNCHANGED <<refcount, nextFree, firstFree>>
  PROVE  ListInv'
BY DEF ListInv, FreeList

LEMMA IndexSame ==
  ASSUME Inv, NEW t, Frame(t), UNCHANGED fdIdx, held \subseteq held',
         t \in Threads => ~Leaves(t)
  PROVE  IndexInv'
<1> SUFFICES ASSUME "hidden" \notin app'.ops, NEW f \in Fds, fdIdx'[f] # -1, f \notin held'
             PROVE  \E u \in Threads : Owns(u, f)' /\ Leaves(u)'
  BY DEF IndexInv
<1>1. "hidden" \notin app.ops /\ fdIdx[f] # -1 /\ f \notin held
  BY DEF Frame
<1>2. PICK u \in Threads : Owns(u, f) /\ Leaves(u)
  BY <1>1 DEF Inv, IndexInv
<1>3. u # t
  BY <1>2
<1>4. pc'[u] = pc[u] /\ call'[u] = call[u]
  BY <1>3 DEF Frame
<1> QED BY <1>2, <1>4 DEF Owns, Leaves

-----------------------------------------------------------------------------
(* What a step does to the call of its own thread *)

LEMMA Moves ==
  ASSUME TypeInv, NEW t \in Threads, NEW l, NEW c,
         pc' = [pc EXCEPT ![t] = l], call' = [call EXCEPT ![t] = c]
  PROVE  /\ pc'[t] = l /\ call'[t] = c
         /\ \A u \in Threads \ {t} : pc'[u] = pc[u] /\ call'[u] = call[u]
         /\ l \in Labels => pc' \in [Threads -> Labels]
         /\ c \in CallType => call' \in [Threads -> CallType]
BY DEF TypeInv

\* While one call is in progress, no other one is dup2.
LEMMA NoOtherDup2 ==
  ASSUME Inv, NEW t \in Threads, pc[t] # "idle"
  PROVE  \A u \in Threads \ {t} : call[u].op # "dup2"
BY DEF Inv, ThreadInv, OwnInv

\* That the descriptors of t are its own follows from Frame.
LEMMA OwnStep ==
  ASSUME Inv, NEW t \in Threads, Frame(t),
         \A f \in Fds : Owns(t, f)' =>
            f \notin held' /\ (call'[t].op # "dup2" => file'[f] # Closed),
         call'[t].op = "dup2" => \A u \in Threads \ {t} : pc[u] = "idle"
  PROVE  OwnInv(t)'
<1>1. ASSUME NEW u \in Threads \ {t}, NEW f \in Fds, Owns(t, f)', Owns(u, f)' PROVE FALSE
  <2>1. Owns(u, f)
    BY <1>1 DEF Frame, Owns
  <2>2. ~Private(t, f)
    BY <2>1, OthersDescriptors
  <2> QED BY <2>2, <1>1 DEF Frame, Private
<1>2. call'[t].op = "dup2" => \A u \in Threads \ {t} : pc'[u] = "idle"
  BY DEF Frame
<1> QED BY <1>1, <1>2 DEF OwnInv

\* A step within a call that changes neither the kernel's nor the library's tables.
LEMMA QuietStep ==
  ASSUME Inv, NEW t \in Threads, pc[t] # "idle", app' = app,
         \A u \in Threads \ {t} : pc'[u] = pc[u] /\ call'[u] = call[u],
         UNCHANGED <<file, fdIdx, tableVars>>,
         call'[t].op = call[t].op \/ call'[t] = NoCall,
         \A f \in Fds : Owns(t, f)' => Owns(t, f) /\ f \notin held',
         held \subseteq held',
         \A f \in held' \ held : Owns(t, f) /\ HeldInv(f),
         \A i \in Slots : Weight(t, i)' = Weight(t, i),
         Leaves(t) => IndexInv',
         CallInv(t)', InfoInv(t)', TypeInv', LockInv'
  PROVE  Inv'
<1>1. TypeInv /\ ThreadInv(t) /\ ListInv /\ held' \subseteq Fds
  BY DEF Inv, TypeInv
<1>2. Frame(t)
  <2>1. ASSUME NEW f \in Fds, (f \in held) # (f \in held') PROVE Private(t, f)
    BY <2>1 DEF Private
  <2>2. \A u \in Threads \ {t} : call[u].op # "dup2"
    BY NoOtherDup2
  <2> QED BY <2>1, <2>2 DEF Frame, tableVars
<1>3. OwnInv(t)'
  <2>1. ASSUME NEW f \in Fds, Owns(t, f)'
        PROVE  f \notin held' /\ (call'[t].op # "dup2" => file'[f] # Closed)
    <3>1. Owns(t, f) /\ f \notin held'
      BY <2>1
    <3>2. call'[t].op = call[t].op
      BY <2>1 DEF Owns, NoCall, Fds
    <3> QED BY <3>1, <3>2, <1>1 DEF ThreadInv, OwnInv
  <2>2. call'[t].op = "dup2" => \A u \in Threads \ {t} : pc[u] = "idle"
    BY <1>1 DEF ThreadInv, OwnInv, NoCall
  <2> QED BY <1>2, <2>1, <2>2, OwnStep
<1>4. CountInv'
  BY <1>2, CountSame DEF tableVars
<1>5. ListInv'
  BY <1>1, ListSame DEF tableVars
<1>6. \A f \in held' \ held : HeldInv(f)'
  BY DEF HeldInv, tableVars
<1>7. IndexInv'
  BY <1>2, IndexSame
<1> QED BY <1>2, <1>3, <1>4, <1>5, <1>6, <1>7, Assemble DEF ThreadInv

-----------------------------------------------------------------------------
(* Steps that only find their way *)

LEMMA StaleFindStep ==
  ASSUME Inv, app' = app, NEW t \in Threads, StaleFind(t)
  PROVE  Inv'
<1> DEFINE c == call[t]
           i == fdIdx[c.target]
           l == IF i = -1 THEN AfterStale(t) ELSE "staleReset"
           d == IF i = -1 THEN c ELSE [c EXCEPT !.slot = i]
<1>1. /\ TypeInv /\ LockInv /\ CallInv(t) /\ InfoInv(t) /\ pc[t] = "stale" /\ c \in CallType
      /\ c.target = c.new /\ c.new \in Fds /\ i \in Slots \cup {-1}
      /\ c.op \in {"socket", "plain", "signalfd", "accept"} \cup DupOps
  BY DEF Inv, ThreadInv, CallInv, TypeInv, StaleFind, At, StaleSteps, StepsOf, CloseSteps, AllOps,
         DupOps
<1>2. /\ pc' = [pc EXCEPT ![t] = l] /\ call' = [call EXCEPT ![t] = d]
      /\ UNCHANGED <<file, fdIdx, tableVars, ffMutex, held>>
      /\ resetMutex = NoThread /\ resetMutex' = IF i = -1 THEN NoThread ELSE t
  BY <1>1 DEF StaleFind, Goto, TypeInv
<1>3. /\ d \in CallType /\ d.op = c.op /\ d.fd = c.fd /\ d.new = c.new /\ d.idx = c.idx
      /\ d.target = c.target
      /\ i # -1 => d.slot = i
  BY <1>1 DEF CallType
<1>4. /\ l \in {"create", "set", "done", "staleReset"} /\ l \in Labels
      /\ i = -1 /\ c.op = "socket" => l = "create"
      /\ i = -1 /\ c.op \in {"plain", "signalfd", "accept"} => l = "done"
      /\ i = -1 /\ c.op \in DupOps => l = "set"
      /\ i # -1 => l = "staleReset"
  BY <1>1 DEF AfterStale, Labels, DupOps
<1> HIDE DEF l, d
<1>5. /\ pc'[t] = l /\ call'[t] = d
      /\ \A u \in Threads \ {t} : pc'[u] = pc[u] /\ call'[u] = call[u]
      /\ pc' \in [Threads -> Labels] /\ call' \in [Threads -> CallType]
  BY <1>1, <1>2, <1>3, <1>4, Moves
<1>6. CallInv(t)'
  BY <1>1, <1>2, <1>3, <1>4, <1>5 DEF CallInv, NotSocketCall, StaleSteps, CloseSteps, StepsOf, DupOps
<1>7. InfoInv(t)'
  BY <1>1, <1>2, <1>3, <1>4, <1>5 DEF InfoInv, NotSocketCall, Describes, StaleSteps, CloseSteps, DupOps, tableVars
<1>8. TypeInv'
  BY <1>1, <1>2, <1>5 DEF TypeInv, tableVars
<1>9. LockInv'
  BY <1>1, <1>2, <1>4, <1>5, SwrapTableAssumption DEF LockInv, tableVars
<1>10. \A j \in Slots : Weight(t, j)' = Weight(t, j)
  BY <1>1, <1>3, <1>4, <1>5 DEF Weight, Bit, Pending, InDup, DupOps
<1>11. \A f \in Fds : Owns(t, f)' => Owns(t, f) /\ f \notin held'
  BY <1>1, <1>2, <1>3, <1>5 DEF Owns, Inv, ThreadInv, OwnInv
<1>12. IndexInv'
  <2> SUFFICES ASSUME "hidden" \notin app'.ops, NEW f \in Fds, fdIdx'[f] # -1, f \notin held'
               PROVE  \E u \in Threads : Owns(u, f)' /\ Leaves(u)'
    BY DEF IndexInv
  <2>1. PICK u \in Threads : Owns(u, f) /\ Leaves(u)
    BY <1>2 DEF Inv, IndexInv
  <2>2. CASE u # t
    BY <1>5, <2>1, <2>2 DEF Owns, Leaves
  <2>3. CASE u = t
    <3>1. f = c.target
      BY <1>1, <2>1, <2>3 DEF Owns, CallInv, StepsOf, CloseSteps, StaleSteps
    <3>2. Owns(t, f)' /\ pc'[t] = "staleReset"
      BY <1>1, <1>2, <1>3, <1>4, <1>5, <2>1, <2>3, <3>1 DEF Owns
    <3> QED BY <3>2 DEF Leaves
  <2> QED BY <2>2, <2>3
<1> QED BY <1>1, <1>2, <1>3, <1>5, <1>6, <1>7, <1>8, <1>9, <1>10, <1>11, <1>12, QuietStep

LEMMA CloseFindStep ==
  ASSUME Inv, app' = app, NEW t \in Threads, CloseFind(t)
  PROVE  Inv'
<1> DEFINE c == call[t]
           i == fdIdx[c.target]
           l == IF i = -1 THEN "libcclose" ELSE "closeReset"
           d == IF i = -1 THEN c ELSE [c EXCEPT !.slot = i]
<1>1. /\ TypeInv /\ LockInv /\ CallInv(t) /\ InfoInv(t) /\ pc[t] = "close" /\ c \in CallType
      /\ c.target \in Fds /\ i \in Slots \cup {-1}
      /\ c.op \in {"close", "accept", "dup2"}
  BY DEF Inv, ThreadInv, CallInv, TypeInv, CloseFind, At, StaleSteps, StepsOf, CloseSteps, AllOps
<1>2. /\ pc' = [pc EXCEPT ![t] = l] /\ call' = [call EXCEPT ![t] = d]
      /\ UNCHANGED <<file, fdIdx, tableVars, ffMutex, held>>
      /\ resetMutex = NoThread /\ resetMutex' = IF i = -1 THEN NoThread ELSE t
  BY <1>1 DEF CloseFind, Goto, TypeInv
<1>3. /\ d \in CallType /\ d.op = c.op /\ d.fd = c.fd /\ d.new = c.new /\ d.idx = c.idx
      /\ d.target = c.target
      /\ i # -1 => d.slot = i
  BY <1>1 DEF CallType
<1>4. /\ l \in {"libcclose", "closeReset"} /\ l \in Labels
      /\ i = -1 => l = "libcclose"
      /\ i # -1 => l = "closeReset"
  BY DEF Labels
<1> HIDE DEF l, d
<1>5. /\ pc'[t] = l /\ call'[t] = d
      /\ \A u \in Threads \ {t} : pc'[u] = pc[u] /\ call'[u] = call[u]
      /\ pc' \in [Threads -> Labels] /\ call' \in [Threads -> CallType]
  BY <1>1, <1>2, <1>3, <1>4, Moves
<1>6. CallInv(t)'
  BY <1>1, <1>2, <1>3, <1>4, <1>5 DEF CallInv, NotSocketCall, StaleSteps, CloseSteps, StepsOf, DupOps
<1>7. InfoInv(t)'
  BY <1>1, <1>2, <1>3, <1>4, <1>5 DEF InfoInv, NotSocketCall, Describes, StaleSteps, CloseSteps, DupOps, tableVars
<1>8. TypeInv'
  BY <1>1, <1>2, <1>5 DEF TypeInv, tableVars
<1>9. LockInv'
  BY <1>1, <1>2, <1>4, <1>5, SwrapTableAssumption DEF LockInv, tableVars
<1>10. \A j \in Slots : Weight(t, j)' = Weight(t, j)
  BY <1>1, <1>3, <1>4, <1>5 DEF Weight, Bit, Pending, InDup, DupOps
<1>11. \A f \in Fds : Owns(t, f)' => Owns(t, f) /\ f \notin held'
  BY <1>1, <1>2, <1>3, <1>5 DEF Owns, Inv, ThreadInv, OwnInv
<1>12. IndexInv'
  <2> SUFFICES ASSUME "hidden" \notin app'.ops, NEW f \in Fds, fdIdx'[f] # -1, f \notin held'
               PROVE  \E u \in Threads : Owns(u, f)' /\ Leaves(u)'
    BY DEF IndexInv
  <2>1. PICK u \in Threads : Owns(u, f) /\ Leaves(u)
    BY <1>2 DEF Inv, IndexInv
  <2>2. CASE u # t
    BY <1>5, <2>1, <2>2 DEF Owns, Leaves
  <2>3. CASE u = t
    <3>1. c.op = "close" => c.new = -1
      BY <1>1 DEF CallInv
    <3>2. c.op # "close" => c.target = c.new
      BY <1>1 DEF CallInv, CloseSteps
    <3>3. f # -1
      BY DEF Fds
    <3>4. f = c.target
      BY <3>1, <3>2, <3>3, <2>1, <2>3 DEF Owns
    <3>5. Owns(t, f)'
      BY <1>3, <1>4, <1>5, <2>1, <2>3 DEF Owns
    <3>6. pc'[t] = "closeReset"
      BY <1>2, <1>4, <1>5, <3>4
    <3> QED BY <3>5, <3>6 DEF Leaves
  <2> QED BY <2>2, <2>3
<1> QED BY <1>1, <1>2, <1>3, <1>5, <1>6, <1>7, <1>8, <1>9, <1>10, <1>11, <1>12, QuietStep

LEMMA CopyParentStep ==
  ASSUME Inv, app' = app, NEW t \in Threads, CopyParent(t)
  PROVE  Inv'
<1> DEFINE c == call[t]
<1>1. /\ TypeInv /\ LockInv /\ CallInv(t) /\ InfoInv(t) /\ pc[t] = "copy" /\ c \in CallType
      /\ c.op = "accept" /\ c.new \in Fds
  BY DEF Inv, ThreadInv, CallInv, TypeInv, CopyParent, At, StaleSteps, StepsOf, CloseSteps, AllOps
<1>3. PICK l, d : /\ pc' = [pc EXCEPT ![t] = l] /\ call' = [call EXCEPT ![t] = d]
                  /\ \/ l = "create" /\ d = c
                     \/ l = "close" /\ d = [c EXCEPT !.target = c.new]
  BY <1>1 DEF CopyParent, Goto, TypeInv
<1>4. UNCHANGED <<file, fdIdx, tableVars, resetMutex, ffMutex, held>>
  BY DEF CopyParent
<1>5. /\ d \in CallType /\ d.op = c.op /\ d.fd = c.fd /\ d.new = c.new /\ d.idx = c.idx
      /\ l = "close" => d.target = d.new
  BY <1>1, <1>3 DEF CallType
<1>6. l \in {"create", "close"} /\ l \in Labels
  BY <1>3 DEF Labels
<1>7. /\ pc'[t] = l /\ call'[t] = d
      /\ \A u \in Threads \ {t} : pc'[u] = pc[u] /\ call'[u] = call[u]
      /\ pc' \in [Threads -> Labels] /\ call' \in [Threads -> CallType]
  BY <1>1, <1>3, <1>5, <1>6, Moves
<1>8. CallInv(t)'
  BY <1>1, <1>4, <1>5, <1>6, <1>7 DEF CallInv, NotSocketCall, StaleSteps, CloseSteps, StepsOf, DupOps
<1>9. InfoInv(t)'
  BY <1>1, <1>4, <1>5, <1>6, <1>7 DEF InfoInv, NotSocketCall, Describes, StaleSteps, CloseSteps, DupOps, tableVars
<1>10. TypeInv'
  BY <1>1, <1>4, <1>7 DEF TypeInv, tableVars
<1>11. LockInv'
  BY <1>1, <1>4, <1>6, <1>7 DEF LockInv, tableVars
<1>12. \A j \in Slots : Weight(t, j)' = Weight(t, j)
  BY <1>1, <1>5, <1>6, <1>7 DEF Weight, Bit, Pending, InDup, DupOps
<1>13. \A f \in Fds : Owns(t, f)' => Owns(t, f) /\ f \notin held'
  BY <1>1, <1>4, <1>5, <1>7 DEF Owns, Inv, ThreadInv, OwnInv
<1>14. ~Leaves(t)
  BY <1>1 DEF Leaves
<1> QED BY <1>14, <1>1, <1>4, <1>5, <1>7, <1>8, <1>9, <1>10, <1>11, <1>12, <1>13, QuietStep

LEMMA CreateStep ==
  ASSUME Inv, app' = app, NEW t \in Threads, Create(t)
  PROVE  Inv'
<1> DEFINE c == call[t]
<1>1. /\ TypeInv /\ LockInv /\ CallInv(t) /\ InfoInv(t) /\ pc[t] = "create" /\ c \in CallType
      /\ c.op \in {"socket", "accept"} /\ c.new \in Fds
  BY DEF Inv, ThreadInv, CallInv, TypeInv, Create, At, StaleSteps, StepsOf, CloseSteps, AllOps
<1>2. PICK l, d :
        /\ pc' = [pc EXCEPT ![t] = l] /\ call' = [call EXCEPT ![t] = d]
        /\ ffMutex = NoThread
        /\ \/ l = "take" /\ d = c /\ firstFree # -1 /\ ffMutex' = t
           \/ c.op = "accept" /\ l = "close" /\ d = [c EXCEPT !.target = c.new]
              /\ ffMutex' = ffMutex
           \/ c.op = "socket" /\ l = "idle" /\ d = NoCall /\ ffMutex' = ffMutex
  BY <1>1 DEF Create, Goto, Return, TypeInv
<1>3. UNCHANGED <<file, fdIdx, tableVars, resetMutex, held>>
  BY DEF Create, Return
<1>4. /\ d \in CallType /\ l \in Labels
      /\ l = "idle" => d = NoCall
      /\ l # "idle" => /\ l \in {"take", "close"} /\ d.op = c.op /\ d.fd = c.fd /\ d.new = c.new
                       /\ d.idx = c.idx
      /\ l = "close" => d.target = d.new /\ d.op = "accept"
  BY <1>1, <1>2 DEF CallType, NoCall, Labels
<1>5. /\ pc'[t] = l /\ call'[t] = d
      /\ \A u \in Threads \ {t} : pc'[u] = pc[u] /\ call'[u] = call[u]
      /\ pc' \in [Threads -> Labels] /\ call' \in [Threads -> CallType]
  BY <1>1, <1>2, <1>4, Moves
<1>6. CallInv(t)'
  BY <1>1, <1>3, <1>4, <1>5
     DEF CallInv, NotSocketCall, StaleSteps, CloseSteps, StepsOf, DupOps, NoCall, AllOps
<1>7. InfoInv(t)'
  BY <1>1, <1>3, <1>4, <1>5 DEF InfoInv, NotSocketCall, Describes, StaleSteps, CloseSteps, DupOps, tableVars, NoCall
<1>8. TypeInv'
  BY <1>1, <1>2, <1>3, <1>5 DEF TypeInv, tableVars
<1>9. LockInv'
  BY <1>1, <1>2, <1>3, <1>4, <1>5, SwrapTableAssumption DEF LockInv, tableVars
<1>10. \A j \in Slots : Weight(t, j)' = Weight(t, j)
  BY <1>1, <1>4, <1>5 DEF Weight, Bit, Pending, InDup, DupOps, NoCall
<1>11. \A f \in Fds : Owns(t, f)' => Owns(t, f) /\ f \notin held'
  BY <1>1, <1>3, <1>4, <1>5 DEF Owns, Inv, ThreadInv, OwnInv, NoCall, Fds
<1>12. ~Leaves(t)
  BY <1>1 DEF Leaves
<1> QED BY <1>12, <1>1, <1>2, <1>3, <1>4, <1>5, <1>6, <1>7, <1>8, <1>9, <1>10, <1>11, QuietStep

\* A call returns what it owns, or nothing.
LEMMA ReturnStep ==
  ASSUME Inv, app' = app, NEW t \in Threads, NEW S \in SUBSET Fds, Return(t, S),
         UNCHANGED <<file, fdIdx, tableVars, resetMutex, ffMutex>>,
         pc[t] \in {"done", "closed", "libcdup", "libcaccept"}, ~Leaves(t),
         \A f \in S : Owns(t, f) /\ HeldInv(f)
  PROVE  Inv'
<1>1. TypeInv /\ LockInv /\ NoCall \in CallType /\ "idle" \in Labels
  BY DEF Inv, CallType, NoCall, Labels
<1>2. /\ pc' = [pc EXCEPT ![t] = "idle"] /\ call' = [call EXCEPT ![t] = NoCall]
      /\ held' = held \cup S
  BY DEF Return, Goto
<1>3. /\ pc'[t] = "idle" /\ call'[t] = NoCall
      /\ \A u \in Threads \ {t} : pc'[u] = pc[u] /\ call'[u] = call[u]
      /\ pc' \in [Threads -> Labels] /\ call' \in [Threads -> CallType]
  BY <1>1, <1>2, Moves
<1>4. CallInv(t)'
  BY <1>3 DEF CallInv, NotSocketCall, StaleSteps, CloseSteps, StepsOf, DupOps, NoCall, AllOps
<1>5. InfoInv(t)'
  BY <1>3 DEF InfoInv, NotSocketCall, Describes, StaleSteps, CloseSteps, DupOps, NoCall
<1>6. TypeInv'
  BY <1>1, <1>2, <1>3 DEF TypeInv, tableVars
<1>7. LockInv'
  BY <1>1, <1>3 DEF LockInv, tableVars
<1>8. \A j \in Slots : Weight(t, j)' = Weight(t, j)
  BY <1>3 DEF Weight, Bit, Pending, InDup, DupOps, NoCall
<1>9. \A f \in Fds : ~Owns(t, f)'
  BY <1>3 DEF Owns, NoCall, Fds
<1>10. held \subseteq held' /\ \A f \in held' \ held : Owns(t, f) /\ HeldInv(f)
  BY <1>2
<1>11. pc[t] # "idle" /\ ~Leaves(t)
  OBVIOUS
<1> QED BY <1>3, <1>4, <1>5, <1>6, <1>7, <1>8, <1>9, <1>10, <1>11, QuietStep

LEMMA DoneStep ==
  ASSUME Inv, app' = app, NEW t \in Threads, Done(t)
  PROVE  Inv'
<1> DEFINE c == call[t]
<1>1. /\ CallInv(t) /\ InfoInv(t) /\ pc[t] = "done" /\ c.new \in Fds
      /\ Return(t, {c.new}) /\ UNCHANGED <<file, fdIdx, tableVars, resetMutex, ffMutex>>
  BY DEF Inv, ThreadInv, CallInv, Done, At
<1>2. c.op \in {"plain", "signalfd", "accept"}
  BY <1>1 DEF CallInv, StepsOf, StaleSteps, CloseSteps, AllOps
<1>3. file[c.new] \in {Plain, Overlooked} /\ fdIdx[c.new] = -1 /\ Owns(t, c.new)
  BY <1>1, <1>2 DEF InfoInv, NotSocketCall, Owns
<1>4. HeldInv(c.new)
  BY <1>3 DEF HeldInv, Plain, Overlooked, Closed, Sockets
<1>5. ~Leaves(t)
  BY <1>1 DEF Leaves
<1> HIDE DEF c
<1> QED BY <1>1, <1>3, <1>4, <1>5, ReturnStep

LEMMA ReturnClosedStep ==
  ASSUME Inv, app' = app, NEW t \in Threads, ReturnClosed(t)
  PROVE  Inv'
BY ReturnStep DEF ReturnClosed, At, Leaves

-----------------------------------------------------------------------------
(* Steps that change the counts *)

LEMMA CountMoves ==
  ASSUME Inv, NEW t \in Threads, Frame(t), NEW f \in Fds,
         \A g \in Fds \ {f} : fdIdx'[g] = fdIdx[g],
         refcount' \in [Slots -> Nat],
         \A i \in Slots :
           /\ refcount'[i] + Weight(t, i) + Entry(f, i)
                >= refcount[i] + Weight(t, i)' + Entry(f, i)'
           /\ "hidden" \notin app.ops =>
                refcount'[i] + Weight(t, i) + Entry(f, i)
                  = refcount[i] + Weight(t, i)' + Entry(f, i)'
  PROVE  CountInv'
<1> SUFFICES ASSUME NEW i \in Slots
             PROVE  /\ refcount'[i] >= Count(i)'
                    /\ "hidden" \notin app.ops => refcount'[i] = Count(i)'
  BY DEF CountInv, Frame
<1>1. \A u \in Threads \ {t} : pc'[u] = pc[u] /\ call'[u] = call[u]
  BY DEF Frame
<1>2. /\ Count(i)' = Count(i) + Weight(t, i)' - Weight(t, i) + Entry(f, i)' - Entry(f, i)
      /\ Count(i)' \in Nat /\ Count(i) \in Nat
      /\ Weight(t, i) \in Nat /\ Weight(t, i)' \in Nat
      /\ Entry(f, i) \in Nat /\ Entry(f, i)' \in Nat
  BY <1>1, CountStep
<1>3. refcount[i] \in Nat /\ refcount'[i] \in Nat
  BY DEF Inv, TypeInv
<1>4. refcount[i] >= Count(i) /\ ("hidden" \notin app.ops => refcount[i] = Count(i))
  BY DEF Inv, CountInv
<1> HIDE DEF Count, Weight, Entry
<1>5. refcount'[i] >= Count(i)'
  <2>1. refcount'[i] + Weight(t, i) + Entry(f, i)
          >= refcount[i] + Weight(t, i)' + Entry(f, i)'
    OBVIOUS
  <2> QED BY <2>1, <1>2, <1>3, <1>4
<1>6. "hidden" \notin app.ops => refcount'[i] = Count(i)'
  BY <1>2, <1>3, <1>4
<1> QED BY <1>5, <1>6

\* A reference changes hands.
LEMMA CountUnmoved ==
  ASSUME NEW r \in Nat, NEW w, NEW e, NEW w1, NEW e1,
         w \in Nat, e \in Nat, w1 \in Nat, e1 \in Nat, w + e = w1 + e1
  PROVE  r + w + e >= r + w1 + e1 /\ r + w + e = r + w1 + e1
OBVIOUS

\* The index of a descriptor is reset; the reference it stood for is pending.
LEMMA ResetStep ==
  ASSUME Inv, app' = app, NEW t \in Threads, StaleReset(t) \/ CloseReset(t)
  PROVE  Inv'
<1> DEFINE c == call[t]
           l == IF pc[t] = "staleReset" THEN "staleDrop" ELSE "closeDrop"
<1>1. /\ TypeInv /\ LockInv /\ CallInv(t) /\ OwnInv(t) /\ InfoInv(t) /\ ListInv /\ IndexInv
      /\ c \in CallType /\ pc[t] \in {"staleReset", "closeReset"}
      /\ c.target \in Fds /\ c.slot \in Slots /\ fdIdx[c.target] = c.slot
  BY DEF Inv, ThreadInv, CallInv, InfoInv, TypeInv, StaleReset, CloseReset, At, StaleSteps,
         CloseSteps
<1>2. /\ pc' = [pc EXCEPT ![t] = l] /\ UNCHANGED call
      /\ fdIdx' = [fdIdx EXCEPT ![c.target] = -1]
      /\ UNCHANGED <<file, tableVars, resetMutex, ffMutex, held>>
  BY DEF StaleReset, CloseReset, Goto, At
<1>3. /\ l \in Labels
      /\ pc[t] = "staleReset" => l = "staleDrop"
      /\ pc[t] = "closeReset" => l = "closeDrop"
  BY <1>1 DEF Labels
<1> HIDE DEF l
<1>4. /\ pc'[t] = l /\ call'[t] = c
      /\ \A u \in Threads \ {t} : pc'[u] = pc[u] /\ call'[u] = call[u]
      /\ pc' \in [Threads -> Labels]
  BY <1>1, <1>2, <1>3 DEF TypeInv
<1>5. /\ fdIdx'[c.target] = -1
      /\ \A f \in Fds \ {c.target} : fdIdx'[f] = fdIdx[f]
      /\ fdIdx' \in [Fds -> Slots \cup {-1}]
  BY <1>1, <1>2 DEF TypeInv
<1>6. Owns(t, c.target) /\ c.target \notin held
  BY <1>1 DEF Owns, CallInv, OwnInv, StaleSteps, CloseSteps
<1>7. Frame(t)
  <2>1. Private(t, c.target)
    BY <1>6 DEF Private
  <2>2. \A u \in Threads \ {t} : call[u].op # "dup2"
    BY <1>1, NoOtherDup2
  <2>3. \A f \in Fds : Owns(t, f)' => Owns(t, f)
    BY <1>1, <1>4 DEF Owns
  <2> QED BY <1>2, <1>4, <1>5, <1>6, <2>1, <2>2, <2>3 DEF Frame, tableVars
<1>8. CallInv(t)'
  BY <1>1, <1>2, <1>3, <1>4 DEF CallInv, NotSocketCall, StaleSteps, CloseSteps, StepsOf, DupOps
<1>9. OwnInv(t)'
  BY <1>1, <1>2, <1>4, <1>7, OwnStep DEF Owns, OwnInv
<1>10. InfoInv(t)'
  <2>1. c.op \in DupOps => c.fd \in held /\ c.fd \in Fds /\ fdIdx'[c.fd] = fdIdx[c.fd]
    BY <1>1, <1>5, <1>6 DEF CallInv, TypeInv
  <2> QED BY <1>1, <1>2, <1>3, <1>4, <1>5, <2>1
             DEF InfoInv, NotSocketCall, Describes, StaleSteps, CloseSteps, DupOps, tableVars
<1>11. TypeInv'
  BY <1>1, <1>2, <1>4, <1>5 DEF TypeInv, tableVars
<1>12. LockInv'
  BY <1>1, <1>2, <1>3, <1>4 DEF LockInv, tableVars
<1>13. IndexInv'
  <2> SUFFICES ASSUME "hidden" \notin app'.ops, NEW f \in Fds, fdIdx'[f] # -1, f \notin held'
               PROVE  \E u \in Threads : Owns(u, f)' /\ Leaves(u)'
    BY DEF IndexInv
  <2>1. f # c.target /\ fdIdx[f] # -1 /\ f \notin held
    BY <1>2, <1>5
  <2>2. PICK u \in Threads : Owns(u, f) /\ Leaves(u)
    BY <1>1, <2>1 DEF IndexInv
  <2>3. u # t
    <3>1. f # -1
      BY DEF Fds
    <3> QED BY <1>1, <2>1, <2>2, <3>1 DEF Owns, CallInv, StaleSteps, CloseSteps
  <2> QED BY <1>4, <2>2, <2>3 DEF Owns, Leaves
<1>14. CountInv'
  <2>0. PICK g \in Fds : g = c.target
    BY <1>1
  <2>1. refcount' = refcount /\ refcount \in [Slots -> Nat]
    BY <1>1, <1>2 DEF tableVars, TypeInv
  <2>2. ASSUME NEW i \in Slots
        PROVE  /\ Weight(t, i) + Entry(g, i) = Weight(t, i)' + Entry(g, i)'
               /\ Weight(t, i) \in Nat /\ Weight(t, i)' \in Nat
               /\ Entry(g, i) \in Nat /\ Entry(g, i)' \in Nat
    <3>0. i # -1
      BY DEF Slots
    <3>1. ~Pending(t, i) /\ (Pending(t, i)' <=> c.slot = i) /\ (InDup(t, i)' <=> InDup(t, i))
      BY <1>1, <1>3, <1>4 DEF Pending, InDup
    <3>2. (fdIdx[g] = i <=> c.slot = i) /\ fdIdx'[g] # i
      BY <1>1, <1>5, <2>0, <3>0
    <3>3. /\ Bit(Pending(t, i)) = 0 /\ Bit(Pending(t, i)') = Bit(c.slot = i)
          /\ Bit(InDup(t, i)') = Bit(InDup(t, i)) /\ Bit(InDup(t, i)) \in {0, 1}
      BY <3>1 DEF Bit
    <3>4. /\ Entry(g, i) = Bit(c.slot = i) /\ Entry(g, i)' = 0
          /\ Bit(c.slot = i) \in {0, 1}
      <4>1. CASE c.slot = i
        BY <4>1, <3>2 DEF Entry, Bit
      <4>2. CASE c.slot # i
        BY <4>2, <3>2 DEF Entry, Bit
      <4> QED BY <4>1, <4>2
    <3> QED BY <3>3, <3>4 DEF Weight
  <2>3. \A i \in Slots :
          /\ refcount'[i] + Weight(t, i) + Entry(g, i)
               >= refcount[i] + Weight(t, i)' + Entry(g, i)'
          /\ "hidden" \notin app.ops =>
               refcount'[i] + Weight(t, i) + Entry(g, i)
                 = refcount[i] + Weight(t, i)' + Entry(g, i)'
    <3> SUFFICES ASSUME NEW i \in Slots
                 PROVE  /\ refcount[i] + Weight(t, i) + Entry(g, i)
                             >= refcount[i] + Weight(t, i)' + Entry(g, i)'
                        /\ refcount[i] + Weight(t, i) + Entry(g, i)
                             = refcount[i] + Weight(t, i)' + Entry(g, i)'
      BY <2>1
    <3>1. refcount[i] \in Nat
      BY <2>1
    <3> HIDE DEF Weight, Entry
    <3> QED BY <3>1, <2>2, CountUnmoved
  <2> QED BY <1>5, <1>7, <2>0, <2>1, <2>3, CountMoves
<1>15. ListInv'
  BY <1>1, <1>2, ListSame DEF tableVars
<1> QED BY <1>2, <1>7, <1>8, <1>9, <1>10, <1>11, <1>12, <1>13, <1>14, <1>15, Assemble
        DEF ThreadInv

\* The index is entered: the pending reference is that of the descriptor now.
LEMMA SetIndexStep ==
  ASSUME Inv, app' = app, NEW t \in Threads, SetIndex(t)
  PROVE  Inv'
<1> DEFINE c == call[t]
<1>1. /\ TypeInv /\ LockInv /\ CallInv(t) /\ OwnInv(t) /\ InfoInv(t) /\ ListInv /\ IndexInv
      /\ c \in CallType /\ pc[t] = "set"
      /\ c.new \in Fds /\ c.idx \in Slots /\ Describes(c.idx, file[c.new])
  BY DEF Inv, ThreadInv, CallInv, InfoInv, TypeInv, SetIndex, At
<1>2. PICK n \in Fds : n = c.new
  BY <1>1
<1>3. /\ pc' = [pc EXCEPT ![t] = "idle"] /\ call' = [call EXCEPT ![t] = NoCall]
      /\ fdIdx' = [fdIdx EXCEPT ![n] = c.idx] /\ held' = held \cup {n}
      /\ UNCHANGED <<file, tableVars, resetMutex, ffMutex>>
  BY <1>2 DEF SetIndex, Goto, Return
<1>4. /\ pc'[t] = "idle" /\ call'[t] = NoCall
      /\ \A u \in Threads \ {t} : pc'[u] = pc[u] /\ call'[u] = call[u]
      /\ pc' \in [Threads -> Labels] /\ call' \in [Threads -> CallType]
  <2>1. NoCall \in CallType /\ "idle" \in Labels
    BY DEF NoCall, CallType, Labels
  <2> QED BY <1>1, <1>3, <2>1, Moves
<1>5. /\ fdIdx'[n] = c.idx
      /\ \A f \in Fds \ {n} : fdIdx'[f] = fdIdx[f]
      /\ fdIdx' \in [Fds -> Slots \cup {-1}]
  BY <1>1, <1>3 DEF TypeInv
<1>6. Owns(t, n) /\ n \notin held
  BY <1>1, <1>2 DEF Owns, OwnInv
<1>7. \A f \in Fds : ~Owns(t, f)'
  BY <1>4 DEF Owns, NoCall, Fds
<1>8. Frame(t)
  <2>1. Private(t, n)
    BY <1>6 DEF Private
  <2>2. \A u \in Threads \ {t} : call[u].op # "dup2"
    BY <1>1, NoOtherDup2
  <2> QED BY <1>3, <1>4, <1>5, <1>6, <1>7, <2>1, <2>2 DEF Frame, tableVars
<1>9. CallInv(t)'
  BY <1>4 DEF CallInv, NotSocketCall, StaleSteps, CloseSteps, StepsOf, DupOps, NoCall, AllOps
<1>10. OwnInv(t)'
  <2>1. call'[t].op # "dup2"
    BY <1>4 DEF NoCall
  <2> QED BY <1>7, <1>8, <2>1, OwnStep
<1>11. InfoInv(t)'
  BY <1>4 DEF InfoInv, NotSocketCall, Describes, StaleSteps, CloseSteps, DupOps, NoCall
<1>12. TypeInv'
  BY <1>1, <1>3, <1>4, <1>5 DEF TypeInv, tableVars
<1>13. LockInv'
  BY <1>1, <1>3, <1>4 DEF LockInv, tableVars
<1>14. \A f \in held' \ held : HeldInv(f)'
  <2>1. /\ fdIdx'[n] \in Slots
        /\ file'[n] = Overlooked \/ (file'[n] \in Sockets /\ info'[fdIdx'[n]] = file'[n])
    BY <1>1, <1>2, <1>3, <1>5 DEF tableVars, Describes
  <2>2. HeldInv(n)'
    BY <2>1 DEF HeldInv, Slots, Sockets, Closed, Plain, Overlooked
  <2> QED BY <1>3, <2>2
<1>15. IndexInv'
  <2> SUFFICES ASSUME "hidden" \notin app'.ops, NEW f \in Fds, fdIdx'[f] # -1, f \notin held'
               PROVE  \E u \in Threads : Owns(u, f)' /\ Leaves(u)'
    BY DEF IndexInv
  <2>1. f # n /\ fdIdx[f] # -1 /\ f \notin held
    BY <1>3, <1>5
  <2>2. PICK u \in Threads : Owns(u, f) /\ Leaves(u)
    BY <1>1, <2>1 DEF IndexInv
  <2>3. u # t
    BY <1>1, <2>2 DEF Leaves
  <2> QED BY <1>4, <2>2, <2>3 DEF Owns, Leaves
<1>16. CountInv'
  <2>1. refcount' = refcount /\ refcount \in [Slots -> Nat]
    BY <1>1, <1>3 DEF tableVars, TypeInv
  <2>2. "hidden" \notin app.ops => fdIdx[n] = -1
    <3> SUFFICES ASSUME "hidden" \notin app.ops, fdIdx[n] # -1 PROVE FALSE
      OBVIOUS
    <3>1. PICK u \in Threads : Owns(u, n) /\ Leaves(u)
      BY <1>1, <1>6 DEF IndexInv
    <3> QED BY <1>1, <1>6, <3>1 DEF OwnInv, Leaves
  <2>3. \A i \in Slots :
          /\ refcount'[i] + Weight(t, i) + Entry(n, i)
               >= refcount[i] + Weight(t, i)' + Entry(n, i)'
          /\ "hidden" \notin app.ops =>
               refcount'[i] + Weight(t, i) + Entry(n, i)
                 = refcount[i] + Weight(t, i)' + Entry(n, i)'
    <3> TAKE i \in Slots
    <3>1. i # -1
      BY DEF Slots
    <3>2. (Pending(t, i) <=> c.idx = i) /\ ~InDup(t, i) /\ ~Pending(t, i)' /\ ~InDup(t, i)'
      BY <1>1, <1>4 DEF Pending, InDup
    <3>3. /\ Weight(t, i) = Bit(c.idx = i) /\ Weight(t, i)' = 0
          /\ Bit(c.idx = i) \in Nat
      BY <3>2 DEF Weight, Bit
    <3>4. Entry(n, i)' = Bit(c.idx = i) /\ Entry(n, i) \in Nat
      BY <1>5 DEF Entry, Bit
    <3>5. "hidden" \notin app.ops => Entry(n, i) = 0
      BY <2>2, <3>1 DEF Entry, Bit
    <3>6. refcount[i] \in Nat /\ refcount'[i] = refcount[i]
      BY <2>1
    <3> HIDE DEF Weight, Entry, Bit
    <3> QED BY <3>3, <3>4, <3>5, <3>6
  <2> QED BY <1>5, <1>8, <2>1, <2>3, CountMoves
<1>17. ListInv'
  BY <1>1, <1>3, ListSame DEF tableVars
<1> QED BY <1>8, <1>9, <1>10, <1>11, <1>12, <1>13, <1>14, <1>15, <1>16, <1>17, Assemble
        DEF ThreadInv

-----------------------------------------------------------------------------
(* The free list *)

LEMMA ListKept ==
  ASSUME ListInv, UNCHANGED <<nextFree, firstFree>>,
         \A i \in Slots : refcount'[i] = 0 <=> refcount[i] = 0
  PROVE  ListInv'
<1>1. PICK n \in Nat : \E q \in [1..n -> Slots] : FreeList(q, n)
  BY DEF ListInv
<1>2. PICK q \in [1..n -> Slots] : FreeList(q, n)
  BY <1>1
<1>3. FreeList(q, n)'
  BY <1>2 DEF FreeList
<1> QED BY <1>3 DEF ListInv

\* The last reference to a slot puts it at the head of the list.
LEMMA ListPush ==
  ASSUME TypeInv, ListInv, NEW i \in Slots, refcount[i] >= 1, DropReference(i)
  PROVE  /\ ListInv'
         /\ refcount' \in [Slots -> Nat] /\ nextFree' \in [Slots -> Slots \cup {-1}]
         /\ firstFree' \in Slots \cup {-1} /\ info' = info
         /\ refcount'[i] = refcount[i] - 1
         /\ \A j \in Slots \ {i} : refcount'[j] = refcount[j]
<1>1. /\ refcount[i] \in Nat /\ refcount \in [Slots -> Nat]
      /\ nextFree \in [Slots -> Slots \cup {-1}] /\ firstFree \in Slots \cup {-1}
      /\ i # -1 /\ \A j \in Slots : refcount[j] \in Nat
  BY DEF TypeInv, Slots
<1>2. /\ refcount' = [refcount EXCEPT ![i] = @ - 1] /\ info' = info
      /\ refcount[i] > 1 => UNCHANGED <<nextFree, firstFree>>
      /\ ~(refcount[i] > 1) => /\ nextFree' = [nextFree EXCEPT ![i] = firstFree]
                               /\ firstFree' = i
  BY DEF DropReference
<1>3. refcount[i] - 1 \in Nat
  BY <1>1
<1>4. /\ refcount' \in [Slots -> Nat] /\ refcount'[i] = refcount[i] - 1
      /\ \A j \in Slots \ {i} : refcount'[j] = refcount[j]
  BY <1>1, <1>2, <1>3
<1>5. nextFree' \in [Slots -> Slots \cup {-1}] /\ firstFree' \in Slots \cup {-1}
  BY <1>1, <1>2
<1>6. CASE refcount[i] > 1
  <2>1. \A j \in Slots : refcount'[j] = 0 <=> refcount[j] = 0
    BY <1>1, <1>4, <1>6
  <2> QED BY <1>2, <1>4, <1>5, <1>6, <2>1, ListKept
<1>7. CASE ~(refcount[i] > 1)
  <2>1. refcount[i] # 0 /\ refcount'[i] = 0
    BY <1>1, <1>4, <1>7
  <2>2. PICK n \in Nat : \E q \in [1..n -> Slots] : FreeList(q, n)
    BY DEF ListInv
  <2>3. PICK q \in [1..n -> Slots] : FreeList(q, n)
    BY <2>2
  <2> DEFINE p == [k \in 1..(n + 1) |-> IF k = 1 THEN i ELSE q[k - 1]]
  <2>4. /\ p \in [1..(n + 1) -> Slots] /\ p[1] = i
        /\ \A k \in 1..n : k + 1 \in 1..(n + 1) /\ p[k + 1] = q[k]
        /\ \A k \in 1..(n + 1) : k = 1 \/ (k - 1 \in 1..n /\ p[k] = q[k - 1])
    OBVIOUS
  <2> HIDE DEF p
  <2>5. \A k \in 1..n : q[k] \in Slots /\ q[k] # i
    BY <2>1, <2>3 DEF FreeList
  <2>6. \A j, k \in 1..(n + 1) : p[j] = p[k] => j = k
    <3> SUFFICES ASSUME NEW j \in 1..(n + 1), NEW k \in 1..(n + 1), p[j] = p[k]
                 PROVE  j = k
      OBVIOUS
    <3>1. CASE j = 1 \/ k = 1
      BY <3>1, <2>4, <2>5
    <3>2. CASE j # 1 /\ k # 1
      <4>1. j - 1 \in 1..n /\ k - 1 \in 1..n /\ q[j - 1] = q[k - 1]
        BY <3>2, <2>4
      <4>2. j - 1 = k - 1
        BY <4>1, <2>3 DEF FreeList
      <4> QED BY <4>2
    <3> QED BY <3>1, <3>2
  <2>7. \A j \in Slots : refcount'[j] = 0 <=> \E k \in 1..(n + 1) : p[k] = j
    <3> SUFFICES ASSUME NEW j \in Slots
                 PROVE  refcount'[j] = 0 <=> \E k \in 1..(n + 1) : p[k] = j
      OBVIOUS
    <3>1. CASE j = i
      BY <3>1, <2>1, <2>4
    <3>2. CASE j # i
      <4>1. refcount'[j] = 0 <=> \E k \in 1..n : q[k] = j
        BY <3>2, <1>4, <2>3 DEF FreeList
      <4>2. (\E k \in 1..n : q[k] = j) <=> (\E k \in 1..(n + 1) : p[k] = j)
        BY <3>2, <2>4
      <4> QED BY <4>1, <4>2
    <3> QED BY <3>1, <3>2
  <2>8. \A k \in 1..(n + 1) : nextFree'[p[k]] = IF k = n + 1 THEN -1 ELSE p[k + 1]
    <3> SUFFICES ASSUME NEW k \in 1..(n + 1)
                 PROVE  nextFree'[p[k]] = IF k = n + 1 THEN -1 ELSE p[k + 1]
      OBVIOUS
    <3>1. /\ nextFree'[i] = firstFree
          /\ \A j \in Slots \ {i} : nextFree'[j] = nextFree[j]
      BY <1>1, <1>2, <1>7
    <3>2. CASE k = 1
      <4>1. nextFree'[p[k]] = IF n = 0 THEN -1 ELSE q[1]
        BY <3>1, <3>2, <2>3, <2>4 DEF FreeList
      <4>2. n # 0 => p[2] = q[1]
        <5>1. n # 0 => 1 \in 1..n
          OBVIOUS
        <5>2. 1 + 1 = 2
          OBVIOUS
        <5> QED BY <5>1, <5>2, <2>4
      <4> QED BY <4>1, <4>2, <3>2
    <3>3. CASE k # 1
      <4>1. k - 1 \in 1..n /\ p[k] = q[k - 1]
        BY <3>3, <2>4
      <4>2. nextFree'[p[k]] = nextFree[q[k - 1]]
        BY <4>1, <2>5, <3>1
      <4>3. nextFree[q[k - 1]] = IF k - 1 = n THEN -1 ELSE q[(k - 1) + 1]
        BY <4>1, <2>3 DEF FreeList
      <4>4. k # n + 1 => k \in 1..n /\ p[k + 1] = q[k] /\ (k - 1) + 1 = k
        BY <2>4
      <4>5. k - 1 = n <=> k = n + 1
        OBVIOUS
      <4> QED BY <4>2, <4>3, <4>4, <4>5
    <3> QED BY <3>2, <3>3
  <2>9. FreeList(p, n + 1)'
    <3>1. firstFree' = IF n + 1 = 0 THEN -1 ELSE p[1]
      BY <1>2, <1>7, <2>4
    <3> QED BY <2>6, <2>7, <2>8, <3>1 DEF FreeList
  <2>10. ListInv'
    <3>1. n + 1 \in Nat
      OBVIOUS
    <3> QED BY <2>4, <2>9, <3>1 DEF ListInv
  <2> QED BY <1>2, <1>4, <1>5, <2>10
<1> QED BY <1>6, <1>7

\* The head of the list gets its first reference.
LEMMA ListPop ==
  ASSUME TypeInv, ListInv, NEW i \in Slots, i = firstFree, firstFree' = nextFree[i],
         refcount' = [refcount EXCEPT ![i] = @ + 1], UNCHANGED nextFree
  PROVE  /\ ListInv' /\ refcount[i] = 0
         /\ refcount' \in [Slots -> Nat] /\ firstFree' \in Slots \cup {-1}
         /\ refcount'[i] = refcount[i] + 1
         /\ \A j \in Slots \ {i} : refcount'[j] = refcount[j]
<1>1. /\ refcount[i] \in Nat /\ refcount \in [Slots -> Nat]
      /\ nextFree \in [Slots -> Slots \cup {-1}]
      /\ i # -1 /\ \A j \in Slots : refcount[j] \in Nat
  BY DEF TypeInv, Slots
<1>2. /\ refcount' \in [Slots -> Nat] /\ refcount'[i] = refcount[i] + 1
      /\ \A j \in Slots \ {i} : refcount'[j] = refcount[j]
      /\ firstFree' \in Slots \cup {-1}
  BY <1>1
<1>3. PICK n \in Nat : \E q \in [1..n -> Slots] : FreeList(q, n)
  BY DEF ListInv
<1>4. PICK q \in [1..n -> Slots] : FreeList(q, n)
  BY <1>3
<1>5. n # 0 /\ q[1] = i /\ 1 \in 1..n
  BY <1>1, <1>4 DEF FreeList
<1>6. refcount[i] = 0
  BY <1>4, <1>5 DEF FreeList
<1> DEFINE p == [k \in 1..(n - 1) |-> q[k + 1]]
<1>7. /\ p \in [1..(n - 1) -> Slots] /\ n - 1 \in Nat
      /\ \A k \in 1..(n - 1) : k + 1 \in 1..n /\ p[k] = q[k + 1]
      /\ \A k \in 1..n : k = 1 \/ (k - 1 \in 1..(n - 1) /\ p[k - 1] = q[k])
  BY <1>5
<1> HIDE DEF p
<1>8. \A j, k \in 1..(n - 1) : p[j] = p[k] => j = k
  <2> SUFFICES ASSUME NEW j \in 1..(n - 1), NEW k \in 1..(n - 1), p[j] = p[k] PROVE j = k
    OBVIOUS
  <2>1. j + 1 \in 1..n /\ k + 1 \in 1..n /\ q[j + 1] = q[k + 1]
    BY <1>7
  <2>2. j + 1 = k + 1
    BY <2>1, <1>4 DEF FreeList
  <2> QED BY <2>2
<1>9. \A j \in Slots : refcount'[j] = 0 <=> \E k \in 1..(n - 1) : p[k] = j
  <2> SUFFICES ASSUME NEW j \in Slots
               PROVE  refcount'[j] = 0 <=> \E k \in 1..(n - 1) : p[k] = j
    OBVIOUS
  <2>1. CASE j = i
    <3>1. refcount'[i] # 0
      BY <1>2, <1>6
    <3>2. ASSUME NEW k \in 1..(n - 1), p[k] = i PROVE FALSE
      <4>1. k + 1 \in 1..n /\ q[k + 1] = q[1]
        BY <3>2, <1>5, <1>7
      <4>2. k + 1 = 1
        BY <4>1, <1>4, <1>5 DEF FreeList
      <4> QED BY <4>2
    <3> QED BY <3>1, <3>2, <2>1
  <2>2. CASE j # i
    <3>1. refcount'[j] = 0 <=> \E k \in 1..n : q[k] = j
      BY <2>2, <1>2, <1>4 DEF FreeList
    <3>2. (\E k \in 1..n : q[k] = j) <=> (\E k \in 1..(n - 1) : p[k] = j)
      BY <2>2, <1>5, <1>7
    <3> QED BY <3>1, <3>2
  <2> QED BY <2>1, <2>2
<1>10. firstFree' = IF n - 1 = 0 THEN -1 ELSE p[1]
  <2>1. firstFree' = IF 1 = n THEN -1 ELSE q[1 + 1]
    BY <1>4, <1>5 DEF FreeList
  <2>2. n # 1 => 1 \in 1..(n - 1) /\ p[1] = q[1 + 1]
    BY <1>5, <1>7
  <2> QED BY <2>1, <2>2
<1>11. \A k \in 1..(n - 1) : nextFree'[p[k]] = IF k = n - 1 THEN -1 ELSE p[k + 1]
  <2> SUFFICES ASSUME NEW k \in 1..(n - 1)
               PROVE  nextFree'[p[k]] = IF k = n - 1 THEN -1 ELSE p[k + 1]
    OBVIOUS
  <2>1. k + 1 \in 1..n /\ p[k] = q[k + 1]
    BY <1>7
  <2>2. nextFree'[p[k]] = IF k + 1 = n THEN -1 ELSE q[(k + 1) + 1]
    BY <2>1, <1>4 DEF FreeList
  <2>3. k # n - 1 => k + 1 \in 1..(n - 1) /\ p[k + 1] = q[(k + 1) + 1]
    BY <1>7
  <2>4. k + 1 = n <=> k = n - 1
    OBVIOUS
  <2> QED BY <2>2, <2>3, <2>4
<1>12. FreeList(p, n - 1)'
  BY <1>8, <1>9, <1>10, <1>11 DEF FreeList
<1>13. ListInv'
  BY <1>7, <1>12 DEF ListInv
<1> QED BY <1>2, <1>6, <1>13

-----------------------------------------------------------------------------
(* Steps that take or drop references *)

LEMMA StaleDropStep ==
  ASSUME Inv, app' = app, NEW t \in Threads, StaleDrop(t)
  PROVE  Inv'
<1> DEFINE c == call[t]
           l == AfterStale(t)
<1>1. /\ TypeInv /\ LockInv /\ CallInv(t) /\ OwnInv(t) /\ InfoInv(t) /\ ListInv /\ IndexInv
      /\ CountInv /\ c \in CallType /\ pc[t] = "staleDrop" /\ c.slot \in Slots
      /\ c.target = c.new /\ c.new \in Fds /\ fdIdx[c.target] = -1
      /\ c.op \in {"socket", "plain", "signalfd", "accept"} \cup DupOps
  BY DEF Inv, ThreadInv, CallInv, InfoInv, TypeInv, StaleDrop, At, StaleSteps, StepsOf, CloseSteps,
         AllOps, DupOps
<1>2. PICK s \in Slots : s = c.slot
  BY <1>1
<1>3. /\ pc' = [pc EXCEPT ![t] = l] /\ UNCHANGED call /\ DropReference(s)
      /\ ffMutex = NoThread /\ resetMutex' = NoThread
      /\ UNCHANGED <<file, fdIdx, ffMutex, held>>
  BY <1>2 DEF StaleDrop, Goto
<1>4. /\ l \in Labels /\ l \in {"create", "done", "set"}
      /\ c.op = "socket" => l = "create"
      /\ c.op \in {"plain", "signalfd", "accept"} => l = "done"
      /\ c.op \in DupOps => l = "set"
  BY <1>1 DEF AfterStale, Labels, DupOps
<1> HIDE DEF l
<1>5. /\ pc'[t] = l /\ call'[t] = c
      /\ \A u \in Threads \ {t} : pc'[u] = pc[u] /\ call'[u] = call[u]
      /\ pc' \in [Threads -> Labels] /\ call' \in [Threads -> CallType]
  BY <1>1, <1>3, <1>4 DEF TypeInv
<1>6. refcount[s] >= 1
  <2>1. Pending(t, s)
    BY <1>1, <1>2 DEF Pending
  <2> QED BY <1>1, <2>1, Counted
<1>7. /\ ListInv'
      /\ refcount' \in [Slots -> Nat] /\ nextFree' \in [Slots -> Slots \cup {-1}]
      /\ firstFree' \in Slots \cup {-1} /\ info' = info
      /\ refcount'[s] = refcount[s] - 1
      /\ \A j \in Slots \ {s} : refcount'[j] = refcount[j]
  BY <1>1, <1>3, <1>6, ListPush
<1>8. Frame(t)
  <2>1. \A u \in Threads \ {t} : call[u].op # "dup2"
    BY <1>1, NoOtherDup2
  <2>2. \A f \in Fds : Owns(t, f)' => Owns(t, f)
    BY <1>1, <1>5 DEF Owns
  <2> QED BY <1>3, <1>5, <1>7, <2>1, <2>2 DEF Frame
<1>9. CallInv(t)'
  BY <1>1, <1>3, <1>4, <1>5 DEF CallInv, NotSocketCall, StaleSteps, CloseSteps, StepsOf, DupOps
<1>10. OwnInv(t)'
  BY <1>1, <1>3, <1>5, <1>8, OwnStep DEF Owns, OwnInv
<1>11. InfoInv(t)'
  BY <1>1, <1>3, <1>4, <1>5, <1>7 DEF InfoInv, NotSocketCall, Describes, StaleSteps, CloseSteps, DupOps
<1>12. TypeInv'
  BY <1>1, <1>3, <1>5, <1>7 DEF TypeInv
<1>13. LockInv'
  <2>1. \A u \in Threads : pc[u] # "take" /\ (resetMutex = u <=> u = t)
    BY <1>1, <1>3, SwrapTableAssumption DEF LockInv
  <2> QED BY <1>1, <1>3, <1>4, <1>5, <2>1, SwrapTableAssumption DEF LockInv
<1>14. IndexInv'
  BY <1>1, <1>3, <1>8, IndexSame DEF Leaves
<1>15. CountInv'
  <2>1. PICK g \in Fds : g = c.target
    BY <1>1
  <2>2. \A i \in Slots :
          /\ refcount'[i] + Weight(t, i) + Entry(g, i)
               >= refcount[i] + Weight(t, i)' + Entry(g, i)'
          /\ "hidden" \notin app.ops =>
               refcount'[i] + Weight(t, i) + Entry(g, i)
                 = refcount[i] + Weight(t, i)' + Entry(g, i)'
    <3> TAKE i \in Slots
    <3>1. Entry(g, i)' = Entry(g, i) /\ Entry(g, i) \in Nat
      BY <1>3 DEF Entry, Bit
    <3>2. /\ Pending(t, i) <=> s = i
          /\ InDup(t, i) <=> Pending(t, i)'
          /\ ~InDup(t, i)'
      BY <1>1, <1>2, <1>4, <1>5 DEF Pending, InDup, DupOps
    <3>3. /\ Weight(t, i) = Bit(s = i) + Weight(t, i)' /\ Weight(t, i)' \in Nat
          /\ Bit(s = i) \in Nat
      BY <3>2 DEF Weight, Bit
    <3>4. refcount'[i] = refcount[i] - Bit(s = i) /\ refcount[i] \in Nat
      BY <1>1, <1>7 DEF Bit, TypeInv
    <3> HIDE DEF Weight, Entry
    <3> QED BY <3>1, <3>3, <3>4
  <2> QED BY <1>3, <1>7, <1>8, <2>2, CountMoves
<1> QED BY <1>3, <1>7, <1>8, <1>9, <1>10, <1>11, <1>12, <1>13, <1>14, <1>15, Assemble
        DEF ThreadInv

\* The descriptor is closed; its slot, if it had one, loses a reference.
LEMMA CloseDropStep ==
  ASSUME Inv, app' = app, NEW t \in Threads, CloseDrop(t) \/ LibcClose(t)
  PROVE  Inv'
<1> DEFINE c == call[t]
           l == AfterClose(t)
<1>1. /\ TypeInv /\ LockInv /\ CallInv(t) /\ OwnInv(t) /\ InfoInv(t) /\ ListInv /\ IndexInv
      /\ CountInv /\ c \in CallType /\ pc[t] \in {"closeDrop", "libcclose"}
      /\ c.target \in Fds /\ c.op \in {"close", "accept", "dup2"}
      /\ pc[t] = "closeDrop" => c.slot \in Slots
  BY DEF Inv, ThreadInv, CallInv, TypeInv, CloseDrop, LibcClose, At, StaleSteps, StepsOf,
         CloseSteps, AllOps
<1>2. PICK g \in Fds : g = c.target
  BY <1>1
<1>3. /\ pc' = [pc EXCEPT ![t] = l] /\ UNCHANGED call
      /\ file' = [file EXCEPT ![g] = Closed]
      /\ UNCHANGED <<fdIdx, ffMutex, held>>
      /\ pc[t] = "closeDrop" => /\ ffMutex = NoThread /\ resetMutex' = NoThread
                                /\ DropReference(c.slot)
      /\ pc[t] = "libcclose" => UNCHANGED <<tableVars, resetMutex>>
  BY <1>2 DEF CloseDrop, LibcClose, Goto, At
<1>4. /\ l \in Labels
      /\ c.op = "dup2" => l = "libcdup"
      /\ c.op # "dup2" => l = "closed"
  BY DEF AfterClose, Labels
<1> HIDE DEF l
<1>5. /\ pc'[t] = l /\ call'[t] = c
      /\ \A u \in Threads \ {t} : pc'[u] = pc[u] /\ call'[u] = call[u]
      /\ pc' \in [Threads -> Labels] /\ call' \in [Threads -> CallType]
  BY <1>1, <1>3, <1>4 DEF TypeInv
<1>6. /\ file'[g] = Closed
      /\ \A f \in Fds \ {g} : file'[f] = file[f]
      /\ file' \in [Fds -> Sockets \cup {Plain, Overlooked, Closed}]
  BY <1>1, <1>3 DEF TypeInv
<1>7. Owns(t, g) /\ g \notin held
  BY <1>1, <1>2 DEF Owns, CallInv, OwnInv, CloseSteps
<1>8. /\ ListInv'
      /\ refcount' \in [Slots -> Nat] /\ nextFree' \in [Slots -> Slots \cup {-1}]
      /\ firstFree' \in Slots \cup {-1} /\ info' = info
      /\ \A j \in Slots :
           refcount'[j] = IF pc[t] = "closeDrop" /\ j = c.slot THEN refcount[j] - 1
                                                               ELSE refcount[j]
  <2>1. CASE pc[t] = "closeDrop"
    <3>1. Pending(t, c.slot)
      BY <2>1 DEF Pending
    <3>2. refcount[c.slot] >= 1
      BY <1>1, <2>1, <3>1, Counted
    <3> QED BY <1>1, <1>3, <2>1, <3>2, ListPush
  <2>2. CASE pc[t] = "libcclose"
    <3>1. UNCHANGED <<info, refcount, nextFree, firstFree>>
      BY <1>3, <2>2 DEF tableVars
    <3>2. ListInv'
      BY <1>1, <3>1, ListSame
    <3> QED BY <1>1, <2>2, <3>1, <3>2 DEF TypeInv
  <2> QED BY <1>1, <2>1, <2>2
<1>9. Frame(t)
  <2>1. \A u \in Threads \ {t} : call[u].op # "dup2"
    BY <1>1, NoOtherDup2
  <2>2. \A f \in Fds : Owns(t, f)' => Owns(t, f)
    BY <1>1, <1>5 DEF Owns
  <2>3. Private(t, g)
    BY <1>7 DEF Private
  <2> QED BY <1>3, <1>5, <1>6, <1>7, <1>8, <2>1, <2>2, <2>3 DEF Frame
<1>10. CallInv(t)'
  BY <1>1, <1>3, <1>4, <1>5 DEF CallInv, NotSocketCall, StaleSteps, CloseSteps, StepsOf, DupOps
<1>11. OwnInv(t)'
  <2>1. ASSUME NEW f \in Fds, Owns(t, f)' PROVE f \notin held' /\ call'[t].op = "dup2"
    BY <1>1, <1>3, <1>4, <1>5, <2>1 DEF Owns, OwnInv
  <2> QED BY <1>1, <1>5, <1>9, <2>1, OwnStep DEF OwnInv
<1>12. InfoInv(t)'
  BY <1>1, <1>3, <1>4, <1>5, <1>8 DEF InfoInv, NotSocketCall, Describes, StaleSteps, CloseSteps, DupOps
<1>13. TypeInv'
  BY <1>1, <1>3, <1>5, <1>6, <1>8 DEF TypeInv, tableVars
<1>14. LockInv'
  <2>1. CASE pc[t] = "closeDrop"
    <3>1. \A u \in Threads : pc[u] # "take" /\ (resetMutex = u <=> u = t)
      BY <1>1, <1>3, <2>1, SwrapTableAssumption DEF LockInv
    <3> QED BY <1>1, <1>3, <1>4, <1>5, <2>1, <3>1, SwrapTableAssumption DEF LockInv
  <2>2. CASE pc[t] = "libcclose"
    BY <1>1, <1>3, <1>4, <1>5, <2>2 DEF LockInv, tableVars
  <2> QED BY <1>1, <2>1, <2>2
<1>15. IndexInv'
  BY <1>1, <1>3, <1>9, IndexSame DEF Leaves
<1>16. CountInv'
  <2>1. \A i \in Slots :
          /\ refcount'[i] + Weight(t, i) + Entry(g, i)
               >= refcount[i] + Weight(t, i)' + Entry(g, i)'
          /\ "hidden" \notin app.ops =>
               refcount'[i] + Weight(t, i) + Entry(g, i)
                 = refcount[i] + Weight(t, i)' + Entry(g, i)'
    <3> TAKE i \in Slots
    <3>1. Entry(g, i)' = Entry(g, i) /\ Entry(g, i) \in Nat
      BY <1>3 DEF Entry, Bit
    <3>2. /\ Pending(t, i) <=> pc[t] = "closeDrop" /\ i = c.slot
          /\ ~InDup(t, i) /\ ~Pending(t, i)' /\ ~InDup(t, i)'
      BY <1>1, <1>4, <1>5 DEF Pending, InDup
    <3>3. Weight(t, i)' = 0 /\ Weight(t, i) = IF pc[t] = "closeDrop" /\ i = c.slot THEN 1 ELSE 0
      BY <3>2 DEF Weight, Bit
    <3>4. refcount[i] \in Nat /\ refcount'[i] + Weight(t, i) = refcount[i]
      BY <1>1, <1>8, <3>3 DEF TypeInv
    <3>5. refcount'[i] \in Nat /\ Weight(t, i) \in Nat
      BY <1>8, <3>3
    <3> HIDE DEF Weight, Entry
    <3> QED BY <3>1, <3>3, <3>4, <3>5
  <2> QED BY <1>3, <1>8, <1>9, <2>1, CountMoves
<1> QED BY <1>3, <1>8, <1>9, <1>10, <1>11, <1>12, <1>13, <1>14, <1>15, <1>16, Assemble
        DEF ThreadInv

\* A slot leaves the free list and describes the new socket.
LEMMA TakeStep ==
  ASSUME Inv, app' = app, NEW t \in Threads, Take(t)
  PROVE  Inv'
<1> DEFINE c == call[t]
<1>1. /\ TypeInv /\ LockInv /\ CallInv(t) /\ OwnInv(t) /\ InfoInv(t) /\ ListInv /\ IndexInv
      /\ CountInv /\ c \in CallType /\ pc[t] = "take" /\ c.new \in Fds
      /\ firstFree \in Slots /\ ffMutex = t /\ c.op \in {"socket", "accept"}
  BY DEF Inv, ThreadInv, CallInv, TypeInv, LockInv, Take, At, StaleSteps, StepsOf, CloseSteps,
         AllOps
<1>2. PICK i \in Slots : i = firstFree
  BY <1>1
<1> DEFINE d == [c EXCEPT !.idx = i]
<1>3. /\ pc' = [pc EXCEPT ![t] = "set"] /\ call' = [call EXCEPT ![t] = d]
      /\ firstFree' = nextFree[i] /\ info' = [info EXCEPT ![i] = file[c.new]]
      /\ refcount' = [refcount EXCEPT ![i] = @ + 1] /\ ffMutex' = NoThread
      /\ UNCHANGED <<file, fdIdx, nextFree, resetMutex, held>>
  BY <1>1, <1>2 DEF Take, Goto, TypeInv
<1>4. /\ d \in CallType /\ d.op = c.op /\ d.fd = c.fd /\ d.new = c.new /\ d.idx = i
      /\ d.target = c.target
  BY <1>1 DEF CallType
<1> HIDE DEF d
<1>5. /\ pc'[t] = "set" /\ call'[t] = d
      /\ \A u \in Threads \ {t} : pc'[u] = pc[u] /\ call'[u] = call[u]
      /\ pc' \in [Threads -> Labels] /\ call' \in [Threads -> CallType]
  <2>1. "set" \in Labels
    BY DEF Labels
  <2> QED BY <1>1, <1>3, <1>4, <2>1, Moves
<1>6. file[c.new] \in Sockets
  BY <1>1 DEF InfoInv, NotSocketCall, StaleSteps
<1>7. /\ ListInv' /\ refcount[i] = 0
      /\ refcount' \in [Slots -> Nat] /\ firstFree' \in Slots \cup {-1}
      /\ refcount'[i] = refcount[i] + 1
      /\ \A j \in Slots \ {i} : refcount'[j] = refcount[j]
  BY <1>1, <1>2, <1>3, ListPop
<1>8. /\ info'[i] = file[c.new] /\ \A j \in Slots \ {i} : info'[j] = info[j]
      /\ info' \in [Slots -> Sockets \cup {0}]
  BY <1>1, <1>3, <1>6 DEF TypeInv
<1>9. Frame(t)
  <2>1. \A u \in Threads \ {t} : call[u].op # "dup2"
    BY <1>1, NoOtherDup2
  <2>2. \A f \in Fds : Owns(t, f)' => Owns(t, f)
    BY <1>1, <1>4, <1>5 DEF Owns
  <2> QED BY <1>3, <1>5, <1>7, <1>8, <2>1, <2>2 DEF Frame
<1>10. CallInv(t)'
  BY <1>1, <1>3, <1>4, <1>5 DEF CallInv, NotSocketCall, StaleSteps, CloseSteps, StepsOf, DupOps
<1>11. OwnInv(t)'
  BY <1>1, <1>3, <1>4, <1>5, <1>9, OwnStep DEF Owns, OwnInv
<1>12. InfoInv(t)'
  BY <1>1, <1>3, <1>4, <1>5, <1>6, <1>8 DEF InfoInv, NotSocketCall, Describes, StaleSteps, CloseSteps, DupOps
<1>13. TypeInv'
  BY <1>1, <1>3, <1>5, <1>7, <1>8 DEF TypeInv
<1>14. LockInv'
  BY <1>1, <1>3, <1>5, SwrapTableAssumption DEF LockInv
<1>15. IndexInv'
  BY <1>1, <1>3, <1>9, IndexSame DEF Leaves
<1>16. CountInv'
  <2>1. PICK g \in Fds : g = c.new
    BY <1>1
  <2>2. \A j \in Slots :
          /\ refcount'[j] + Weight(t, j) + Entry(g, j)
               >= refcount[j] + Weight(t, j)' + Entry(g, j)'
          /\ "hidden" \notin app.ops =>
               refcount'[j] + Weight(t, j) + Entry(g, j)
                 = refcount[j] + Weight(t, j)' + Entry(g, j)'
    <3> TAKE j \in Slots
    <3>1. Entry(g, j)' = Entry(g, j) /\ Entry(g, j) \in Nat
      BY <1>3 DEF Entry, Bit
    <3>2. ~Pending(t, j) /\ ~InDup(t, j) /\ (Pending(t, j)' <=> i = j) /\ ~InDup(t, j)'
      BY <1>1, <1>4, <1>5 DEF Pending, InDup
    <3>3. Weight(t, j) = 0 /\ Weight(t, j)' = Bit(i = j) /\ Bit(i = j) \in Nat
      BY <3>2 DEF Weight, Bit
    <3>4. refcount'[j] = refcount[j] + Bit(i = j) /\ refcount[j] \in Nat
      BY <1>1, <1>7 DEF Bit, TypeInv
    <3> HIDE DEF Weight, Entry
    <3> QED BY <3>1, <3>3, <3>4
  <2> QED BY <1>3, <1>7, <1>9, <2>2, CountMoves
<1> QED BY <1>3, <1>7, <1>9, <1>10, <1>11, <1>12, <1>13, <1>14, <1>15, <1>16, Assemble
        DEF ThreadInv

\* The slot of the original is counted once more: the original still maps to it.
LEMMA IncRefcountStep ==
  ASSUME Inv, app' = app, NEW t \in Threads, IncRefcount(t)
  PROVE  Inv'
<1> DEFINE c == call[t]
<1>1. /\ TypeInv /\ LockInv /\ CallInv(t) /\ OwnInv(t) /\ InfoInv(t) /\ ListInv /\ IndexInv
      /\ CountInv /\ c \in CallType /\ pc[t] = "inc" /\ c.new \in Fds
      /\ c.op \in DupOps /\ c.idx \in Slots /\ c.fd \in Fds /\ fdIdx[c.fd] = c.idx
  BY DEF Inv, ThreadInv, CallInv, InfoInv, TypeInv, LockInv, IncRefcount, At, StaleSteps, StepsOf,
         CloseSteps, AllOps, DupOps
<1>2. PICK i \in Slots : i = c.idx
  BY <1>1
<1>3. /\ pc' = [pc EXCEPT ![t] = "stale"] /\ UNCHANGED call
      /\ refcount' = [refcount EXCEPT ![i] = @ + 1]
      /\ UNCHANGED <<file, fdIdx, info, nextFree, firstFree, resetMutex, ffMutex, held>>
  BY <1>2 DEF IncRefcount, Goto
<1>4. /\ pc'[t] = "stale" /\ call'[t] = c
      /\ \A u \in Threads \ {t} : pc'[u] = pc[u] /\ call'[u] = call[u]
      /\ pc' \in [Threads -> Labels] /\ call' \in [Threads -> CallType]
  BY <1>1, <1>3 DEF TypeInv, Labels
<1>5. /\ refcount[i] >= 1
      /\ refcount' \in [Slots -> Nat] /\ refcount'[i] = refcount[i] + 1
      /\ \A j \in Slots \ {i} : refcount'[j] = refcount[j]
  <2>1. refcount[i] >= 1
    BY <1>1, <1>2, Counted
  <2> QED BY <1>1, <1>3, <2>1 DEF TypeInv
<1>6. Frame(t)
  <2>1. \A u \in Threads \ {t} : call[u].op # "dup2"
    BY <1>1, NoOtherDup2
  <2>2. \A f \in Fds : Owns(t, f)' => Owns(t, f)
    BY <1>1, <1>4 DEF Owns
  <2> QED BY <1>3, <1>4, <2>1, <2>2 DEF Frame
<1>7. CallInv(t)'
  BY <1>1, <1>3, <1>4 DEF CallInv, NotSocketCall, StaleSteps, CloseSteps, StepsOf, DupOps
<1>8. OwnInv(t)'
  BY <1>1, <1>3, <1>4, <1>6, OwnStep DEF Owns, OwnInv
<1>9. InfoInv(t)'
  BY <1>1, <1>3, <1>4 DEF InfoInv, NotSocketCall, Describes, StaleSteps, CloseSteps, DupOps
<1>10. TypeInv'
  BY <1>1, <1>3, <1>4, <1>5 DEF TypeInv
<1>11. LockInv'
  BY <1>1, <1>3, <1>4 DEF LockInv
<1>12. IndexInv'
  BY <1>1, <1>3, <1>6, IndexSame DEF Leaves
<1>13. CountInv'
  <2>1. PICK g \in Fds : g = c.new
    BY <1>1
  <2>2. \A j \in Slots :
          /\ refcount'[j] + Weight(t, j) + Entry(g, j)
               >= refcount[j] + Weight(t, j)' + Entry(g, j)'
          /\ "hidden" \notin app.ops =>
               refcount'[j] + Weight(t, j) + Entry(g, j)
                 = refcount[j] + Weight(t, j)' + Entry(g, j)'
    <3> TAKE j \in Slots
    <3>1. Entry(g, j)' = Entry(g, j) /\ Entry(g, j) \in Nat
      BY <1>3 DEF Entry, Bit
    <3>2. ~Pending(t, j) /\ ~InDup(t, j) /\ (InDup(t, j)' <=> i = j) /\ ~Pending(t, j)'
      BY <1>1, <1>2, <1>4 DEF Pending, InDup, DupOps
    <3>3. Weight(t, j) = 0 /\ Weight(t, j)' = Bit(i = j) /\ Bit(i = j) \in Nat
      BY <3>2 DEF Weight, Bit
    <3>4. refcount'[j] = refcount[j] + Bit(i = j) /\ refcount[j] \in Nat
      BY <1>1, <1>5 DEF Bit, TypeInv
    <3> HIDE DEF Weight, Entry
    <3> QED BY <3>1, <3>3, <3>4
  <2> QED BY <1>3, <1>5, <1>6, <2>2, CountMoves
<1>14. ListInv'
  <2>1. \A j \in Slots : refcount'[j] = 0 <=> refcount[j] = 0
    BY <1>1, <1>5 DEF TypeInv
  <2> QED BY <1>1, <1>3, <2>1, ListKept
<1> QED BY <1>3, <1>6, <1>7, <1>8, <1>9, <1>10, <1>11, <1>12, <1>13, <1>14, Assemble
        DEF ThreadInv

-----------------------------------------------------------------------------
(* Calls begin *)

LEMMA BeginFacts ==
  ASSUME Inv, Disciplined, NEW t \in Threads, NEW op, Begin(t, op)
  PROVE  /\ pc[t] = "idle" /\ call[t] = NoCall /\ op \in app.ops
         /\ \A u \in Threads \ {t} : call[u].op # "dup2"
         /\ op = "dup2" => \A u \in Threads \ {t} : pc[u] = "idle"
         /\ \A f \in Fds : ~Owns(t, f)
         /\ \A i \in Slots : Weight(t, i) = 0
<1>1. pc[t] = "idle" /\ op \in app.ops /\ CallInv(t) /\ call[t].op \in AllOps \cup {"none"}
      /\ \A u \in Threads : CallInv(u)
  BY DEF Begin, At, Inv, ThreadInv, TypeInv, CallType
<1>2. call[t] = NoCall
  BY <1>1 DEF CallInv, StepsOf, StaleSteps, CloseSteps, AllOps
<1>3. ASSUME NEW u \in Threads \ {t}, call[u].op = "dup2" PROVE FALSE
  <2>1. pc[u] = "idle"
    BY <1>3 DEF Begin, At
  <2> QED BY <1>1, <1>3, <2>1 DEF CallInv, StepsOf, StaleSteps, CloseSteps
<1>4. op = "dup2" => \A u \in Threads \ {t} : pc[u] = "idle"
  BY DEF Begin, At
<1>5. \A f \in Fds : ~Owns(t, f)
  BY <1>2 DEF Owns, NoCall, Fds
<1>6. \A i \in Slots : Weight(t, i) = 0
  BY <1>1, <1>2 DEF Weight, Pending, InDup, Bit
<1> QED BY <1>1, <1>2, <1>3, <1>4, <1>5, <1>6

\* A call that is given what the application holds, and may have to close it.
LEMMA StartStep ==
  ASSUME Inv, app' = app, NEW t \in Threads, NEW l, NEW c \in CallType,
         pc[t] = "idle", \A u \in Threads \ {t} : call[u].op # "dup2",
         c.op = "dup2" => \A u \in Threads \ {t} : pc[u] = "idle",
         \A i \in Slots : Weight(t, i) = 0,
         pc' = [pc EXCEPT ![t] = l], call' = [call EXCEPT ![t] = c],
         l \in {"close", "libcdup", "libcaccept", "stale"},
         l = "stale" => c.op \notin DupOps,
         UNCHANGED <<file, fdIdx, tableVars, resetMutex, ffMutex>>,
         held' \subseteq held,
         \A f \in held \ held' : Unused(f) /\ (fdIdx[f] # -1 => Owns(t, f)' /\ Leaves(t)'),
         \A f \in Fds : Owns(t, f)' => f \notin held' /\ (f \in held \/ c.op = "dup2"),
         CallInv(t)', InfoInv(t)'
  PROVE  Inv'
<1>1. /\ TypeInv /\ LockInv /\ OwnInv(t) /\ ListInv /\ IndexInv /\ CountInv
      /\ \A f \in held : HeldInv(f)
  BY DEF Inv, ThreadInv
<1>2. /\ pc'[t] = l /\ call'[t] = c
      /\ \A u \in Threads \ {t} : pc'[u] = pc[u] /\ call'[u] = call[u]
      /\ pc' \in [Threads -> Labels] /\ call' \in [Threads -> CallType]
  <2>1. l \in Labels
    BY DEF Labels
  <2> QED BY <1>1, <2>1, Moves
<1>3. Frame(t)
  <2>1. ASSUME NEW f \in Fds, (f \in held) # (f \in held') \/ Owns(t, f)' PROVE Private(t, f)
    <3>1. CASE f \in held
      BY <2>1, <3>1 DEF Private
    <3>2. CASE f \notin held
      <4>1. \A u \in Threads \ {t} : pc[u] = "idle"
        BY <2>1, <3>2
      <4> QED BY <4>1 DEF Private
    <3> QED BY <3>1, <3>2
  <2> QED BY <1>2, <2>1 DEF Frame, tableVars
<1>4. OwnInv(t)'
  <2>1. ASSUME NEW f \in Fds, Owns(t, f)'
        PROVE  f \notin held' /\ (call'[t].op # "dup2" => file'[f] # Closed)
    BY <1>1, <1>2, <2>1 DEF HeldInv
  <2> QED BY <1>2, <1>3, <2>1, OwnStep
<1>5. TypeInv'
  BY <1>1, <1>2 DEF TypeInv, tableVars
<1>6. LockInv'
  BY <1>1, <1>2 DEF LockInv, tableVars
<1>7. IndexInv'
  <2> SUFFICES ASSUME "hidden" \notin app'.ops, NEW f \in Fds, fdIdx'[f] # -1, f \notin held'
               PROVE  \E u \in Threads : Owns(u, f)' /\ Leaves(u)'
    BY DEF IndexInv
  <2>1. CASE f \in held
    BY <1>2, <2>1
  <2>2. CASE f \notin held
    <3>1. PICK u \in Threads : Owns(u, f) /\ Leaves(u)
      BY <1>1, <2>2 DEF IndexInv
    <3>2. u # t
      BY <3>1 DEF Leaves
    <3> QED BY <1>2, <3>1, <3>2 DEF Owns, Leaves
  <2> QED BY <2>1, <2>2
<1>8. CountInv'
  <2>1. \A i \in Slots : Weight(t, i)' = 0
    BY <1>2 DEF Weight, Pending, InDup, StaleSteps, DupOps, Bit
  <2> QED BY <1>3, <2>1, CountSame DEF tableVars
<1>9. ListInv'
  BY <1>1, ListSame DEF tableVars
<1> QED BY <1>3, <1>4, <1>5, <1>6, <1>7, <1>8, <1>9, Assemble DEF ThreadInv

LEMMA CallCloseStep ==
  ASSUME Inv, Disciplined, app' = app, NEW t \in Threads, NEW f \in Fds, CallClose(t, f)
  PROVE  Inv'
<1> DEFINE c == [NoCall EXCEPT !.op = "close", !.fd = f, !.target = f]
<1>1. /\ pc' = [pc EXCEPT ![t] = "close"] /\ call' = [call EXCEPT ![t] = c]
      /\ held' = held \ {f} /\ f \in held /\ Unused(f) /\ Begin(t, "close")
      /\ UNCHANGED <<file, fdIdx, tableVars, resetMutex, ffMutex>>
  BY DEF CallClose, GivesUp, Goto
<1>2. /\ pc[t] = "idle" /\ "close" \in app.ops /\ TypeInv
      /\ \A u \in Threads \ {t} : call[u].op # "dup2"
      /\ \A i \in Slots : Weight(t, i) = 0
  BY <1>1, BeginFacts DEF Inv
<1>3. /\ c \in CallType /\ c.op = "close" /\ c.fd = f /\ c.target = f /\ c.new = -1
  BY DEF CallType, NoCall, AllOps
<1> HIDE DEF c
<1>4. pc'[t] = "close" /\ call'[t] = c
  BY <1>1, <1>2, Moves
<1>5. CallInv(t)'
  BY <1>2, <1>3, <1>4 DEF CallInv, NotSocketCall, StaleSteps, CloseSteps, StepsOf, DupOps
<1>6. InfoInv(t)'
  BY <1>3, <1>4 DEF InfoInv, NotSocketCall, Describes, StaleSteps, CloseSteps, DupOps
<1>7. /\ Owns(t, f)'
      /\ \A g \in Fds : Owns(t, g)' => g = f
  BY <1>3, <1>4 DEF Owns, Fds
<1>8. /\ held' \subseteq held /\ held \ held' = {f}
      /\ \A g \in held \ held' : Unused(g) /\ (fdIdx[g] # -1 => Owns(t, g)' /\ Leaves(t)')
      /\ \A g \in Fds : Owns(t, g)' => g \notin held' /\ g \in held
  BY <1>1, <1>4, <1>7 DEF Leaves
<1>9. c.op = "dup2" => \A u \in Threads \ {t} : pc[u] = "idle"
  BY <1>3
<1> QED BY <1>1, <1>2, <1>3, <1>5, <1>6, <1>8, <1>9, StartStep

LEMMA CallDupStep ==
  ASSUME Inv, Disciplined, app' = app, NEW t \in Threads, NEW op, NEW f \in Fds, CallDup(t, op, f)
  PROVE  Inv'
<1> DEFINE c == [NoCall EXCEPT !.op = op, !.fd = f, !.idx = fdIdx[f]]
<1>1. /\ pc' = [pc EXCEPT ![t] = "libcdup"] /\ call' = [call EXCEPT ![t] = c]
      /\ f \in held /\ Begin(t, op) /\ op \in {"dup", "dupfd"}
      /\ UNCHANGED <<file, fdIdx, tableVars, resetMutex, ffMutex, held>>
  BY DEF CallDup, Goto
<1>2. /\ pc[t] = "idle" /\ op \in app.ops /\ TypeInv /\ fdIdx[f] \in Slots \cup {-1}
      /\ \A u \in Threads \ {t} : call[u].op # "dup2"
      /\ \A i \in Slots : Weight(t, i) = 0
  BY <1>1, BeginFacts DEF Inv, TypeInv
<1>3. /\ c \in CallType /\ c.op = op /\ c.fd = f /\ c.idx = fdIdx[f] /\ c.new = -1
  BY <1>1, <1>2 DEF CallType, NoCall, AllOps
<1> HIDE DEF c
<1>4. pc'[t] = "libcdup" /\ call'[t] = c
  BY <1>1, <1>2, Moves
<1>5. CallInv(t)'
  BY <1>1, <1>2, <1>3, <1>4 DEF CallInv, NotSocketCall, StaleSteps, CloseSteps, StepsOf, DupOps
<1>6. InfoInv(t)'
  BY <1>1, <1>3, <1>4 DEF InfoInv, NotSocketCall, Describes, StaleSteps, CloseSteps, DupOps
<1>7. \A g \in Fds : ~Owns(t, g)'
  BY <1>1, <1>3, <1>4 DEF Owns, Fds
<1>8. held' \subseteq held /\ held \ held' = {} /\ c.op # "dup2"
  BY <1>1, <1>3
<1> QED BY <1>1, <1>2, <1>3, <1>5, <1>6, <1>7, <1>8, StartStep

LEMMA CallAcceptStep ==
  ASSUME Inv, Disciplined, app' = app, NEW t \in Threads, NEW f \in Fds, CallAccept(t, f)
  PROVE  Inv'
<1> DEFINE c == [NoCall EXCEPT !.op = "accept", !.fd = f]
<1>1. /\ pc' = [pc EXCEPT ![t] = "libcaccept"] /\ call' = [call EXCEPT ![t] = c]
      /\ f \in held /\ file[f] \in Sockets /\ Begin(t, "accept")
      /\ UNCHANGED <<file, fdIdx, tableVars, resetMutex, ffMutex, held>>
  BY DEF CallAccept, Goto
<1>2. /\ pc[t] = "idle" /\ "accept" \in app.ops /\ TypeInv
      /\ \A u \in Threads \ {t} : call[u].op # "dup2"
      /\ \A i \in Slots : Weight(t, i) = 0
  BY <1>1, BeginFacts DEF Inv, TypeInv
<1>4. /\ c \in CallType /\ c.op = "accept" /\ c.fd = f /\ c.new = -1
  BY <1>2 DEF CallType, NoCall, AllOps
<1> HIDE DEF c
<1>5. pc'[t] = "libcaccept" /\ call'[t] = c
  BY <1>1, <1>2, Moves
<1>6. CallInv(t)'
  BY <1>1, <1>2, <1>4, <1>5 DEF CallInv, NotSocketCall, StaleSteps, CloseSteps, StepsOf, DupOps
<1>7. InfoInv(t)'
  BY <1>1, <1>2, <1>4, <1>5 DEF InfoInv, NotSocketCall, Describes, StaleSteps, CloseSteps, DupOps
<1>8. \A g \in Fds : ~Owns(t, g)'
  BY <1>1, <1>4, <1>5 DEF Owns, Fds
<1>9. held' \subseteq held /\ held \ held' = {} /\ c.op # "dup2"
  BY <1>1, <1>4
<1> QED BY <1>1, <1>2, <1>4, <1>6, <1>7, <1>8, <1>9, StartStep

\* newfd is closed first, or the copy of what is not ours leaves its index.
LEMMA CallDup2Step ==
  ASSUME Inv, Disciplined, app' = app, NEW t \in Threads, NEW f \in Fds, NEW n \in Fds,
         CallDup2(t, f, n)
  PROVE  Inv'
<1> DEFINE c == [NoCall EXCEPT !.op = "dup2", !.fd = f, !.idx = fdIdx[f], !.new = n, !.target = n]
           l == IF fdIdx[f] # -1 /\ fdIdx[n] # -1 THEN "close" ELSE "libcdup"
<1>1. /\ call' = [call EXCEPT ![t] = c] /\ f # n
      /\ pc' = [pc EXCEPT ![t] = l]
      /\ f \in held /\ held' = held \ {n} /\ Begin(t, "dup2")
      /\ UNCHANGED <<file, fdIdx, tableVars, resetMutex, ffMutex>>
  BY DEF CallDup2, Goto
<1>2. /\ pc[t] = "idle" /\ call[t] = NoCall /\ "dup2" \in app.ops /\ TypeInv
      /\ \A u \in Threads \ {t} : call[u].op # "dup2" /\ pc[u] = "idle"
      /\ \A i \in Slots : Weight(t, i) = 0
  BY <1>1, BeginFacts DEF Inv
<1>3. fdIdx[f] \in Slots \cup {-1} /\ fdIdx[n] \in Slots \cup {-1}
  BY <1>2 DEF TypeInv
<1>4. /\ l \in {"close", "libcdup"}
      /\ l = "close" => fdIdx[f] \in Slots
      /\ l = "libcdup" /\ fdIdx[n] # -1 => fdIdx[f] = -1
  BY <1>3
<1>5. /\ c \in CallType /\ c.op = "dup2" /\ c.fd = f /\ c.idx = fdIdx[f] /\ c.new = n
      /\ c.target = n
  BY <1>3 DEF CallType, NoCall, AllOps
<1> HIDE DEF c, l
<1>6. pc'[t] = l /\ call'[t] = c
  BY <1>1, <1>2, Moves
<1>7. CallInv(t)'
  BY <1>1, <1>2, <1>4, <1>5, <1>6
     DEF CallInv, NotSocketCall, StaleSteps, CloseSteps, StepsOf, DupOps
<1>8. InfoInv(t)'
  BY <1>1, <1>4, <1>5, <1>6
     DEF InfoInv, NotSocketCall, Describes, StaleSteps, CloseSteps, DupOps
<1>9. Owns(t, n)' /\ \A g \in Fds : Owns(t, g)' => g = n
  BY <1>4, <1>5, <1>6 DEF Owns
<1>10. \A u \in Threads : call[u] = NoCall
  BY <1>2, IdleCall
<1>11. /\ held' \subseteq held /\ held \ held' \subseteq {n}
       /\ \A g \in held \ held' : Unused(g) /\ (fdIdx[g] # -1 => Owns(t, g)' /\ Leaves(t)')
       /\ \A g \in Fds : Owns(t, g)' => g \notin held'
  <2>1. Unused(n)
    BY <1>10 DEF Unused, NoCall, Fds
  <2>2. fdIdx[n] # -1 => Leaves(t)'
    BY <1>4, <1>5, <1>6 DEF Leaves
  <2> QED BY <1>1, <1>9, <2>1, <2>2
<1> QED BY <1>1, <1>2, <1>4, <1>5, <1>7, <1>8, <1>11, StartStep

\* f is given up until its index is dropped.
LEMMA CallNotSocketStep ==
  ASSUME Inv, Disciplined, app' = app, NEW t \in Threads, NEW op, NEW f \in Fds,
         CallNotSocket(t, op, f)
  PROVE  Inv'
<1> DEFINE c == [NoCall EXCEPT !.op = op, !.new = f, !.target = f]
<1>1. /\ pc' = [pc EXCEPT ![t] = "stale"] /\ call' = [call EXCEPT ![t] = c]
      /\ held' = held \ {f} /\ f \in held /\ Unused(f) /\ Begin(t, op)
      /\ op \in {"signalfd", "accept"} /\ file[f] \in {Plain, Overlooked}
      /\ UNCHANGED <<file, fdIdx, tableVars, resetMutex, ffMutex>>
  BY DEF CallNotSocket, GivesUp, Goto
<1>2. /\ pc[t] = "idle" /\ op \in app.ops /\ TypeInv
      /\ \A u \in Threads \ {t} : call[u].op # "dup2"
      /\ \A i \in Slots : Weight(t, i) = 0
  BY <1>1, BeginFacts DEF Inv
<1>3. /\ c \in CallType /\ c.op = op /\ c.fd = -1 /\ c.target = f /\ c.new = f
  BY <1>1 DEF CallType, NoCall, AllOps
<1> HIDE DEF c
<1>4. pc'[t] = "stale" /\ call'[t] = c
  BY <1>1, <1>2, Moves
<1>5. CallInv(t)'
  BY <1>1, <1>2, <1>3, <1>4 DEF CallInv, NotSocketCall, StaleSteps, CloseSteps, StepsOf, DupOps
<1>6. InfoInv(t)'
  BY <1>1, <1>3, <1>4 DEF InfoInv, NotSocketCall, Describes, StaleSteps, CloseSteps, DupOps
<1>7. /\ Owns(t, f)'
      /\ \A g \in Fds : Owns(t, g)' => g = f
  BY <1>1, <1>3, <1>4 DEF Owns
<1>8. /\ held' \subseteq held /\ held \ held' = {f}
      /\ \A g \in held \ held' : Unused(g) /\ (fdIdx[g] # -1 => Owns(t, g)' /\ Leaves(t)')
      /\ \A g \in Fds : Owns(t, g)' => g \notin held' /\ g \in held
  BY <1>1, <1>4, <1>7 DEF Leaves
<1>9. c.op \notin DupOps
  BY <1>1, <1>3 DEF DupOps
<1> QED BY <1>1, <1>2, <1>3, <1>5, <1>6, <1>8, <1>9, StartStep DEF DupOps
-----------------------------------------------------------------------------
(* New descriptors *)

LEMMA RangeFinite ==
  ASSUME NEW S, IsFiniteSet(S), NEW T, NEW f \in [S -> T]
  PROVE  IsFiniteSet(Range(f)) /\ Cardinality(Range(f)) <= Cardinality(S)
<1>1. f \in Surjection(S, Range(f))
  BY DEF Surjection, Range
<1> QED BY <1>1, FS_Surjection

\* There is always a kernel socket to give to a free descriptor.
LEMMA NewSocketType ==
  ASSUME TypeInv, FreeFds # {}
  PROVE  NewSocket \in Sockets
<1> DEFINE R == Range(file) \cup Range(info)
<1>1. /\ IsFiniteSet(Range(file)) /\ IsFiniteSet(Range(info))
      /\ Cardinality(Range(file)) <= NumFds /\ Cardinality(Range(info)) <= NumSlots
  BY Finite, RangeFinite DEF TypeInv
<1>2. IsFiniteSet(R) /\ Cardinality(R) \in Nat /\ Cardinality(R) <= NumFds + NumSlots
  <2>1. /\ Cardinality(R) = Cardinality(Range(file)) + Cardinality(Range(info))
                              - Cardinality(Range(file) \cap Range(info))
        /\ IsFiniteSet(R) /\ IsFiniteSet(Range(file) \cap Range(info))
    BY <1>1, FS_Union, FS_Intersection
  <2>2. /\ Cardinality(Range(file)) \in Nat /\ Cardinality(Range(info)) \in Nat
        /\ Cardinality(Range(file) \cap Range(info)) \in Nat /\ Cardinality(R) \in Nat
    BY <1>1, <2>1, FS_CardinalityType
  <2> HIDE DEF R
  <2> QED BY <1>1, <2>1, <2>2, Finite
<1>3. /\ IsFiniteSet(Sockets) /\ Cardinality(Sockets) = NumFds + NumSlots
      /\ Sockets \subseteq Int
  BY Finite, FS_Interval DEF Sockets
<1>4. Closed \in R /\ Closed \notin Sockets
  BY DEF FreeFds, Range, TypeInv, Closed, Sockets
<1>5. Sockets \ R # {}
  <2> SUFFICES ASSUME Sockets \subseteq R PROVE FALSE
    OBVIOUS
  <2> HIDE DEF R
  <2>1. Cardinality(Sockets \cup {Closed}) = NumFds + NumSlots + 1
        /\ IsFiniteSet(Sockets \cup {Closed})
    BY <1>3, <1>4, FS_AddElement
  <2>2. Sockets \cup {Closed} \subseteq R
    BY <1>4
  <2>3. Cardinality(Sockets \cup {Closed}) <= Cardinality(R)
    BY <1>2, <2>2, FS_Subset
  <2> QED BY <1>2, <2>1, <2>3, Finite
<1>6. IsFiniteSet(Sockets \ R) /\ Sockets \ R \subseteq Int
  BY <1>3, FS_Subset
<1>7. Min(Sockets \ R) \in Sockets \ R
  BY <1>5, <1>6, LeastElement
<1> QED BY <1>7 DEF NewSocket

LEMMA LowestFdType ==
  ASSUME FreeFds # {}
  PROVE  LowestFd \in FreeFds
<1>1. FreeFds \subseteq Fds /\ FreeFds \subseteq Int
  BY DEF FreeFds, Fds
<1>2. IsFiniteSet(FreeFds)
  BY <1>1, Finite, FS_Subset
<1> QED BY <1>1, <1>2, LeastElement DEF LowestFd

\* A number libc may return is free: nobody holds it, nobody works on it, and
\* without hidden closes no index is left for it.
LEMMA FreeFd ==
  ASSUME Inv, NEW f \in FreeFds
  PROVE  /\ f \in Fds /\ file[f] = Closed /\ f \notin held
         /\ \A t \in Threads : call[t].op # "dup2" => ~Owns(t, f)
         /\ "hidden" \notin app.ops /\ (\A t \in Threads : call[t].op # "dup2") => fdIdx[f] = -1
<1>1. f \in Fds /\ file[f] = Closed
  BY DEF FreeFds
<1>2. f \notin held
  BY <1>1 DEF Inv, HeldInv
<1>3. \A t \in Threads : call[t].op # "dup2" => ~Owns(t, f)
  BY <1>1 DEF Inv, ThreadInv, OwnInv
<1> QED BY <1>1, <1>2, <1>3 DEF Inv, IndexInv

\* A free descriptor is opened; it belongs to the call.
LEMMA OpenStep ==
  ASSUME Inv, app' = app, NEW t \in Threads, NEW l, NEW c \in CallType, NEW n, NEW x,
         n \in Fds,
         file[n] = Closed \/ Owns(t, n),
         x \in Sockets \cup {Plain, Overlooked},
         \A u \in Threads \ {t} : call[u].op # "dup2",
         c.op = "dup2" => \A u \in Threads \ {t} : pc[u] = "idle",
         \A i \in Slots : Weight(t, i) = 0,
         pc' = [pc EXCEPT ![t] = l], call' = [call EXCEPT ![t] = c],
         file' = [file EXCEPT ![n] = x],
         pc[t] \in {"idle", "libcdup", "libcaccept"}, ~Leaves(t), l \in {"stale", "copy", "inc"},
         l = "stale" => c.op \in {"socket", "plain"},
         UNCHANGED <<fdIdx, tableVars, resetMutex, ffMutex, held>>,
         \A f \in Fds : Owns(t, f)' <=> f = n,
         CallInv(t)', InfoInv(t)'
  PROVE  Inv'
<1>1. /\ TypeInv /\ LockInv /\ OwnInv(t) /\ ListInv /\ IndexInv /\ CountInv
      /\ \A f \in held : HeldInv(f)
  BY DEF Inv, ThreadInv
<1>2. /\ pc'[t] = l /\ call'[t] = c
      /\ \A u \in Threads \ {t} : pc'[u] = pc[u] /\ call'[u] = call[u]
      /\ pc' \in [Threads -> Labels] /\ call' \in [Threads -> CallType]
  <2>1. l \in Labels
    BY DEF Labels
  <2> QED BY <1>1, <2>1, Moves
<1>3. /\ file'[n] = x /\ \A f \in Fds \ {n} : file'[f] = file[f]
      /\ file' \in [Fds -> Sockets \cup {Plain, Overlooked, Closed}] /\ x # Closed
  BY <1>1 DEF TypeInv, Sockets, Plain, Overlooked, Closed
<1>4. n \notin held
  BY <1>1 DEF HeldInv, OwnInv
<1>5. Frame(t)
  <2>1. Private(t, n)
    BY DEF Private
  <2> QED BY <1>2, <1>3, <1>4, <2>1 DEF Frame, tableVars
<1>6. OwnInv(t)'
  <2>1. ASSUME NEW f \in Fds, Owns(t, f)'
        PROVE  f \notin held' /\ (call'[t].op # "dup2" => file'[f] # Closed)
    BY <1>3, <1>4, <2>1
  <2> QED BY <1>2, <1>5, <2>1, OwnStep
<1>7. TypeInv'
  BY <1>1, <1>2, <1>3 DEF TypeInv, tableVars
<1>8. LockInv'
  BY <1>1, <1>2 DEF LockInv, tableVars
<1>9. IndexInv'
  BY <1>5, IndexSame
<1>10. CountInv'
  <2>1. \A i \in Slots : Weight(t, i)' = 0
    BY <1>2 DEF Weight, Pending, InDup, StaleSteps, DupOps, Bit
  <2> QED BY <1>5, <2>1, CountSame DEF tableVars
<1>11. ListInv'
  BY <1>1, ListSame DEF tableVars
<1> QED BY <1>5, <1>6, <1>7, <1>8, <1>9, <1>10, <1>11, Assemble DEF ThreadInv

LEMMA LibcSocketStep ==
  ASSUME Inv, Disciplined, app' = app, NEW t \in Threads, LibcSocket(t) \/ LibcPlain(t)
  PROVE  Inv'
<1>1. PICK op, x, n :
        /\ Begin(t, op) /\ FreeFds # {} /\ n = LowestFd
        /\ \/ op = "socket" /\ x = NewSocket
           \/ op = "plain" /\ x = Plain
        /\ file' = [file EXCEPT ![n] = x] /\ pc' = [pc EXCEPT ![t] = "stale"]
        /\ call' = [call EXCEPT ![t] = [NoCall EXCEPT !.op = op, !.new = n, !.target = n]]
        /\ UNCHANGED <<fdIdx, tableVars, resetMutex, ffMutex, held>>
  BY DEF LibcSocket, LibcPlain, Goto
<1> DEFINE c == [NoCall EXCEPT !.op = op, !.new = n, !.target = n]
<1>2. TypeInv /\ n \in FreeFds /\ n \in Fds /\ file[n] = Closed
  BY <1>1, LowestFdType DEF Inv, FreeFds
<1>3. x \in Sockets \cup {Plain} /\ (op = "socket" => x \in Sockets)
  BY <1>1, <1>2, NewSocketType
<1>4. /\ pc[t] = "idle" /\ call[t] = NoCall /\ op \in app.ops
      /\ \A u \in Threads \ {t} : call[u].op # "dup2"
      /\ \A i \in Slots : Weight(t, i) = 0
  BY <1>1, BeginFacts
<1>5. /\ c \in CallType /\ c.op = op /\ c.new = n /\ c.target = n
      /\ c.op \in {"socket", "plain"}
  BY <1>1, <1>2 DEF CallType, NoCall, AllOps
<1>6. pc' = [pc EXCEPT ![t] = "stale"] /\ call' = [call EXCEPT ![t] = c]
  BY <1>1
<1> HIDE DEF c
<1>7. pc'[t] = "stale" /\ call'[t] = c
  BY <1>2, <1>6, Moves
<1>8. file'[n] = x
  BY <1>1, <1>2 DEF TypeInv
<1>9. CallInv(t)'
  BY <1>1, <1>2, <1>4, <1>5, <1>7 DEF CallInv, NotSocketCall, StaleSteps, CloseSteps, StepsOf, DupOps
<1>10. InfoInv(t)'
  BY <1>1, <1>3, <1>5, <1>7, <1>8 DEF InfoInv, NotSocketCall, Describes, StaleSteps, CloseSteps, DupOps
<1>11. \A f \in Fds : Owns(t, f)' <=> f = n
  BY <1>5, <1>7 DEF Owns
<1>12. ~Leaves(t)
  BY <1>4 DEF Leaves
<1>13. c.op # "dup2"
  BY <1>5
<1> QED BY ZenonT(30), <1>1, <1>2, <1>3, <1>4, <1>5, <1>6, <1>9, <1>10, <1>11, <1>12, <1>13, OpenStep

LEMMA LibcAcceptStep ==
  ASSUME Inv, app' = app, NEW t \in Threads, LibcAccept(t)
  PROVE  Inv'
<1> DEFINE c == call[t]
<1>1. /\ TypeInv /\ CallInv(t) /\ InfoInv(t) /\ pc[t] = "libcaccept" /\ c \in CallType
      /\ c.op = "accept" /\ c.fd \in held /\ c.fd \in Fds
      /\ file[c.fd] \in Sockets /\ ~NotSocketCall(t) /\ ~Leaves(t)
      /\ UNCHANGED <<fdIdx, tableVars, resetMutex, ffMutex>>
  BY DEF Inv, ThreadInv, CallInv, InfoInv, TypeInv, LibcAccept, At, NotSocketCall, Leaves, StaleSteps, StepsOf,
         CloseSteps, AllOps
<1>2. CASE FreeFds # {} /\ file' = [file EXCEPT ![LowestFd] = NewSocket] /\ UNCHANGED held
           /\ call' = [call EXCEPT ![t].new = LowestFd] /\ Goto(t, "copy")
  <2>1. PICK n \in FreeFds, x \in Sockets : n = LowestFd /\ x = NewSocket
    BY <1>1, <1>2, LowestFdType, NewSocketType
  <2> DEFINE d == [c EXCEPT !.new = n]
  <2>2. n \in Fds /\ file[n] = Closed /\ n # c.fd
    BY <1>1 DEF FreeFds, Inv, HeldInv
  <2>3. /\ file' = [file EXCEPT ![n] = x] /\ pc' = [pc EXCEPT ![t] = "copy"]
        /\ call' = [call EXCEPT ![t] = d]
    BY <1>1, <1>2, <2>1 DEF Goto, TypeInv
  <2>4. /\ d \in CallType /\ d.op = c.op /\ d.fd = c.fd /\ d.new = n /\ d.idx = c.idx
       
    BY <1>1, <2>2 DEF CallType
  <2> HIDE DEF d
  <2>5. pc'[t] = "copy" /\ call'[t] = d
    BY <1>1, <2>3, Moves
  <2>6. file'[n] = x /\ file'[c.fd] = file[c.fd]
    BY <1>1, <2>2, <2>3 DEF TypeInv
  <2>0. UNCHANGED <<fdIdx, tableVars, resetMutex, ffMutex, held>>
    BY <1>1, <1>2
  <2>7. CallInv(t)'
    <3>1. c.op \in app'.ops /\ c.fd \in held'
      BY <1>1, <2>0 DEF CallInv
    <3> QED BY <1>1, <2>2, <2>4, <2>5, <3>1
            DEF CallInv, NotSocketCall, StaleSteps, CloseSteps, StepsOf, DupOps
  <2>8. InfoInv(t)'
    BY <1>1, <2>4, <2>5, <2>6 DEF InfoInv, NotSocketCall, Describes, StaleSteps, CloseSteps, DupOps
  <2>9. \A f \in Fds : Owns(t, f)' <=> f = n
    BY <1>1, <2>4, <2>5 DEF Owns
  <2>10. \A u \in Threads \ {t} : call[u].op # "dup2"
    BY <1>1, NoOtherDup2
  <2>11. \A i \in Slots : Weight(t, i) = 0
    BY <1>1 DEF Weight, Pending, InDup, Bit
  <2>12. d.op # "dup2"
    BY <1>1, <2>4
  <2> QED BY ZenonT(30), <1>1, <2>0, <2>2, <2>3, <2>4, <2>7, <2>8, <2>9, <2>10, <2>11, <2>12, OpenStep
<1>3. CASE Return(t, {}) /\ UNCHANGED file
  BY <1>1, <1>3, ReturnStep
<1>4. file[c.fd] \notin {Plain, Overlooked}
  BY <1>1 DEF Plain, Overlooked, Sockets
<1> QED BY <1>2, <1>3, <1>4 DEF LibcAccept

\* A number is given out with the index it may have.
LEMMA OverlookStep ==
  ASSUME Inv, app' = app, NEW t \in Threads, NEW n \in Fds, Private(t, n), n \notin held,
         \A u \in Threads \ {t} : call[u].op # "dup2",
         \A f \in Fds : Owns(t, f) => f = n,
         \A i \in Slots : Weight(t, i) = 0,
         pc[t] \in {"idle", "libcdup"},
         file' = [file EXCEPT ![n] = Overlooked], held' = held \cup {n},
         pc' = [pc EXCEPT ![t] = "idle"], call' = [call EXCEPT ![t] = NoCall],
         UNCHANGED <<fdIdx, tableVars, resetMutex, ffMutex>>
  PROVE  Inv'
<1>1. TypeInv /\ LockInv /\ ListInv /\ IndexInv
  BY DEF Inv
<1>2. /\ pc'[t] = "idle" /\ call'[t] = NoCall
      /\ \A u \in Threads \ {t} : pc'[u] = pc[u] /\ call'[u] = call[u]
      /\ pc' \in [Threads -> Labels] /\ call' \in [Threads -> CallType]
  <2>1. NoCall \in CallType /\ "idle" \in Labels
    BY DEF NoCall, CallType, Labels
  <2> QED BY <1>1, <2>1, Moves
<1>3. /\ file'[n] = Overlooked /\ \A f \in Fds \ {n} : file'[f] = file[f]
      /\ file' \in [Fds -> Sockets \cup {Plain, Overlooked, Closed}]
  BY <1>1 DEF TypeInv
<1>4. \A f \in Fds : ~Owns(t, f)'
  BY <1>2 DEF Owns, NoCall, Fds
<1>5. Frame(t)
  BY <1>2, <1>3, <1>4 DEF Frame, tableVars
<1>6. CallInv(t)'
  BY <1>2 DEF CallInv, NotSocketCall, StaleSteps, CloseSteps, StepsOf, DupOps, NoCall, AllOps
<1>7. OwnInv(t)'
  <2>1. call'[t].op # "dup2"
    BY <1>2 DEF NoCall
  <2> QED BY <1>4, <1>5, <2>1, OwnStep
<1>8. InfoInv(t)'
  BY <1>2 DEF InfoInv, NotSocketCall, Describes, StaleSteps, CloseSteps, DupOps, NoCall
<1>9. TypeInv'
  BY <1>1, <1>2, <1>3 DEF TypeInv, tableVars
<1>10. LockInv'
  BY <1>1, <1>2 DEF LockInv, tableVars
<1>11. \A f \in held' \ held : HeldInv(f)'
  <2>1. HeldInv(n)'
    BY <1>3 DEF HeldInv, Plain, Overlooked, Closed, Sockets
  <2> QED BY <2>1
<1>12. IndexInv'
  <2> SUFFICES ASSUME "hidden" \notin app'.ops, NEW f \in Fds, fdIdx'[f] # -1, f \notin held'
               PROVE  \E u \in Threads : Owns(u, f)' /\ Leaves(u)'
    BY DEF IndexInv
  <2>1. f # n /\ f \notin held /\ fdIdx[f] # -1
    OBVIOUS
  <2>2. PICK u \in Threads : Owns(u, f) /\ Leaves(u)
    BY <1>1, <2>1 DEF IndexInv
  <2>3. u # t
    BY <2>1, <2>2
  <2> QED BY <1>2, <2>2, <2>3 DEF Owns, Leaves
<1>13. CountInv'
  <2>1. \A i \in Slots : Weight(t, i)' = 0
    BY <1>2 DEF Weight, Pending, InDup, Bit
  <2> QED BY <1>5, <2>1, CountSame DEF tableVars
<1>14. ListInv'
  BY <1>1, ListSame DEF tableVars
<1> QED BY <1>5, <1>6, <1>7, <1>8, <1>9, <1>10, <1>11, <1>12, <1>13, <1>14, Assemble
        DEF ThreadInv

LEMMA LibcSignalfdStep ==
  ASSUME Inv, Disciplined, app' = app, NEW t \in Threads, LibcSignalfd(t)
  PROVE  Inv'
<1>1. PICK n \in FreeFds :
        /\ Begin(t, "signalfd")
        /\ file' = [file EXCEPT ![n] = Overlooked] /\ held' = held \cup {n}
        /\ UNCHANGED <<fdIdx, tableVars, resetMutex, ffMutex, pc, call>>
  BY LowestFdType DEF LibcSignalfd
<1>2. n \in Fds /\ file[n] = Closed /\ n \notin held /\ Private(t, n)
  BY FreeFd DEF Private
<1>3. /\ pc[t] = "idle" /\ call[t] = NoCall
      /\ \A u \in Threads \ {t} : call[u].op # "dup2"
      /\ \A f \in Fds : ~Owns(t, f)
      /\ \A i \in Slots : Weight(t, i) = 0
  BY <1>1, BeginFacts
<1>4. pc' = [pc EXCEPT ![t] = "idle"] /\ call' = [call EXCEPT ![t] = NoCall]
  BY <1>1, <1>3 DEF Inv, TypeInv
<1> QED BY <1>1, <1>2, <1>3, <1>4, OverlookStep

LEMMA LibcDupStep ==
  ASSUME Inv, app' = app, NEW t \in Threads, LibcDup(t)
  PROVE  Inv'
<1> DEFINE c == call[t]
<1>1. /\ TypeInv /\ CallInv(t) /\ OwnInv(t) /\ InfoInv(t) /\ pc[t] = "libcdup" /\ c \in CallType
      /\ c.op \in DupOps /\ c.fd \in held /\ c.fd \in Fds /\ c.idx = fdIdx[c.fd]
      /\ HeldInv(c.fd) /\ c.op \in app.ops
      /\ UNCHANGED <<fdIdx, tableVars, resetMutex, ffMutex>>
  BY DEF Inv, ThreadInv, CallInv, InfoInv, TypeInv, LibcDup, At, StaleSteps, StepsOf, CloseSteps,
         AllOps, DupOps
<1>0. /\ \A u \in Threads \ {t} : call[u].op # "dup2"
      /\ \A i \in Slots : Weight(t, i) = 0
  BY <1>1, NoOtherDup2 DEF Weight, Pending, InDup, Bit
<1>2. CASE (file[c.fd] = Closed \/ DupTargets(t) = {}) /\ Return(t, {}) /\ UNCHANGED file
  <2>1. c.op # "dup2"
    BY <1>1, <1>2 DEF HeldInv, DupTargets
  <2>2. ~Leaves(t)
    BY <1>1, <2>1 DEF Leaves
  <2> QED BY <1>1, <1>2, <2>2, ReturnStep
<1>3. ASSUME NEW n \in DupTargets(t), file[c.fd] # Closed,
             IF c.idx = -1
             THEN file' = [file EXCEPT ![n] = Overlooked] /\ Return(t, {n})
             ELSE /\ file' = [file EXCEPT ![n] = file[c.fd]]
                  /\ call' = [call EXCEPT ![t].new = n, ![t].target = n]
                  /\ Goto(t, "inc") /\ UNCHANGED held
      PROVE  Inv'
  <2>1. n \in FreeFds \/ (c.op = "dup2" /\ n = c.new)
    BY <1>1, LowestFdType DEF DupTargets, DupOps
  <2>2. CASE c.idx = -1
    <3>1. file' = [file EXCEPT ![n] = Overlooked] /\ Return(t, {n})
      BY <1>3, <2>2
    <3>2. /\ pc' = [pc EXCEPT ![t] = "idle"] /\ call' = [call EXCEPT ![t] = NoCall]
          /\ held' = held \cup {n}
      BY <3>1 DEF Return, Goto
    <3>3. n \in Fds /\ Private(t, n) /\ n \notin held
      <4>1. CASE n \in FreeFds
        BY <4>1, FreeFd DEF Private
      <4>2. CASE c.op = "dup2" /\ n = c.new
        BY <4>2, <1>1 DEF CallInv, Owns, OwnInv, Private
      <4> QED BY <2>1, <4>1, <4>2
    <3>4. \A f \in Fds : Owns(t, f) => f = n
      <4>1. CASE c.op = "dup2" /\ n = c.new
        BY <4>1 DEF Owns
      <4>2. CASE c.op # "dup2"
        BY <4>2, <1>1 DEF Owns, CallInv, DupOps, Fds
      <4> QED BY <1>1, <4>1, <4>2 DEF DupTargets
    <3>5. pc[t] \in {"idle", "libcdup"}
      BY <1>1
    <3> QED BY <1>0, <1>1, <3>1, <3>2, <3>3, <3>4, <3>5, OverlookStep
  <2>3. CASE c.idx # -1
    <3>1. /\ n \in Fds /\ n # c.fd /\ (file[n] = Closed \/ Owns(t, n))
          /\ c.idx \in Slots
      <4>1. CASE n \in FreeFds
        BY <4>1, <1>1, <2>3 DEF FreeFds, HeldInv, TypeInv
      <4>2. CASE c.op = "dup2" /\ n = c.new
        BY <4>2, <1>1, <2>3 DEF CallInv, Owns, TypeInv
      <4> QED BY <2>1, <4>1, <4>2
    <3>2. PICK x \in Sockets \cup {Overlooked} : x = file[c.fd] /\ Describes(c.idx, x)
      <4>1. file[c.fd] \in Sockets \cup {Overlooked}
        BY <1>1, <1>3, <2>3 DEF HeldInv, TypeInv
      <4>2. Describes(c.idx, file[c.fd])
        BY <4>1, <1>1 DEF HeldInv, Describes
      <4> QED BY <4>1, <4>2
    <3> DEFINE d == [c EXCEPT !.new = n, !.target = n]
    <3>3. /\ file' = [file EXCEPT ![n] = x] /\ pc' = [pc EXCEPT ![t] = "inc"]
          /\ call' = [call EXCEPT ![t] = d]
      BY <1>1, <1>3, <2>3, <3>2 DEF Goto, TypeInv
    <3>4. UNCHANGED <<fdIdx, tableVars, resetMutex, ffMutex, held>>
      BY <1>1, <1>3, <2>3
    <3>5. /\ d \in CallType /\ d.op = c.op /\ d.fd = c.fd /\ d.new = n /\ d.idx = c.idx
          /\ d.target = n
      BY <1>1, <3>1 DEF CallType
    <3> HIDE DEF d
    <3>6. pc'[t] = "inc" /\ call'[t] = d
      BY <1>1, <3>3, Moves
    <3>7. file'[n] = x
      BY <1>1, <3>1, <3>3 DEF TypeInv
    <3>8. CallInv(t)'
      <4>1. c.op \in app'.ops /\ c.fd \in held'
        BY <1>1, <3>4
      <4> QED BY <1>1, <3>1, <3>5, <3>6, <4>1
              DEF CallInv, NotSocketCall, StaleSteps, CloseSteps, StepsOf, DupOps
    <3>9. InfoInv(t)'
      BY <1>1, <3>1, <3>2, <3>4, <3>5, <3>6, <3>7
         DEF InfoInv, NotSocketCall, Describes, StaleSteps, CloseSteps, DupOps, tableVars
    <3>10. \A f \in Fds : Owns(t, f)' <=> f = n
      BY <1>1, <3>5, <3>6 DEF Owns, DupOps
    <3>11. ~Leaves(t)
      BY <1>1, <2>3 DEF Leaves
    <3>14. d.op = "dup2" => \A u \in Threads \ {t} : pc[u] = "idle"
      BY <1>1, <3>5 DEF OwnInv
    <3> QED BY <1>1, <3>1, <3>3, <3>4, <3>5, <3>8, <3>9, <3>10, <3>11, <3>14, <1>0, OpenStep
  <2> QED BY <2>2, <2>3
<1> QED BY <1>2, <1>3 DEF LibcDup

\* Nobody's step: the library is not told.
LEMMA HiddenCloseStep ==
  ASSUME Inv, Disciplined, app' = app, NEW f \in Fds, HiddenClose(f)
  PROVE  Inv'
<1>1. /\ TypeInv /\ LockInv /\ ListInv /\ CountInv
      /\ "hidden" \in app.ops /\ f \in held /\ Unused(f)
      /\ file' = [file EXCEPT ![f] = Closed] /\ held' = held \ {f}
      /\ UNCHANGED <<fdIdx, tableVars, resetMutex, ffMutex, pc, call>>
  BY DEF Inv, HiddenClose, GivesUp
<1>2. /\ \A g \in Fds \ {f} : file'[g] = file[g]
      /\ file' \in [Fds -> Sockets \cup {Plain, Overlooked, Closed}] /\ file'[f] = Closed
  BY <1>1 DEF TypeInv
<1>3. NoThread \notin Threads /\ Threads \ {NoThread} = Threads
  BY SwrapTableAssumption
<1>4. Frame(NoThread)
  <2>1. Private(NoThread, f)
    BY <1>1 DEF Private
  <2>2. \A g \in Fds : Owns(NoThread, g)' => Owns(NoThread, g)
    BY <1>1 DEF Owns
  <2>3. Plain # Closed
    BY DEF Plain, Closed
  <2> QED BY <1>1, <1>2, <1>3, <2>1, <2>2, <2>3 DEF Frame, tableVars
<1>5. TypeInv'
  BY <1>1, <1>2 DEF TypeInv, tableVars
<1>6. LockInv'
  BY <1>1 DEF LockInv, tableVars
<1>7. IndexInv'
  BY <1>1 DEF IndexInv
<1>8. CountInv'
  BY <1>1 DEF CountInv, Count, Mapped, Waiting, Copying, Pending, InDup, tableVars
<1>9. ListInv'
  BY <1>1, ListSame DEF tableVars
<1>10. held' \ held = {}
  BY <1>1
<1> QED BY <1>3, <1>4, <1>5, <1>6, <1>7, <1>8, <1>9, <1>10, Assemble

-----------------------------------------------------------------------------
(* The invariant holds *)

LEMMA InitInv ==
  ASSUME Init
  PROVE  Inv
<1> USE DEF Init
<1>1. NumSlots \in Nat /\ NumSlots > 0
  BY Finite
<1>2. TypeInv
  <2>1. NoCall \in CallType /\ "idle" \in Labels
    BY DEF NoCall, CallType, Labels
  <2>2. nextFree \in [Slots -> Slots \cup {-1}] /\ firstFree \in Slots
    BY <1>1 DEF Slots
  <2> QED BY <2>1, <2>2 DEF TypeInv
<1>3. LockInv
  BY SwrapTableAssumption DEF LockInv
<1>4. IndexInv /\ \A f \in held : HeldInv(f)
  BY DEF IndexInv
<1>5. \A t \in Threads : ThreadInv(t)
  <2> TAKE t \in Threads
  <2>1. pc[t] = "idle" /\ call[t] = NoCall
    OBVIOUS
  <2>2. CallInv(t)
    BY <2>1 DEF CallInv, NotSocketCall, StaleSteps, CloseSteps, StepsOf, DupOps, NoCall, AllOps
  <2>3. OwnInv(t)
    BY <2>1 DEF OwnInv, Owns, NoCall, Fds
  <2>4. InfoInv(t)
    BY <2>1 DEF InfoInv, NotSocketCall, Describes, StaleSteps, CloseSteps, DupOps, NoCall
  <2> QED BY <2>2, <2>3, <2>4 DEF ThreadInv
<1>6. CountInv
  <2> SUFFICES ASSUME NEW i \in Slots PROVE Count(i) = 0
    BY DEF CountInv
  <2>1. Mapped(i) = {} /\ Waiting(i) = {} /\ Copying(i) = {}
    BY DEF Mapped, Waiting, Copying, Pending, InDup, StaleSteps, Slots
  <2>2. Cardinality({}) = 0
    BY FS_EmptySet
  <2> QED BY <2>1, <2>2 DEF Count
<1>7. ListInv
  <2> DEFINE q == [k \in 1..NumSlots |-> k - 1]
  <2>1. q \in [1..NumSlots -> Slots]
    BY <1>1 DEF Slots
  <2>2. \A i \in Slots : i + 1 \in 1..NumSlots /\ q[i + 1] = i
    BY <1>1 DEF Slots
  <2>3. \A k \in 1..NumSlots : q[k] = k - 1
    OBVIOUS
  <2> HIDE DEF q
  <2>4. \A j, k \in 1..NumSlots : q[j] = q[k] => j = k
    BY <1>1, <2>3
  <2>5. \A i \in Slots : refcount[i] = 0 <=> \E k \in 1..NumSlots : q[k] = i
    BY <2>2
  <2>6. firstFree = IF NumSlots = 0 THEN -1 ELSE q[1]
    BY <1>1, <2>3
  <2>7. \A k \in 1..NumSlots : nextFree[q[k]] = IF k = NumSlots THEN -1 ELSE q[k + 1]
    BY <1>1, <2>1, <2>3
  <2> QED BY ZenonT(30), <1>1, <2>1, <2>4, <2>5, <2>6, <2>7 DEF ListInv, FreeList
<1> QED BY <1>2, <1>3, <1>4, <1>5, <1>6, <1>7 DEF Inv

LEMMA NextInv ==
  ASSUME Inv, Disciplined, [Next]_vars
  PROVE  Inv'
<1>1. CASE UNCHANGED vars
  <2>1. /\ UNCHANGED <<file, fdIdx, tableVars, resetMutex, ffMutex, app, held, pc, call>>
    BY <1>1 DEF vars, tableVars
  <2> USE <2>1 DEF tableVars
  <2>2. TypeInv' /\ LockInv' /\ IndexInv' /\ \A f \in held' : HeldInv(f)'
    BY DEF Inv, TypeInv, LockInv, IndexInv, HeldInv, Owns, Leaves
  <2>3. CountInv' /\ ListInv'
    BY DEF Inv, CountInv, Count, Mapped, Waiting, Copying, Pending, InDup, ListInv, FreeList
  <2>4. \A t \in Threads : ThreadInv(t)'
    BY DEF Inv, ThreadInv, CallInv, OwnInv, InfoInv, Owns, NotSocketCall, Describes
  <2> QED BY <2>2, <2>3, <2>4 DEF Inv
<1>2. ASSUME app' = app, NEW t \in Threads, Start(t)
      PROVE  Inv'
  BY <1>2, LibcSocketStep, LibcSignalfdStep, CallNotSocketStep, CallCloseStep, CallDupStep, CallDup2Step, CallAcceptStep DEF Start
<1>3. ASSUME app' = app, NEW t \in Threads, Continue(t)
      PROVE  Inv'
  BY <1>3, StaleFindStep, ResetStep, StaleDropStep, DoneStep, CreateStep, TakeStep, SetIndexStep,
     CloseFindStep, CloseDropStep, ReturnClosedStep, LibcDupStep, IncRefcountStep, LibcAcceptStep,
     CopyParentStep DEF Continue
<1> QED BY <1>1, <1>2, <1>3, HiddenCloseStep DEF Next

THEOREM Invariance == Disciplined => (Spec => []Inv)
<1>1. Init => Inv
  BY InitInv
<1>2. Disciplined /\ Inv /\ [Next]_vars => Inv'
  BY NextInv
<1>3. ASSUME Disciplined PROVE Inv /\ [Next]_vars => Inv'
  BY <1>2, <1>3
<1> SUFFICES ASSUME Disciplined PROVE Spec => []Inv
  OBVIOUS
<1> QED BY <1>1, <1>3, PTL DEF Spec

-----------------------------------------------------------------------------
(* The links of the free list *)

LEMMA ChainOfList ==
  ASSUME TypeInv, NEW n \in Nat, NEW q \in [1..n -> Slots], FreeList(q, n)
  PROVE  FreeChain = [k \in 0..NumSlots |-> IF k < n THEN q[k + 1] ELSE -1]
<1> DEFINE Links(f) == [k \in 0..NumSlots |->
                          IF k = 0 THEN firstFree
                          ELSE IF f[k - 1] = -1 THEN -1 ELSE nextFree[f[k - 1]]]
           w == [k \in 0..NumSlots |-> IF k < n THEN q[k + 1] ELSE -1]
<1>1. FreeChain = CHOOSE f : f = Links(f)
  BY DEF FreeChain
<1>2. NumSlots \in Nat
  BY Finite
<1>3. \A k \in 0..NumSlots : w[k] = IF k < n THEN q[k + 1] ELSE -1
  OBVIOUS
<1>4. \A k \in 0..NumSlots : w[k] = IF k = 0 THEN firstFree
                                    ELSE IF w[k - 1] = -1 THEN -1 ELSE nextFree[w[k - 1]]
  <2> HIDE DEF w
  <2> TAKE k \in 0..NumSlots
  <2>1. CASE k = 0
    BY <2>1, <1>2, <1>3 DEF FreeList
  <2>2. CASE k # 0
    <3>1. k - 1 \in 0..NumSlots /\ w[k - 1] = IF k - 1 < n THEN q[(k - 1) + 1] ELSE -1
      BY <2>2, <1>2, <1>3
    <3>2. CASE k - 1 < n
      <4>1. k \in 1..n /\ w[k - 1] = q[k]
        BY <3>1, <3>2, <2>2, <1>2
      <4>2. q[k] # -1 /\ nextFree[q[k]] = IF k = n THEN -1 ELSE q[k + 1]
        BY <4>1 DEF FreeList, Slots
      <4>3. w[k] = IF k = n THEN -1 ELSE q[k + 1]
        BY <4>1, <1>3
      <4> QED BY <4>1, <4>2, <4>3, <2>2
    <3>3. CASE ~(k - 1 < n)
      <4>1. w[k - 1] = -1 /\ w[k] = -1
        BY <3>1, <3>3, <1>2, <1>3
      <4> QED BY <4>1, <2>2
    <3> QED BY <3>2, <3>3
  <2> QED BY <2>1, <2>2
<1>5. w = Links(w)
  <2> HIDE DEF Links
  <2>1. Links(w) = [k \in 0..NumSlots |-> w[k]]
    <3> HIDE DEF w
    <3> QED BY <1>4, Zenon DEF Links
  <2>2. w = [k \in 0..NumSlots |-> w[k]]
    OBVIOUS
  <2> QED BY <2>1, <2>2
<1> HIDE DEF w
<1>6. PICK f : f = FreeChain /\ f = Links(f)
  <2> HIDE DEF Links
  <2> QED BY <1>1, <1>5
<1>7. \A k \in 0..NumSlots : f[k] = w[k]
  <2> DEFINE S == {k \in 0..NumSlots : f[k] # w[k]}
  <2> SUFFICES ASSUME S # {} PROVE FALSE
    OBVIOUS
  <2>1. S \subseteq Int /\ IsFiniteSet(S)
    <3>1. IsFiniteSet(0..NumSlots)
      BY <1>2, FS_Interval
    <3>2. S \in SUBSET (0..NumSlots)
      OBVIOUS
    <3>3. \A k \in 0..NumSlots : k \in Int
      OBVIOUS
    <3> HIDE DEF S
    <3> QED BY <3>1, <3>2, <3>3, FS_Subset
  <2>2. PICK k \in S : \A y \in S : k <= y
    <3> HIDE DEF S
    <3> QED BY <2>1, LeastElement
  <2>3. k \in 0..NumSlots /\ f[k] # w[k]
    OBVIOUS
  <2>4. f[k] = IF k = 0 THEN firstFree
               ELSE IF f[k - 1] = -1 THEN -1 ELSE nextFree[f[k - 1]]
    BY <1>6, <2>3
  <2>5. k # 0
    BY <1>4, <2>3, <2>4
  <2>6. k - 1 \in 0..NumSlots /\ ~(k <= k - 1)
    BY <1>2, <2>3, <2>5
  <2>7. f[k - 1] = w[k - 1]
    BY <2>2, <2>6
  <2> QED BY <1>4, <2>3, <2>4, <2>5, <2>7
<1>8. f = w
  <2>1. f = [k \in 0..NumSlots |-> f[k]]
    BY <1>6
  <2>2. w = [k \in 0..NumSlots |-> w[k]]
    BY DEF w
  <2> QED BY <1>7, <2>1, <2>2
<1> QED BY <1>6, <1>8 DEF w

LEMMA ListExact ==
  ASSUME TypeInv, ListInv
  PROVE  FreeListExact
<1> DEFINE free == {i \in Slots : refcount[i] = 0}
           chain == {FreeChain[k] : k \in 0..NumSlots} \ {-1}
<1>1. PICK n \in Nat : \E q \in [1..n -> Slots] : FreeList(q, n)
  BY DEF ListInv
<1>2. PICK q \in [1..n -> Slots] : FreeList(q, n)
  BY <1>1
<1>3. \A i : i \in free <=> i \in Slots /\ \E k \in 1..n : q[k] = i
  BY <1>2 DEF FreeList
<1>4. IsFiniteSet(1..n) /\ Cardinality(1..n) = n
  BY FS_Interval
<1>5. IsFiniteSet(free) /\ Cardinality(free) = n
  <2>1. q \in Bijection(1..n, free)
    <3>1. q \in [1..n -> free]
      BY <1>3
    <3>2. \A j, k \in 1..n : q[j] = q[k] => j = k
      BY <1>2 DEF FreeList
    <3> HIDE DEF free
    <3>3. \A i \in free : \E k \in 1..n : q[k] = i
      BY <1>3
    <3> QED BY <3>1, <3>2, <3>3, Zenon DEF Bijection, Injection, Surjection, IsInjective
  <2> HIDE DEF free
  <2> QED BY <1>4, <2>1, FS_Bijection DEF ExistsBijection
<1>6. NumSlots \in Nat /\ n <= NumSlots
  <2>1. Cardinality(free) <= Cardinality(Slots)
    BY Finite, FS_Subset
  <2> QED BY <1>5, <2>1, Finite
<1>7. \A k \in 0..NumSlots : FreeChain[k] = IF k < n THEN q[k + 1] ELSE -1
  BY <1>2, ChainOfList DEF Inv
<1>8. chain = free
  <2>1. ASSUME NEW i \in chain PROVE i \in free
    <3>1. PICK k \in 0..NumSlots : i = FreeChain[k] /\ i # -1
      OBVIOUS
    <3>2. k + 1 \in 1..n /\ i = q[k + 1]
      BY <1>6, <1>7, <3>1
    <3> QED BY <1>3, <3>2
  <2>2. ASSUME NEW i \in free PROVE i \in chain
    <3>1. PICK k \in 1..n : q[k] = i
      BY <1>3
    <3>2. k - 1 \in 0..NumSlots /\ k - 1 < n /\ (k - 1) + 1 = k
      BY <1>6
    <3>3. FreeChain[k - 1] = i
      BY <1>7, <3>1, <3>2
    <3>4. i # -1
      BY DEF Slots
    <3> QED BY <3>2, <3>3, <3>4
  <2> QED BY <2>1, <2>2
<1>9. FreeChain[Cardinality(free)] = -1
  BY <1>5, <1>6, <1>7
<1> QED BY <1>8, <1>9 DEF FreeListExact

-----------------------------------------------------------------------------
(* What the runs check, for every value of the constants *)

LEMMA InvImplies ==
  ASSUME Inv
  PROVE  /\ TypeOK /\ FreeListExact /\ RefcountExact /\ MappedSlotsLive /\ RightInfo
<1>1. TypeInv /\ ListInv /\ CountInv
  BY DEF Inv
<1>2. TypeOK
  BY <1>1 DEF TypeOK, TypeInv, CallType
<1>3. FreeListExact
  BY <1>1, ListExact
<1>4. RefcountExact
  BY <1>1 DEF RefcountExact, CountInv, Count, Mapped, Waiting, Copying
<1>5. MappedSlotsLive
  <2> SUFFICES ASSUME NEW i \in Slots PROVE refcount[i] >= Cardinality(Mapped(i))
    BY DEF MappedSlotsLive, Mapped
  <2>1. /\ Cardinality(Mapped(i)) \in Nat /\ Cardinality(Waiting(i)) \in Nat
        /\ Cardinality(Copying(i)) \in Nat
    BY Counts
  <2>2. refcount[i] \in Nat /\ refcount[i] >= Count(i)
    BY <1>1 DEF TypeInv, CountInv
  <2> QED BY <2>1, <2>2 DEF Count
<1>6. RightInfo
  BY DEF RightInfo, Inv, HeldInv
<1> QED BY <1>2, <1>3, <1>4, <1>5, <1>6

\* The tables keep their types: file descriptors and slots are only given
\* indices of the arrays, kernel sockets never run out for a free descriptor.
THEOREM TypeCorrect == Disciplined => (Spec => []TypeOK)
<1>1. Inv => TypeOK
  BY InvImplies
<1> SUFFICES ASSUME Disciplined PROVE Spec => []TypeOK
  OBVIOUS
<1>2. Spec => []Inv
  BY Invariance
<1> QED BY <1>1, <1>2, PTL

\* The pushes of swrap_close and swrap_remove_stale and the pops of
\* swrap_add_socket_info keep the free list exact: its links run once through the
\* slots without references and through no other, whatever the threads do.
THEOREM FreeListStaysExact == Disciplined => (Spec => []FreeListExact)
<1>1. Inv => FreeListExact
  BY InvImplies
<1> SUFFICES ASSUME Disciplined PROVE Spec => []FreeListExact
  OBVIOUS
<1>2. Spec => []Inv
  BY Invariance
<1> QED BY <1>1, <1>2, PTL

\* socket, accept, close, dup, dup2 and swrap_remove_stale neither lose nor repeat
\* a swrap_inc_refcount or swrap_dec_refcount, at any of their interleavings.
THEOREM RefcountsExact == Disciplined => (Spec => []RefcountExact)
<1>1. Inv => RefcountExact
  BY InvImplies
<1> SUFFICES ASSUME Disciplined PROVE Spec => []RefcountExact
  OBVIOUS
<1>2. Spec => []Inv
  BY Invariance
<1> QED BY <1>1, <1>2, PTL

\* Also when descriptors are closed behind the library's back, no entry of
\* socket_fds_idx names a slot on the free list.
THEOREM MappedSlotsStayLive == Disciplined => (Spec => []MappedSlotsLive)
<1>1. Inv => MappedSlotsLive
  BY InvImplies
<1> SUFFICES ASSUME Disciplined PROVE Spec => []MappedSlotsLive
  OBVIOUS
<1>2. Spec => []Inv
  BY Invariance
<1> QED BY <1>1, <1>2, PTL

\* find_socket_info_index gives every socket the application holds its own
\* socket_info, also after its number was closed unseen or copied over and given
\* out again; it gives none to what swrap_remove_stale looked at (the copies dup,
\* dup2 and F_DUPFD make of what is no socket, and signalfd, are not looked at).
THEOREM InfoIsRight == Disciplined => (Spec => []RightInfo)
<1>1. Inv => RightInfo
  BY InvImplies
<1> SUFFICES ASSUME Disciplined PROVE Spec => []RightInfo
  OBVIOUS
<1>2. Spec => []Inv
  BY Invariance
<1> QED BY <1>1, <1>2, PTL

=============================================================================
