--------------------------- MODULE SwrapLocks_proofs ---------------------------
(***************************************************************************)
(* Proofs about SwrapLocks, for any number of threads and slots and any    *)
(* applications.  What is left of a call is a sequence of steps; as in a   *)
(* Hoare logic, every step and every function of the library requires      *)
(* something of the mutexes that the thread has and says what it has       *)
(* afterwards, and the bodies are checked against this one by one.         *)
(***************************************************************************)
EXTENDS SwrapLocks, SequenceTheorems, TLAPS

-----------------------------------------------------------------------------
(* What a thread has between two steps *)

\* Where the library itself calls close() or write() with mutexes held (h.loose), only
\* "binding" is followed.
Tracked(h) == IF h.loose THEN {"binding"} ELSE Mutexes

\* The mutexes that a thread has, of those that are followed; whether all symbols
\* are known to be bound.
Views ==
  {h \in [held : SUBSET Mutexes, ready : BOOLEAN, loose : BOOLEAN] :
     h.held \subseteq Tracked(h)}

Labels == Calls \cup
  {"lock", "unlock", "libc", "bind_symbol", "bind_all", "initialised", "opened",
   "forking", "forked", "remove_stale", "add_socket_info", "auto_bind", "dump",
   "get_fd", "write_capture", "closed", "test_sockets", "accepted", "connect_bound",
   "refused", "before", "after"}
Steps == [do : Labels, of : Mutexes \cup Syms \cup {"any"}]

\* The mutex m may be taken; a wrapper of libc may be called; no mutex is held,
\* except that a handler may interrupt a fork.
Below(h, m) == \A n \in h.held \ {"binding"} : Rank(n) < Rank(m)
CanBind(h) == "binding" \in h.held => h.ready
Outside(h) == h.held \subseteq {"binding"} /\ CanBind(h)

OnSlot == {"socket", "plain", "accept", "connect", "bind", "listen", "getname",
           "sockopt", "write", "send", "sendto", "recv", "dup", "dup2",
           "accepted", "refused", "before", "after"}
OnNone == {"remove_stale", "close", "add_socket_info"}

Requires(h, e) ==
  /\ e.do = "lock" => e.of \in Mutexes /\ e.of \notin h.held /\ Below(h, e.of)
  /\ e.do = "unlock" => e.of \in Mutexes /\ (e.of \in Tracked(h) => e.of \in h.held)
  /\ e.do = "libc" => e.of \in Syms /\ CanBind(h)
  /\ e.do = "bind_symbol" => e.of \in Syms
  /\ e.do = "bind_all" => "binding" \notin h.held
  /\ e.do \in {"forking", "forked"} => h.held = {"binding"} /\ h.ready
  /\ e.do = "fork" => h.held = {}
  /\ e.do \in OnNone => Outside(h)
  /\ e.do \in OnSlot => Outside(h) /\ e.of \in Slots
  /\ e.do = "connect_bound" =>
       /\ e.of \in Slots /\ (e.of \in Tracked(h) => e.of \in h.held)
       /\ h.held \subseteq {"binding", e.of} /\ CanBind(h)
  /\ e.do = "test_sockets" => Below(h, "firstFree")
  /\ e.do \in {"auto_bind", "dump"} => Below(h, "pcap") /\ CanBind(h)
  /\ e.do \in {"get_fd", "write_capture"} => CanBind(h)

\* The view with the mutex m, and without it.
With(h, m) == [h EXCEPT !.held = @ \cup ({m} \cap Tracked(h))]
Without(h, m) == [h EXCEPT !.held = @ \ {m}]

Result(h, e) ==
  IF e.do = "lock" THEN With(h, e.of)
  ELSE IF e.do \in {"unlock", "connect_bound"} THEN Without(h, e.of)
  ELSE IF e.do = "forked" THEN Without(h, "binding")
  ELSE IF e.do \in {"bind_all", "fork"} THEN [h EXCEPT !.ready = TRUE]
  ELSE h

\* The steps p lead from h to k, each with what it requires.
Runs(h, p, k) ==
  /\ p \in Seq(Steps)
  /\ \E H \in [1..(Len(p) + 1) -> Views] :
       /\ H[1] = h /\ H[Len(p) + 1] = k
       /\ \A i \in 1..Len(p) : Requires(H[i], p[i]) /\ H[i + 1] = Result(H[i], p[i])

-----------------------------------------------------------------------------
(* The inductive invariant *)

\* The mutexes that t really has.
Has(t) == {m \in Mutexes : mutex[m] = t}

ViewOf(t, h) ==
  /\ h.held = Has(t) \cap Tracked(h)
  /\ h.ready => Syms \subseteq bound
  /\ h.loose = (app.full \/ app.stale)

\* What is left of a call of t can be run, and leaves no mutex locked.
CallOf(t) ==
  /\ t \notin alive => todo[t] = <<>>
  /\ \E h, k \in Views : ViewOf(t, h) /\ k.held = {} /\ Runs(h, todo[t], k)

TypeInv ==
  /\ TypeOK
  /\ todo \in [Threads -> Seq(Steps)]

LockInv ==
  /\ TypeInv
  /\ \A t \in Threads : CallOf(t)
  /\ \A m \in Mutexes : mutex[m] \in alive \cup {Free, Lost}
  /\ mutex["binding"] # Lost

-----------------------------------------------------------------------------
(* Mutexes and their order *)

LEMMA MutexTypes ==
  /\ "binding" \in Mutexes /\ "sockets" \in Mutexes /\ "reset" \in Mutexes
  /\ "firstFree" \in Mutexes /\ "autobind" \in Mutexes /\ "mtu" \in Mutexes
  /\ "pcap" \in Mutexes /\ Slots \subseteq Mutexes /\ Slots \cap Globals = {}
BY SwrapLocksAssumption DEF Mutexes, Globals

LEMMA RankIs ==
  ASSUME NEW m, NEW i \in 1..6,
         Order[i] = IF m \in Slots THEN "slot"
                    ELSE IF m \in {"autobind", "mtu"} THEN "pcap" ELSE m
  PROVE  Rank(m) = i
<1>1. DOMAIN Order = 1..6
  BY DEF Order
<1>2. \A j \in 1..6 : Order[j] = Order[i] => j = i
  BY DEF Order
<1> QED BY <1>1, <1>2 DEF Rank

LEMMA Ranks ==
  /\ Rank("sockets") = 1 /\ Rank("reset") = 2 /\ Rank("firstFree") = 3
  /\ \A s \in Slots : Rank(s) = 4
  /\ Rank("pcap") = 5 /\ Rank("autobind") = 5 /\ Rank("mtu") = 5
  /\ Rank("binding") = 6
<1>1. \A m \in Globals : m \notin Slots
  BY SwrapLocksAssumption
<1>2. Rank("sockets") = 1
  BY <1>1, RankIs DEF Order, Globals
<1>3. Rank("reset") = 2
  BY <1>1, RankIs DEF Order, Globals
<1>4. Rank("firstFree") = 3
  BY <1>1, RankIs DEF Order, Globals
<1>5. \A s \in Slots : Rank(s) = 4
  BY RankIs DEF Order
<1>6. Rank("pcap") = 5 /\ Rank("autobind") = 5 /\ Rank("mtu") = 5
  BY <1>1, RankIs DEF Order, Globals
<1>7. Rank("binding") = 6
  BY <1>1, RankIs DEF Order, Globals
<1> QED BY <1>2, <1>3, <1>4, <1>5, <1>6, <1>7

LEMMA RankRange == \A m \in Mutexes : Rank(m) \in 1..6 /\ (m # "binding" => Rank(m) < 6)
BY Ranks DEF Mutexes, Globals

\* "binding" may always be taken, if it is not held.
LEMMA BindingLast == \A h \in Views : Below(h, "binding")
BY RankRange, Ranks DEF Views, Below

-----------------------------------------------------------------------------
(* Running a sequence of steps *)

LEMMA ViewParts ==
  ASSUME NEW h \in Views
  PROVE  /\ h.held \subseteq Mutexes /\ h.held \subseteq Tracked(h)
         /\ h.ready \in BOOLEAN /\ h.loose \in BOOLEAN
         /\ (h.loose => h.held \subseteq {"binding"})
BY DEF Views, Tracked

LEMMA WithView ==
  ASSUME NEW h \in Views, NEW m \in Mutexes
  PROVE  /\ With(h, m) \in Views /\ Without(h, m) \in Views
         /\ With(h, m).held = h.held \cup ({m} \cap Tracked(h))
         /\ Without(h, m).held = h.held \ {m}
         /\ With(h, m).ready = h.ready /\ With(h, m).loose = h.loose
         /\ Without(h, m).ready = h.ready /\ Without(h, m).loose = h.loose
         /\ (m \notin h.held => Without(With(h, m), m) = h)
BY MutexTypes DEF Views, With, Without, Tracked

LEMMA ReadyView ==
  ASSUME NEW h \in Views
  PROVE  /\ [h EXCEPT !.ready = TRUE] \in Views
         /\ [h EXCEPT !.ready = TRUE].held = h.held
         /\ [h EXCEPT !.ready = TRUE].ready
         /\ [h EXCEPT !.ready = TRUE].loose = h.loose
BY DEF Views, Tracked

LEMMA ResultView ==
  ASSUME NEW h \in Views, NEW e \in Steps, Requires(h, e)
  PROVE  Result(h, e) \in Views
<1>1. CASE e.do \in {"lock", "unlock", "connect_bound"}
  <2>1. e.of \in Mutexes
    BY <1>1, MutexTypes DEF Requires
  <2> QED BY <1>1, <2>1, WithView DEF Result
<1>2. CASE e.do \notin {"lock", "unlock", "connect_bound"}
  BY <1>2, WithView, ReadyView, MutexTypes DEF Result
<1> QED BY <1>1, <1>2

LEMMA RunsSkip ==
  ASSUME NEW h \in Views
  PROVE  Runs(h, Skip, h)
<1> DEFINE H == [i \in 1..1 |-> h]
<1>1. Skip \in Seq(Steps) /\ Len(Skip) = 0
  BY EmptySeq DEF Skip
<1>2. H \in [1..(Len(Skip) + 1) -> Views] /\ H[1] = h
  BY <1>1
<1> HIDE DEF H
<1> QED BY <1>1, <1>2 DEF Runs

LEMMA RunsStep ==
  ASSUME NEW h \in Views, NEW e \in Steps, Requires(h, e)
  PROVE  Runs(h, <<e>>, Result(h, e))
<1> DEFINE H == [i \in 1..2 |-> IF i = 1 THEN h ELSE Result(h, e)]
<1>1. <<e>> \in Seq(Steps) /\ Len(<<e>>) = 1 /\ <<e>>[1] = e
  OBVIOUS
<1>2. Result(h, e) \in Views
  BY ResultView
<1>3. H \in [1..(Len(<<e>>) + 1) -> Views] /\ H[1] = h /\ H[2] = Result(h, e)
  BY <1>1, <1>2
<1> HIDE DEF H
<1> QED BY <1>1, <1>3 DEF Runs

LEMMA RunsThen ==
  ASSUME NEW h \in Views, NEW k \in Views, NEW l \in Views, NEW p, NEW q,
         Runs(h, p, k), Runs(k, q, l)
  PROVE  Runs(h, p \o q, l)
<1>1. p \in Seq(Steps) /\ q \in Seq(Steps)
  BY DEF Runs
<1>2. PICK F \in [1..(Len(p) + 1) -> Views] :
        /\ F[1] = h /\ F[Len(p) + 1] = k
        /\ \A i \in 1..Len(p) : Requires(F[i], p[i]) /\ F[i + 1] = Result(F[i], p[i])
  BY DEF Runs
<1>3. PICK G \in [1..(Len(q) + 1) -> Views] :
        /\ G[1] = k /\ G[Len(q) + 1] = l
        /\ \A i \in 1..Len(q) : Requires(G[i], q[i]) /\ G[i + 1] = Result(G[i], q[i])
  BY DEF Runs
<1> DEFINE m == Len(p)
           n == Len(q)
           H == [i \in 1..(m + n + 1) |-> IF i <= m THEN F[i] ELSE G[i - m]]
<1>4. m \in Nat /\ n \in Nat
  BY <1>1, LenProperties
<1>5. /\ p \o q \in Seq(Steps) /\ Len(p \o q) = m + n
      /\ \A i \in 1..(m + n) : (p \o q)[i] = IF i <= m THEN p[i] ELSE q[i - m]
  BY <1>1, ConcatProperties
<1> HIDE DEF m, n
<1>6. H \in [1..(Len(p \o q) + 1) -> Views]
  BY <1>2, <1>3, <1>4, <1>5 DEF m, n
<1>7. H[1] = h /\ H[Len(p \o q) + 1] = l
  BY <1>2, <1>3, <1>4, <1>5 DEF m, n
<1>8. ASSUME NEW i \in 1..Len(p \o q)
      PROVE  Requires(H[i], (p \o q)[i]) /\ H[i + 1] = Result(H[i], (p \o q)[i])
  <2>1. CASE i < m
    <3>1. i \in 1..m /\ H[i] = F[i] /\ H[i + 1] = F[i + 1] /\ (p \o q)[i] = p[i]
      BY <1>4, <1>5, <2>1
    <3> QED BY <1>2, <3>1 DEF m
  <2>2. CASE i = m
    <3>1. i \in 1..m /\ H[i] = F[i] /\ H[i + 1] = G[1] /\ (p \o q)[i] = p[i]
      BY <1>4, <1>5, <2>2
    <3> QED BY <1>2, <1>3, <2>2, <3>1 DEF m
  <2>3. CASE i > m
    <3>0. i \in 1..(m + n) /\ ~(i <= m)
      BY <1>4, <1>5, <2>3
    <3>1. i - m \in 1..n /\ H[i] = G[i - m] /\ (p \o q)[i] = q[i - m]
      <4>1. i - m \in 1..n
        BY <1>4, <3>0
      <4>2. (p \o q)[i] = q[i - m]
        BY <1>5, <3>0
      <4>3. H[i] = G[i - m]
        BY <1>4, <3>0
      <4> QED BY <4>1, <4>2, <4>3
    <3>2. i + 1 \in 1..(m + n + 1) /\ ~(i + 1 <= m) /\ (i + 1) - m = (i - m) + 1
      BY <1>4, <3>0
    <3>3. H[i + 1] = G[(i - m) + 1]
      BY <3>2
    <3> QED BY <1>3, <3>1, <3>3 DEF n
  <2> QED BY <1>4, <1>5, <2>1, <2>2, <2>3
<1> HIDE DEF H
<1> QED BY <1>5, <1>6, <1>7, <1>8 DEF Runs

\* The first step, and what it leaves.
LEMMA RunsHead ==
  ASSUME NEW h \in Views, NEW l \in Views, NEW p, Runs(h, p, l), p # <<>>
  PROVE  /\ p \in Seq(Steps) /\ Head(p) \in Steps /\ Tail(p) \in Seq(Steps)
         /\ Requires(h, Head(p)) /\ Result(h, Head(p)) \in Views
         /\ Runs(Result(h, Head(p)), Tail(p), l)
<1>1. p \in Seq(Steps)
  BY DEF Runs
<1>2. PICK H \in [1..(Len(p) + 1) -> Views] :
        /\ H[1] = h /\ H[Len(p) + 1] = l
        /\ \A i \in 1..Len(p) : Requires(H[i], p[i]) /\ H[i + 1] = Result(H[i], p[i])
  BY DEF Runs
<1> DEFINE n == Len(p)
           T == [i \in 1..n |-> H[i + 1]]
<1>3. n \in Nat /\ n >= 1
  BY <1>1, EmptySeq
<1>4. /\ Head(p) \in Steps /\ Tail(p) \in Seq(Steps) /\ Len(Tail(p)) = n - 1
      /\ \A i \in 1..Len(Tail(p)) : Tail(p)[i] = p[i + 1]
      /\ Head(p) = p[1]
  BY <1>1, HeadTailProperties
<1>5. Requires(h, Head(p)) /\ H[2] = Result(h, Head(p))
  BY <1>2, <1>3, <1>4
<1>6. Result(h, Head(p)) \in Views
  BY <1>4, <1>5, ResultView
<1> HIDE DEF n
<1>7. T \in [1..(Len(Tail(p)) + 1) -> Views]
  BY <1>2, <1>3, <1>4 DEF n
<1>8. T[1] = Result(h, Head(p)) /\ T[Len(Tail(p)) + 1] = l
  BY <1>2, <1>3, <1>4, <1>5 DEF n
<1>9. ASSUME NEW i \in 1..Len(Tail(p))
      PROVE  Requires(T[i], Tail(p)[i]) /\ T[i + 1] = Result(T[i], Tail(p)[i])
  <2>1. /\ i + 1 \in 1..n /\ T[i] = H[i + 1] /\ T[i + 1] = H[(i + 1) + 1]
        /\ Tail(p)[i] = p[i + 1]
    BY <1>3, <1>4
  <2> QED BY <1>2, <2>1 DEF n
<1> HIDE DEF T
<1> QED BY <1>1, <1>4, <1>5, <1>6, <1>7, <1>8, <1>9 DEF Runs

LEMMA RunsNothing ==
  ASSUME NEW h \in Views, NEW k \in Views, Runs(h, <<>>, k)
  PROVE  h = k
<1>1. Len(<<>>) = 0
  OBVIOUS
<1> QED BY <1>1 DEF Runs

\* Steps in front of others, and one that is replaced by a sequence.
LEMMA RunsBefore ==
  ASSUME NEW h \in Views, NEW l \in Views, NEW p, NEW q, p # <<>>,
         Runs(h, p, l), Runs(h, q, Result(h, Head(p)))
  PROVE  Runs(h, q \o Tail(p), l)
BY RunsHead, RunsThen

-----------------------------------------------------------------------------
(* What calls are put together from *)

LEMMA FnStep ==
  ASSUME NEW name \in Labels, NEW s \in Mutexes \cup Syms \cup {"any"}
  PROVE  /\ [do |-> name, of |-> s] \in Steps
         /\ [do |-> name, of |-> s].do = name /\ [do |-> name, of |-> s].of = s
BY DEF Steps

LEMMA FnRuns ==
  ASSUME NEW h \in Views, NEW name \in Labels, NEW s \in Mutexes \cup Syms \cup {"any"},
         Requires(h, [do |-> name, of |-> s])
  PROVE  Runs(h, Fn(name, s), Result(h, [do |-> name, of |-> s]))
BY FnStep, RunsStep DEF Fn

\* A mutex other than "binding" that may be taken, with those that follow it.
LEMMA Nested ==
  ASSUME NEW h \in Views, NEW m \in Mutexes \ {"binding"}, Below(h, m)
  PROVE  /\ m \notin h.held /\ With(h, m) \in Views
         /\ CanBind(h) => CanBind(With(h, m))
         /\ With(h, m).loose = h.loose
         /\ \A n \in Mutexes : Rank(m) < Rank(n) => Below(h, n) /\ Below(With(h, m), n)
<1>1. \A n \in Mutexes : Rank(n) \in Nat
  BY RankRange
<1>2. h.held \subseteq Mutexes
  BY ViewParts
<1>3. m \notin h.held
  BY <1>1 DEF Below
<1>4. /\ With(h, m) \in Views /\ With(h, m).held \subseteq h.held \cup {m}
      /\ With(h, m).ready = h.ready /\ With(h, m).loose = h.loose
  BY WithView
<1>5. CanBind(h) => CanBind(With(h, m))
  BY <1>4 DEF CanBind
<1>6. ASSUME NEW n \in Mutexes, Rank(m) < Rank(n)
      PROVE  Below(h, n) /\ Below(With(h, m), n)
  BY <1>1, <1>2, <1>4, <1>6 DEF Below
<1> QED BY <1>3, <1>4, <1>5, <1>6

\* While no other mutex is held every one may be taken.
LEMMA OutsideBelow ==
  ASSUME NEW h \in Views, Outside(h)
  PROVE  CanBind(h) /\ \A m \in Mutexes : Below(h, m)
BY DEF Outside, Below

LEMMA HoldingRuns ==
  ASSUME NEW h \in Views, NEW m \in Mutexes, m \notin h.held, Below(h, m), NEW p,
         Runs(With(h, m), p, With(h, m))
  PROVE  Runs(h, Holding(m, p), h)
<1> DEFINE g == With(h, m)
           lock == [do |-> "lock", of |-> m]
           unlock == [do |-> "unlock", of |-> m]
<1>1. g \in Views /\ Without(g, m) = h
  BY WithView
<1>2. lock \in Steps /\ unlock \in Steps
  BY FnStep DEF Labels
<1>3. Requires(h, lock) /\ Result(h, lock) = g
  BY DEF Requires, Result, OnSlot, OnNone
<1>4. Requires(g, unlock) /\ Result(g, unlock) = h
  <2>1. m \in Tracked(g) => m \in g.held
    BY WithView DEF Tracked
  <2> QED BY <1>1, <2>1 DEF Requires, Result, OnSlot, OnNone
<1> HIDE DEF g
<1>5. Runs(h, Lock(m), g) /\ Runs(g, Unlock(m), h)
  BY <1>1, <1>2, <1>3, <1>4, RunsStep DEF Lock, Unlock
<1>6. Runs(h, Lock(m) \o p, g)
  BY <1>1, <1>5, RunsThen DEF g
<1> QED BY <1>1, <1>5, <1>6, RunsThen DEF Holding

\* The form in which it is used: with the view g under the mutex.
LEMMA Holds ==
  ASSUME NEW h \in Views, NEW m \in Mutexes \ {"binding"}, Below(h, m), NEW p,
         Runs(With(h, m), p, With(h, m))
  PROVE  Runs(h, Holding(m, p), h)
BY Nested, HoldingRuns

LEMMA HoldsNothing ==
  ASSUME NEW h \in Views, NEW m \in Mutexes \ {"binding"}, Below(h, m)
  PROVE  Runs(h, Holding(m, Skip), h)
BY Nested, Holds, RunsSkip

LEMMA LibcRuns ==
  ASSUME NEW h \in Views, NEW f \in Syms, CanBind(h)
  PROVE  Runs(h, Libc(f), h)
<1> DEFINE e == [do |-> "libc", of |-> f]
<1>1. e \in Steps /\ Requires(h, e) /\ Result(h, e) = h
  BY FnStep DEF Requires, Result, OnSlot, OnNone, Labels
<1> QED BY <1>1, RunsStep DEF Libc

\* Functions that are called without a mutex.
LEMMA OutsideFns ==
  ASSUME NEW h \in Views, Outside(h)
  PROVE  /\ Runs(h, RemoveStale, h) /\ Runs(h, Close, h) /\ Runs(h, AddSocketInfo, h)
         /\ \A s \in Slots, name \in OnSlot : Runs(h, Fn(name, s), h)
<1>1. ASSUME NEW name \in OnNone PROVE Runs(h, Fn(name, "any"), h)
  <2>1. /\ Requires(h, [do |-> name, of |-> "any"])
        /\ Result(h, [do |-> name, of |-> "any"]) = h
    BY DEF Requires, Result, OnNone, OnSlot
  <2> QED BY <2>1, FnRuns DEF OnNone, Labels, Calls
<1>2. ASSUME NEW s \in Slots, NEW name \in OnSlot PROVE Runs(h, Fn(name, s), h)
  <2>1. Requires(h, [do |-> name, of |-> s]) /\ Result(h, [do |-> name, of |-> s]) = h
    BY DEF Requires, Result, OnNone, OnSlot
  <2> QED BY <2>1, FnRuns, MutexTypes DEF OnSlot, Labels, Calls
<1> QED BY <1>1, <1>2 DEF RemoveStale, Close, AddSocketInfo, OnNone

\* Functions that are called with a slot locked.
LEMMA LockedFns ==
  ASSUME NEW h \in Views, CanBind(h), Below(h, "pcap")
  PROVE  Runs(h, AutoBind, h) /\ Runs(h, Dump, h)
<1>1. ASSUME NEW name \in {"auto_bind", "dump"} PROVE Runs(h, Fn(name, "any"), h)
  <2>1. /\ Requires(h, [do |-> name, of |-> "any"])
        /\ Result(h, [do |-> name, of |-> "any"]) = h
    BY DEF Requires, Result, OnNone, OnSlot
  <2> QED BY <2>1, FnRuns DEF Labels
<1> QED BY <1>1 DEF AutoBind, Dump

\* A slot that is locked by a call.
LEMMA SlotLocked ==
  ASSUME NEW h \in Views, Outside(h), NEW s \in Slots
  PROVE  /\ s \in Mutexes \ {"binding"} /\ Below(h, s)
         /\ With(h, s) \in Views /\ CanBind(With(h, s)) /\ Below(With(h, s), "pcap")
         /\ Runs(With(h, s), AutoBind, With(h, s)) /\ Runs(With(h, s), Dump, With(h, s))
         /\ \A f \in Syms : Runs(With(h, s), Libc(f), With(h, s))
         /\ Runs(h, Holding(s, Skip), h)
<1>1. s \in Mutexes \ {"binding"} /\ Below(h, s)
  BY MutexTypes, OutsideBelow DEF Globals
<1>2. With(h, s) \in Views /\ CanBind(With(h, s)) /\ Below(With(h, s), "pcap")
  BY <1>1, Nested, Ranks, MutexTypes, OutsideBelow
<1> QED BY <1>1, <1>2, LockedFns, LibcRuns, HoldsNothing

-----------------------------------------------------------------------------
(* The functions that calls have in common *)

\* The mutexes of the table, nested.
LEMMA TableMutexes ==
  ASSUME NEW h \in Views, Outside(h), NEW g, g = With(h, "reset"),
         NEW f, f = With(g, "firstFree"), NEW s \in Slots
  PROVE  /\ g \in Views /\ Below(h, "reset") /\ Below(g, "firstFree")
         /\ f \in Views /\ Below(f, s) /\ s \in Mutexes \ {"binding"}
         /\ With(f, s) \in Views /\ CanBind(With(f, s)) /\ Below(With(f, s), "pcap")
<1>1. Below(h, "reset") /\ CanBind(h) /\ s \in Mutexes \ {"binding"}
  BY OutsideBelow, MutexTypes DEF Globals
<1>2. g \in Views /\ CanBind(g) /\ Below(g, "firstFree")
  BY <1>1, Nested, Ranks, MutexTypes
<1>3. f \in Views /\ CanBind(f) /\ Below(f, s)
  BY <1>1, <1>2, Nested, Ranks, MutexTypes
<1>4. With(f, s) \in Views /\ CanBind(With(f, s)) /\ Below(With(f, s), "pcap")
  BY <1>1, <1>3, Nested, Ranks, MutexTypes
<1> QED BY <1>1, <1>2, <1>3, <1>4

LEMMA TableRuns ==
  ASSUME NEW h \in Views, Outside(h), NEW s \in Slots, NEW p,
         \A k \in Views : CanBind(k) /\ Below(k, "pcap") => Runs(k, p, k)
  PROVE  Runs(h, Holding("reset", Holding("firstFree", Holding(s, p))), h)
<1> DEFINE g == With(h, "reset")
           f == With(g, "firstFree")
<1>1. /\ g \in Views /\ Below(h, "reset") /\ Below(g, "firstFree")
      /\ f \in Views /\ Below(f, s) /\ s \in Mutexes \ {"binding"}
      /\ With(f, s) \in Views /\ CanBind(With(f, s)) /\ Below(With(f, s), "pcap")
  BY TableMutexes
<1> HIDE DEF f
<1>2. Runs(f, Holding(s, p), f)
  BY <1>1, Holds
<1>3. Runs(g, Holding("firstFree", Holding(s, p)), g)
  BY <1>1, <1>2, Holds, MutexTypes DEF f
<1> HIDE DEF g
<1> QED BY <1>1, <1>3, Holds, MutexTypes DEF g

LEMMA RemoveStaleRuns ==
  ASSUME NEW h \in Views, Outside(h), NEW p \in RemoveStaleBodies
  PROVE  Runs(h, p, h)
<1>1. CASE p = Holding("reset", Skip)
  BY <1>1, OutsideBelow, HoldsNothing, MutexTypes
<1>2. ASSUME NEW s \in Slots,
             p = Holding("reset", Holding("firstFree", Holding(s, Skip)))
      PROVE  Runs(h, p, h)
  BY <1>2, TableRuns, RunsSkip
<1> QED BY <1>1, <1>2 DEF RemoveStaleBodies

LEMMA CloseUnmappedRuns ==
  ASSUME NEW h \in Views, Below(h, "reset"), CanBind(h)
  PROVE  Runs(h, CloseUnmapped, h)
<1>1. Runs(h, Holding("reset", Skip), h)
  BY HoldsNothing, MutexTypes
<1>2. Runs(h, Libc("close"), h)
  BY LibcRuns DEF Syms
<1> QED BY <1>1, <1>2, RunsThen DEF CloseUnmapped

LEMMA CloseRuns ==
  ASSUME NEW h \in Views, Outside(h), NEW p \in CloseBodies
  PROVE  Runs(h, p, h)
<1>1. CASE p = CloseUnmapped
  BY <1>1, CloseUnmappedRuns, OutsideBelow, MutexTypes
<1>2. ASSUME NEW s \in Slots, NEW d \in {Skip, Dump},
             p = Holding("reset", Holding("firstFree", Holding(s, Libc("close") \o d)))
      PROVE  Runs(h, p, h)
  <2>1. ASSUME NEW k \in Views, CanBind(k), Below(k, "pcap")
        PROVE  Runs(k, Libc("close") \o d, k)
    <3>1. Runs(k, Libc("close"), k) /\ Runs(k, d, k)
      BY <2>1, LibcRuns, LockedFns, RunsSkip DEF Syms
    <3> QED BY <3>1, RunsThen
  <2> QED BY <1>2, <2>1, TableRuns
<1> QED BY <1>1, <1>2 DEF CloseBodies

LEMMA AddSocketInfoRuns ==
  ASSUME NEW h \in Views, Outside(h), NEW p \in AddSocketInfoBodies
  PROVE  Runs(h, p, h)
<1>1. Below(h, "firstFree")
  BY OutsideBelow, MutexTypes
<1>2. CASE p = Holding("firstFree", Skip)
  BY <1>1, <1>2, HoldsNothing, MutexTypes
<1>3. ASSUME NEW s \in Slots, p = Holding("firstFree", Holding(s, Skip))
      PROVE  Runs(h, p, h)
  <2> DEFINE g == With(h, "firstFree")
  <2>1. g \in Views /\ Below(g, s) /\ s \in Mutexes \ {"binding"}
    BY <1>1, Nested, Ranks, MutexTypes DEF Globals
  <2> HIDE DEF g
  <2>2. Runs(g, Holding(s, Skip), g)
    BY <2>1, HoldsNothing
  <2> QED BY <1>1, <1>3, <2>2, Holds, MutexTypes DEF g
<1> QED BY <1>2, <1>3 DEF AddSocketInfoBodies

LEMMA AutoBindRuns ==
  ASSUME NEW h \in Views, CanBind(h), Below(h, "pcap"), NEW p \in AutoBindBodies
  PROVE  Runs(h, p, h)
<1>1. Below(h, "autobind")
  BY Ranks DEF Below
<1>2. CASE p = Holding("autobind", Skip)
  BY <1>1, <1>2, HoldsNothing, MutexTypes
<1>3. CASE p = Holding("autobind", Libc("bind"))
  <2>1. With(h, "autobind") \in Views /\ CanBind(With(h, "autobind"))
    BY <1>1, Nested, MutexTypes
  <2>2. Runs(With(h, "autobind"), Libc("bind"), With(h, "autobind"))
    BY <2>1, LibcRuns DEF Syms
  <2> QED BY <1>1, <1>3, <2>2, Holds, MutexTypes
<1> QED BY <1>2, <1>3 DEF AutoBindBodies

LEMMA DumpRuns ==
  ASSUME NEW h \in Views, CanBind(h), Below(h, "pcap"), NEW p \in DumpBodies
  PROVE  Runs(h, p, h)
<1>1. CASE p = Holding("pcap", Skip)
  BY <1>1, HoldsNothing, MutexTypes
<1>2. CASE p = Holding("pcap", Fn("get_fd", "any"))
  <2> DEFINE g == With(h, "pcap")
             e == [do |-> "get_fd", of |-> "any"]
  <2>1. g \in Views /\ CanBind(g)
    BY Nested, MutexTypes
  <2> HIDE DEF g
  <2>2. Requires(g, e) /\ Result(g, e) = g
    BY <2>1 DEF Requires, Result, OnNone, OnSlot
  <2>3. Runs(g, Fn("get_fd", "any"), g)
    BY <2>1, <2>2, FnRuns DEF Labels
  <2> QED BY <1>2, <2>3, Holds, MutexTypes DEF g
<1> QED BY <1>1, <1>2 DEF DumpBodies

\* A step that says that the capture file is open, or the table allocated.
LEMMA SaysRuns ==
  ASSUME NEW h \in Views, NEW name \in {"opened", "closed", "initialised"}
  PROVE  Runs(h, Fn(name, "any"), h)
<1>1. /\ Requires(h, [do |-> name, of |-> "any"])
      /\ Result(h, [do |-> name, of |-> "any"]) = h
  BY DEF Requires, Result, OnNone, OnSlot
<1> QED BY <1>1, FnRuns DEF Labels

\* A view that follows nothing but "binding" is one with which every function may be
\* called.
LEMMA LooseOutside ==
  ASSUME NEW h \in Views, h.loose, CanBind(h)
  PROVE  Outside(h) /\ Below(h, "reset")
BY ViewParts DEF Outside, Below

LEMMA WriteCaptureRuns ==
  ASSUME NEW h \in Views, CanBind(h), h.loose = (app.full \/ app.stale),
         NEW p \in WriteCaptureBodies
  PROVE  Runs(h, p, h)
<1>1. CASE p = Libc("write")
  BY <1>1, LibcRuns DEF Syms
<1>2. ASSUME app.stale, NEW s \in Slots, p = Fn("write", s)
      PROVE  Runs(h, p, h)
  BY <1>2, LooseOutside, OutsideFns DEF OnSlot
<1> QED BY <1>1, <1>2 DEF WriteCaptureBodies

LEMMA GetFdRuns ==
  ASSUME NEW h \in Views, CanBind(h), h.loose = (app.full \/ app.stale),
         NEW p \in GetFdBodies
  PROVE  Runs(h, p, h)
<1> DEFINE e == [do |-> "write_capture", of |-> "any"]
           Opened == Libc("open") \o Fn("opened", "any") \o WriteCapture
<1>1. Requires(h, e) /\ Result(h, e) = h
  BY DEF Requires, Result, OnNone, OnSlot
<1>2. Runs(h, WriteCapture, h)
  BY <1>1, FnRuns DEF Labels, WriteCapture
<1>3. Runs(h, Libc("open"), h)
  BY LibcRuns DEF Syms
<1>4. Runs(h, Libc("open") \o Fn("opened", "any"), h)
  BY <1>3, SaysRuns, RunsThen
<1>5. Runs(h, Opened, h)
  BY <1>2, <1>4, RunsThen
<1> HIDE DEF Opened
<1>6. ASSUME NEW c, Runs(h, c, h) PROVE Runs(h, Opened \o c \o Fn("closed", "any"), h)
  <2>1. Runs(h, Opened \o c, h)
    BY <1>5, <1>6, RunsThen
  <2> QED BY <2>1, SaysRuns, RunsThen
<1>7. ASSUME app.stale PROVE Runs(h, Close, h)
  BY <1>7, LooseOutside, OutsideFns
<1>8. ASSUME app.full PROVE Runs(h, CloseUnmapped, h)
  BY <1>8, LooseOutside, CloseUnmappedRuns
<1>9. \/ p \in {WriteCapture, Libc("open"), Opened}
      \/ app.stale /\ p = Opened \o Close \o Fn("closed", "any")
      \/ app.full /\ p = Opened \o CloseUnmapped \o Fn("closed", "any")
  BY DEF GetFdBodies, Opened
<1> QED BY <1>2, <1>3, <1>5, <1>6, <1>7, <1>8, <1>9

LEMMA TestSocketsRuns ==
  ASSUME NEW h \in Views, Below(h, "firstFree"), NEW p \in TestSocketsBodies
  PROVE  Runs(h, p, h)
<1> DEFINE g == With(h, "firstFree")
<1>1. g \in Views
  BY Nested, MutexTypes
<1> HIDE DEF g
<1>2. Runs(g, Fn("initialised", "any"), g)
  BY <1>1, SaysRuns
<1>3. Runs(h, Holding("firstFree", Fn("initialised", "any")), h)
  BY <1>2, Holds, MutexTypes DEF g
<1> QED BY <1>3, RunsSkip DEF TestSocketsBodies

-----------------------------------------------------------------------------
(* The calls *)

LEMMA InitSocketsRuns ==
  ASSUME NEW h \in Views, Outside(h)
  PROVE  Runs(h, InitSockets, h)
<1> DEFINE g == With(h, "sockets")
           e == [do |-> "test_sockets", of |-> "any"]
<1>1. Below(h, "sockets")
  BY OutsideBelow, MutexTypes
<1>2. g \in Views /\ Below(g, "firstFree")
  BY <1>1, Nested, Ranks, MutexTypes
<1> HIDE DEF g
<1>3. Requires(g, e) /\ Result(g, e) = g
  BY <1>2 DEF Requires, Result, OnNone, OnSlot
<1>4. Runs(g, Fn("test_sockets", "any"), g)
  BY <1>2, <1>3, FnRuns DEF Labels
<1> QED BY <1>1, <1>4, Holds, MutexTypes DEF g, InitSockets

LEMMA SocketRuns ==
  ASSUME NEW h \in Views, Outside(h), NEW p \in SocketBodies
  PROVE  Runs(h, p, h)
<1>1. Runs(h, InitSockets, h) /\ Runs(h, Libc("socket"), h)
  BY InitSocketsRuns, OutsideBelow, LibcRuns DEF Syms
<1>2. Runs(h, InitSockets \o Libc("socket"), h)
  BY <1>1, RunsThen
<1>3. Runs(h, RemoveStale, h) /\ Runs(h, AddSocketInfo, h)
  BY OutsideFns
<1>4. Runs(h, InitSockets \o Libc("socket") \o RemoveStale, h)
  BY <1>2, <1>3, RunsThen
<1>5. Runs(h, InitSockets \o Libc("socket") \o RemoveStale \o AddSocketInfo, h)
  BY <1>3, <1>4, RunsThen
<1> QED BY <1>2, <1>5 DEF SocketBodies

LEMMA PlainRuns ==
  ASSUME NEW h \in Views, Outside(h), NEW p \in PlainBodies
  PROVE  Runs(h, p, h)
<1>1. Runs(h, Libc("open"), h) /\ Runs(h, RemoveStale, h)
  BY OutsideBelow, LibcRuns, OutsideFns DEF Syms
<1> QED BY <1>1, RunsThen DEF PlainBodies

LEMMA AcceptRuns ==
  ASSUME NEW h \in Views, Outside(h), NEW s \in Slots, NEW p \in AcceptBodies(s)
  PROVE  Runs(h, p, h)
<1>1. Runs(h, Holding(s, Skip), h) /\ Runs(h, Libc("accept"), h)
  BY SlotLocked, OutsideBelow, LibcRuns DEF Syms
<1>2. Runs(h, Fn("accepted", s), h)
  BY OutsideFns DEF OnSlot
<1>3. Runs(h, Holding(s, Skip) \o Libc("accept"), h)
  BY <1>1, RunsThen
<1> QED BY <1>2, <1>3, RunsThen DEF AcceptBodies

LEMMA AcceptedRuns ==
  ASSUME NEW h \in Views, Outside(h), NEW s \in Slots, NEW p \in AcceptedBodies(s)
  PROVE  Runs(h, p, h)
<1> DEFINE a == Holding(s, Skip)
           b == a \o Libc("other")
<1>1. Runs(h, a, h) /\ Runs(h, Libc("other"), h)
  BY SlotLocked, OutsideBelow, LibcRuns DEF Syms
<1>2. Runs(h, RemoveStale, h) /\ Runs(h, Close, h) /\ Runs(h, AddSocketInfo, h)
  BY OutsideFns
<1>3. Runs(h, b, h)
  BY <1>1, RunsThen
<1>4. Runs(h, Holding("firstFree", Skip), h)
  BY OutsideBelow, HoldsNothing, MutexTypes
<1> HIDE DEF b
<1>5. Runs(h, a \o Close, h) /\ Runs(h, b \o Close, h) /\ Runs(h, b \o AddSocketInfo, h)
  BY <1>1, <1>2, <1>3, RunsThen
<1>6. Runs(h, b \o Holding("firstFree", Skip) \o Close, h)
  <2>1. Runs(h, b \o Holding("firstFree", Skip), h)
    BY <1>3, <1>4, RunsThen
  <2> QED BY <1>2, <2>1, RunsThen
<1>7. ASSUME NEW c \in Slots PROVE Runs(h, b \o AddSocketInfo \o Holding(c, Dump), h)
  <2>1. Runs(h, Holding(c, Dump), h)
    BY SlotLocked, Holds
  <2> QED BY <1>5, <2>1, RunsThen
<1>8. Runs(h, Skip, h)
  BY RunsSkip
<1> QED BY <1>2, <1>5, <1>6, <1>7, <1>8 DEF AcceptedBodies, b

LEMMA LockRuns ==
  ASSUME NEW h \in Views, NEW m \in Mutexes, m \notin h.held, Below(h, m)
  PROVE  Runs(h, Lock(m), With(h, m))
<1> DEFINE e == [do |-> "lock", of |-> m]
<1>1. e \in Steps /\ Requires(h, e) /\ Result(h, e) = With(h, m)
  BY FnStep DEF Labels, Requires, Result, OnSlot, OnNone
<1> QED BY <1>1, RunsStep DEF Lock

LEMMA UnlockRuns ==
  ASSUME NEW h \in Views, NEW m \in Mutexes, m \in Tracked(h) => m \in h.held
  PROVE  Runs(h, Unlock(m), Without(h, m))
<1> DEFINE e == [do |-> "unlock", of |-> m]
<1>1. e \in Steps /\ Requires(h, e) /\ Result(h, e) = Without(h, m)
  BY FnStep DEF Labels, Requires, Result, OnSlot, OnNone
<1> QED BY <1>1, RunsStep DEF Unlock

LEMMA ConnectRuns ==
  ASSUME NEW h \in Views, Outside(h), NEW s \in Slots, NEW p \in ConnectBodies(s)
  PROVE  Runs(h, p, h)
<1> DEFINE g == With(h, s)
           e == [do |-> "connect_bound", of |-> s]
<1>1. /\ s \in Mutexes \ {"binding"} /\ Below(h, s) /\ s \notin h.held
      /\ g \in Views /\ CanBind(g)
      /\ Runs(g, AutoBind, g) /\ Runs(h, Holding(s, Skip), h)
  BY SlotLocked, Nested
<1>2. g.held = h.held \cup ({s} \cap Tracked(g)) /\ Without(g, s) = h
  BY <1>1, WithView DEF Tracked
<1> HIDE DEF g
<1>3. Requires(g, e) /\ Result(g, e) = h
  BY <1>1, <1>2 DEF Requires, Result, OnNone, OnSlot, Outside
<1>4. Runs(g, Fn("connect_bound", s), h) /\ Runs(h, Lock(s), g)
  BY <1>1, <1>3, FnRuns, LockRuns DEF Labels, g
<1>5. Runs(h, Lock(s) \o AutoBind, g)
  BY <1>1, <1>4, RunsThen
<1>6. /\ Runs(h, Lock(s) \o Fn("connect_bound", s), h)
      /\ Runs(h, Lock(s) \o AutoBind \o Fn("connect_bound", s), h)
  BY <1>1, <1>4, <1>5, RunsThen
<1>7. Runs(h, Holding(s, AutoBind), h)
  BY <1>1, Holds DEF g
<1> QED BY <1>1, <1>6, <1>7 DEF ConnectBodies

LEMMA ConnectBoundRuns ==
  ASSUME NEW h \in Views, NEW s \in Slots, CanBind(h),
         s \in Tracked(h) => s \in h.held, h.held \subseteq {"binding", s},
         NEW p \in ConnectBoundBodies(s)
  PROVE  Runs(h, p, Without(h, s))
<1>1. s \in Mutexes /\ Without(h, s) \in Views
  BY MutexTypes, WithView
<1>2. Runs(h, Unlock(s), Without(h, s))
  BY <1>1, UnlockRuns
<1>3. Below(h, "pcap")
  BY Ranks DEF Below
<1>4. Runs(h, Dump, h) /\ Runs(h, Libc("connect"), h)
  BY <1>3, LockedFns, LibcRuns DEF Syms
<1>5. Runs(h, Dump \o Libc("connect"), h)
  BY <1>4, RunsThen
<1>6. Runs(h, Dump \o Libc("connect") \o Dump, h)
  BY <1>4, <1>5, RunsThen
<1> QED BY <1>1, <1>2, <1>4, <1>6, RunsThen DEF ConnectBoundBodies

LEMMA BindRuns ==
  ASSUME NEW h \in Views, Outside(h), NEW s \in Slots, NEW p \in BindBodies(s)
  PROVE  Runs(h, p, h)
<1>1. Runs(With(h, s), Libc("bind"), With(h, s))
  BY SlotLocked DEF Syms
<1> QED BY <1>1, SlotLocked, Holds DEF BindBodies

LEMMA ListenRuns ==
  ASSUME NEW h \in Views, Outside(h), NEW s \in Slots, NEW p \in ListenBodies(s)
  PROVE  Runs(h, p, h)
<1>1. /\ Runs(With(h, s), AutoBind, With(h, s)) /\ With(h, s) \in Views
      /\ Runs(With(h, s), Libc("other"), With(h, s))
  BY SlotLocked DEF Syms
<1>2. Runs(With(h, s), AutoBind \o Libc("other"), With(h, s))
  BY <1>1, RunsThen
<1> QED BY <1>1, <1>2, SlotLocked, Holds DEF ListenBodies

LEMMA SockOptRuns ==
  ASSUME NEW h \in Views, Outside(h), NEW s \in Slots, NEW p \in SockOptBodies(s)
  PROVE  Runs(h, p, h)
<1>1. /\ Runs(With(h, s), Dump, With(h, s)) /\ With(h, s) \in Views
      /\ Runs(With(h, s), Libc("other"), With(h, s))
      /\ Runs(h, Holding(s, Skip), h) /\ Runs(h, Libc("other"), h)
  BY SlotLocked, OutsideBelow, LibcRuns DEF Syms
<1>2. Runs(With(h, s), Libc("other") \o Dump, With(h, s))
  BY <1>1, RunsThen
<1> QED BY <1>1, <1>2, SlotLocked, Holds DEF SockOptBodies

LEMMA RefusedRuns ==
  ASSUME NEW h \in Views, Outside(h), NEW s \in Slots, NEW p \in RefusedBodies(s)
  PROVE  Runs(h, p, h)
<1>1. Runs(h, Holding(s, Skip), h) /\ Runs(h, Holding(s, AutoBind), h)
  BY SlotLocked, Holds
<1>2. Runs(h, RemoveStale, h)
  BY OutsideFns
<1>3. /\ Runs(With(h, s), AutoBind, With(h, s)) /\ With(h, s) \in Views
      /\ Runs(With(h, s), Libc("connect"), With(h, s))
  BY SlotLocked DEF Syms
<1>4. Runs(With(h, s), AutoBind \o Libc("connect"), With(h, s))
  BY <1>3, RunsThen
<1>5. Runs(h, Holding(s, Libc("connect")), h) /\ Runs(h, Holding(s, AutoBind \o Libc("connect")), h)
  BY <1>3, <1>4, SlotLocked, Holds
<1> QED BY <1>1, <1>2, <1>5, RunsThen DEF RefusedBodies

LEMMA BeforeRuns ==
  ASSUME NEW h \in Views, Outside(h), NEW s \in Slots, NEW p \in BeforeBodies(s)
  PROVE  Runs(h, p, h)
<1> DEFINE g == With(h, s)
<1>1. /\ s \in Mutexes \ {"binding"} /\ Below(h, s) /\ g \in Views
      /\ Runs(g, AutoBind, g) /\ Runs(g, Libc("connect"), g)
      /\ Runs(h, Holding(s, Skip), h)
  BY SlotLocked DEF Syms
<1>2. Below(g, "mtu")
  BY <1>1, Nested, Ranks, MutexTypes
<1> HIDE DEF g
<1>3. Runs(g, Holding("mtu", Skip), g)
  BY <1>1, <1>2, HoldsNothing, MutexTypes
<1>4. Runs(g, AutoBind \o Libc("connect"), g)
  BY <1>1, RunsThen
<1> QED BY <1>1, <1>3, <1>4, Holds DEF BeforeBodies, g

LEMMA AfterRuns ==
  ASSUME NEW h \in Views, Outside(h), NEW s \in Slots, NEW p \in AfterBodies(s)
  PROVE  Runs(h, p, h)
<1>1. Runs(h, Holding(s, Skip), h) /\ Runs(h, Holding(s, Dump), h)
  BY SlotLocked, Holds
<1>2. Runs(h, RemoveStale, h) /\ Runs(h, Skip, h)
  BY OutsideFns, RunsSkip
<1>3. Runs(h, RemoveStale \o Holding(s, Dump), h)
  BY <1>1, <1>2, RunsThen
<1> QED BY <1>1, <1>2, <1>3 DEF AfterBodies

\* What the calls that transfer data have in common.
LEMMA TransferRuns ==
  ASSUME NEW h \in Views, Outside(h), NEW s \in Slots
  PROVE  /\ Runs(h, Refused(s), h) /\ Runs(h, Before(s), h) /\ Runs(h, After(s), h)
         /\ \A f \in Syms : Runs(h, Libc(f), h) /\ Runs(h, Before(s) \o Libc(f), h)
         /\ \A f \in Syms : Runs(h, Before(s) \o Libc(f) \o After(s), h)
<1>1. Runs(h, Refused(s), h) /\ Runs(h, Before(s), h) /\ Runs(h, After(s), h)
  BY OutsideFns DEF Refused, Before, After, OnSlot
<1>2. \A f \in Syms : Runs(h, Libc(f), h)
  BY OutsideBelow, LibcRuns
<1>3. \A f \in Syms : Runs(h, Before(s) \o Libc(f), h)
  BY <1>1, <1>2, RunsThen
<1> QED BY <1>1, <1>2, <1>3, RunsThen

LEMMA WriteRuns ==
  ASSUME NEW h \in Views, Outside(h), NEW s \in Slots, NEW p \in WriteBodies(s)
  PROVE  Runs(h, p, h)
BY TransferRuns DEF WriteBodies, Syms

LEMMA SendRuns ==
  ASSUME NEW h \in Views, Outside(h), NEW s \in Slots, NEW p \in SendBodies(s)
  PROVE  Runs(h, p, h)
<1>1. /\ Runs(h, Holding(s, Skip), h) /\ Runs(h, Refused(s), h)
      /\ Runs(h, Before(s) \o Libc("send") \o After(s), h)
  BY SlotLocked, TransferRuns DEF Syms
<1>2. \A way \in {Refused(s), Before(s) \o Libc("send") \o After(s)} :
        Runs(h, way, h) /\ Runs(h, Holding(s, Skip) \o way, h)
  BY <1>1, RunsThen
<1> QED BY <1>2 DEF SendBodies

LEMMA SendToRuns ==
  ASSUME NEW h \in Views, Outside(h), NEW s \in Slots, NEW p \in SendToBodies(s)
  PROVE  Runs(h, p, h)
<1>1. /\ Runs(h, Refused(s), h) /\ Runs(h, Before(s), h) /\ Runs(h, After(s), h)
      /\ Runs(h, Before(s) \o Libc("send"), h)
  BY TransferRuns DEF Syms
<1>2. Runs(h, Holding(s, Libc("send")), h) /\ Runs(h, Holding(s, Dump), h)
  BY SlotLocked, Holds DEF Syms
<1>3. Runs(h, Before(s) \o Holding(s, Libc("send")), h)
  BY <1>1, <1>2, RunsThen
<1>4. Runs(h, Before(s) \o Holding(s, Libc("send")) \o After(s), h)
  BY <1>1, <1>3, RunsThen
<1>5. Runs(h, Before(s) \o Libc("send") \o Holding(s, Dump), h)
  BY <1>1, <1>2, RunsThen
<1> QED BY <1>1, <1>4, <1>5 DEF SendToBodies

LEMMA RecvRuns ==
  ASSUME NEW h \in Views, Outside(h), NEW s \in Slots, NEW p \in RecvBodies(s)
  PROVE  Runs(h, p, h)
<1>1. /\ Runs(h, Refused(s), h)
      /\ Runs(h, Before(s) \o Libc("recv"), h)
      /\ Runs(h, Before(s) \o Libc("recv") \o After(s), h)
  BY TransferRuns DEF Syms
<1>2. Runs(h, Before(s) \o Libc("recv") \o After(s) \o Holding(s, Skip), h)
  BY <1>1, SlotLocked, RunsThen
<1>3. Runs(h, Holding(s, AutoBind) \o RemoveStale \o Libc("recv"), h)
  <2>1. Runs(h, Holding(s, AutoBind), h) /\ Runs(h, RemoveStale, h)
    BY SlotLocked, Holds, OutsideFns
  <2>2. Runs(h, Holding(s, AutoBind) \o RemoveStale, h)
    BY <2>1, RunsThen
  <2> QED BY <2>2, TransferRuns, RunsThen DEF Syms
<1> QED BY <1>1, <1>2, <1>3 DEF RecvBodies

LEMMA DupRuns ==
  ASSUME NEW h \in Views, Outside(h), NEW s \in Slots, NEW p \in DupBodies(s)
  PROVE  Runs(h, p, h)
<1>1. /\ Runs(h, Libc("dup"), h) /\ Runs(h, Holding(s, Skip), h)
      /\ Runs(h, RemoveStale, h)
  BY TransferRuns, SlotLocked, OutsideFns DEF Syms
<1>2. Runs(h, Libc("dup") \o Holding(s, Skip), h)
  BY <1>1, RunsThen
<1> QED BY <1>1, <1>2, RunsThen DEF DupBodies

LEMMA Dup2Runs ==
  ASSUME NEW h \in Views, Outside(h), NEW s \in Slots, NEW p \in Dup2Bodies(s)
  PROVE  Runs(h, p, h)
<1>1. Runs(h, Fn("dup", s), h) /\ Runs(h, Close, h)
  BY OutsideFns DEF OnSlot
<1> QED BY <1>1, RunsThen DEF Dup2Bodies

\* swrap_bind_symbol_all comes first, so all symbols are bound when the fork has
\* "binding", and the handlers it calls need not take it.
LEMMA ForkRuns ==
  ASSUME NEW h \in Views, h.held = {}, NEW p \in ForkBodies
  PROVE  Runs(h, p, [h EXCEPT !.ready = TRUE])
<1> DEFINE k == [h EXCEPT !.ready = TRUE]
           g == With(k, "binding")
           all == [do |-> "bind_all", of |-> "any"]
           forking == [do |-> "forking", of |-> "any"]
           forked == [do |-> "forked", of |-> "any"]
<1>1. k \in Views /\ k.held = {} /\ k.ready
  BY ReadyView
<1>2. Requires(h, all) /\ Result(h, all) = k
  BY DEF Requires, Result, OnNone, OnSlot
<1>3. Runs(h, BindAll, k)
  BY <1>2, FnRuns DEF Labels, BindAll
<1> HIDE DEF k
<1>4. /\ g \in Views /\ g.held = {"binding"} /\ g.ready /\ Without(g, "binding") = k
      /\ Runs(k, Lock("binding"), g)
  <2>1. "binding" \in Mutexes /\ "binding" \in Tracked(k) /\ "binding" \notin k.held
    BY <1>1, MutexTypes DEF Tracked
  <2>2. g \in Views /\ g.held = {"binding"} /\ g.ready /\ Without(g, "binding") = k
    BY <1>1, <2>1, WithView
  <2>3. Runs(k, Lock("binding"), g)
    BY <1>1, <2>1, LockRuns, BindingLast
  <2> QED BY <2>2, <2>3
<1> HIDE DEF g
<1>5. Requires(g, forking) /\ Result(g, forking) = g
  BY <1>4 DEF Requires, Result, OnNone, OnSlot
<1>6. Requires(g, forked) /\ Result(g, forked) = k
  BY <1>4 DEF Requires, Result, OnNone, OnSlot
<1>7. Runs(g, Fn("forking", "any"), g) /\ Runs(g, Fn("forked", "any"), k)
  BY <1>4, <1>5, <1>6, FnRuns DEF Labels
<1>8. Runs(h, BindAll \o Lock("binding"), g)
  BY <1>1, <1>3, <1>4, RunsThen
<1>9. Runs(h, BindAll \o Lock("binding") \o Fn("forking", "any"), g)
  BY <1>4, <1>7, <1>8, RunsThen
<1>10. Runs(h, BindAll \o Lock("binding") \o Fn("forking", "any") \o Fn("forked", "any"), k)
  BY <1>1, <1>4, <1>7, <1>9, RunsThen
<1> QED BY <1>10 DEF ForkBodies, k

\* Every way of every function does what the function's step requires and says.
LEMMA BodiesRun ==
  ASSUME NEW h \in Views, h.loose = (app.full \/ app.stale), NEW e \in Steps, Requires(h, e),
         NEW p \in Bodies(e.do, e.of)
  PROVE  Runs(h, p, Result(h, e))
<1>1. CASE e.do = "remove_stale"
  <2>1. Outside(h) /\ Result(h, e) = h /\ p \in RemoveStaleBodies
    BY <1>1 DEF Requires, Result, OnNone, Bodies
  <2> QED BY <2>1, RemoveStaleRuns
<1>2. CASE e.do = "close"
  <2>1. Outside(h) /\ Result(h, e) = h /\ p \in CloseBodies
    BY <1>2 DEF Requires, Result, OnNone, Bodies
  <2> QED BY <2>1, CloseRuns
<1>3. CASE e.do = "add_socket_info"
  <2>1. Outside(h) /\ Result(h, e) = h /\ p \in AddSocketInfoBodies
    BY <1>3 DEF Requires, Result, OnNone, Bodies
  <2> QED BY <2>1, AddSocketInfoRuns
<1>4. CASE e.do = "auto_bind"
  <2>1. Below(h, "pcap") /\ CanBind(h) /\ Result(h, e) = h /\ p \in AutoBindBodies
    BY <1>4 DEF Requires, Result, Bodies
  <2> QED BY <2>1, AutoBindRuns
<1>5. CASE e.do = "dump"
  <2>1. Below(h, "pcap") /\ CanBind(h) /\ Result(h, e) = h /\ p \in DumpBodies
    BY <1>5 DEF Requires, Result, Bodies
  <2> QED BY <2>1, DumpRuns
<1>6. CASE e.do = "get_fd"
  <2>1. CanBind(h) /\ Result(h, e) = h /\ p \in GetFdBodies
    BY <1>6 DEF Requires, Result, Bodies
  <2> QED BY <2>1, GetFdRuns
<1>12. CASE e.do = "write_capture"
  <2>1. CanBind(h) /\ Result(h, e) = h /\ p \in WriteCaptureBodies
    BY <1>12 DEF Requires, Result, Bodies
  <2> QED BY <2>1, WriteCaptureRuns
<1>7. CASE e.do = "test_sockets"
  <2>1. Below(h, "firstFree") /\ Result(h, e) = h /\ p \in TestSocketsBodies
    BY <1>7 DEF Requires, Result, Bodies
  <2> QED BY <2>1, TestSocketsRuns
<1>8. CASE e.do = "connect_bound"
  <2>1. /\ e.of \in Slots /\ CanBind(h) /\ h.held \subseteq {"binding", e.of}
        /\ e.of \in Tracked(h) => e.of \in h.held
        /\ Result(h, e) = Without(h, e.of) /\ p \in ConnectBoundBodies(e.of)
    BY <1>8 DEF Requires, Result, Bodies
  <2> QED BY <2>1, ConnectBoundRuns
<1>9. CASE e.do = "fork"
  <2>1. /\ h.held = {} /\ Result(h, e) = [h EXCEPT !.ready = TRUE]
        /\ p \in ForkBodies
    BY <1>9 DEF Requires, Result, Bodies
  <2> QED BY <2>1, ForkRuns
<1>10. CASE e.do \in OnSlot
  <2>1. Outside(h) /\ e.of \in Slots /\ Result(h, e) = h
    BY <1>10 DEF Requires, Result, OnSlot
  <2>2. CASE e.do \in {"socket", "plain", "accept", "accepted", "connect", "bind"}
    <3>1. \/ p \in SocketBodies \/ p \in PlainBodies \/ p \in AcceptBodies(e.of)
          \/ p \in AcceptedBodies(e.of) \/ p \in ConnectBodies(e.of)
          \/ p \in BindBodies(e.of)
      BY <2>2 DEF Bodies
    <3> QED BY <2>1, <3>1, SocketRuns, PlainRuns, AcceptRuns, AcceptedRuns,
               ConnectRuns, BindRuns
  <2>3. CASE e.do \in {"listen", "getname", "sockopt", "refused", "before", "after"}
    <3>1. \/ p \in ListenBodies(e.of) \/ p \in GetNameBodies(e.of)
          \/ p \in SockOptBodies(e.of) \/ p \in RefusedBodies(e.of)
          \/ p \in BeforeBodies(e.of) \/ p \in AfterBodies(e.of)
      BY <2>3 DEF Bodies
    <3>2. CASE p \in GetNameBodies(e.of)
      BY <2>1, <3>2, SlotLocked DEF GetNameBodies
    <3> QED BY <2>1, <3>1, <3>2, ListenRuns, SockOptRuns, RefusedRuns, BeforeRuns,
               AfterRuns
  <2>4. CASE e.do \in {"write", "send", "sendto", "recv", "dup", "dup2"}
    <3>1. \/ p \in WriteBodies(e.of)
          \/ p \in SendBodies(e.of) \/ p \in SendToBodies(e.of) \/ p \in RecvBodies(e.of)
          \/ p \in DupBodies(e.of) \/ p \in Dup2Bodies(e.of)
      BY <2>4 DEF Bodies
    <3> QED BY <2>1, <3>1, WriteRuns, SendRuns, SendToRuns, RecvRuns, DupRuns, Dup2Runs
  <2> QED BY <1>10, <2>2, <2>3, <2>4 DEF OnSlot
<1>11. CASE e.do \in {"lock", "unlock", "libc", "bind_symbol", "bind_all",
                      "initialised", "opened", "closed", "forking", "forked"}
  <2>1. Bodies(e.do, e.of) = {}
    BY <1>11 DEF Bodies
  <2> QED BY <2>1
<1> QED BY <1>1, <1>2, <1>3, <1>4, <1>5, <1>6, <1>7, <1>8, <1>9, <1>10, <1>11, <1>12
        DEF Steps, Labels, Calls, OnSlot

-----------------------------------------------------------------------------
(* The invariant is preserved *)

\* Where the call of a thread is, and what its next step needs.
LEMMA Begins ==
  ASSUME LockInv, NEW t \in Threads, Busy(t)
  PROVE  /\ t \in alive /\ Head(todo[t]) \in Steps /\ Tail(todo[t]) \in Seq(Steps)
         /\ \E h, k \in Views :
              /\ ViewOf(t, h) /\ k.held = {}
              /\ Requires(h, Head(todo[t])) /\ Result(h, Head(todo[t])) \in Views
              /\ Runs(Result(h, Head(todo[t])), Tail(todo[t]), k)
<1>1. CallOf(t) /\ todo[t] # <<>>
  BY DEF LockInv, Busy
<1>2. PICK h \in Views, k \in Views :
        ViewOf(t, h) /\ k.held = {} /\ Runs(h, todo[t], k)
  BY <1>1 DEF CallOf
<1>3. /\ Head(todo[t]) \in Steps /\ Tail(todo[t]) \in Seq(Steps)
      /\ Requires(h, Head(todo[t])) /\ Result(h, Head(todo[t])) \in Views
      /\ Runs(Result(h, Head(todo[t])), Tail(todo[t]), k)
  BY <1>1, <1>2, RunsHead
<1> QED BY <1>1, <1>2, <1>3 DEF CallOf

LEMMA BecomesRuns ==
  ASSUME TypeInv, NEW t \in Threads, NEW p, Becomes(t, p),
         NEW g \in Views, NEW l \in Views, NEW k \in Views,
         Runs(g, p, l), Runs(l, Tail(todo[t]), k)
  PROVE  /\ todo' \in [Threads -> Seq(Steps)]
         /\ Runs(g, todo'[t], k)
         /\ \A u \in Threads \ {t} : todo'[u] = todo[u]
<1>1. Runs(g, p \o Tail(todo[t]), k)
  BY RunsThen
<1>2. p \o Tail(todo[t]) \in Seq(Steps)
  BY <1>1 DEF Runs
<1> QED BY <1>1, <1>2 DEF Becomes, TypeInv

LEMMA BecomesDone ==
  ASSUME TypeInv, NEW t \in Threads, Becomes(t, Skip),
         NEW l \in Views, NEW k \in Views, Runs(l, Tail(todo[t]), k)
  PROVE  /\ todo' \in [Threads -> Seq(Steps)]
         /\ Runs(l, todo'[t], k)
         /\ \A u \in Threads \ {t} : todo'[u] = todo[u]
BY RunsSkip, BecomesRuns

\* A step of t, which takes free mutexes and frees its own only.
LEMMA Moves ==
  ASSUME LockInv, NEW t \in alive, NEW g \in Views, NEW k \in Views,
         TypeInv', alive' = alive, app' = app, bound \subseteq bound',
         \A u \in Threads \ {t} : todo'[u] = todo[u],
         \A m \in Mutexes : \/ mutex'[m] = mutex[m]
                            \/ {mutex[m], mutex'[m]} \subseteq {t, Free},
         ViewOf(t, g)', k.held = {}, Runs(g, todo'[t], k)
  PROVE  LockInv'
<1>1. alive \subseteq Threads /\ Free \notin Threads /\ Free # Lost /\ Lost \notin Threads
  BY SwrapLocksAssumption DEF LockInv, TypeInv, TypeOK
<1>2. CallOf(t)'
  BY DEF CallOf
<1>3. ASSUME NEW u \in Threads \ {t} PROVE CallOf(u)'
  <2>1. CallOf(u) /\ todo'[u] = todo[u]
    BY DEF LockInv
  <2>2. Has(u)' = Has(u)
    BY <1>1 DEF Has
  <2>3. PICK h \in Views, l \in Views :
          ViewOf(u, h) /\ l.held = {} /\ Runs(h, todo[u], l)
    BY <2>1 DEF CallOf
  <2>4. ViewOf(u, h)'
    BY <2>2, <2>3 DEF ViewOf
  <2> QED BY <2>1, <2>3, <2>4 DEF CallOf
<1>4. \A m \in Mutexes : mutex'[m] \in alive' \cup {Free, Lost}
  BY DEF LockInv
<1>5. mutex'["binding"] # Lost
  BY <1>1, MutexTypes DEF LockInv
<1> QED BY <1>2, <1>3, <1>4, <1>5 DEF LockInv

\* A step that leaves the mutexes alone.
LEMMA Quiet ==
  ASSUME LockInv, NEW t \in alive, NEW g \in Views, NEW k \in Views,
         TypeInv', UNCHANGED <<mutex, alive, app>>, bound \subseteq bound',
         \A u \in Threads \ {t} : todo'[u] = todo[u],
         ViewOf(t, g), g.ready => Syms \subseteq bound', k.held = {},
         Runs(g, todo'[t], k)
  PROVE  LockInv'
<1>1. ViewOf(t, g)'
  BY DEF ViewOf, Has
<1> QED BY <1>1, Moves

LEMMA InitInv == Init => LockInv
<1> SUFFICES ASSUME Init PROVE LockInv
  OBVIOUS
<1>1. /\ (app.full \/ app.stale) \in BOOLEAN
      /\ app.bound \subseteq Syms /\ app \in Applications
  BY SwrapLocksAssumption DEF Init
<1>2. TypeInv
  <2>1. mutex \in [Mutexes -> Threads \cup {Free, Lost}] /\ signals \in 0..MaxSignals
    BY SwrapLocksAssumption DEF Init
  <2>2. todo \in [Threads -> Seq(Steps)]
    BY EmptySeq DEF Init
  <2>3. sockets \in BOOLEAN /\ capture \in BOOLEAN
    BY DEF Init
  <2>4. bound \subseteq Syms /\ alive \subseteq Threads
    BY <1>1 DEF Init
  <2> QED BY <1>1, <2>1, <2>2, <2>3, <2>4 DEF TypeInv, TypeOK
<1>3. ASSUME NEW t \in Threads PROVE CallOf(t)
  <2> DEFINE h == [held |-> {}, ready |-> FALSE, loose |-> app.full \/ app.stale]
  <2>1. h \in Views /\ h.held = {}
    BY <1>1 DEF Views
  <2>2. Has(t) = {}
    BY SwrapLocksAssumption DEF Has, Init
  <2>3. ViewOf(t, h)
    BY <2>2 DEF ViewOf
  <2>4. Runs(h, todo[t], h)
    BY <2>1, RunsSkip DEF Init, Skip
  <2> HIDE DEF h
  <2> QED BY <2>1, <2>3, <2>4 DEF CallOf, Init
<1> QED BY <1>2, <1>3, SwrapLocksAssumption, MutexTypes DEF LockInv, Init

LEMMA StepStart ==
  ASSUME LockInv, NEW t \in Threads, Start(t)
  PROVE  LockInv'
<1>1. PICK name \in app.calls, s \in Slots : todo' = [todo EXCEPT ![t] = Fn(name, s)]
  BY DEF Start
<1>2. name \in Calls /\ TypeInv
  BY SwrapLocksAssumption DEF LockInv, TypeInv, TypeOK
<1>3. /\ t \in alive /\ todo[t] = <<>>
      /\ UNCHANGED <<mutex, bound, sockets, capture, app, alive, signals>>
  BY DEF Start, Busy
<1>4. PICK h \in Views : ViewOf(t, h) /\ h.held = {}
  <2>1. PICK h \in Views, k \in Views :
          ViewOf(t, h) /\ k.held = {} /\ Runs(h, todo[t], k)
    BY DEF LockInv, CallOf
  <2> QED BY <1>3, <2>1, RunsNothing
<1> DEFINE e == [do |-> name, of |-> s]
<1>5. e \in Steps /\ Requires(h, e)
  <2>1. e \in Steps
    BY <1>2, FnStep, MutexTypes DEF Labels
  <2>2. Outside(h)
    BY <1>4 DEF Outside, CanBind
  <2> QED BY <1>2, <1>4, <2>1, <2>2 DEF Requires, Calls, OnSlot, OnNone
<1>6. Runs(h, Fn(name, s), Result(h, e)) /\ Result(h, e) \in Views
  BY <1>5, RunsStep, ResultView DEF Fn
<1>7. Result(h, e).held = {}
  BY <1>2, <1>4, ReadyView DEF Result, Calls
<1> HIDE DEF e
<1>8. todo'[t] = Fn(name, s) /\ TypeInv'
  <2>1. Fn(name, s) \in Seq(Steps)
    BY <1>6 DEF Runs
  <2> QED BY <1>1, <1>2, <1>3, <2>1 DEF TypeInv, TypeOK
<1>9. \A u \in Threads \ {t} : todo'[u] = todo[u]
  BY <1>1, <1>2 DEF TypeInv
<1> QED BY <1>3, <1>4, <1>6, <1>7, <1>8, <1>9, Quiet DEF ViewOf

LEMMA StepLockMutex ==
  ASSUME LockInv, NEW t \in Threads, LockMutex(t)
  PROVE  LockInv'
<1>1. /\ Busy(t) /\ Head(todo[t]).do = "lock" /\ TypeInv
      /\ UNCHANGED <<bound, sockets, capture, app, alive, signals>>
  BY DEF LockMutex, At, LockInv
<1>2. t \in alive
  BY <1>1, Begins
<1>3. PICK h \in Views, k \in Views :
        /\ ViewOf(t, h) /\ k.held = {}
        /\ Requires(h, Head(todo[t])) /\ Result(h, Head(todo[t])) \in Views
        /\ Runs(Result(h, Head(todo[t])), Tail(todo[t]), k)
  BY <1>1, Begins
<1>4. PICK m \in Mutexes : m = Of(t) /\ m \notin h.held
  BY <1>1, <1>3 DEF Requires, Of
<1> DEFINE g == With(h, m)
<1>5. /\ g \in Views /\ g.held = h.held \cup ({m} \cap Tracked(h))
      /\ g.ready = h.ready /\ g.loose = h.loose
  BY <1>4, WithView
<1>6. Runs(g, Tail(todo[t]), k)
  BY <1>1, <1>3, <1>4 DEF Result, Of
<1> HIDE DEF g
<1>7. /\ todo' \in [Threads -> Seq(Steps)] /\ Runs(g, todo'[t], k)
      /\ \A u \in Threads \ {t} : todo'[u] = todo[u]
  BY <1>1, <1>5, <1>6, BecomesDone DEF LockMutex
<1>8. \/ mutex[m] = Free /\ mutex' = [mutex EXCEPT ![m] = t]
      \/ mutex[m] = t /\ mutex' = mutex
  BY <1>4 DEF LockMutex
<1>9. TypeInv' /\ Has(t)' = Has(t) \cup {m}
  BY <1>1, <1>4, <1>7, <1>8 DEF TypeInv, TypeOK, Has
<1>10. ViewOf(t, g)'
  BY <1>1, <1>3, <1>5, <1>9 DEF ViewOf, Tracked
<1>11. \A n \in Mutexes : \/ mutex'[n] = mutex[n]
                          \/ {mutex[n], mutex'[n]} \subseteq {t, Free}
  BY <1>1, <1>8 DEF TypeInv, TypeOK
<1> QED BY <1>1, <1>2, <1>3, <1>5, <1>7, <1>9, <1>10, <1>11, Moves

LEMMA StepUnlockMutex ==
  ASSUME LockInv, NEW t \in Threads, UnlockMutex(t)
  PROVE  LockInv'
<1>1. /\ Busy(t) /\ Head(todo[t]).do = "unlock" /\ TypeInv
      /\ UNCHANGED <<bound, sockets, capture, app, alive, signals>>
  BY DEF UnlockMutex, At, LockInv
<1>2. t \in alive
  BY <1>1, Begins
<1>3. PICK h \in Views, k \in Views :
        /\ ViewOf(t, h) /\ k.held = {}
        /\ Requires(h, Head(todo[t])) /\ Result(h, Head(todo[t])) \in Views
        /\ Runs(Result(h, Head(todo[t])), Tail(todo[t]), k)
  BY <1>1, Begins
<1>4. PICK m \in Mutexes : m = Of(t) /\ (m \in Tracked(h) => m \in h.held)
  BY <1>1, <1>3 DEF Requires, Of
<1> DEFINE g == Without(h, m)
<1>5. g \in Views /\ g.held = h.held \ {m} /\ g.ready = h.ready /\ g.loose = h.loose
  BY <1>4, WithView
<1>6. Runs(g, Tail(todo[t]), k)
  BY <1>1, <1>3, <1>4 DEF Result, Of
<1> HIDE DEF g
<1>7. /\ todo' \in [Threads -> Seq(Steps)] /\ Runs(g, todo'[t], k)
      /\ \A u \in Threads \ {t} : todo'[u] = todo[u]
  BY <1>1, <1>5, <1>6, BecomesDone DEF UnlockMutex
<1>8. m = "binding" => mutex[m] = t
  BY <1>3, <1>4, MutexTypes DEF Tracked, ViewOf, Has
<1>9. mutex' = IF mutex[m] = t THEN [mutex EXCEPT ![m] = Free] ELSE mutex
  BY <1>4, <1>8 DEF UnlockMutex
<1>10. TypeInv' /\ Has(t)' = Has(t) \ {m}
  <2>1. t # Free
    BY SwrapLocksAssumption
  <2> QED BY <1>1, <1>4, <1>7, <1>9, <2>1 DEF TypeInv, TypeOK, Has
<1>11. ViewOf(t, g)'
  BY <1>1, <1>3, <1>5, <1>10 DEF ViewOf, Tracked
<1>12. \A n \in Mutexes : \/ mutex'[n] = mutex[n]
                          \/ {mutex[n], mutex'[n]} \subseteq {t, Free}
  BY <1>1, <1>9 DEF TypeInv, TypeOK
<1> QED BY <1>1, <1>2, <1>3, <1>5, <1>7, <1>10, <1>11, <1>12, Moves

LEMMA StepForkDone ==
  ASSUME LockInv, NEW t \in Threads, ForkDone(t)
  PROVE  LockInv'
<1>1. /\ Busy(t) /\ Head(todo[t]).do = "forked" /\ TypeInv
      /\ UNCHANGED <<bound, sockets, capture, app, alive, signals>>
  BY DEF ForkDone, At, LockInv
<1>2. t \in alive
  BY <1>1, Begins
<1>3. PICK h \in Views, k \in Views :
        /\ ViewOf(t, h) /\ k.held = {}
        /\ Requires(h, Head(todo[t])) /\ Result(h, Head(todo[t])) \in Views
        /\ Runs(Result(h, Head(todo[t])), Tail(todo[t]), k)
  BY <1>1, Begins
<1> DEFINE g == Without(h, "binding")
<1>4. h.held = {"binding"} /\ Result(h, Head(todo[t])) = g
  BY <1>1, <1>3 DEF Requires, Result
<1>5. /\ g \in Views /\ g.held = {} /\ g.ready = h.ready /\ g.loose = h.loose
      /\ Runs(g, Tail(todo[t]), k)
  <2>1. Runs(g, Tail(todo[t]), k)
    BY <1>3, <1>4
  <2>2. "binding" \in Mutexes
    BY MutexTypes
  <2>3. g \in Views /\ g.held = h.held \ {"binding"} /\ g.ready = h.ready /\ g.loose = h.loose
    BY <2>2, WithView
  <2> QED BY <1>4, <2>1, <2>3
<1> HIDE DEF g
<1>6. /\ todo' \in [Threads -> Seq(Steps)] /\ Runs(g, todo'[t], k)
      /\ \A u \in Threads \ {t} : todo'[u] = todo[u]
  BY <1>1, <1>5, BecomesDone DEF ForkDone
<1>7. mutex["binding"] = t /\ mutex' = [mutex EXCEPT !["binding"] = Free]
  BY <1>3, <1>4 DEF ViewOf, Has, ForkDone
<1>8. TypeInv' /\ Has(t)' = Has(t) \ {"binding"}
  <2>1. t # Free
    BY SwrapLocksAssumption
  <2> QED BY <1>1, <1>6, <1>7, <2>1, MutexTypes DEF TypeInv, TypeOK, Has
<1>9. ViewOf(t, g)'
  BY <1>1, <1>3, <1>4, <1>5, <1>8 DEF ViewOf, Tracked
<1>10. \A n \in Mutexes : \/ mutex'[n] = mutex[n]
                          \/ {mutex[n], mutex'[n]} \subseteq {t, Free}
  BY <1>1, <1>7 DEF TypeInv, TypeOK
<1> QED BY <1>1, <1>2, <1>3, <1>5, <1>6, <1>8, <1>9, <1>10, Moves

\* A step that is replaced by others, which run from the view g of t to what the step
\* says of it.
LEMMA Replaces ==
  ASSUME LockInv, NEW t \in Threads, Busy(t), NEW p, Becomes(t, p),
         UNCHANGED <<mutex, alive, app, signals>>,
         sockets' \in BOOLEAN, capture' \in BOOLEAN,
         bound \subseteq bound', bound' \subseteq Syms,
         \A h \in Views :
           ViewOf(t, h) /\ Requires(h, Head(todo[t]))
             => \E g \in Views : /\ ViewOf(t, g) /\ Runs(g, p, Result(h, Head(todo[t])))
  PROVE  LockInv'
<1>1. PICK h \in Views, k \in Views :
        /\ ViewOf(t, h) /\ k.held = {}
        /\ Requires(h, Head(todo[t])) /\ Result(h, Head(todo[t])) \in Views
        /\ Runs(Result(h, Head(todo[t])), Tail(todo[t]), k)
  BY Begins
<1>2. PICK g \in Views : ViewOf(t, g) /\ Runs(g, p, Result(h, Head(todo[t])))
  BY <1>1
<1>3. t \in alive /\ TypeInv
  BY Begins DEF LockInv
<1>4. /\ todo' \in [Threads -> Seq(Steps)] /\ Runs(g, todo'[t], k)
      /\ \A u \in Threads \ {t} : todo'[u] = todo[u]
  BY <1>1, <1>2, <1>3, BecomesRuns
<1>5. TypeInv'
  BY <1>3, <1>4 DEF TypeInv, TypeOK
<1>6. g.ready => Syms \subseteq bound'
  BY <1>2 DEF ViewOf
<1> QED BY <1>1, <1>2, <1>3, <1>4, <1>5, <1>6, Quiet

LEMMA StepEnter ==
  ASSUME LockInv, NEW t \in Threads, Enter(t)
  PROVE  LockInv'
<1>1. PICK p \in Bodies(Head(todo[t]).do, Of(t)) : Becomes(t, p)
  BY DEF Enter
<1>2. Busy(t) /\ UNCHANGED <<mutex, bound, sockets, capture, app, alive, signals>>
  BY DEF Enter
<1>3. ASSUME NEW h \in Views, ViewOf(t, h), Requires(h, Head(todo[t]))
      PROVE  Runs(h, p, Result(h, Head(todo[t])))
  <2>1. Head(todo[t]) \in Steps
    BY <1>2, Begins
  <2>2. h.loose = (app.full \/ app.stale)
    BY <1>3 DEF ViewOf
  <2> QED BY <1>1, <1>3, <2>1, <2>2, BodiesRun DEF Of
<1>4. sockets' \in BOOLEAN /\ capture' \in BOOLEAN
  BY <1>2 DEF LockInv, TypeInv, TypeOK
<1>5. bound \subseteq bound' /\ bound' \subseteq Syms
  BY <1>2 DEF LockInv, TypeInv, TypeOK
<1> QED BY <1>1, <1>2, <1>3, <1>4, <1>5, Replaces

\* Binding a symbol, which may be done at any time.
LEMMA BindingRuns ==
  ASSUME NEW h \in Views, NEW f \in Syms, "binding" \notin h.held
  PROVE  Runs(h, Holding("binding", <<[do |-> "bind_symbol", of |-> f]>>), h)
<1> DEFINE e == [do |-> "bind_symbol", of |-> f]
           g == With(h, "binding")
<1>1. "binding" \in Mutexes /\ g \in Views
  BY MutexTypes, WithView
<1>2. e \in Steps /\ Requires(g, e) /\ Result(g, e) = g
  BY FnStep DEF Requires, Result, OnSlot, OnNone, Labels
<1>3. Runs(g, <<e>>, g)
  BY <1>1, <1>2, RunsStep
<1> QED BY <1>1, <1>3, BindingLast, HoldingRuns

LEMMA StepLibcCall ==
  ASSUME LockInv, NEW t \in Threads, LibcCall(t)
  PROVE  LockInv'
<1>1. /\ Busy(t) /\ Head(todo[t]).do = "libc"
      /\ UNCHANGED <<mutex, bound, sockets, capture, app, alive, signals>>
  BY DEF LibcCall, At
<1>2. sockets' \in BOOLEAN /\ capture' \in BOOLEAN
  BY <1>1 DEF LockInv, TypeInv, TypeOK
<1>3. bound \subseteq bound' /\ bound' \subseteq Syms
  BY <1>1 DEF LockInv, TypeInv, TypeOK
<1>4. CASE Of(t) \in bound
  <2>1. Becomes(t, Skip)
    BY <1>4 DEF LibcCall
  <2>2. ASSUME NEW h \in Views PROVE Runs(h, Skip, Result(h, Head(todo[t])))
    BY <1>1, RunsSkip DEF Result
  <2> QED BY <1>1, <1>2, <1>3, <2>1, <2>2, Replaces
<1>5. CASE Of(t) \notin bound
  <2>1. PICK f : f = Of(t)
    OBVIOUS
  <2> DEFINE p == Holding("binding", <<[do |-> "bind_symbol", of |-> f]>>) \o Libc(f)
  <2>2. Becomes(t, p)
    BY <1>5, <2>1 DEF LibcCall
  <2>3. ASSUME NEW h \in Views, ViewOf(t, h), Requires(h, Head(todo[t]))
        PROVE  Runs(h, p, Result(h, Head(todo[t])))
    <3>1. f \in Syms /\ CanBind(h) /\ Result(h, Head(todo[t])) = h
      BY <1>1, <2>1, <2>3 DEF Requires, Result, Of
    <3>2. "binding" \notin h.held
      BY <1>5, <2>1, <2>3, <3>1 DEF ViewOf, CanBind
    <3> QED BY <3>1, <3>2, BindingRuns, LibcRuns, RunsThen
  <2> HIDE DEF p
  <2> QED BY <1>1, <1>2, <1>3, <2>2, <2>3, Replaces
<1> QED BY <1>4, <1>5

LEMMA StepBindSymbol ==
  ASSUME LockInv, NEW t \in Threads, BindSymbol(t)
  PROVE  LockInv'
<1>1. /\ Busy(t) /\ Head(todo[t]).do = "bind_symbol" /\ Becomes(t, Skip)
      /\ UNCHANGED <<mutex, sockets, capture, app, alive, signals>>
      /\ bound' = bound \cup {Of(t)}
  BY DEF BindSymbol, At
<1>2. sockets' \in BOOLEAN /\ capture' \in BOOLEAN
  BY <1>1 DEF LockInv, TypeInv, TypeOK
<1>3. Of(t) \in Syms
  BY <1>1, Begins DEF Requires, Of
<1>4. bound \subseteq bound' /\ bound' \subseteq Syms
  BY <1>1, <1>3 DEF LockInv, TypeInv, TypeOK
<1>5. ASSUME NEW h \in Views PROVE Runs(h, Skip, Result(h, Head(todo[t])))
  BY <1>1, RunsSkip DEF Result
<1> QED BY <1>1, <1>2, <1>4, <1>5, Replaces

LEMMA StepBindAllSymbols ==
  ASSUME LockInv, NEW t \in Threads, BindAllSymbols(t)
  PROVE  LockInv'
<1>1. /\ Busy(t) /\ Head(todo[t]).do = "bind_all"
      /\ UNCHANGED <<mutex, bound, sockets, capture, app, alive, signals>>
  BY DEF BindAllSymbols, At
<1>2. sockets' \in BOOLEAN /\ capture' \in BOOLEAN
  BY <1>1 DEF LockInv, TypeInv, TypeOK
<1>3. bound \subseteq bound' /\ bound' \subseteq Syms
  BY <1>1 DEF LockInv, TypeInv, TypeOK
<1>4. CASE Syms \ bound = {}
  <2>1. Becomes(t, Skip)
    BY <1>4 DEF BindAllSymbols
  <2>2. ASSUME NEW h \in Views, ViewOf(t, h), Requires(h, Head(todo[t]))
        PROVE  \E g \in Views :
                 ViewOf(t, g) /\ Runs(g, Skip, Result(h, Head(todo[t])))
    <3> DEFINE g == [h EXCEPT !.ready = TRUE]
    <3>1. g \in Views /\ g.held = h.held /\ g.loose = h.loose
      BY ReadyView
    <3>2. Result(h, Head(todo[t])) = g
      BY <1>1 DEF Result
    <3>3. Tracked(g) = Tracked(h)
      BY <3>1 DEF Tracked
    <3> HIDE DEF g
    <3>4. ViewOf(t, g)
      BY <1>4, <2>2, <3>1, <3>3 DEF ViewOf
    <3> QED BY <3>1, <3>2, <3>4, RunsSkip
  <2> QED BY <1>1, <1>2, <1>3, <2>1, <2>2, Replaces
<1>5. CASE Syms \ bound # {}
  <2>1. PICK f \in Syms : f = CHOOSE s \in Syms \ bound : TRUE
    BY <1>5
  <2> DEFINE p == Holding("binding", <<[do |-> "bind_symbol", of |-> f]>>) \o BindAll
  <2>2. Becomes(t, p)
    BY <1>5, <2>1 DEF BindAllSymbols
  <2>3. ASSUME NEW h \in Views, ViewOf(t, h), Requires(h, Head(todo[t]))
        PROVE  Runs(h, p, Result(h, Head(todo[t])))
    <3> DEFINE e == [do |-> "bind_all", of |-> "any"]
    <3>1. "binding" \notin h.held
      BY <1>1, <2>3 DEF Requires
    <3>2. e \in Steps /\ Requires(h, e) /\ Result(h, e) = [h EXCEPT !.ready = TRUE]
      BY <3>1, FnStep DEF Requires, Result, OnSlot, OnNone, Labels
    <3>3. Result(h, Head(todo[t])) = [h EXCEPT !.ready = TRUE]
      BY <1>1 DEF Result
    <3>4. Runs(h, BindAll, Result(h, e)) /\ Result(h, e) \in Views
      BY <3>2, RunsStep, ResultView DEF BindAll, Fn
    <3> QED BY <3>1, <3>2, <3>3, <3>4, BindingRuns, RunsThen
  <2> HIDE DEF p
  <2> QED BY <1>1, <1>2, <1>3, <2>2, <2>3, Replaces
<1> QED BY <1>4, <1>5

LEMMA StepSocketsReady ==
  ASSUME LockInv, NEW t \in Threads, SocketsReady(t)
  PROVE  LockInv'
<1>1. /\ Busy(t) /\ Head(todo[t]).do = "initialised" /\ Becomes(t, Skip)
      /\ UNCHANGED <<mutex, bound, capture, app, alive, signals>>
  BY DEF SocketsReady, At
<1>2. sockets' \in BOOLEAN
  BY DEF SocketsReady
<1>3. capture' \in BOOLEAN
  BY <1>1 DEF LockInv, TypeInv, TypeOK
<1>4. bound \subseteq bound' /\ bound' \subseteq Syms
  BY <1>1 DEF LockInv, TypeInv, TypeOK
<1>5. ASSUME NEW h \in Views PROVE Runs(h, Skip, Result(h, Head(todo[t])))
  BY <1>1, RunsSkip DEF Result
<1> QED BY <1>1, <1>2, <1>3, <1>4, <1>5, Replaces

LEMMA StepCaptureFile ==
  ASSUME LockInv, NEW t \in Threads, CaptureFile(t)
  PROVE  LockInv'
<1>1. /\ Busy(t) /\ Head(todo[t]).do \in {"opened", "closed"} /\ Becomes(t, Skip)
      /\ UNCHANGED <<mutex, bound, sockets, app, alive, signals>>
  BY DEF CaptureFile, At
<1>2. capture' \in BOOLEAN
  BY DEF CaptureFile, At, Busy
<1>3. sockets' \in BOOLEAN
  BY <1>1 DEF LockInv, TypeInv, TypeOK
<1>4. bound \subseteq bound' /\ bound' \subseteq Syms
  BY <1>1 DEF LockInv, TypeInv, TypeOK
<1>5. ASSUME NEW h \in Views PROVE Runs(h, Skip, Result(h, Head(todo[t])))
  BY <1>1, RunsSkip DEF Result
<1> QED BY <1>1, <1>2, <1>3, <1>4, <1>5, Replaces

\* In the child only the thread that called fork is left, with what it had.
LEMMA StepForkProcess ==
  ASSUME LockInv, NEW t \in Threads, ForkProcess(t)
  PROVE  LockInv'
<1>1. /\ Busy(t) /\ Head(todo[t]).do = "forking"
      /\ UNCHANGED <<bound, sockets, capture, app, signals>>
  BY DEF ForkProcess, At
<1>2. CASE Becomes(t, Skip) /\ UNCHANGED <<mutex, alive>>
  <2>1. sockets' \in BOOLEAN /\ capture' \in BOOLEAN
    BY <1>1 DEF LockInv, TypeInv, TypeOK
  <2>2. bound \subseteq bound' /\ bound' \subseteq Syms
    BY <1>1 DEF LockInv, TypeInv, TypeOK
  <2>3. ASSUME NEW h \in Views PROVE Runs(h, Skip, Result(h, Head(todo[t])))
    BY <1>1, RunsSkip DEF Result
  <2> QED BY <1>1, <1>2, <2>1, <2>2, <2>3, Replaces
<1>3. CASE /\ alive' = {t}
           /\ todo' = [u \in Threads |-> IF u = t THEN Tail(todo[t]) ELSE <<>>]
           /\ mutex' = [m \in Mutexes |-> IF mutex[m] \in {t, Free} THEN mutex[m]
                                          ELSE Lost]
  <2>1. PICK h \in Views, k \in Views :
          /\ ViewOf(t, h) /\ k.held = {}
          /\ Requires(h, Head(todo[t])) /\ Result(h, Head(todo[t])) \in Views
          /\ Runs(Result(h, Head(todo[t])), Tail(todo[t]), k)
    BY <1>1, Begins
  <2>2. h.held = {"binding"} /\ Result(h, Head(todo[t])) = h
    BY <1>1, <2>1 DEF Requires, Result
  <2>3. TypeInv /\ Tail(todo[t]) \in Seq(Steps)
    BY <1>1, Begins DEF LockInv
  <2>4. t # Lost /\ t # Free /\ Free # Lost
    BY SwrapLocksAssumption
  <2>5. todo' \in [Threads -> Seq(Steps)] /\ todo'[t] = Tail(todo[t])
    BY <1>3, <2>3, EmptySeq
  <2>6. mutex' \in [Mutexes -> Threads \cup {Free, Lost}]
    BY <1>3, <2>4
  <2>7. TypeInv'
    BY <1>1, <1>3, <2>3, <2>5, <2>6 DEF TypeInv, TypeOK
  <2>8. Has(t)' = Has(t)
    BY <1>3, <2>4 DEF Has
  <2>9. ViewOf(t, h)'
    BY <1>1, <2>1, <2>8 DEF ViewOf
  <2>10. CallOf(t)'
    BY <1>3, <2>1, <2>2, <2>5, <2>9 DEF CallOf
  <2>11. ASSUME NEW u \in Threads \ {t} PROVE CallOf(u)'
    <3> DEFINE g == [held |-> {}, ready |-> FALSE, loose |-> h.loose]
    <3>1. g \in Views /\ g.held = {} /\ ~g.ready /\ g.loose = h.loose
      BY ViewParts DEF Views
    <3>2. Has(u)' = {}
      BY <1>3, <2>4, SwrapLocksAssumption DEF Has
    <3> HIDE DEF g
    <3>3. ViewOf(u, g)'
      BY <1>1, <2>1, <3>1, <3>2 DEF ViewOf
    <3>4. todo'[u] = Skip
      BY <1>3 DEF Skip
    <3> QED BY <3>1, <3>3, <3>4, RunsSkip DEF CallOf, Skip
  <2>12. \A m \in Mutexes : mutex'[m] \in alive' \cup {Free, Lost}
    BY <1>3
  <2>13. mutex'["binding"] # Lost
    <3>1. mutex["binding"] = t
      BY <2>1, <2>2 DEF ViewOf, Has
    <3> QED BY <1>3, <2>4, <3>1, MutexTypes
  <2> QED BY <2>7, <2>10, <2>11, <2>12, <2>13 DEF LockInv
<1> QED BY <1>2, <1>3 DEF ForkProcess

\* The handler's call comes first; it leaves the fork as it found it.
LEMMA StepSignal ==
  ASSUME LockInv, NEW t \in Threads, Signal(t)
  PROVE  LockInv'
<1>1. /\ Busy(t) /\ Head(todo[t]).do \in {"forking", "forked"} /\ TypeInv
      /\ UNCHANGED <<mutex, bound, sockets, capture, app, alive>>
      /\ signals < MaxSignals /\ signals' = signals + 1
  BY DEF Signal, At, LockInv
<1>2. PICK name \in app.calls \ {"fork"}, s \in Slots :
        todo' = [todo EXCEPT ![t] = Fn(name, s) \o @]
  BY DEF Signal
<1>3. name \in Calls \ {"fork"}
  BY <1>1, SwrapLocksAssumption DEF TypeInv, TypeOK
<1>4. PICK h \in Views, k \in Views :
        ViewOf(t, h) /\ k.held = {} /\ Runs(h, todo[t], k)
  BY DEF LockInv, CallOf
<1>5. h.held = {"binding"} /\ h.ready
  BY <1>1, <1>4, RunsHead DEF Busy, Requires
<1> DEFINE e == [do |-> name, of |-> s]
<1>6. e \in Steps /\ Requires(h, e) /\ Result(h, e) = h
  <2>1. e \in Steps
    BY <1>3, FnStep, MutexTypes DEF Labels
  <2>2. Outside(h)
    BY <1>5 DEF Outside, CanBind
  <2>3. Requires(h, e)
    BY <1>3, <2>2 DEF Requires, Calls, OnSlot, OnNone
  <2>4. Result(h, e) = h
    BY <1>3 DEF Result, Calls
  <2> QED BY <2>1, <2>3, <2>4
<1>7. Runs(h, Fn(name, s), h)
  BY <1>6, RunsStep DEF Fn
<1> HIDE DEF e
<1>8. todo'[t] = Fn(name, s) \o todo[t]
  BY <1>1, <1>2 DEF TypeInv
<1>9. Runs(h, todo'[t], k)
  BY <1>4, <1>7, <1>8, RunsThen
<1>10. todo' \in [Threads -> Seq(Steps)] /\ \A u \in Threads \ {t} : todo'[u] = todo[u]
  <2>1. Fn(name, s) \o todo[t] \in Seq(Steps)
    BY <1>8, <1>9 DEF Runs
  <2> QED BY <1>1, <1>2, <2>1 DEF TypeInv
<1>11. signals' \in 0..MaxSignals
  BY <1>1, SwrapLocksAssumption DEF TypeInv, TypeOK
<1>12. TypeInv'
  BY <1>1, <1>10, <1>11 DEF TypeInv, TypeOK
<1>13. t \in alive
  BY <1>1, Begins
<1> QED BY <1>1, <1>4, <1>9, <1>10, <1>12, <1>13, Quiet DEF ViewOf

LEMMA StepInv == LockInv /\ [Next]_vars => LockInv'
<1> SUFFICES ASSUME LockInv, [Next]_vars PROVE LockInv'
  OBVIOUS
<1>1. ASSUME NEW t \in Threads, Start(t) PROVE LockInv'
  BY <1>1, StepStart
<1>2. ASSUME NEW t \in Threads, LockMutex(t) PROVE LockInv'
  BY <1>2, StepLockMutex
<1>3. ASSUME NEW t \in Threads, UnlockMutex(t) PROVE LockInv'
  BY <1>3, StepUnlockMutex
<1>4. ASSUME NEW t \in Threads, LibcCall(t) PROVE LockInv'
  BY <1>4, StepLibcCall
<1>5. ASSUME NEW t \in Threads, BindSymbol(t) PROVE LockInv'
  BY <1>5, StepBindSymbol
<1>6. ASSUME NEW t \in Threads, BindAllSymbols(t) PROVE LockInv'
  BY <1>6, StepBindAllSymbols
<1>7. ASSUME NEW t \in Threads, Enter(t) PROVE LockInv'
  BY <1>7, StepEnter
<1>8. ASSUME NEW t \in Threads, SocketsReady(t) PROVE LockInv'
  BY <1>8, StepSocketsReady
<1>9. ASSUME NEW t \in Threads, CaptureFile(t) PROVE LockInv'
  BY <1>9, StepCaptureFile
<1>10. ASSUME NEW t \in Threads, ForkProcess(t) PROVE LockInv'
  BY <1>10, StepForkProcess
<1>11. ASSUME NEW t \in Threads, ForkDone(t) PROVE LockInv'
  BY <1>11, StepForkDone
<1>12. ASSUME NEW t \in Threads, Signal(t) PROVE LockInv'
  BY <1>12, StepSignal
<1>13. CASE UNCHANGED vars
  BY <1>13 DEF vars, LockInv, TypeInv, TypeOK, CallOf, ViewOf, Has
<1> QED BY <1>1, <1>2, <1>3, <1>4, <1>5, <1>6, <1>7, <1>8, <1>9, <1>10, <1>11, <1>12,
           <1>13 DEF Next, Step

LEMMA AlwaysInv == Spec => []LockInv
BY InitInv, StepInv, PTL DEF Spec

-----------------------------------------------------------------------------
(* What follows from the invariant *)

LEMMA InvOrdered == LockInv => LocksOrdered
<1> SUFFICES ASSUME LockInv, CaptureSafe, NEW t \in alive
             PROVE  /\ At(t, "unlock") => mutex[Of(t)] = t
                    /\ At(t, "lock") =>
                         \A m \in Mutexes \ {"binding"} :
                           mutex[m] = t => Rank(m) < Rank(Of(t))
  BY DEF LocksOrdered
<1>1. t \in Threads
  BY DEF LockInv, TypeInv, TypeOK
<1>2. ASSUME Busy(t)
      PROVE  \E h \in Views : h.held = Has(t) /\ Tracked(h) = Mutexes
                              /\ Requires(h, Head(todo[t]))
  <2>1. PICK h \in Views : ViewOf(t, h) /\ Requires(h, Head(todo[t]))
    BY <1>1, <1>2, Begins
  <2>2. Tracked(h) = Mutexes
    BY <2>1 DEF ViewOf, Tracked, CaptureSafe
  <2> QED BY <2>1, <2>2 DEF ViewOf, Has
<1>3. ASSUME At(t, "unlock") PROVE mutex[Of(t)] = t
  BY <1>2, <1>3 DEF At, Of, Requires, Has
<1>4. ASSUME At(t, "lock"), NEW m \in Mutexes \ {"binding"}, mutex[m] = t
      PROVE  Rank(m) < Rank(Of(t))
  <2>1. PICK h \in Views : h.held = Has(t) /\ Requires(h, Head(todo[t]))
    BY <1>2, <1>4 DEF At
  <2>2. Below(h, Of(t))
    BY <1>4, <2>1 DEF At, Of, Requires
  <2> QED BY <1>4, <2>1, <2>2 DEF Below, Has
<1> QED BY <1>3, <1>4

LEMMA InvForkPrepared == LockInv => ForkPrepared
<1> SUFFICES ASSUME LockInv, NEW t \in alive, At(t, "lock"), Of(t) = "binding"
             PROVE  mutex["binding"] \in (alive \ {t}) \cup {Free}
  BY DEF ForkPrepared
<1>1. t \in Threads /\ "binding" \in Mutexes
  BY MutexTypes DEF LockInv, TypeInv, TypeOK
<1>2. PICK h \in Views : ViewOf(t, h) /\ Requires(h, Head(todo[t]))
  BY <1>1, Begins DEF At
<1>3. "binding" \notin h.held
  BY <1>2 DEF At, Of, Requires
<1>4. mutex["binding"] # t
  BY <1>1, <1>2, <1>3 DEF ViewOf, Has, Tracked
<1> QED BY <1>1, <1>4 DEF LockInv

\* A thread whose call has returned has no mutex.
LEMMA IdleHasNothing ==
  ASSUME LockInv, CaptureSafe, NEW t \in Threads, ~Busy(t)
  PROVE  Has(t) = {}
<1>1. PICK h \in Views, k \in Views :
        ViewOf(t, h) /\ k.held = {} /\ Runs(h, todo[t], k)
  BY DEF LockInv, CallOf
<1>2. h.held = {}
  BY <1>1, RunsNothing DEF Busy
<1>3. Tracked(h) = Mutexes
  BY <1>1 DEF ViewOf, Tracked, CaptureSafe
<1> QED BY <1>1, <1>2, <1>3 DEF ViewOf, Has

LEMMA HighestRank ==
  ASSUME NEW R \in SUBSET (1..6), R # {}
  PROVE  \E i \in R : \A j \in R : j <= i
<1>1. \A j \in R : j \in {1, 2, 3, 4, 5, 6}
  OBVIOUS
<1>2. CASE 6 \in R
  BY <1>1, <1>2
<1>3. CASE 6 \notin R /\ 5 \in R
  BY <1>1, <1>3
<1>4. CASE {5, 6} \cap R = {} /\ 4 \in R
  BY <1>1, <1>4
<1>5. CASE {4, 5, 6} \cap R = {} /\ 3 \in R
  BY <1>1, <1>5
<1>6. CASE {3, 4, 5, 6} \cap R = {} /\ 2 \in R
  BY <1>1, <1>6
<1>7. CASE {2, 3, 4, 5, 6} \cap R = {}
  <2>1. 1 \in R
    BY <1>1, <1>7
  <2> QED BY <1>1, <1>7, <2>1
<1> QED BY <1>1, <1>2, <1>3, <1>4, <1>5, <1>6, <1>7

LEMMA InvWaitsEnd == LockInv => WaitsEnd
<1> SUFFICES ASSUME LockInv, CaptureSafe
             PROVE  /\ \A t \in alive :
                         Blocked(t) => \/ mutex[Of(t)] = Lost
                                       \/ mutex[Of(t)] \in alive /\ Busy(mutex[Of(t)])
                    /\ \A circle \in (SUBSET alive) \ {{}} :
                         (\A t \in circle : Blocked(t) /\ mutex[Of(t)] \in circle)
                           => \E t \in circle : HandlerBlocked(t)
  BY DEF WaitsEnd
<1>1. alive \subseteq Threads
  BY DEF LockInv, TypeInv, TypeOK
<1>2. ASSUME NEW t \in alive, Blocked(t) PROVE Of(t) \in Mutexes
  <2>1. PICK h \in Views : Requires(h, Head(todo[t]))
    BY <1>1, <1>2, Begins DEF Blocked, At
  <2> QED BY <1>2, <2>1 DEF Blocked, At, Of, Requires
<1>3. ASSUME NEW t \in alive, Blocked(t), mutex[Of(t)] # Lost
      PROVE  mutex[Of(t)] \in alive /\ Busy(mutex[Of(t)])
  <2>1. Of(t) \in Mutexes /\ mutex[Of(t)] \in alive
    BY <1>2, <1>3 DEF LockInv, Blocked
  <2> QED BY <1>1, <2>1, IdleHasNothing DEF Has
<1>4. ASSUME NEW circle \in SUBSET alive, circle # {},
             \A t \in circle : Blocked(t) /\ mutex[Of(t)] \in circle
      PROVE  \E t \in circle : HandlerBlocked(t)
  \* Nobody in the circle waits for a mutex that comes later than that of t.
  <2>1. PICK t \in circle : \A u \in circle : Rank(Of(u)) <= Rank(Of(t))
    <3> DEFINE R == {Rank(Of(u)) : u \in circle}
    <3>1. R \in SUBSET (1..6) /\ R # {}
      BY <1>2, <1>4, RankRange
    <3>2. PICK i \in R : \A j \in R : j <= i
      BY <3>1, HighestRank
    <3>3. PICK t \in circle : i = Rank(Of(t))
      BY <3>2
    <3>4. \A u \in circle : Rank(Of(u)) <= i
      BY <3>2
    <3> QED BY <3>3, <3>4
  <2>2. PICK u \in circle : mutex[Of(t)] = u
    BY <1>4
  <2>3. /\ Of(t) \in Mutexes /\ Of(u) \in Mutexes /\ Blocked(u)
        /\ Rank(Of(u)) <= Rank(Of(t))
    BY <1>2, <1>4, <2>1
  <2>4. CASE Of(t) = "binding"
    BY <2>2, <2>3, <2>4 DEF HandlerBlocked
  <2>5. CASE Of(t) # "binding"
    <3>1. Rank(Of(t)) < Rank(Of(u))
      BY <2>2, <2>3, <2>5, InvOrdered DEF LocksOrdered, Blocked
    <3> QED BY <2>3, <3>1, RankRange
  <2> QED BY <2>4, <2>5
<1> QED BY <1>3, <1>4

-----------------------------------------------------------------------------
(* Theorems *)

\* The variables keep their types: whatever swrap_mutex_lock, swrap_mutex_unlock and a
\* fork do, a mutex belongs to a thread, to nobody, or to a thread that the child lost.
THEOREM TypeCorrect == Spec => []TypeOK
BY AlwaysInv, PTL DEF LockInv, TypeInv

\* Every function of socket_wrapper.c takes its mutexes in one order, on all its ways
\* out, and unlocks what it has locked, for applications with which the library's own
\* write() and close() of the capture file do no harm (CaptureSafe): with the others
\* swrap_pcap_get_fd and swrap_pcap_dump_packet break the order.
THEOREM MutexesOrdered == Spec => []LocksOrdered
BY AlwaysInv, InvOrdered, PTL

\* What swrap_thread_prepare does is enough: neither a thread that forks nor its child
\* ever waits for the mutex of the bindings that it holds itself.
THEOREM ForkIsPrepared == Spec => []ForkPrepared
BY AlwaysInv, InvForkPrepared, PTL

\* Whoever waits for a mutex of the library waits for a thread that is in a call, and
\* a circle of threads that wait for one another has a signal handler in it that
\* interrupted a fork, for applications with which the library's own write() and
\* close() of the capture file do no harm (CaptureSafe).
THEOREM WaitsAlwaysEnd == Spec => []WaitsEnd
BY AlwaysInv, InvWaitsEnd, PTL

=============================================================================
