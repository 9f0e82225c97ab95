----------------------------- MODULE MCSwrapLocks -----------------------------
(* SwrapLocks for TLC: threads and slots are interchangeable.                 *)
EXTENDS SwrapLocks, TLC

\* Applications that call everything for the first time, or not.
Fresh(calls) == [calls |-> calls, bound |-> {}, full |-> FALSE, stale |-> FALSE]
Warm(calls) == [calls |-> calls, bound |-> Syms, full |-> FALSE, stale |-> FALSE]

\* All pairs of calls against one another; with a fork, before and after the
\* symbols are bound; with a full disk, and with a stale index on the capture file.
MCApplications ==
  {Warm(Calls \ {"fork"}),
   Warm({"fork", "close", "connect", "sendto"}),
   Fresh({"fork", "close", "connect"}),
   Fresh({"fork", "socket", "getname"}),
   Fresh({"fork", "send"}),
   [Warm({"connect", "close"}) EXCEPT !.full = TRUE],
   [Warm({"fork", "bind", "sockopt"}) EXCEPT !.stale = TRUE]}

\* All symbols are bound: nothing but the fork and the calls themselves matters.
MCForkApplications == {Warm({"fork", "close", "send"})}

Symmetry == Permutations(Slots) \cup Permutations(Threads)

=============================================================================
