----------------------------- MODULE MCSwrapTable -----------------------------
(* SwrapTable for TLC: threads are interchangeable.  One application moves    *)
(* sockets around, one has descriptors closed where the library does not see  *)
(* it, and two copy what is no socket, so that indexes are left behind.  An   *)
(* application with "hidden", "accept" and "dup" can make a reference count   *)
(* grow for ever: accept() overwrites an index that is left (3414).           *)
EXTENDS SwrapTable, TLC

MCApplications ==
  {[ops |-> {"socket", "accept", "close", "dup", "dupfd", "dup2"}, limit |-> 3],
   [ops |-> {"socket", "accept", "close", "plain", "hidden"}, limit |-> 2],
   [ops |-> {"socket", "accept", "close", "dup", "dup2", "plain"}, limit |-> 2],
   [ops |-> {"socket", "close", "dup", "dup2", "plain", "signalfd", "hidden"},
    limit |-> 2]}

Symmetry == Permutations(Threads)

=============================================================================
