----------------------------- MODULE MCSwrapSocket -----------------------------
(* SwrapSocket for TLC: sockets are interchangeable. *)
EXTENDS SwrapSocket, TLC

MCBindNames == {Name("any", 0), Name("lo", 10)}
MCConnectTargets == {Name("lo", 5), Name("lo", 10)}
MCSendTargets == MCConnectTargets \cup {Name("bcast", 5)}
MCMaxOpen == [tcp |-> 3, udp |-> 2]

Symmetry == Permutations(Socks)

=============================================================================
