---------------------------- MODULE MCXdpDispatch ----------------------------
(* XdpDispatch for TLC: processes and CPUs are interchangeable. *)
EXTENDS XdpDispatch, TLC

Symmetry == Permutations(Procs) \cup Permutations(Cpus)

=============================================================================
