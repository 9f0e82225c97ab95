----------------------------- MODULE MCSwrapData ------------------------------
(* SwrapData for TLC: what the two ends do.                                   *)
EXTENDS SwrapData

Does(call, send, recv) == [call |-> call, send |-> send, recv |-> recv, addr |-> TRUE]
Pair(c, s) == [e \in Ends |-> IF e = "client" THEN c ELSE s]

MCConfs ==
  {Pair(Does("send", "one", "one"), Does("send", "two", "two")),
   Pair(Does("sendto", "one", "two"), Does("send", "two", "one")),
   Pair(Does("send", "two", "gap"), [Does("send", "one", "one") EXCEPT !.addr = FALSE]),
   Pair(Does("sendto", "one", "one"), Does("sendto", "one", "two"))}

=============================================================================
