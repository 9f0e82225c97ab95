--------------------------- MODULE BoundedChannel ---------------------------
(***************************************************************************)
(* What an AF_XDP descriptor ring promises to its two users, with no       *)
(* index, no slot and no cached copy in sight: a FIFO channel of bounded   *)
(* capacity to which a producer appends a batch of entries at once and     *)
(* from which a consumer takes a batch of the oldest entries at once.      *)
(* XskRing is shown to implement it.                                       *)
(***************************************************************************)
EXTENDS Naturals, Sequences, SequencesExt

CONSTANTS
  Capacity,   \* the most entries the channel holds
  MaxBatch,   \* the most entries one call moves
  Entries     \* what an entry may be

VARIABLES
  chan,       \* the entries sent and not yet received, oldest first
  received    \* what the last receive call handed to its caller

vars == <<chan, received>>

Init ==
  /\ chan = <<>>
  /\ received = <<>>

Send ==
  \E batch \in BoundedSeq(Entries, MaxBatch) :
    /\ batch # <<>>
    /\ Len(chan) + Len(batch) <= Capacity
    /\ chan' = chan \o batch
    /\ UNCHANGED received

Receive ==
  \E n \in 1..MaxBatch :
    /\ n <= Len(chan)
    /\ received' = SubSeq(chan, 1, n)
    /\ chan' = SubSeq(chan, n + 1, Len(chan))

Next == Send \/ Receive

Spec == Init /\ [][Next]_vars

=============================================================================
