--------------------------------- MODULE Ping ---------------------------------
(***************************************************************************)
(* ping.c: the thread that pings the gateway.                              *)
(*                                                                         *)
(* In each round ping_thread sends one echo request, numbered by a counter *)
(* that wraps, reads its raw ICMP socket until it finds the answer or a    *)
(* read times out, and sleeps.  The socket gets every ICMP packet for this *)
(* host, also while the thread sleeps: answers that are late or doubled,   *)
(* the requests of another host that runs the same program, and traffic    *)
(* that has nothing to do with it.                                         *)
(***************************************************************************)
EXTENDS Naturals, Sequences

CONSTANTS
  SeqSize,  \* ping_seq_num is a u16_t: 2^16
  MaxAge,   \* rounds after which a request and its answers are gone
  Mbox      \* packets the socket keeps (DEFAULT_RAW_RECVMBOX_SIZE)

\* A round takes at least PING_DELAY: the network forgets a packet, and the socket
\* is read to its end, long before the numbers wrap.
ASSUME PingAssumption ==
  /\ {SeqSize, MaxAge, Mbox} \subseteq Nat
  /\ Mbox > 0
  /\ MaxAge + Mbox < SeqSize

VARIABLES
  pc,            \* where the thread is
  timed,         \* setsockopt(SO_RCVTIMEO) has worked
  ping_seq_num,
  flying,        \* the requests that may still be answered, by the rounds since
  mbox,          \* the packets in the socket
  end            \* what ended the last ping_recv

pingVars == <<pc, timed, ping_seq_num, flying, mbox, end>>

\* Answers also say how many rounds ago their request was sent.
Reply(age) == [type |-> "ER", seqno |-> (ping_seq_num + SeqSize - age) % SeqSize,
               age |-> age]
Request(n) == [type |-> "ECHO", seqno |-> n, age |-> 0]
Other == [type |-> "other", seqno |-> 0, age |-> 0]
Nothing == [type |-> "timeout", seqno |-> 0, age |-> 0]

PingInit ==
  /\ pc = "socket"
  /\ timed = FALSE
  /\ ping_seq_num = 0
  /\ flying = {}
  /\ mbox = <<>>
  /\ end = Nothing

-----------------------------------------------------------------------------
(* ping_thread *)

\* The thread gives up without a socket, and goes on without a timeout.
Open ==
  /\ pc = "socket"
  /\ \/ pc' = "gone" /\ UNCHANGED timed
     \/ pc' = "send" /\ timed' \in BOOLEAN
  /\ UNCHANGED <<ping_seq_num, flying, mbox, end>>

\* ping_send without memory for the request.
SendNoMemory ==
  /\ pc = "send"
  /\ pc' = "sleep"
  /\ end' = Nothing
  /\ UNCHANGED <<timed, ping_seq_num, flying, mbox>>

Older(p) == IF p.type = "ER" THEN [p EXCEPT !.age = @ + 1] ELSE p

\* ping_send.  An error of lwip_sendto (it returns -1) counts as success; ERR_VAL
\* is for 0, which it cannot return here.
Send ==
  /\ pc = "send"
  /\ pc' = "recv"
  /\ ping_seq_num' = (ping_seq_num + 1) % SeqSize
  /\ LET old == {a + 1 : a \in flying} \cap 0..MaxAge
     IN flying' \in {old, old \cup {0}}
  /\ mbox' = [i \in DOMAIN mbox |-> Older(mbox[i])]
  /\ UNCHANGED <<timed, end>>

\* Mutant of Matches: any answer to this program's requests will do.
MatchesAny(p) == p.type \in {"ER", "ECHO"}

\* The id is PING_ID, which is every such program's, and the number the last one;
\* requests match like answers.
Matches(p) == p.type \in {"ER", "ECHO"} /\ p.seqno = ping_seq_num

\* Mutant of Goes: the first packet decides.
GoesNever(p) == FALSE

\* ping_recv reads on after a packet that is not the answer.
Goes(p) == ~Matches(p)

\* ping_recv, a packet is read: PING_RESULT says whether it was an answer.
Recv ==
  /\ pc = "recv" /\ mbox # <<>>
  /\ mbox' = Tail(mbox)
  /\ IF Goes(Head(mbox))
       THEN UNCHANGED <<pc, end>>
       ELSE pc' = "sleep" /\ end' = Head(mbox)
  /\ UNCHANGED <<timed, ping_seq_num, flying>>

\* Mutant of AfterTimeout: the read is tried again.
AfterTimeoutAgain == "recv"

\* A read that times out ends ping_recv.
AfterTimeout == "sleep"

\* Every read has the whole of PING_RCV_TIMEO.
Timeout ==
  /\ pc = "recv" /\ mbox = <<>> /\ timed
  /\ pc' = AfterTimeout
  /\ end' = Nothing
  /\ UNCHANGED <<timed, ping_seq_num, flying, mbox>>

Wake ==
  /\ pc = "sleep"
  /\ pc' = "send"
  /\ UNCHANGED <<timed, ping_seq_num, flying, mbox, end>>

-----------------------------------------------------------------------------
(* The network and lwIP *)

\* A packet that does not fit into the socket is dropped.
Arrive(p) ==
  /\ pc \notin {"socket", "gone"}
  /\ mbox' = IF Len(mbox) < Mbox THEN Append(mbox, p) ELSE mbox
  /\ UNCHANGED <<pc, timed, ping_seq_num, end>>

\* An answer, which may be the first of two.
Answer(age) ==
  /\ age \in flying
  /\ Arrive(Reply(age))
  /\ flying' \in {flying, flying \ {age}}

Unrelated ==
  /\ \E p \in {Request(n) : n \in 0..SeqSize - 1} \cup {Other} : Arrive(p)
  /\ UNCHANGED flying

Thread == Open \/ SendNoMemory \/ Send \/ Recv \/ Timeout \/ Wake
PingNext == Thread \/ (\E age \in 0..MaxAge : Answer(age)) \/ Unrelated
PingSpec == PingInit /\ [][PingNext]_pingVars

\* The thread runs when it can; the network owes nothing.
PingFairSpec == PingSpec /\ WF_pingVars(Thread)

-----------------------------------------------------------------------------
(* Properties *)

PingTypeOK ==
  /\ pc \in {"socket", "gone", "send", "recv", "sleep"}
  /\ timed \in BOOLEAN
  /\ ping_seq_num \in 0..SeqSize - 1
  /\ flying \subseteq 0..MaxAge
  /\ Len(mbox) <= Mbox

\* A round is reported as a success only for the answer to its own request: a late
\* or doubled answer to an earlier one, which may have waited in the socket for as
\* many rounds as it holds packets, is never taken for it, also when the numbers
\* have wrapped.
SuccessIsCurrent == end.type = "ER" => end.age = 0

\* A round fails with the answer to its request unread in the socket only when the
\* request of another such program with the same number was in front of it.
MissedOnlyForTwin ==
  [][pc = "recv" /\ pc' = "sleep" /\ end'.type # "ER" =>
       \/ end'.type = "ECHO" /\ end'.seqno = ping_seq_num
       \/ \A i \in DOMAIN mbox : ~(mbox[i].type = "ER" /\ mbox[i].age = 0)]_pingVars

\* Every round ends: an answer that is lost or late does not keep the thread from
\* the next one.  (Other packets do as long as they keep coming, since each starts
\* the timeout anew, and so does a socket whose timeout could not be set.)
RoundsEnd ==
  \/ []<>(pc # "recv")
  \/ <>[](~timed)
  \/ []<><<Unrelated \/ \E age \in 0..MaxAge : Answer(age)>>_pingVars
=============================================================================
