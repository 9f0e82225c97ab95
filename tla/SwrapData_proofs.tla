--------------------------- MODULE SwrapData_proofs ---------------------------
(***************************************************************************)
(* Proofs about SwrapData, for every MTU, kernel buffer, length of the     *)
(* streams, number of failures and behaviour of the two ends that          *)
(* SwrapDataAssumption allows.                                             *)
(***************************************************************************)
EXTENDS SwrapData, SequenceTheorems, FiniteSetTheorems, TLAPS

-----------------------------------------------------------------------------
(* Lists of buffers *)

LEMMA Params ==
  /\ Mtu \in Nat /\ Mtu > 0 /\ Bytes \in Nat /\ Bytes > 0 /\ Capacity \in Nat
  /\ MaxFailures \in Nat
BY SwrapDataAssumption

LEMMA TwoEnds ==
  ASSUME NEW e \in Ends
  PROVE  Peer(e) \in Ends /\ Peer(e) # e /\ Peer(Peer(e)) = e
BY DEF Peer, Ends

LEMMA MinOfTwo ==
  ASSUME NEW a \in Int, NEW b \in Int
  PROVE  Min({a, b}) \in Int /\ Min({a, b}) <= a /\ Min({a, b}) <= b
<1>1. \E x \in {a, b} : \A y \in {a, b} : x <= y
  BY SMT
<1> QED BY <1>1 DEF Min

LEMMA MaxOfTwo ==
  ASSUME NEW a \in Int
  PROVE  Max({a, 0}) = IF a > 0 THEN a ELSE 0
<1>1. \E x \in {a, 0} : \A y \in {a, 0} : x >= y
  BY SMT
<1> QED BY <1>1 DEF Max

\* The MTU loops cut a list to a beginning of it, and leave something of a request
\* unless it stalls.
LEMMA CutProperties ==
  ASSUME NEW shape \in Shapes, NEW n \in Nat, n > 0
  PROVE  LET iov == Buffers(shape, n)
         IN /\ Cut(iov) \in Seq(Nat)
            /\ Total(Cut(iov)) \in 0..n
            /\ ~Stalls(iov) => Total(Cut(iov)) > 0
<1> DEFINE iov == Buffers(shape, n)
           long == {i \in DOMAIN iov : iov[i] > Mtu}
<1>1. \A a \in Nat : /\ <<a>> \in Seq(Nat) /\ Len(<<a>>) = 1 /\ <<a>>[1] = a
                     /\ DOMAIN <<a>> = {1}
  OBVIOUS
<1>2. \A a, b \in Nat : /\ <<a, b>> \in Seq(Nat) /\ Len(<<a, b>>) = 2
                        /\ <<a, b>>[1] = a /\ <<a, b>>[2] = b
                        /\ DOMAIN <<a, b>> = {1, 2}
  OBVIOUS
<1>3. CASE long = {}
  <2>1. Cut(iov) = iov
    BY <1>3 DEF Cut
  <2>2. iov \in Seq(Nat) /\ Total(iov) = n
    BY <1>1, <1>2 DEF Buffers, Shapes, Total
  <2> QED BY <2>1, <2>2
<1>4. CASE 1 \in long
  <2>1. Min(long) = 1
    <3>1. \A i \in long : i \in {1, 2}
      BY <1>1, <1>2 DEF Buffers, Shapes
    <3> QED BY <1>4, <3>1 DEF Min
  <2>2. Cut(iov) = <<Mtu>>
    BY <1>4, <2>1 DEF Cut
  <2>3. Mtu < n
    BY <1>1, <1>2, <1>4, Params DEF Buffers, Shapes
  <2>4. Total(<<Mtu>>) = Mtu
    BY <1>1, Params DEF Total
  <2> QED BY <1>1, <2>2, <2>3, <2>4, Params
<1>5. CASE long # {} /\ 1 \notin long
  <2>1. 2 \in long /\ Len(iov) = 2 /\ iov[1] \in Nat /\ iov[1] <= n /\ iov \in Seq(Nat)
        /\ DOMAIN iov = {1, 2}
    BY <1>1, <1>2, <1>5 DEF Buffers, Shapes
  <2>2. long = {2}
    BY <1>5, <2>1
  <2>3. Min(long) = 2
    BY <2>2 DEF Min
  <2>4. Cut(iov) = SubSeq(iov, 1, 1)
    BY <1>5, <2>3 DEF Cut
  <2>5. SubSeq(iov, 1, 1) \in Seq(Nat) /\ Len(SubSeq(iov, 1, 1)) = 1
        /\ SubSeq(iov, 1, 1)[1] = iov[1]
    <3>1. \A i \in 1..1 : iov[i] \in Nat
      BY <2>1
    <3> QED BY <3>1, SubSeqProperties
  <2>6. Total(SubSeq(iov, 1, 1)) = iov[1]
    BY <2>1, <2>5 DEF Total
  <2>7. ~Stalls(iov) => iov[1] > 0
    BY <2>1 DEF Stalls
  <2> QED BY <2>1, <2>4, <2>5, <2>6, <2>7
<1> QED BY <1>3, <1>4, <1>5

-----------------------------------------------------------------------------
(* The stream *)

TypeInv ==
  /\ conf \in [Ends -> [call : {"sendto", "send"}, send : Shapes,
                        recv : Shapes, addr : BOOLEAN]]
  /\ conf \in Confs
  /\ sent \in [Ends -> Nat] /\ taken \in [Ends -> Nat]
  /\ shut \subseteq Ends /\ locked \subseteq Ends /\ ended \subseteq Ends
  /\ closed \subseteq Ends
  /\ failures \in Nat
  /\ snd \in [Ends -> Int] /\ rcv \in [Ends -> Int]
  /\ pcS \in [Ends -> {"connect", "connected", "accept", "idle", "enter", "libc",
                       "after"}]
  /\ pcR \in [Ends -> {"wait", "idle", "libc", "after"}]
  /\ iovS \in [Ends -> Seq(Nat)] /\ iovR \in [Ends -> Seq(Nat)]
  /\ retS \in [Ends -> Int] /\ retR \in [Ends -> Nat]
  /\ told \in [Ends -> Nat] /\ got \in [Ends -> Nat] /\ dropped \in [Ends -> Nat]

\* What the caller was told it has sent is what the kernel has taken, but for the
\* call under way; no call asks for more than is left; an end that has shut down
\* its side has sent everything.
Moved(e) == IF pcS[e] = "after" /\ retS[e] > 0 THEN retS[e] ELSE 0
SendInv(e) ==
  /\ sent[e] = told[e] + Moved(e)
  /\ told[e] <= Bytes
  /\ pcS[e] \in {"enter", "libc", "after"} =>
       Total(iovS[e]) \in Nat /\ told[e] + Total(iovS[e]) <= Bytes
  /\ pcS[e] = "after" => retS[e] >= -1 /\ retS[e] <= Total(iovS[e])
  /\ e \in shut => pcS[e] = "idle" /\ told[e] = Bytes

\* What was taken was received or dropped, but for the call under way; zero means
\* that nothing was asked for or nothing will come.
Done(p) == p \in shut /\ taken[p] = sent[p]
Coming(e) == IF pcR[e] = "after" THEN retR[e] ELSE 0
RecvInv(e) ==
  /\ taken[Peer(e)] = got[e] + dropped[e] + Coming(e)
  /\ taken[Peer(e)] <= sent[Peer(e)]
  /\ pcR[e] \in {"libc", "after"} => iovR[e] = Cut(Asked(e))
  /\ pcR[e] = "after" => retR[e] <= Total(iovR[e])
  /\ pcR[e] = "after" /\ retR[e] = 0 => Total(iovR[e]) = 0 \/ Done(Peer(e))
  /\ e \in ended => /\ pcR[e] = "idle"
                    /\ Stalls(Asked(e)) \/ Done(Peer(e))

\* Receiving starts when the connection stands.
StartInv ==
  /\ pcS["client"] # "accept" /\ pcS["server"] \notin {"connect", "connected"}
  /\ pcR["client"] = "wait" <=> pcS["client"] \in {"connect", "connected"}
  /\ pcR["server"] = "wait" <=> pcS["server"] = "accept"

StreamInv == TypeInv /\ StartInv /\ \A e \in Ends : SendInv(e) /\ RecvInv(e)

LEMMA StreamInit == Init => StreamInv
<1> SUFFICES ASSUME Init PROVE StreamInv
  OBVIOUS
<1>1. TypeInv
  <2>1. conf \in [Ends -> [call : {"sendto", "send"}, send : Shapes,
                           recv : Shapes, addr : BOOLEAN]]
    BY SwrapDataAssumption DEF Init
  <2>2. <<>> \in Seq(Nat)
    BY EmptySeq
  <2> QED BY <2>1, <2>2 DEF Init, TypeInv
<1>2. ASSUME NEW e \in Ends PROVE SendInv(e) /\ RecvInv(e)
  BY TwoEnds, Params DEF Init, SendInv, RecvInv, Moved, Coming
<1>3. StartInv
  BY DEF Init, StartInv, Ends
<1> QED BY <1>1, <1>2, <1>3 DEF StreamInv

\* Requests are lists of numbers, and no longer than what is left.
LEMMA SendRequest ==
  ASSUME TypeInv, NEW e \in Ends, told[e] < Bytes
  PROVE  LET iov == Cut(Buffers(conf[e].send, Bytes - told[e]))
         IN iov \in Seq(Nat) /\ Total(iov) \in Nat /\ told[e] + Total(iov) <= Bytes
<1>1. /\ conf[e].send \in Shapes /\ told[e] \in Nat
      /\ Bytes - told[e] \in Nat /\ Bytes - told[e] > 0
  BY Params DEF TypeInv
<1> DEFINE iov == Cut(Buffers(conf[e].send, Bytes - told[e]))
<1>2. iov \in Seq(Nat) /\ Total(iov) \in 0..Bytes - told[e]
  BY <1>1, CutProperties
<1> HIDE DEF iov
<1>3. Total(iov) \in Nat /\ told[e] + Total(iov) <= Bytes
  BY <1>1, <1>2, Params
<1> QED BY <1>2, <1>3 DEF iov

LEMMA RecvRequest ==
  ASSUME TypeInv, NEW e \in Ends
  PROVE  /\ Cut(Asked(e)) \in Seq(Nat) /\ Total(Cut(Asked(e))) \in Nat
         /\ ~Stalls(Asked(e)) => Total(Cut(Asked(e))) > 0
<1>1. conf[e].recv \in Shapes
  BY DEF TypeInv
<1> QED BY <1>1, CutProperties, Params DEF Asked

\* Record adds numbers, whichever packets there are.
Handshakes == {"CONNECT_SEND", "CONNECT_UNREACH", "CONNECT_RECV", "CONNECT_ACK",
               "ACCEPT_SEND", "ACCEPT_RECV", "ACCEPT_ACK", "SEND", "SEND_RST",
               "RECV", "RECV_RST", "CLOSE_SEND", "CLOSE_RECV", "CLOSE_ACK"}
LEMMA RecordTypes ==
  ASSUME TypeInv, NEW e \in Ends, NEW P, P \subseteq Handshakes, NEW n \in Int, Record(e, P, n)
  PROVE  snd' \in [Ends -> Int] /\ rcv' \in [Ends -> Int]
<1>1. Cardinality(P \cap OneSent) \in Nat /\ Cardinality(P \cap OneReceived) \in Nat
  <2>1. IsFiniteSet(OneSent) /\ IsFiniteSet(OneReceived)
    <3>1. ASSUME NEW x, NEW y, NEW z PROVE IsFiniteSet({x, y, z})
      <4>1. IsFiniteSet({x}) /\ IsFiniteSet({x} \cup {y})
        BY FS_Singleton, FS_Union
      <4>2. IsFiniteSet({x} \cup {y} \cup {z})
        BY <4>1, FS_Singleton, FS_Union
      <4>3. {x} \cup {y} \cup {z} = {x, y, z}
        OBVIOUS
      <4> QED BY <4>2, <4>3
    <3> QED BY <3>1 DEF OneSent, OneReceived
  <2>2. IsFiniteSet(P \cap OneSent) /\ IsFiniteSet(P \cap OneReceived)
    BY <2>1, FS_Intersection
  <2> QED BY <2>2, FS_CardinalityType
<1> DEFINE a == Cardinality(P \cap OneSent)
           b == Cardinality(P \cap OneReceived)
           c == IF "SEND" \in P THEN n ELSE 0
           d == IF "RECV" \in P THEN n ELSE 0
<1>2. /\ snd' = [snd EXCEPT ![e] = snd[e] + a + c]
      /\ rcv' = [rcv EXCEPT ![e] = rcv[e] + b + d]
      /\ a \in Int /\ b \in Int /\ c \in Int /\ d \in Int
  BY <1>1 DEF Record
<1>3. snd[e] \in Int /\ rcv[e] \in Int
  BY DEF TypeInv
<1> HIDE DEF a, b, c, d
<1>4. snd[e] + a + c \in Int /\ rcv[e] + b + d \in Int
  BY <1>2, <1>3
<1> QED BY <1>2, <1>4 DEF TypeInv

LEMMA RecordSent ==
  ASSUME TypeInv, NEW e \in Ends, NEW n \in Int,
         \/ Record(e, {"CONNECT_SEND"}, n)
         \/ Record(e, {"CONNECT_SEND", "CONNECT_UNREACH"}, n)
         \/ Record(e, {"CONNECT_RECV", "CONNECT_ACK"}, n)
         \/ Record(e, {"ACCEPT_SEND", "ACCEPT_RECV", "ACCEPT_ACK"}, n)
         \/ Record(e, {}, n)
         \/ Record(e, {"SEND"}, n) \/ Record(e, {"SEND", "SEND_RST"}, n)
         \/ Record(e, {"RECV"}, n) \/ Record(e, {"RECV_RST"}, n)
         \/ Record(e, {"CLOSE_SEND", "CLOSE_RECV", "CLOSE_ACK"}, n)
  PROVE  snd' \in [Ends -> Int] /\ rcv' \in [Ends -> Int]
<1>1. PICK P \in SUBSET Handshakes : Record(e, P, n)
  <2>1. /\ {"CONNECT_SEND"} \in SUBSET Handshakes
        /\ {"CONNECT_SEND", "CONNECT_UNREACH"} \in SUBSET Handshakes
        /\ {"CONNECT_RECV", "CONNECT_ACK"} \in SUBSET Handshakes
        /\ {"ACCEPT_SEND", "ACCEPT_RECV", "ACCEPT_ACK"} \in SUBSET Handshakes
        /\ {} \in SUBSET Handshakes
        /\ {"SEND"} \in SUBSET Handshakes /\ {"SEND", "SEND_RST"} \in SUBSET Handshakes
        /\ {"RECV"} \in SUBSET Handshakes /\ {"RECV_RST"} \in SUBSET Handshakes
        /\ {"CLOSE_SEND", "CLOSE_RECV", "CLOSE_ACK"} \in SUBSET Handshakes
    BY DEF Handshakes
  <2> QED BY <2>1, Zenon
<1> QED BY <1>1, RecordTypes

\* Connecting moves no data.
LEMMA StreamConnect ==
  ASSUME StreamInv, Connect \/ Connected \/ Accept
  PROVE  StreamInv'
<1> USE DEF kernelVars, senderVars, receiverVars, captureVars, StreamInv
<1>1. "client" \in Ends /\ "server" \in Ends
  BY DEF Ends
<1>2. snd' \in [Ends -> Int] /\ rcv' \in [Ends -> Int]
  <2>1. PICK e \in Ends : \/ Record(e, {"CONNECT_SEND"}, 0)
                          \/ Record(e, {"CONNECT_SEND", "CONNECT_UNREACH"}, 0)
                          \/ Record(e, {"CONNECT_RECV", "CONNECT_ACK"}, 0)
                          \/ Record(e, {"ACCEPT_SEND", "ACCEPT_RECV", "ACCEPT_ACK"}, 0)
                          \/ Record(e, {}, 0)
    <3>1. CASE Connect
      BY <1>1, <3>1, Zenon DEF Connect
    <3>2. CASE Connected
      BY <1>1, <3>2, Zenon DEF Connected
    <3>3. CASE Accept
      BY <1>1, <3>3, Zenon DEF Accept
    <3> QED BY <3>1, <3>2, <3>3
  <2> QED BY <2>1, RecordSent
<1>3. /\ UNCHANGED <<conf, kernelVars, locked, iovS, retS, told, iovR, retR, got, ended,
                     dropped, closed>>
      /\ failures' \in Nat
  <2>1. failures \in Nat
    BY DEF TypeInv
  <2>2. failures' = failures \/ failures' = failures + 1
    BY DEF Connect, Connected, Accept
  <2>3. UNCHANGED <<conf, kernelVars, locked, iovS, retS, told, iovR, retR, got, ended,
                    dropped, closed>>
    BY DEF Connect, Connected, Accept
  <2> QED BY <2>1, <2>2, <2>3
<1>4. /\ pcS' \in [Ends -> {"connect", "connected", "accept", "idle", "enter", "libc",
                            "after"}]
      /\ pcR' \in [Ends -> {"wait", "idle", "libc", "after"}]
      /\ StartInv'
      /\ \A e \in Ends :
           \/ pcS'[e] = pcS[e] /\ pcR'[e] = pcR[e]
           \/ /\ pcS[e] \in {"connect", "connected", "accept"} /\ pcR[e] = "wait"
              /\ pcS'[e] \in {"connected", "idle"} /\ pcR'[e] \in {"wait", "idle"}
  <2>1. CASE Connect
    BY <1>1, <2>1 DEF Connect, TypeInv, StartInv
  <2>2. CASE Connected
    BY <1>1, <2>2 DEF Connected, TypeInv, StartInv
  <2>3. CASE Accept
    BY <1>1, <2>3 DEF Accept, TypeInv, StartInv
  <2> QED BY <2>1, <2>2, <2>3
<1>5. TypeInv'
  BY <1>2, <1>3, <1>4 DEF TypeInv
<1>6. ASSUME NEW e \in Ends
      PROVE  SendInv(e)' /\ RecvInv(e)'
  BY <1>3, <1>4, TwoEnds DEF SendInv, RecvInv, Moved, Coming, Done, Asked
<1> QED BY <1>4, <1>5, <1>6

\* A step of the sender of e: the other end is the same, and sees no more than that
\* the stream has grown before it was shut down.
LEMMA SenderStep ==
  ASSUME StreamInv, NEW e \in Ends, TypeInv', SendInv(e)',
         \A d \in Ends \ {e} :
           /\ pcS'[d] = pcS[d] /\ iovS'[d] = iovS[d] /\ retS'[d] = retS[d]
           /\ told'[d] = told[d] /\ sent'[d] = sent[d]
           /\ d \in shut' <=> d \in shut,
         pcS[e] \in {"idle", "enter", "libc", "after"},
         pcS'[e] \in {"idle", "enter", "libc", "after"},
         UNCHANGED <<conf, taken, receiverVars>>,
         sent'[e] >= sent[e],
         e \in shut => e \in shut' /\ sent'[e] = sent[e]
  PROVE  StreamInv'
<1> USE DEF StreamInv, receiverVars
<1>1. StartInv'
  BY DEF StartInv, Ends, TypeInv
<1>2. ASSUME NEW d \in Ends PROVE SendInv(d)'
  <2>1. CASE d = e
    BY <2>1
  <2>2. CASE d # e
    BY <2>2 DEF SendInv, Moved
  <2> QED BY <2>1, <2>2
<1>3. ASSUME NEW d \in Ends PROVE RecvInv(d)'
  <2>1. /\ Peer(d) \in Ends
        /\ sent'[Peer(d)] >= sent[Peer(d)]
        /\ Peer(d) \in shut => Peer(d) \in shut' /\ sent'[Peer(d)] = sent[Peer(d)]
    <3>1. Peer(d) \in Ends
      BY TwoEnds
    <3>2. CASE Peer(d) = e
      BY <3>1, <3>2
    <3>3. CASE Peer(d) # e
      <4>1. sent[Peer(d)] \in Nat
        BY <3>1 DEF TypeInv
      <4>2. sent'[Peer(d)] = sent[Peer(d)] /\ (Peer(d) \in shut' <=> Peer(d) \in shut)
        BY <3>1, <3>3
      <4> QED BY <3>1, <4>1, <4>2
    <3> QED BY <3>1, <3>2, <3>3
  <2>2. taken[Peer(d)] \in Nat /\ sent[Peer(d)] \in Nat /\ sent'[Peer(d)] \in Nat
    BY <2>1 DEF TypeInv
  <2>3. Done(Peer(d)) => Done(Peer(d))'
    BY <2>1 DEF Done
  <2>4. RecvInv(d)
    OBVIOUS
  <2> QED BY <2>1, <2>2, <2>3, <2>4 DEF RecvInv, Coming, Asked
<1> QED BY <1>1, <1>2, <1>3

\* A step of the receiver of e.
LEMMA ReceiverStep ==
  ASSUME StreamInv, NEW e \in Ends, TypeInv', RecvInv(e)',
         \A d \in Ends \ {e} :
           /\ pcR'[d] = pcR[d] /\ iovR'[d] = iovR[d] /\ retR'[d] = retR[d]
           /\ got'[d] = got[d] /\ dropped'[d] = dropped[d]
           /\ taken'[Peer(d)] = taken[Peer(d)]
           /\ d \in ended' <=> d \in ended,
         pcR[e] \in {"idle", "libc", "after"},
         pcR'[e] \in {"idle", "libc", "after"},
         UNCHANGED <<conf, sent, shut, senderVars>>
  PROVE  StreamInv'
<1> USE DEF StreamInv, senderVars
<1>1. StartInv'
  BY DEF StartInv, Ends, TypeInv
<1>2. ASSUME NEW d \in Ends PROVE SendInv(d)'
  BY DEF SendInv, Moved
<1>3. ASSUME NEW d \in Ends PROVE RecvInv(d)'
  <2>1. CASE d = e
    BY <2>1
  <2>2. CASE d # e
    BY <2>2 DEF RecvInv, Coming, Done, Asked
  <2> QED BY <2>1, <2>2
<1> QED BY <1>1, <1>2, <1>3

LEMMA StreamSendBefore ==
  ASSUME StreamInv, NEW e \in Ends, SendBefore(e)
  PROVE  StreamInv'
<1> USE DEF kernelVars, receiverVars, captureVars
<1>0. TypeInv /\ SendInv(e)
  BY DEF StreamInv
<1> DEFINE iov == Cut(Buffers(conf[e].send, Bytes - told[e]))
<1>1. iov \in Seq(Nat) /\ Total(iov) \in Nat /\ told[e] + Total(iov) <= Bytes
  BY <1>0, SendRequest DEF SendBefore
<1>2. /\ pcS[e] = "idle" /\ pcS' = [pcS EXCEPT ![e] = "enter"]
      /\ iovS' = [iovS EXCEPT ![e] = iov]
      /\ UNCHANGED <<conf, sent, taken, shut, locked, failures, snd, rcv, retS, told,
                     receiverVars, closed>>
      /\ told[e] < Bytes
  BY <1>0 DEF SendBefore
<1> HIDE DEF iov
<1>3. TypeInv'
  BY <1>0, <1>1, <1>2 DEF TypeInv
<1>4. SendInv(e)'
  <2>1. /\ pcS'[e] = "enter" /\ iovS'[e] = iov /\ told'[e] = told[e] /\ sent'[e] = sent[e]
    BY <1>0, <1>2 DEF TypeInv
  <2>2. told[e] \in Nat /\ sent[e] = told[e] /\ e \notin shut /\ shut' = shut
    BY <1>0, <1>2, Params DEF TypeInv, SendInv, Moved
  <2>3. Total(iovS[e])' = Total(iov)
    BY <2>1 DEF Total
  <2> QED BY <1>1, <1>2, <2>1, <2>2, <2>3, Params DEF SendInv, Moved
<1>8. \A d \in Ends \ {e} :
        /\ pcS'[d] = pcS[d] /\ iovS'[d] = iovS[d] /\ retS'[d] = retS[d]
        /\ told'[d] = told[d] /\ sent'[d] = sent[d]
        /\ d \in shut' <=> d \in shut
  BY <1>0, <1>2, <1>3, <1>4 DEF TypeInv
<1>9. /\ pcS[e] \in {"idle", "enter", "libc", "after"}
      /\ pcS'[e] \in {"idle", "enter", "libc", "after"}
      /\ sent'[e] >= sent[e]
      /\ e \in shut => e \in shut' /\ sent'[e] = sent[e]
  BY <1>0, <1>2, <1>3, <1>4 DEF TypeInv
<1> QED BY <1>2, <1>3, <1>4, <1>8, <1>9, SenderStep

LEMMA StreamSendEnter ==
  ASSUME StreamInv, NEW e \in Ends, SendEnter(e)
  PROVE  StreamInv'
<1> USE DEF kernelVars, receiverVars, captureVars
<1>0. TypeInv /\ SendInv(e)
  BY DEF StreamInv
<1>1. /\ pcS[e] = "enter" /\ pcS' = [pcS EXCEPT ![e] = "libc"]
      /\ locked' \subseteq Ends
      /\ UNCHANGED <<conf, sent, taken, shut, failures, snd, rcv, iovS, retS, told,
                     receiverVars, closed>>
  BY <1>0 DEF SendEnter, TypeInv
<1>2. TypeInv'
  BY <1>0, <1>1 DEF TypeInv
<1>3. SendInv(e)'
  <2>1. pcS'[e] = "libc"
    BY <1>0, <1>1 DEF TypeInv
  <2> QED BY <1>0, <1>1, <2>1 DEF SendInv, Moved
<1>8. \A d \in Ends \ {e} :
        /\ pcS'[d] = pcS[d] /\ iovS'[d] = iovS[d] /\ retS'[d] = retS[d]
        /\ told'[d] = told[d] /\ sent'[d] = sent[d]
        /\ d \in shut' <=> d \in shut
  BY <1>0, <1>1, <1>2, <1>3 DEF TypeInv
<1>9. /\ pcS[e] \in {"idle", "enter", "libc", "after"}
      /\ pcS'[e] \in {"idle", "enter", "libc", "after"}
      /\ sent'[e] >= sent[e]
      /\ e \in shut => e \in shut' /\ sent'[e] = sent[e]
  BY <1>0, <1>1, <1>2, <1>3 DEF TypeInv
<1> QED BY <1>1, <1>2, <1>3, <1>8, <1>9, SenderStep

LEMMA StreamSendLibc ==
  ASSUME StreamInv, NEW e \in Ends, SendLibc(e)
  PROVE  StreamInv'
<1> USE DEF kernelVars, receiverVars, captureVars
<1>0. TypeInv /\ SendInv(e)
  BY DEF StreamInv
<1>1. PICK n \in {-1} \cup Nat :
        /\ n # -1 => n <= Total(iovS[e]) /\ sent' = [sent EXCEPT ![e] = sent[e] + n]
        /\ n = -1 => sent' = sent
        /\ retS' = [retS EXCEPT ![e] = n]
        /\ failures' \in Nat
  <2>1. CASE failures' = failures + 1 /\ retS' = [retS EXCEPT ![e] = -1] /\ sent' = sent
    <3>1. failures' \in Nat
      BY <1>0, <2>1 DEF TypeInv
    <3> QED BY <2>1, <3>1
  <2>2. ASSUME NEW n \in 0..Min({Capacity - (sent[e] - taken[e]), Total(iovS[e])}),
               sent' = [sent EXCEPT ![e] = @ + n], retS' = [retS EXCEPT ![e] = n],
               failures' = failures
        PROVE  /\ n \in Nat /\ n <= Total(iovS[e])
               /\ sent' = [sent EXCEPT ![e] = sent[e] + n]
               /\ failures' \in Nat
    <3> DEFINE a == Capacity - (sent[e] - taken[e])
               b == Total(iovS[e])
    <3>1. a \in Int /\ b \in Int
      BY SMTT(30), <1>0, Params DEF SendLibc, TypeInv, SendInv
    <3>2. n \in 0..Min({a, b})
      OBVIOUS
    <3> HIDE DEF a, b
    <3>3. n \in Nat /\ n <= b
      <4>1. Min({a, b}) \in Int /\ Min({a, b}) <= b
        BY <3>1, MinOfTwo
      <4> QED BY <3>1, <3>2, <4>1
    <3> QED BY <1>0, <2>2, <3>3 DEF b, TypeInv
  <2>3. \/ \E n \in 0..Min({Capacity - (sent[e] - taken[e]), Total(iovS[e])}) :
             /\ sent' = [sent EXCEPT ![e] = @ + n] /\ retS' = [retS EXCEPT ![e] = n]
             /\ failures' = failures
        \/ failures' = failures + 1 /\ retS' = [retS EXCEPT ![e] = -1] /\ sent' = sent
    BY Zenon DEF SendLibc
  <2>4. ASSUME NEW n \in 0..Min({Capacity - (sent[e] - taken[e]), Total(iovS[e])}),
               sent' = [sent EXCEPT ![e] = @ + n], retS' = [retS EXCEPT ![e] = n],
               failures' = failures
        PROVE  \E k \in {-1} \cup Nat :
                 /\ k # -1 => k <= Total(iovS[e]) /\ sent' = [sent EXCEPT ![e] = sent[e] + k]
                 /\ k = -1 => sent' = sent
                 /\ retS' = [retS EXCEPT ![e] = k]
                 /\ failures' \in Nat
    <3>1. /\ n \in Nat /\ n <= Total(iovS[e])
          /\ sent' = [sent EXCEPT ![e] = sent[e] + n]
          /\ failures' \in Nat
      BY <2>2, <2>4
    <3>2. n # -1
      BY <3>1
    <3> QED BY <2>4, <3>1, <3>2, Zenon
  <2> QED BY <2>1, <2>3, <2>4
<1>2. /\ pcS[e] = "libc" /\ pcS' = [pcS EXCEPT ![e] = "after"]
      /\ locked' \subseteq Ends
      /\ UNCHANGED <<conf, taken, shut, snd, rcv, iovS, told, receiverVars, closed>>
  BY <1>0 DEF SendLibc, TypeInv
<1>3. sent' \in [Ends -> Nat]
  <2>1. sent[e] \in Nat /\ (n # -1 => sent[e] + n \in Nat)
    BY <1>0 DEF TypeInv
  <2> QED BY <1>0, <1>1, <2>1 DEF TypeInv
<1>4. TypeInv'
  <2>1. retS' \in [Ends -> Int]
    BY <1>0, <1>1 DEF TypeInv
  <2>2. pcS' \in [Ends -> {"connect", "connected", "accept", "idle", "enter", "libc",
                           "after"}]
    BY <1>0, <1>2 DEF TypeInv
  <2> QED BY <1>0, <1>1, <1>2, <1>3, <2>1, <2>2 DEF TypeInv
<1>5. sent'[e] = sent[e] + (IF n > 0 THEN n ELSE 0) /\ sent[e] \in Nat
  BY <1>0, <1>1 DEF TypeInv
<1>6. SendInv(e)'
  <2>1. pcS'[e] = "after" /\ retS'[e] = n
    BY <1>0, <1>1, <1>2 DEF TypeInv
  <2>2. sent[e] = told[e] /\ told[e] \in Nat /\ Total(iovS[e]) \in Nat /\ e \notin shut
        /\ told[e] + Total(iovS[e]) <= Bytes
    BY <1>0, <1>2 DEF TypeInv, SendInv, Moved
  <2> QED BY <1>0, <1>1, <1>2, <1>5, <2>1, <2>2, Params DEF SendInv, Moved
<1>7. e \notin shut
  BY <1>0, <1>2 DEF SendInv
<1>8. \A d \in Ends \ {e} :
        /\ pcS'[d] = pcS[d] /\ iovS'[d] = iovS[d] /\ retS'[d] = retS[d]
        /\ told'[d] = told[d] /\ sent'[d] = sent[d]
        /\ d \in shut' <=> d \in shut
  BY <1>0, <1>1, <1>2, <1>4, <1>5, <1>6, <1>7 DEF TypeInv
<1>9. /\ pcS[e] \in {"idle", "enter", "libc", "after"}
      /\ pcS'[e] \in {"idle", "enter", "libc", "after"}
      /\ sent'[e] >= sent[e]
      /\ e \in shut => e \in shut' /\ sent'[e] = sent[e]
  BY <1>0, <1>1, <1>2, <1>4, <1>5, <1>6, <1>7 DEF TypeInv
<1> QED BY <1>1, <1>2, <1>4, <1>5, <1>6, <1>7, <1>8, <1>9, SenderStep

LEMMA StreamSendAfter ==
  ASSUME StreamInv, NEW e \in Ends, SendAfter(e)
  PROVE  StreamInv'
<1> USE DEF kernelVars, receiverVars, captureVars
<1>0. TypeInv /\ SendInv(e)
  BY DEF StreamInv
<1>1. snd' \in [Ends -> Int] /\ rcv' \in [Ends -> Int] /\ failures' \in Nat
  <2>1. Recorded(e) \in Int
    BY <1>0 DEF Recorded, SendAfter, TypeInv, SendInv
  <2>2. \/ Record(e, {"SEND"}, Recorded(e)) \/ Record(e, {"SEND", "SEND_RST"}, Recorded(e))
        \/ UNCHANGED captureVars
    BY DEF SendAfter
  <2>3. failures' = failures \/ failures' = failures + 1
    BY DEF SendAfter
  <2>4. snd' \in [Ends -> Int] /\ rcv' \in [Ends -> Int]
    <3>1. CASE UNCHANGED captureVars
      BY <1>0, <3>1 DEF TypeInv
    <3> QED BY <2>1, <2>2, <3>1, RecordSent, <1>0
  <2> QED BY SMTT(30), <1>0, <2>3, <2>4 DEF TypeInv
<1>2. /\ pcS[e] = "after" /\ pcS' = [pcS EXCEPT ![e] = "idle"]
      /\ told' = [told EXCEPT ![e] = told[e] + Moved(e)]
      /\ iovS' = [iovS EXCEPT ![e] = <<>>] /\ retS' = [retS EXCEPT ![e] = 0]
      /\ UNCHANGED <<conf, sent, taken, shut, locked, receiverVars, closed>>
  <2>1. retS[e] \in Int
    BY <1>0 DEF TypeInv
  <2>2. pcS[e] = "after" => Max({retS[e], 0}) = Moved(e)
    BY <2>1, MaxOfTwo DEF Moved
  <2> QED BY <2>2 DEF SendAfter
<1>3. Moved(e) \in Nat /\ told[e] \in Nat /\ sent[e] = told[e] + Moved(e)
      /\ told[e] + Moved(e) <= Bytes /\ e \notin shut
  BY SMTT(30), <1>0, <1>2, Params DEF TypeInv, SendInv, Moved
<1>4. TypeInv'
  <2>1. told' \in [Ends -> Nat]
    BY <1>0, <1>2, <1>3 DEF TypeInv
  <2>2. iovS' \in [Ends -> Seq(Nat)]
    BY <1>0, <1>2, EmptySeq DEF TypeInv
  <2>3. retS' \in [Ends -> Int]
    BY <1>0, <1>2 DEF TypeInv
  <2>4. pcS' \in [Ends -> {"connect", "connected", "accept", "idle", "enter", "libc",
                           "after"}]
    BY <1>0, <1>2 DEF TypeInv
  <2> QED BY <1>0, <1>1, <1>2, <2>1, <2>2, <2>3, <2>4 DEF TypeInv
<1>5. SendInv(e)'
  <2>1. pcS'[e] = "idle" /\ told'[e] = told[e] + Moved(e)
    BY <1>0, <1>2 DEF TypeInv
  <2> QED BY <1>0, <1>2, <1>3, <2>1 DEF SendInv, Moved
<1>8. \A d \in Ends \ {e} :
        /\ pcS'[d] = pcS[d] /\ iovS'[d] = iovS[d] /\ retS'[d] = retS[d]
        /\ told'[d] = told[d] /\ sent'[d] = sent[d]
        /\ d \in shut' <=> d \in shut
  BY <1>0, <1>2, <1>3, <1>4, <1>5 DEF TypeInv
<1>9. /\ pcS[e] \in {"idle", "enter", "libc", "after"}
      /\ pcS'[e] \in {"idle", "enter", "libc", "after"}
      /\ sent'[e] >= sent[e]
      /\ e \in shut => e \in shut' /\ sent'[e] = sent[e]
  BY <1>0, <1>2, <1>3, <1>4, <1>5 DEF TypeInv
<1> QED BY <1>2, <1>3, <1>4, <1>5, <1>8, <1>9, SenderStep

LEMMA StreamShutdown ==
  ASSUME StreamInv, NEW e \in Ends, Shutdown(e)
  PROVE  StreamInv'
<1> USE DEF senderVars, receiverVars, captureVars
<1>0. TypeInv /\ SendInv(e)
  BY DEF StreamInv
<1>1. /\ pcS[e] = "idle" /\ told[e] = Bytes /\ shut' = shut \cup {e}
      /\ UNCHANGED <<conf, sent, taken, locked, failures, snd, rcv, senderVars,
                     receiverVars, closed>>
  BY DEF Shutdown
<1>2. TypeInv'
  BY <1>0, <1>1 DEF TypeInv
<1>3. SendInv(e)'
  BY <1>0, <1>1 DEF SendInv, Moved
<1>8. \A d \in Ends \ {e} :
        /\ pcS'[d] = pcS[d] /\ iovS'[d] = iovS[d] /\ retS'[d] = retS[d]
        /\ told'[d] = told[d] /\ sent'[d] = sent[d]
        /\ d \in shut' <=> d \in shut
  BY <1>0, <1>1, <1>2, <1>3 DEF TypeInv
<1>9. /\ pcS[e] \in {"idle", "enter", "libc", "after"}
      /\ pcS'[e] \in {"idle", "enter", "libc", "after"}
      /\ sent'[e] >= sent[e]
      /\ e \in shut => e \in shut' /\ sent'[e] = sent[e]
  BY <1>0, <1>1, <1>2, <1>3 DEF TypeInv
<1> QED BY <1>1, <1>2, <1>3, <1>8, <1>9, SenderStep

LEMMA StreamRecvBefore ==
  ASSUME StreamInv, NEW e \in Ends, RecvBefore(e)
  PROVE  StreamInv'
<1> USE DEF kernelVars, senderVars, captureVars
<1>0. TypeInv /\ RecvInv(e)
  BY DEF StreamInv
<1>1. /\ pcR[e] = "idle" /\ e \notin ended
      /\ iovR' = [iovR EXCEPT ![e] = Cut(Asked(e))]
      /\ pcR' = [pcR EXCEPT ![e] = "libc"]
      /\ UNCHANGED <<conf, sent, taken, shut, locked, failures, snd, rcv, senderVars,
                     retR, got, ended, dropped, closed>>
  BY DEF RecvBefore
<1>2. TypeInv'
  BY <1>0, <1>1, RecvRequest DEF TypeInv
<1>3. RecvInv(e)'
  <2>1. pcR'[e] = "libc" /\ iovR'[e] = Cut(Asked(e))
    BY <1>0, <1>1 DEF TypeInv
  <2>2. Asked(e)' = Asked(e)
    BY <1>1 DEF Asked
  <2> QED BY <1>0, <1>1, <2>1, <2>2 DEF RecvInv, Coming
<1>8. \A d \in Ends \ {e} :
        /\ pcR'[d] = pcR[d] /\ iovR'[d] = iovR[d] /\ retR'[d] = retR[d]
        /\ got'[d] = got[d] /\ dropped'[d] = dropped[d]
        /\ taken'[Peer(d)] = taken[Peer(d)]
        /\ d \in ended' <=> d \in ended
  BY <1>0, <1>1 DEF TypeInv
<1>9. /\ pcR[e] \in {"idle", "libc", "after"}
      /\ pcR'[e] \in {"idle", "libc", "after"}
  BY <1>0, <1>1 DEF TypeInv
<1> QED BY <1>1, <1>2, <1>3, <1>8, <1>9, ReceiverStep

LEMMA StreamRecvLibc ==
  ASSUME StreamInv, NEW e \in Ends, RecvLibc(e)
  PROVE  StreamInv'
<1> USE DEF kernelVars, senderVars, captureVars
<1>0. TypeInv /\ RecvInv(e) /\ Peer(e) \in Ends
  BY TwoEnds DEF StreamInv
<1> DEFINE p == Peer(e)
           ready == sent[p] - taken[p]
<1>1. /\ pcR[e] = "libc" /\ iovR[e] = Cut(Asked(e)) /\ e \notin ended
      /\ Total(iovR[e]) \in Nat
      /\ sent[p] \in Nat /\ taken[p] \in Nat /\ taken[p] <= sent[p]
      /\ taken[p] = got[e] + dropped[e]
  <2>1. pcR[e] = "libc"
    BY DEF RecvLibc
  <2>2. iovR[e] = Cut(Asked(e)) /\ e \notin ended
    BY <1>0, <2>1 DEF RecvInv
  <2>3. Total(iovR[e]) \in Nat
    BY <1>0, <2>2, RecvRequest
  <2>4. sent[p] \in Nat /\ taken[p] \in Nat /\ got[e] \in Nat /\ dropped[e] \in Nat
    BY <1>0 DEF TypeInv
  <2>5. taken[p] <= sent[p] /\ taken[p] = got[e] + dropped[e] + 0
    BY <1>0, <2>1 DEF RecvInv, Coming
  <2> QED BY <2>1, <2>2, <2>3, <2>4, <2>5
<1>2. PICK n \in 0..Min({ready, Total(iovR[e])}) :
        /\ n = 0 => Total(iovR[e]) = 0 \/ (ready = 0 /\ p \in shut)
        /\ taken' = [taken EXCEPT ![p] = @ + n]
        /\ retR' = [retR EXCEPT ![e] = n]
  BY DEF RecvLibc
<1>3. n \in Nat /\ n <= ready /\ n <= Total(iovR[e])
  <2> DEFINE b == Total(iovR[e])
  <2>1. ready \in Int /\ b \in Int /\ n \in 0..Min({ready, b})
    BY <1>1, <1>2
  <2> HIDE DEF ready, b
  <2>2. Min({ready, b}) \in Int /\ Min({ready, b}) <= ready /\ Min({ready, b}) <= b
    BY <2>1, MinOfTwo
  <2>3. n \in Nat /\ n <= ready /\ n <= b
    BY <2>1, <2>2
  <2> QED BY <2>3 DEF b
<1>4. /\ pcR' = [pcR EXCEPT ![e] = "after"]
      /\ UNCHANGED <<conf, sent, shut, locked, failures, snd, rcv, senderVars, iovR,
                     got, ended, dropped, closed>>
  BY DEF RecvLibc
<1> HIDE DEF p
<1>5. TypeInv'
  <2>1. taken' \in [Ends -> Nat]
    <3>1. taken[p] + n \in Nat /\ taken' = [taken EXCEPT ![p] = taken[p] + n]
      BY <1>1, <1>2, <1>3
    <3> QED BY <1>0, <3>1 DEF TypeInv
  <2>2. retR' \in [Ends -> Nat]
    BY <1>0, <1>2, <1>3 DEF TypeInv
  <2>3. pcR' \in [Ends -> {"wait", "idle", "libc", "after"}]
    BY <1>0, <1>4 DEF TypeInv
  <2> QED BY <1>0, <1>4, <2>1, <2>2, <2>3 DEF TypeInv
<1>6. /\ pcR'[e] = "after" /\ retR'[e] = n
      /\ taken'[p] = taken[p] + n
      /\ \A d \in Ends \ {p} : taken'[d] = taken[d]
  BY <1>0, <1>2, <1>4 DEF TypeInv, p
<1>7. RecvInv(e)'
  <2>1. Asked(e)' = Asked(e)
    BY <1>4 DEF Asked
  <2>2. taken'[p] <= sent[p]
    BY <1>1, <1>3, <1>6
  <2>3. n = 0 => Total(iovR[e]) = 0 \/ Done(p)'
    BY <1>1, <1>2, <1>4, <1>6 DEF Done
  <2>4. taken'[p] = got[e] + dropped[e] + n
    BY <1>1, <1>6
  <2> QED BY <1>1, <1>3, <1>4, <1>6, <2>1, <2>2, <2>3, <2>4 DEF RecvInv, Coming, p
<1>8. \A d \in Ends \ {e} :
        /\ pcR'[d] = pcR[d] /\ iovR'[d] = iovR[d] /\ retR'[d] = retR[d]
        /\ got'[d] = got[d] /\ dropped'[d] = dropped[d]
        /\ taken'[Peer(d)] = taken[Peer(d)]
        /\ d \in ended' <=> d \in ended
  <2>1. \A d \in Ends \ {e} : Peer(d) \in Ends \ {p}
    BY TwoEnds DEF p
  <2> QED BY <1>0, <1>2, <1>4, <1>6, <2>1 DEF TypeInv
<1>9. /\ pcR[e] \in {"idle", "libc", "after"}
      /\ pcR'[e] \in {"idle", "libc", "after"}
  BY <1>1, <1>6
<1> QED BY <1>4, <1>5, <1>7, <1>8, <1>9, ReceiverStep

LEMMA StreamRecvAfter ==
  ASSUME StreamInv, NEW e \in Ends, RecvAfter(e)
  PROVE  StreamInv'
<1> USE DEF kernelVars, senderVars, captureVars
<1>0. TypeInv /\ RecvInv(e)
  BY DEF StreamInv
<1>1. /\ pcR[e] = "after" /\ iovR[e] = Cut(Asked(e)) /\ e \notin ended
      /\ retR[e] \in Nat /\ got[e] \in Nat
      /\ taken[Peer(e)] = got[e] + dropped[e] + retR[e]
  BY <1>0 DEF RecvAfter, RecvInv, Coming, TypeInv
<1>2. /\ got' = [got EXCEPT ![e] = got[e] + retR[e]]
      /\ ended' = IF retR[e] = 0 THEN ended \cup {e} ELSE ended
      /\ pcR' = [pcR EXCEPT ![e] = "idle"]
      /\ iovR' = [iovR EXCEPT ![e] = <<>>] /\ retR' = [retR EXCEPT ![e] = 0]
      /\ UNCHANGED <<conf, sent, taken, shut, locked, failures, senderVars, dropped, closed>>
  BY DEF RecvAfter, RecvReturn
<1>3. snd' \in [Ends -> Int] /\ rcv' \in [Ends -> Int]
  <2>1. \/ Record(e, {}, retR[e]) \/ Record(e, {"RECV"}, retR[e])
        \/ Record(e, {"RECV_RST"}, retR[e])
    BY DEF RecvAfter
  <2> QED BY <1>0, <1>1, <2>1, RecordSent
<1>4. TypeInv'
  <2>1. got' \in [Ends -> Nat]
    BY <1>0, <1>1, <1>2 DEF TypeInv
  <2>2. iovR' \in [Ends -> Seq(Nat)]
    BY <1>0, <1>2, EmptySeq DEF TypeInv
  <2>3. retR' \in [Ends -> Nat] /\ pcR' \in [Ends -> {"wait", "idle", "libc", "after"}]
    BY <1>0, <1>2 DEF TypeInv
  <2>4. ended' \subseteq Ends
    BY <1>0, <1>2 DEF TypeInv
  <2> QED BY <1>0, <1>2, <1>3, <2>1, <2>2, <2>3, <2>4 DEF TypeInv
<1>5. RecvInv(e)'
  <2>1. pcR'[e] = "idle" /\ got'[e] = got[e] + retR[e]
    BY <1>0, <1>2 DEF TypeInv
  <2>2. Asked(e)' = Asked(e) /\ Done(Peer(e))' = Done(Peer(e))
    BY <1>2 DEF Asked, Done
  <2>3. retR[e] = 0 => Stalls(Asked(e)) \/ Done(Peer(e))
    BY <1>0, <1>1, RecvRequest DEF RecvInv
  <2>4. taken[Peer(e)] = got'[e] + dropped[e]
    BY <1>0, <1>1, <2>1 DEF TypeInv
  <2>5. taken[Peer(e)] <= sent[Peer(e)]
    BY <1>0 DEF RecvInv
  <2>6. dropped[e] \in Nat /\ got'[e] \in Nat
    BY <1>0, <1>4 DEF TypeInv
  <2> QED BY <1>1, <1>2, <2>1, <2>2, <2>3, <2>4, <2>5, <2>6 DEF RecvInv, Coming
<1>8. \A d \in Ends \ {e} :
        /\ pcR'[d] = pcR[d] /\ iovR'[d] = iovR[d] /\ retR'[d] = retR[d]
        /\ got'[d] = got[d] /\ dropped'[d] = dropped[d]
        /\ taken'[Peer(d)] = taken[Peer(d)]
        /\ d \in ended' <=> d \in ended
  BY <1>0, <1>1, <1>2 DEF TypeInv
<1>9. /\ pcR[e] \in {"idle", "libc", "after"}
      /\ pcR'[e] \in {"idle", "libc", "after"}
  BY <1>0, <1>1, <1>2 DEF TypeInv
<1> QED BY <1>2, <1>4, <1>5, <1>8, <1>9, ReceiverStep

LEMMA StreamRecvNoMemory ==
  ASSUME StreamInv, NEW e \in Ends, RecvNoMemory(e)
  PROVE  StreamInv'
<1> USE DEF kernelVars, senderVars, captureVars
<1>0. TypeInv /\ RecvInv(e)
  BY DEF StreamInv
<1>1. /\ pcR[e] = "after" /\ e \notin ended
      /\ retR[e] \in Nat /\ dropped[e] \in Nat /\ got[e] \in Nat
      /\ taken[Peer(e)] = got[e] + dropped[e] + retR[e]
  BY <1>0 DEF RecvNoMemory, RecvInv, Coming, TypeInv
<1>2. /\ dropped' = [dropped EXCEPT ![e] = dropped[e] + retR[e]]
      /\ failures' = failures + 1
      /\ pcR' = [pcR EXCEPT ![e] = "idle"]
      /\ iovR' = [iovR EXCEPT ![e] = <<>>] /\ retR' = [retR EXCEPT ![e] = 0]
      /\ UNCHANGED <<conf, sent, taken, shut, locked, snd, rcv, senderVars, got, ended,
                     closed>>
  BY DEF RecvNoMemory, RecvReturn
<1>3. TypeInv'
  <2>1. dropped' \in [Ends -> Nat] /\ failures' \in Nat
    <3>1. dropped[e] + retR[e] \in Nat /\ failures \in Nat
      <4>1. failures \in Nat
        BY <1>0 DEF TypeInv
      <4> QED BY <1>1, <4>1
    <3>2. failures' \in Nat
      BY <1>2, <3>1
    <3>3. dropped' \in [Ends -> Nat]
      BY <1>0, <1>2, <3>1 DEF TypeInv
    <3> QED BY <3>2, <3>3
  <2>2. iovR' \in [Ends -> Seq(Nat)]
    BY <1>0, <1>2, EmptySeq DEF TypeInv
  <2>3. retR' \in [Ends -> Nat] /\ pcR' \in [Ends -> {"wait", "idle", "libc", "after"}]
    BY <1>0, <1>2 DEF TypeInv
  <2> QED BY <1>0, <1>2, <2>1, <2>2, <2>3 DEF TypeInv
<1>4. RecvInv(e)'
  <2>1. pcR'[e] = "idle" /\ dropped'[e] = dropped[e] + retR[e]
    BY <1>0, <1>2 DEF TypeInv
  <2>2. taken[Peer(e)] = got[e] + dropped'[e] + 0
    BY <1>1, <2>1
  <2> QED BY <1>0, <1>1, <1>2, <2>1, <2>2 DEF RecvInv, Coming
<1>8. \A d \in Ends \ {e} :
        /\ pcR'[d] = pcR[d] /\ iovR'[d] = iovR[d] /\ retR'[d] = retR[d]
        /\ got'[d] = got[d] /\ dropped'[d] = dropped[d]
        /\ taken'[Peer(d)] = taken[Peer(d)]
        /\ d \in ended' <=> d \in ended
  BY <1>0, <1>1, <1>2 DEF TypeInv
<1>9. /\ pcR[e] \in {"idle", "libc", "after"}
      /\ pcR'[e] \in {"idle", "libc", "after"}
  BY <1>0, <1>1, <1>2 DEF TypeInv
<1> QED BY <1>2, <1>3, <1>4, <1>8, <1>9, ReceiverStep

LEMMA StreamClose ==
  ASSUME StreamInv, NEW e \in Ends, Close(e)
  PROVE  StreamInv'
<1> USE DEF kernelVars, senderVars, receiverVars
<1>1. snd' \in [Ends -> Int] /\ rcv' \in [Ends -> Int]
  BY RecordSent DEF Close, StreamInv
<1>2. /\ closed' = closed \cup {e}
      /\ UNCHANGED <<conf, kernelVars, locked, failures, senderVars, receiverVars>>
  BY DEF Close
<1>3. TypeInv'
  BY <1>1, <1>2 DEF StreamInv, TypeInv
<1>4. StartInv' /\ \A d \in Ends : SendInv(d)' /\ RecvInv(d)'
  BY <1>2 DEF StreamInv, StartInv, SendInv, RecvInv, Moved, Coming, Done, Asked
<1> QED BY <1>3, <1>4 DEF StreamInv

LEMMA StreamStep == StreamInv /\ [Next]_vars => StreamInv'
<1> SUFFICES ASSUME StreamInv, [Next]_vars PROVE StreamInv'
  OBVIOUS
<1>1. ASSUME NEW e \in Ends, Sender(e) PROVE StreamInv'
  BY <1>1, StreamConnect, StreamSendBefore, StreamSendEnter, StreamSendLibc,
     StreamSendAfter, StreamShutdown, StreamClose DEF Sender
<1>2. ASSUME NEW e \in Ends, Receiver(e) PROVE StreamInv'
  BY <1>2, StreamRecvBefore, StreamRecvLibc, StreamRecvAfter, StreamRecvNoMemory
     DEF Receiver
<1>3. CASE UNCHANGED vars
  BY <1>3 DEF vars, kernelVars, senderVars, receiverVars, captureVars, StreamInv, TypeInv,
              StartInv, SendInv, RecvInv, Moved, Coming, Done, Asked
<1> QED BY <1>1, <1>2, <1>3 DEF Next

-----------------------------------------------------------------------------
(* The capture *)

\* What an end has recorded of the handshake.
Began(e) ==
  IF e = "client" THEN IF pcS[e] = "connect" THEN 0 ELSE 1
  ELSE IF pcS[e] = "accept" \/ ~conf[e].addr THEN 0 ELSE 1
Answered(e) ==
  IF e = "client" THEN IF pcS[e] \in {"connect", "connected"} THEN 0 ELSE 1
  ELSE IF pcS[e] = "accept" \/ ~conf[e].addr THEN 0 ELSE 1

\* As long as no call has failed, what was told is what was recorded.
CaptureInv ==
  failures = 0 =>
    \A e \in Ends :
      /\ snd[e] = Began(e) + told[e] + Fin(e)
      /\ rcv[e] = Answered(e) + got[e] + Fin(e)
      /\ dropped[e] = 0
      /\ pcS[e] = "after" => retS[e] >= 0

\* What a group of packets adds to the two numbers of an end.
Adds(e, x, y) ==
  /\ snd' = [snd EXCEPT ![e] = snd[e] + x]
  /\ rcv' = [rcv EXCEPT ![e] = rcv[e] + y]

LEMMA RecordIs ==
  ASSUME TypeInv, NEW e \in Ends, NEW P, NEW n \in Int, Record(e, P, n),
         Cardinality(P \cap OneSent) \in Int, Cardinality(P \cap OneReceived) \in Int
  PROVE  LET a == Cardinality(P \cap OneSent)
             b == Cardinality(P \cap OneReceived)
         IN /\ "SEND" \notin P /\ "RECV" \notin P => Adds(e, a, b)
            /\ "SEND" \in P /\ "RECV" \notin P => Adds(e, a + n, b)
            /\ "SEND" \notin P /\ "RECV" \in P => Adds(e, a, b + n)
<1> DEFINE a == Cardinality(P \cap OneSent)
           b == Cardinality(P \cap OneReceived)
<1>1. snd[e] \in Int /\ rcv[e] \in Int /\ a \in Int /\ b \in Int
  BY DEF TypeInv
<1>2. /\ snd' = [snd EXCEPT ![e] = snd[e] + a + (IF "SEND" \in P THEN n ELSE 0)]
      /\ rcv' = [rcv EXCEPT ![e] = rcv[e] + b + (IF "RECV" \in P THEN n ELSE 0)]
  BY DEF Record
<1> HIDE DEF a, b
<1>3. /\ snd[e] + a + n = snd[e] + (a + n) /\ rcv[e] + b + n = rcv[e] + (b + n)
      /\ snd[e] + a + 0 = snd[e] + a /\ rcv[e] + b + 0 = rcv[e] + b
  BY <1>1
<1>4. /\ "SEND" \notin P /\ "RECV" \notin P => Adds(e, a, b)
      /\ "SEND" \in P /\ "RECV" \notin P => Adds(e, a + n, b)
      /\ "SEND" \notin P /\ "RECV" \in P => Adds(e, a, b + n)
  BY <1>2, <1>3 DEF Adds
<1> QED BY <1>4 DEF a, b

LEMMA RecordAdds ==
  ASSUME TypeInv, NEW e \in Ends, NEW n \in Int
  PROVE  /\ Record(e, {"CONNECT_SEND"}, n) => Adds(e, 1, 0)
         /\ Record(e, {"CONNECT_RECV", "CONNECT_ACK"}, n) => Adds(e, 0, 1)
         /\ Record(e, {"ACCEPT_SEND", "ACCEPT_RECV", "ACCEPT_ACK"}, n) => Adds(e, 1, 1)
         /\ Record(e, {}, n) \/ Record(e, {"RECV_RST"}, n) => Adds(e, 0, 0)
         /\ Record(e, {"SEND"}, n) => Adds(e, n, 0)
         /\ Record(e, {"RECV"}, n) => Adds(e, 0, n)
         /\ Record(e, {"CLOSE_SEND", "CLOSE_RECV", "CLOSE_ACK"}, n) => Adds(e, 1, 1)
<1>1. Cardinality({}) = 0 /\ \A x : Cardinality({x}) = 1
  BY FS_EmptySet, FS_Singleton
<1>2. /\ {"CONNECT_SEND"} \cap OneSent = {"CONNECT_SEND"}
      /\ {"CONNECT_SEND"} \cap OneReceived = {}
      /\ {"CONNECT_RECV", "CONNECT_ACK"} \cap OneSent = {}
      /\ {"CONNECT_RECV", "CONNECT_ACK"} \cap OneReceived = {"CONNECT_RECV"}
      /\ {"ACCEPT_SEND", "ACCEPT_RECV", "ACCEPT_ACK"} \cap OneSent = {"ACCEPT_RECV"}
      /\ {"ACCEPT_SEND", "ACCEPT_RECV", "ACCEPT_ACK"} \cap OneReceived = {"ACCEPT_SEND"}
      /\ {"CLOSE_SEND", "CLOSE_RECV", "CLOSE_ACK"} \cap OneSent = {"CLOSE_SEND"}
      /\ {"CLOSE_SEND", "CLOSE_RECV", "CLOSE_ACK"} \cap OneReceived = {"CLOSE_RECV"}
  BY DEF OneSent, OneReceived
<1>3. /\ {} \cap OneSent = {} /\ {} \cap OneReceived = {}
      /\ {"RECV_RST"} \cap OneSent = {} /\ {"RECV_RST"} \cap OneReceived = {}
      /\ {"SEND"} \cap OneSent = {} /\ {"SEND"} \cap OneReceived = {}
      /\ {"RECV"} \cap OneSent = {} /\ {"RECV"} \cap OneReceived = {}
  BY DEF OneSent, OneReceived
<1>4. ASSUME Record(e, {"CONNECT_SEND"}, n) PROVE Adds(e, 1, 0)
  <2>1. PICK P : P = {"CONNECT_SEND"} /\ Record(e, P, n)
    BY <1>4
  <2>2. /\ Cardinality(P \cap OneSent) = 1 /\ Cardinality(P \cap OneReceived) = 0
        /\ "SEND" \notin P /\ "RECV" \notin P
    BY <1>1, <1>2, <1>3, <2>1
  <2>3. Cardinality(P \cap OneSent) \in Int /\ Cardinality(P \cap OneReceived) \in Int
    BY <2>2
  <2>4. Adds(e, Cardinality(P \cap OneSent),
             Cardinality(P \cap OneReceived))
    BY <2>1, <2>2, <2>3, RecordIs, Zenon
  <2> QED BY <2>2, <2>4
<1>5. ASSUME Record(e, {"CONNECT_RECV", "CONNECT_ACK"}, n) PROVE Adds(e, 0, 1)
  <2>1. PICK P : P = {"CONNECT_RECV", "CONNECT_ACK"} /\ Record(e, P, n)
    BY <1>5
  <2>2. /\ Cardinality(P \cap OneSent) = 0 /\ Cardinality(P \cap OneReceived) = 1
        /\ "SEND" \notin P /\ "RECV" \notin P
    BY <1>1, <1>2, <1>3, <2>1
  <2>3. Cardinality(P \cap OneSent) \in Int /\ Cardinality(P \cap OneReceived) \in Int
    BY <2>2
  <2>4. Adds(e, Cardinality(P \cap OneSent),
             Cardinality(P \cap OneReceived))
    BY <2>1, <2>2, <2>3, RecordIs, Zenon
  <2> QED BY <2>2, <2>4
<1>6. ASSUME Record(e, {"ACCEPT_SEND", "ACCEPT_RECV", "ACCEPT_ACK"}, n) PROVE Adds(e, 1, 1)
  <2>1. PICK P : P = {"ACCEPT_SEND", "ACCEPT_RECV", "ACCEPT_ACK"} /\ Record(e, P, n)
    BY <1>6
  <2>2. /\ Cardinality(P \cap OneSent) = 1 /\ Cardinality(P \cap OneReceived) = 1
        /\ "SEND" \notin P /\ "RECV" \notin P
    BY <1>1, <1>2, <1>3, <2>1
  <2>3. Cardinality(P \cap OneSent) \in Int /\ Cardinality(P \cap OneReceived) \in Int
    BY <2>2
  <2>4. Adds(e, Cardinality(P \cap OneSent),
             Cardinality(P \cap OneReceived))
    BY <2>1, <2>2, <2>3, RecordIs, Zenon
  <2> QED BY <2>2, <2>4
<1>7. ASSUME Record(e, {}, n) PROVE Adds(e, 0, 0)
  <2>1. PICK P : P = {} /\ Record(e, P, n)
    BY <1>7
  <2>2. /\ Cardinality(P \cap OneSent) = 0 /\ Cardinality(P \cap OneReceived) = 0
        /\ "SEND" \notin P /\ "RECV" \notin P
    BY <1>1, <1>2, <1>3, <2>1
  <2>3. Cardinality(P \cap OneSent) \in Int /\ Cardinality(P \cap OneReceived) \in Int
    BY <2>2
  <2>4. Adds(e, Cardinality(P \cap OneSent),
             Cardinality(P \cap OneReceived))
    BY <2>1, <2>2, <2>3, RecordIs, Zenon
  <2> QED BY <2>2, <2>4
<1>8. ASSUME Record(e, {"RECV_RST"}, n) PROVE Adds(e, 0, 0)
  <2>1. PICK P : P = {"RECV_RST"} /\ Record(e, P, n)
    BY <1>8
  <2>2. /\ Cardinality(P \cap OneSent) = 0 /\ Cardinality(P \cap OneReceived) = 0
        /\ "SEND" \notin P /\ "RECV" \notin P
    BY <1>1, <1>2, <1>3, <2>1
  <2>3. Cardinality(P \cap OneSent) \in Int /\ Cardinality(P \cap OneReceived) \in Int
    BY <2>2
  <2>4. Adds(e, Cardinality(P \cap OneSent),
             Cardinality(P \cap OneReceived))
    BY <2>1, <2>2, <2>3, RecordIs, Zenon
  <2> QED BY <2>2, <2>4
<1>9. ASSUME Record(e, {"SEND"}, n) PROVE Adds(e, n, 0)
  <2>1. PICK P : P = {"SEND"} /\ Record(e, P, n)
    BY <1>9
  <2>2. /\ Cardinality(P \cap OneSent) = 0 /\ Cardinality(P \cap OneReceived) = 0
        /\ "SEND" \in P /\ "RECV" \notin P
    BY <1>1, <1>2, <1>3, <2>1
  <2>3. Cardinality(P \cap OneSent) \in Int /\ Cardinality(P \cap OneReceived) \in Int
    BY <2>2
  <2>4. Adds(e, Cardinality(P \cap OneSent) + n,
             Cardinality(P \cap OneReceived))
    BY <2>1, <2>2, <2>3, RecordIs, Zenon
  <2>5. 0 + n = n
    OBVIOUS
  <2> QED BY <2>2, <2>4, <2>5
<1>10. ASSUME Record(e, {"RECV"}, n) PROVE Adds(e, 0, n)
  <2>1. PICK P : P = {"RECV"} /\ Record(e, P, n)
    BY <1>10
  <2>2. /\ Cardinality(P \cap OneSent) = 0 /\ Cardinality(P \cap OneReceived) = 0
        /\ "SEND" \notin P /\ "RECV" \in P
    BY <1>1, <1>2, <1>3, <2>1
  <2>3. Cardinality(P \cap OneSent) \in Int /\ Cardinality(P \cap OneReceived) \in Int
    BY <2>2
  <2>4. Adds(e, Cardinality(P \cap OneSent),
             Cardinality(P \cap OneReceived) + n)
    BY <2>1, <2>2, <2>3, RecordIs, Zenon
  <2>5. 0 + n = n
    OBVIOUS
  <2> QED BY <2>2, <2>4, <2>5
<1>11. ASSUME Record(e, {"CLOSE_SEND", "CLOSE_RECV", "CLOSE_ACK"}, n) PROVE Adds(e, 1, 1)
  <2>1. PICK P : P = {"CLOSE_SEND", "CLOSE_RECV", "CLOSE_ACK"} /\ Record(e, P, n)
    BY <1>11
  <2>2. /\ Cardinality(P \cap OneSent) = 1 /\ Cardinality(P \cap OneReceived) = 1
        /\ "SEND" \notin P /\ "RECV" \notin P
    BY <1>1, <1>2, <1>3, <2>1
  <2>3. Cardinality(P \cap OneSent) \in Int /\ Cardinality(P \cap OneReceived) \in Int
    BY <2>2
  <2>4. Adds(e, Cardinality(P \cap OneSent),
             Cardinality(P \cap OneReceived))
    BY <2>1, <2>2, <2>3, RecordIs, Zenon
  <2> QED BY <2>2, <2>4
<1> QED BY <1>4, <1>5, <1>6, <1>7, <1>8, <1>9, <1>10, <1>11

\* A step of end e: what it records and what its threads are told grow alike.
LEMMA CaptureFrame ==
  ASSUME TypeInv, TypeInv', CaptureInv, NEW e \in Ends, NEW x \in Int, NEW y \in Int,
         failures' = 0 => failures = 0,
         Adds(e, x, y), conf' = conf,
         \A d \in Ends \ {e} :
           /\ pcS'[d] = pcS[d] /\ told'[d] = told[d] /\ got'[d] = got[d]
           /\ dropped'[d] = dropped[d] /\ retS'[d] = retS[d]
           /\ d \in closed' <=> d \in closed,
         failures' = 0 =>
           /\ Began(e)' + told'[e] + Fin(e)' = Began(e) + told[e] + Fin(e) + x
           /\ Answered(e)' + got'[e] + Fin(e)' = Answered(e) + got[e] + Fin(e) + y
           /\ dropped'[e] = dropped[e]
           /\ pcS'[e] = "after" => retS'[e] >= 0
  PROVE  CaptureInv'
<1> SUFFICES ASSUME failures' = 0, NEW d \in Ends
             PROVE  /\ snd'[d] = Began(d)' + told'[d] + Fin(d)'
                    /\ rcv'[d] = Answered(d)' + got'[d] + Fin(d)'
                    /\ dropped'[d] = 0
                    /\ pcS'[d] = "after" => retS'[d] >= 0
  BY DEF CaptureInv
<1>1. /\ snd[d] = Began(d) + told[d] + Fin(d)
      /\ rcv[d] = Answered(d) + got[d] + Fin(d)
      /\ dropped[d] = 0
      /\ pcS[d] = "after" => retS[d] >= 0
  BY DEF CaptureInv
<1>2. CASE d = e
  <2>1. snd'[e] = snd[e] + x /\ rcv'[e] = rcv[e] + y
    BY DEF Adds, TypeInv
  <2> QED BY <1>1, <1>2, <2>1
<1>3. CASE d # e
  <2>1. snd'[d] = snd[d] /\ rcv'[d] = rcv[d]
    BY <1>3 DEF Adds, TypeInv
  <2>2. Began(d)' = Began(d) /\ Answered(d)' = Answered(d) /\ Fin(d)' = Fin(d)
    BY <1>3 DEF Began, Answered, Fin
  <2> QED BY <1>1, <1>3, <2>1, <2>2
<1> QED BY <1>2, <1>3

\* Nothing is recorded.
LEMMA AddsNothing ==
  ASSUME TypeInv, NEW e \in Ends, UNCHANGED captureVars
  PROVE  Adds(e, 0, 0)
<1>1. snd[e] + 0 = snd[e] /\ rcv[e] + 0 = rcv[e]
  BY DEF TypeInv
<1> QED BY <1>1 DEF Adds, TypeInv, captureVars

\* The parts of the sums are numbers.
LEMMA Parts ==
  ASSUME TypeInv, NEW e \in Ends
  PROVE  /\ Began(e) \in Int /\ Answered(e) \in Int /\ Fin(e) \in Int
         /\ told[e] \in Int /\ got[e] \in Int
BY DEF TypeInv, Began, Answered, Fin

\* After a call that failed nothing is claimed.
LEMMA FailedStep ==
  ASSUME TypeInv, failures' = failures + 1
  PROVE  CaptureInv'
<1>1. failures' # 0
  BY DEF TypeInv
<1> QED BY <1>1, Zenon DEF CaptureInv

LEMMA CaptureConnect ==
  ASSUME StreamInv, StreamInv', CaptureInv, Connect \/ Connected \/ Accept
  PROVE  CaptureInv'
<1> USE DEF kernelVars, receiverVars
<1>0. TypeInv /\ TypeInv' /\ "client" \in Ends /\ "server" \in Ends
  BY DEF StreamInv, Ends
<1>1. CASE Connect
  <2>a. \/ /\ Record("client", {"CONNECT_SEND"}, 0)
           /\ pcS' = [pcS EXCEPT !["client"] = "connected"]
           /\ failures' = failures
        \/ failures' = failures + 1
    BY <1>1, Zenon DEF Connect
  <2> SUFFICES ASSUME failures' # failures + 1 PROVE CaptureInv'
    BY <1>0, FailedStep
  <2>1. /\ failures' = failures
        /\ Record("client", {"CONNECT_SEND"}, 0)
        /\ pcS["client"] = "connect"
        /\ pcS' = [pcS EXCEPT !["client"] = "connected"]
    <3>1. pcS["client"] = "connect"
      BY <1>1 DEF Connect
    <3> QED BY <2>a, <3>1, Zenon
  <2>2. Adds("client", 1, 0)
    BY <1>0, <2>1, RecordAdds
  <2>3. UNCHANGED <<conf, retS, told, got, dropped, closed>>
    BY <1>1 DEF Connect
  <2>4. pcS'["client"] = "connected" /\ \A d \in Ends \ {"client"} : pcS'[d] = pcS[d]
    BY <1>0, <2>1 DEF TypeInv
  <2>5. /\ Began("client")' = Began("client") + 1
        /\ Answered("client")' = Answered("client") /\ Fin("client")' = Fin("client")
    BY <2>1, <2>3, <2>4 DEF Began, Answered, Fin
  <2> QED BY <1>0, <2>1, <2>2, <2>3, <2>4, <2>5, Parts, CaptureFrame
<1>2. CASE Connected
  <2>1. Adds("client", 0, 1)
    BY <1>0, <1>2, RecordAdds DEF Connected
  <2>2. UNCHANGED <<conf, failures, retS, told, got, dropped, closed>>
    BY <1>2 DEF Connected
  <2>3. /\ pcS["client"] = "connected" /\ pcS'["client"] = "idle"
        /\ \A d \in Ends \ {"client"} : pcS'[d] = pcS[d]
    BY <1>0, <1>2 DEF TypeInv, Connected
  <2>4. /\ Began("client")' = Began("client")
        /\ Answered("client")' = Answered("client") + 1 /\ Fin("client")' = Fin("client")
    BY <2>2, <2>3 DEF Began, Answered, Fin
  <2> QED BY <1>0, <2>1, <2>2, <2>3, <2>4, Parts, CaptureFrame
<1>3. CASE Accept
  <2>1. UNCHANGED <<conf, failures, retS, told, got, dropped, closed>>
    BY <1>3 DEF Accept
  <2>2. /\ pcS["server"] = "accept" /\ pcS'["server"] = "idle"
        /\ \A d \in Ends \ {"server"} : pcS'[d] = pcS[d]
    BY <1>0, <1>3 DEF TypeInv, Accept
  <2>3. CASE conf["server"].addr
    <3>1. Adds("server", 1, 1)
      BY <1>0, <1>3, <2>3, RecordAdds DEF Accept
    <3>2. /\ Began("server")' = Began("server") + 1
          /\ Answered("server")' = Answered("server") + 1
          /\ Fin("server")' = Fin("server")
      BY <2>1, <2>2, <2>3 DEF Began, Answered, Fin
    <3> QED BY <1>0, <2>1, <2>2, <3>1, <3>2, Parts, CaptureFrame
  <2>4. CASE ~conf["server"].addr
    <3>1. Adds("server", 0, 0)
      BY <1>0, <1>3, <2>4, RecordAdds DEF Accept
    <3>2. /\ Began("server")' = Began("server")
          /\ Answered("server")' = Answered("server")
          /\ Fin("server")' = Fin("server")
      BY <2>1, <2>2, <2>4 DEF Began, Answered, Fin
    <3> QED BY <1>0, <2>1, <2>2, <3>1, <3>2, Parts, CaptureFrame
  <2> QED BY <2>3, <2>4
<1> QED BY <1>1, <1>2, <1>3

\* A step of a sender that records nothing and tells nothing.
LEMMA CaptureQuiet ==
  ASSUME TypeInv, TypeInv', CaptureInv, NEW e \in Ends,
         failures' = failures,
         UNCHANGED <<conf, snd, rcv, told, got, dropped, closed>>,
         pcS[e] \in {"idle", "enter", "libc", "after"},
         pcS'[e] \in {"idle", "enter", "libc", "after"},
         pcS'[e] = "after" => (failures' = 0 => retS'[e] >= 0),
         \A d \in Ends \ {e} : pcS'[d] = pcS[d] /\ retS'[d] = retS[d]
  PROVE  CaptureInv'
<1>1. Adds(e, 0, 0)
  BY AddsNothing DEF captureVars
<1>2. Began(e)' = Began(e) /\ Answered(e)' = Answered(e) /\ Fin(e)' = Fin(e)
  BY DEF Began, Answered, Fin
<1> QED BY <1>1, <1>2, Parts, CaptureFrame

LEMMA CaptureSend ==
  ASSUME StreamInv, StreamInv', CaptureInv, NEW e \in Ends,
         SendBefore(e) \/ SendEnter(e) \/ SendLibc(e) \/ Shutdown(e)
  PROVE  CaptureInv'
<1> USE DEF kernelVars, receiverVars, senderVars, captureVars
<1>0. TypeInv /\ TypeInv'
  BY DEF StreamInv
<1>1. CASE SendBefore(e)
  <2>1. /\ UNCHANGED <<conf, failures, snd, rcv, told, got, dropped, closed, retS>>
        /\ pcS[e] = "idle" /\ pcS' = [pcS EXCEPT ![e] = "enter"]
    BY <1>1 DEF SendBefore
  <2>2. pcS'[e] = "enter" /\ \A d \in Ends \ {e} : pcS'[d] = pcS[d]
    BY <1>0, <2>1 DEF TypeInv
  <2> QED BY <1>0, <2>1, <2>2, CaptureQuiet
<1>2. CASE SendEnter(e)
  <2>1. /\ UNCHANGED <<conf, failures, snd, rcv, told, got, dropped, closed, retS>>
        /\ pcS[e] = "enter" /\ pcS' = [pcS EXCEPT ![e] = "libc"]
    BY <1>2 DEF SendEnter
  <2>2. pcS'[e] = "libc" /\ \A d \in Ends \ {e} : pcS'[d] = pcS[d]
    BY <1>0, <2>1 DEF TypeInv
  <2> QED BY <1>0, <2>1, <2>2, CaptureQuiet
<1>3. CASE SendLibc(e)
  <2>1. /\ UNCHANGED <<conf, snd, rcv, told, got, dropped, closed>>
        /\ pcS[e] = "libc" /\ pcS' = [pcS EXCEPT ![e] = "after"]
    BY <1>3 DEF SendLibc
  <2>2. \/ failures' = failures + 1
        \/ failures' = failures /\ \E n \in Nat : retS' = [retS EXCEPT ![e] = n]
    <3>0. SendInv(e)
      BY DEF StreamInv
    <3>1. Capacity - (sent[e] - taken[e]) \in Int /\ Total(iovS[e]) \in Int
      <4>1. Total(iovS[e]) \in Int
        BY <2>1, <3>0 DEF SendInv
      <4>2. sent[e] \in Nat /\ taken[e] \in Nat
        BY <1>0 DEF TypeInv
      <4> QED BY <4>1, <4>2, Params
    <3>2. \A n \in 0..Min({Capacity - (sent[e] - taken[e]), Total(iovS[e])}) : n \in Nat
      BY <3>1, MinOfTwo
    <3> QED BY <1>3, <3>2 DEF SendLibc
  <2>3. CASE failures' = failures + 1
    BY <1>0, <2>3, FailedStep
  <2>4. CASE failures' = failures /\ \E n \in Nat : retS' = [retS EXCEPT ![e] = n]
    <3>1. /\ pcS'[e] = "after" /\ retS'[e] >= 0
          /\ \A d \in Ends \ {e} : pcS'[d] = pcS[d] /\ retS'[d] = retS[d]
      BY <1>0, <2>1, <2>4 DEF TypeInv
    <3> QED BY <1>0, <2>1, <2>4, <3>1, CaptureQuiet
  <2> QED BY <2>2, <2>3, <2>4
<1>4. CASE Shutdown(e)
  <2>1. /\ UNCHANGED <<conf, failures, snd, rcv, told, got, dropped, closed, retS, pcS>>
        /\ pcS[e] = "idle"
    BY <1>4 DEF Shutdown
  <2> QED BY <1>0, <2>1, CaptureQuiet
<1> QED BY <1>1, <1>2, <1>3, <1>4

LEMMA CaptureSendAfter ==
  ASSUME StreamInv, StreamInv', CaptureInv, NEW e \in Ends, SendAfter(e)
  PROVE  CaptureInv'
<1> USE DEF kernelVars, receiverVars, captureVars
<1>0. TypeInv /\ TypeInv'
  BY DEF StreamInv
<1>1. \/ failures' = failures + 1
      \/ /\ failures' = failures
         /\ retS[e] # -1 => Record(e, {"SEND"}, retS[e])
  BY DEF SendAfter, Recorded
<1>2. CASE failures' = failures + 1
  BY <1>0, <1>2, FailedStep
<1>3. CASE /\ failures' = failures
           /\ retS[e] # -1 => Record(e, {"SEND"}, retS[e])
  <2> SUFFICES ASSUME failures = 0 PROVE CaptureInv'
    BY <1>3 DEF CaptureInv
  <2>1. /\ pcS[e] = "after" /\ pcS' = [pcS EXCEPT ![e] = "idle"]
        /\ told' = [told EXCEPT ![e] = @ + Max({retS[e], 0})]
        /\ retS' = [retS EXCEPT ![e] = 0]
        /\ UNCHANGED <<conf, got, dropped, closed>>
    BY DEF SendAfter
  <2>2. retS[e] >= 0 /\ retS[e] \in Int
    BY <1>0, <2>1 DEF CaptureInv, TypeInv
  <2>3. Max({retS[e], 0}) = retS[e]
    BY <2>2, MaxOfTwo
  <2>4. Adds(e, retS[e], 0)
    BY <1>0, <1>3, <2>2, RecordAdds
  <2>5. /\ pcS'[e] = "idle" /\ told'[e] = told[e] + retS[e]
        /\ \A d \in Ends \ {e} : pcS'[d] = pcS[d] /\ told'[d] = told[d] /\ retS'[d] = retS[d]
    BY <1>0, <2>1, <2>3 DEF TypeInv
  <2>6. Began(e)' = Began(e) /\ Answered(e)' = Answered(e) /\ Fin(e)' = Fin(e)
    BY <2>1, <2>5 DEF Began, Answered, Fin
  <2>7. /\ Began(e)' + told'[e] + Fin(e)' = Began(e) + told[e] + Fin(e) + retS[e]
        /\ Answered(e)' + got'[e] + Fin(e)' = Answered(e) + got[e] + Fin(e) + 0
        /\ dropped'[e] = dropped[e]
    BY <1>0, <2>1, <2>2, <2>5, <2>6, Parts
  <2>8. \A d \in Ends \ {e} :
          /\ pcS'[d] = pcS[d] /\ told'[d] = told[d] /\ got'[d] = got[d]
          /\ dropped'[d] = dropped[d] /\ retS'[d] = retS[d]
          /\ d \in closed' <=> d \in closed
    BY <2>1, <2>5
  <2>9. failures' = 0 => failures = 0
    BY <1>3
  <2>10. conf' = conf /\ ~(pcS'[e] = "after") /\ 0 \in Int
    BY <2>1, <2>5
  <2> QED BY <1>0, <2>2, <2>4, <2>7, <2>8, <2>9, <2>10, CaptureFrame, Zenon
<1> QED BY <1>1, <1>2, <1>3

LEMMA CaptureReceive ==
  ASSUME StreamInv, StreamInv', CaptureInv, NEW e \in Ends,
         RecvBefore(e) \/ RecvLibc(e) \/ RecvAfter(e) \/ RecvNoMemory(e)
  PROVE  CaptureInv'
<1> USE DEF kernelVars, senderVars, captureVars
<1>0. TypeInv /\ TypeInv'
  BY DEF StreamInv
<1>1. CASE RecvBefore(e) \/ RecvLibc(e)
  <2>1. UNCHANGED <<conf, failures, snd, rcv, pcS, retS, told, got, dropped, closed>>
    BY <1>1 DEF RecvBefore, RecvLibc
  <2> QED BY <2>1 DEF CaptureInv, Began, Answered, Fin
<1>2. CASE RecvAfter(e)
  <2>1. /\ pcR[e] = "after" /\ got' = [got EXCEPT ![e] = got[e] + retR[e]]
        /\ UNCHANGED <<conf, failures, pcS, retS, told, dropped, closed>>
    BY <1>2 DEF RecvAfter
  <2>2. retR[e] \in Nat /\ retR[e] <= Total(iovR[e])
    BY <1>0, <2>1 DEF TypeInv, StreamInv, RecvInv
  <2>3. Adds(e, 0, retR[e])
    <3>1. CASE retR[e] = 0
      <4>1. Record(e, {}, retR[e]) \/ Record(e, {"RECV_RST"}, retR[e])
        BY <1>2, <3>1 DEF RecvAfter
      <4> QED BY <1>0, <2>2, <3>1, <4>1, RecordAdds
    <3>2. CASE retR[e] # 0
      <4>1. Total(iovR[e]) # 0
        BY <2>2, <3>2
      <4>2. Record(e, {"RECV"}, retR[e])
        BY <1>2, <3>2, <4>1 DEF RecvAfter
      <4> QED BY <1>0, <2>2, <4>2, RecordAdds
    <3> QED BY <3>1, <3>2
  <2>4. got'[e] = got[e] + retR[e] /\ \A d \in Ends \ {e} : got'[d] = got[d]
    BY <1>0, <2>1 DEF TypeInv
  <2>5. Began(e)' = Began(e) /\ Answered(e)' = Answered(e) /\ Fin(e)' = Fin(e)
    BY <2>1 DEF Began, Answered, Fin
  <2>6. failures' = 0 => (pcS'[e] = "after" => retS'[e] >= 0)
    BY <2>1 DEF CaptureInv
  <2> QED BY <1>0, <2>1, <2>2, <2>3, <2>4, <2>5, <2>6, Parts, CaptureFrame
<1>3. CASE RecvNoMemory(e)
  <2>1. failures' = failures + 1
    BY <1>3 DEF RecvNoMemory
  <2> QED BY <1>0, <2>1, FailedStep
<1> QED BY <1>1, <1>2, <1>3

LEMMA CaptureClose ==
  ASSUME StreamInv, StreamInv', CaptureInv, NEW e \in Ends, Close(e)
  PROVE  CaptureInv'
<1> USE DEF kernelVars, senderVars, receiverVars
<1>0. TypeInv /\ TypeInv'
  BY DEF StreamInv
<1>1. /\ e \notin closed /\ closed' = closed \cup {e}
      /\ UNCHANGED <<conf, failures, pcS, retS, told, got, dropped>>
  BY DEF Close
<1>2. Adds(e, 1, 1)
  BY <1>0, RecordAdds DEF Close
<1>3. Began(e)' = Began(e) /\ Answered(e)' = Answered(e) /\ Fin(e)' = Fin(e) + 1
  BY <1>1 DEF Began, Answered, Fin
<1>4. failures' = 0 => (pcS'[e] = "after" => retS'[e] >= 0)
  BY <1>1 DEF CaptureInv
<1>5. \A d \in Ends \ {e} : d \in closed' <=> d \in closed
  BY <1>1
<1> QED BY <1>0, <1>1, <1>2, <1>3, <1>4, <1>5, Parts, CaptureFrame

LEMMA CaptureStep == StreamInv /\ StreamInv' /\ CaptureInv /\ [Next]_vars => CaptureInv'
<1> SUFFICES ASSUME StreamInv, StreamInv', CaptureInv, [Next]_vars
             PROVE  CaptureInv'
  OBVIOUS
<1>1. CASE UNCHANGED vars
  BY <1>1 DEF vars, captureVars, senderVars, receiverVars, CaptureInv, Began, Answered, Fin
<1>2. ASSUME NEW e \in Ends, Sender(e) PROVE CaptureInv'
  BY <1>2, CaptureConnect, CaptureSend, CaptureSendAfter, CaptureClose DEF Sender
<1>3. ASSUME NEW e \in Ends, Receiver(e) PROVE CaptureInv'
  BY <1>3, CaptureReceive DEF Receiver
<1> QED BY <1>1, <1>2, <1>3 DEF Next

LEMMA CaptureInit == Init => CaptureInv
<1> SUFFICES ASSUME Init, NEW e \in Ends
             PROVE  /\ snd[e] = Began(e) + told[e] + Fin(e)
                    /\ rcv[e] = Answered(e) + got[e] + Fin(e)
                    /\ dropped[e] = 0
                    /\ pcS[e] = "after" => retS[e] >= 0
  BY DEF CaptureInv
<1>1. /\ snd[e] = 0 /\ rcv[e] = 0 /\ told[e] = 0 /\ got[e] = 0 /\ dropped[e] = 0
      /\ pcS[e] = IF e = "client" THEN "connect" ELSE "accept"
      /\ closed = {}
  BY DEF Init
<1> QED BY <1>1 DEF Began, Answered, Fin

-----------------------------------------------------------------------------
(* The theorems *)

LEMMA StreamAlways == Spec => [](StreamInv /\ CaptureInv)
BY StreamInit, StreamStep, CaptureInit, CaptureStep, PTL DEF Spec

\* When receivers are told of the end, everything has been sent and taken.
LEMMA AllTaken ==
  ASSUME StreamInv, NEW e \in Ends, e \in ended, ~Stalls(Asked(e))
  PROVE  /\ Peer(e) \in shut /\ got[e] + dropped[e] = Bytes
         /\ told[Peer(e)] = Bytes /\ taken[Peer(e)] = Bytes
<1>1. /\ TypeInv /\ RecvInv(e) /\ SendInv(Peer(e)) /\ Peer(e) \in Ends
  BY TwoEnds DEF StreamInv
<1>2. pcR[e] = "idle" /\ Done(Peer(e))
  BY <1>1 DEF RecvInv
<1>3. sent[Peer(e)] = Bytes /\ told[Peer(e)] = Bytes
  <2>1. told[Peer(e)] = Bytes /\ pcS[Peer(e)] = "idle"
    BY <1>1, <1>2 DEF Done, SendInv
  <2>2. Moved(Peer(e)) = 0
    BY <2>1 DEF Moved
  <2>3. sent[Peer(e)] = told[Peer(e)] + Moved(Peer(e))
    BY <1>1 DEF SendInv
  <2> QED BY <2>1, <2>2, <2>3, Params
<1>4. got[e] + dropped[e] = Bytes
  <2>1. Coming(e) = 0 /\ taken[Peer(e)] = sent[Peer(e)]
    BY <1>2 DEF Coming, Done
  <2>2. taken[Peer(e)] = got[e] + dropped[e] + Coming(e)
    BY <1>1 DEF RecvInv
  <2>3. got[e] \in Nat /\ dropped[e] \in Nat
    BY <1>1 DEF TypeInv
  <2> QED BY <1>3, <2>1, <2>2, <2>3
<1> QED BY <1>2, <1>3, <1>4 DEF Done

\* The kernel never has more of a stream than the sender has to send, nor gives a
\* receiver more than that, however the MTU cuts the requests of the two
\* (swrap_sendmsg_before, swrap_recvmsg_before) and whichever calls fail.
THEOREM TypeCorrect == Spec => []TypeOK
<1>1. ASSUME StreamInv PROVE TypeOK
  <2>1. TypeInv
    BY <1>1 DEF StreamInv
  <2>2. ASSUME NEW e \in Ends
        PROVE  /\ taken[e] \in 0..sent[e] /\ sent[e] \in 0..Bytes
               /\ got[Peer(e)] + dropped[Peer(e)] \in 0..taken[e]
    <3>1. /\ Peer(e) \in Ends /\ Peer(Peer(e)) = e
          /\ SendInv(e) /\ RecvInv(Peer(e))
      BY <1>1, TwoEnds DEF StreamInv
    <3>2. sent[e] <= Bytes
      <4>1. sent[e] = told[e] + Moved(e) /\ told[e] <= Bytes /\ told[e] \in Nat
        BY <2>1, <3>1 DEF TypeInv, SendInv
      <4>2. CASE Moved(e) = 0
        BY <4>1, <4>2, Params
      <4>3. CASE Moved(e) # 0
        <5>1. pcS[e] = "after" /\ Moved(e) = retS[e]
          BY <4>3 DEF Moved
        <5>2. /\ Total(iovS[e]) \in Nat /\ told[e] + Total(iovS[e]) <= Bytes
              /\ retS[e] <= Total(iovS[e]) /\ retS[e] \in Int
          BY <2>1, <3>1, <5>1 DEF TypeInv, SendInv
        <5> QED BY <4>1, <5>1, <5>2, Params
      <4> QED BY <4>2, <4>3
    <3>3. Coming(Peer(e)) \in Nat
      BY <2>1, <3>1 DEF TypeInv, Coming
    <3>4. /\ taken[e] = got[Peer(e)] + dropped[Peer(e)] + Coming(Peer(e))
          /\ taken[e] <= sent[e]
      BY <3>1 DEF RecvInv
    <3>5. /\ taken[e] \in Nat /\ sent[e] \in Nat
          /\ got[Peer(e)] \in Nat /\ dropped[Peer(e)] \in Nat
      BY <2>1, <3>1 DEF TypeInv
    <3> QED BY <3>2, <3>3, <3>4, <3>5, Params
  <2> QED BY <2>1, <2>2 DEF TypeOK, TypeInv
<1> QED BY <1>1, StreamAlways, PTL

\* A receiver whose list does not stall is told of the end of the stream only after
\* its peer has shut it down and libc has handed out everything, and has received
\* everything if swrap_recvmsg_after failed none of its calls for lack of memory
\* after libc had filled their buffers.
THEOREM EndIsTheEnd == Spec => []EndMeansAll
<1>1. ASSUME StreamInv, NEW e \in ended, ~Stalls(Asked(e))
      PROVE  /\ Peer(e) \in shut /\ taken[Peer(e)] = Bytes
             /\ dropped[e] = 0 => got[e] = Bytes
  <2>1. e \in Ends /\ got[e] \in Nat
    BY <1>1 DEF StreamInv, TypeInv
  <2>2. /\ Peer(e) \in shut /\ taken[Peer(e)] = Bytes
        /\ got[e] + dropped[e] = Bytes
    BY <1>1, <2>1, AllTaken
  <2> QED BY <2>1, <2>2
<1>2. StreamInv => EndMeansAll
  BY <1>1 DEF EndMeansAll
<1> QED BY <1>2, StreamAlways, PTL

\* What one end records as received (swrap_recvmsg_after) ends at the sequence
\* number up to which the other recorded sending (swrap_sendmsg_after).
THEOREM CapturesAlike == Spec => []CapturesAgree
<1>1. ASSUME StreamInv, CaptureInv PROVE CapturesAgree
  <2> SUFFICES ASSUME conf["server"].addr, failures = 0, ended = Ends, pcS["client"] = "idle",
                      NEW e \in Ends, ~Stalls(Asked(e))
               PROVE  rcv[e] - Fin(e) = snd[Peer(e)] - Fin(Peer(e))
    BY DEF CapturesAgree
  <2>1. TypeInv /\ Peer(e) \in Ends /\ RecvInv("server") /\ StartInv
    BY <1>1, TwoEnds DEF StreamInv, Ends
  <2>2. got[e] + dropped[e] = Bytes /\ told[Peer(e)] = Bytes
    BY <1>1, AllTaken
  <2>3. Answered(e) = 1
    <3>1. pcS["server"] # "accept"
      BY <2>1 DEF RecvInv, StartInv, Ends
    <3> QED BY <3>1 DEF Answered, Ends
  <2>4. Began(Peer(e)) = 1
    <3>1. pcS["server"] # "accept"
      BY <2>1 DEF RecvInv, StartInv, Ends
    <3> QED BY <2>1, <3>1 DEF Began, Ends
  <2>5. rcv[e] = 1 + got[e] + Fin(e) /\ dropped[e] = 0
    BY <1>1, <2>3 DEF CaptureInv
  <2>6. snd[Peer(e)] = 1 + told[Peer(e)] + Fin(Peer(e))
    BY <1>1, <2>1, <2>4 DEF CaptureInv
  <2>7. Fin(e) \in Int /\ Fin(Peer(e)) \in Int /\ got[e] \in Int
    BY <2>1, Parts
  <2> QED BY <2>2, <2>5, <2>6, <2>7, Params
<1> QED BY <1>1, StreamAlways, PTL

=============================================================================
