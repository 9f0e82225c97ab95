# ipxdp: specifications, model checking and proofs

ipxdp runs a TCP/IP stack (lwIP) in user space over AF_XDP sockets and slips it
under unmodified programs with a libc interposer.  This directory holds TLA+
specifications of its own code, the TLC configurations that check them on small
instances, and proofs checked by TLAPS.

    tlc -config XskRing.cfg XskRing          # one run; the table below lists them
    tlapm XskRing_proofs.tla                 # the proofs; likewise XdpDispatch_proofs,
                                             # XdpSock_proofs, Lwip_proofs,
                                             # SwrapTable_proofs, SwrapSocket_proofs,
                                             # SwrapData_proofs, SwrapLocks_proofs

`PROJECT.json` lists the runs, which definition models which lines, a mutation of
the model for every checked property, the hazards of the code and the findings.

## 1. The system

| component | source | state | operations | modelled by |
|---|---|---|---|---|
| descriptor rings | `xdpsock_user.c` 80-350, `lwip/netif/af_xdp.c` 62-99, 264-320, 385-409, 612-689 | ring arrays and indices shared with the kernel, cached copies of both indices | `*_nb_free`, `*_nb_avail`, `xq_enq`, `xq_enq_tx_only`, `xq_deq`, `umem_fill_to_kernel(_ex)`, `umem_complete_from_kernel` | `XskRing`, `BoundedChannel` |
| benchmark loops | `xdpsock_user.c` 741-898 | `outstanding_tx`, the batch in hand, `frame_nb` | `rx_drop_all`, `tx_only`, `l2fwd`, `kick_tx`, `complete_tx_*` | `XdpSock` |
| XDP program, start-up, teardown | `xdpsock_kern.c`, `xdpsock_user.c` 405-560, 632-739, 900-996, `af_xdp.c` 160-262 | `qidconf_map`, `xsks_map`, `rr_map`, the program on the link | `xdp_sock_prog`, `main`, `low_level_init`, `xsk_configure`, `int_exit` | `XdpDispatch` |
| lwIP network interface | `lwip/netif/af_xdp.c` 264-570 | the four rings, one transmit frame | `low_level_output`, `af_xdp_if_input`, `af_xdp_if_thread` | `AfXdpIf` |
| descriptor table of socket_wrapper | `socket_wrapper/socket_wrapper.c` 262-302, 1250-1630, 2095-2140, 3055-3420, 5996-6180 | `socket_fds_idx`, slots with reference counts, the free list, the mutexes | `socket`, `accept`, `close`, `dup`, `dup2`, `fcntl(F_DUPFD)`, `signalfd`, calls that return other descriptors | `SwrapTable` |
| per-socket operations of socket_wrapper | `socket_wrapper.c` 3055-3193, 3279-3940, 4733-5400, 5400-5990, 5996-6048 | `bound`, `connected`, `defer_connect`, `myname`, `bindname`, `peername`, `un_addr`, `autobind_start`, the paths in `socket_wrapper_dir`; for a stream what was sent and received | `socket`, `bind`, `connect`, `listen`, `accept`, auto-bind, `sendto`, `recvfrom`, `close`; on streams all sending and receiving calls | `SwrapSocket`, `SwrapData` (streams), `SwrapLocks` (mutexes) |
| address conversion | `socket_wrapper.c` 1631-1998 | - | `convert_in_un_remote`, `convert_in_un_alloc`, `convert_un_in` | `SwrapSocket` (IPv4) |
| mutexes, symbol binding and fork | `socket_wrapper.c` 480-760, 1138-1188, 6240-6340, and the locking of every call | seven global mutexes and one per slot, handles and function pointers | `_swrap_bind_symbol`, `swrap_bind_symbol_all`, the `pthread_atfork` handlers | `SwrapLocks` |
| packet capture | `socket_wrapper.c` 2143-2990 | a pcap file, `pck_snd` and `pck_rcv` | `swrap_pcap_dump_packet`, `swrap_pcap_get_fd` | `SwrapData` (sequence numbers), `SwrapLocks` (mutex, opening) |
| ping | `lwip/ping.c` | `ping_seq_num`, the raw socket | `ping_send`, `ping_recv`, `ping_thread` | `Ping` |
| lwIP bring-up | `socket_wrapper/lwip_init.c`, `lwip/http_server.c` | none of its own | `max_lwip_init`, `test_init` | no (section 8) |
| configuration, build | `*.h`, `Makefile`s | - | - | as constants |

How they interact.  A program's `socket()` is caught by socket_wrapper, which
brings lwIP up; lwIP's packets pass through the network interface, whose rings
the kernel shares; the XDP program steers a queue's packets to those rings.
`xdpsock` uses the same rings without lwIP.  Inside the process the actors are the
threads of the application, `af_xdp_if_thread` and the thread that holds lwIP's
core lock; outside, the kernel, which is the other party of every ring, the CPUs
that run the XDP program, and other processes on the same interface.

Where it is hard:

* **Rings.**  Six indices per ring, four of them private and stale, all modulo
  2^32.  What must hold: the order of the six around the circle; the producer
  never touches an entry the other side may read; the consumer reads only what was
  published; nothing is hidden for good by a stale copy.
* **Loops.**  No loop looks at the result of a refill (`-ENOSPC`), `l2fwd` asserts
  that the TX ring has room, and completions are looked at only while
  `outstanding_tx` is not zero.  What must hold: frames are conserved, the count is
  exact, a frame is not overwritten while in flight, every frame comes back.
* **Network interface.**  Two threads on one socket without a lock, one frame for
  every transmission, a fill ring filled to the brim.  What must hold: receive
  buffers are conserved, the stack gets what arrived, what the stack hands over
  goes out.
* **Start-up.**  Maps are written one by one under a program that is already
  attached, any step may fail, and only one way out detaches.
* **Descriptor table.**  Several mutexes, an index that none protects, reference
  counts, a free list, descriptors that come and go behind the library's back.
  What must hold: the counts, the free list, the right socket for a descriptor.
* **Sockets.**  Three names and a path per socket, set at different moments of
  different calls, next to files that other sockets create and remove.  What must
  hold: a name leads to its socket, both ends of a connection use the same names,
  a deferred connect goes to the peer last named, auto-bind finds a port.
* **Mutexes and fork.**  Some twenty functions take several of eight kinds of mutexes,
  with early returns and error paths in between; every libc function is looked up
  under one more, at its first call, wherever that happens; a fork copies whatever is
  locked.  What must hold: no circle, no mutex taken twice or left locked, a fork
  that always goes through, a child that can make every call.
* **Stream data and capture.**  A call cuts its buffers to an MTU before and records
  what it moved after libc, with the lock released in between; each end has two
  threads.  What must hold: zero means the end of the stream, both captures number
  the stream alike, no transfer stops half-way.
* **Ping.**  One counter that wraps, a socket that keeps packets from earlier rounds,
  a network that loses, delays and doubles.  What must hold: a success belongs to the
  request of the round, an answer is not overlooked, a round ends.

The hazards, each at its line and with the properties that cover it, are listed in
`PROJECT.json`.

## 2. The modules

**`BoundedChannel`** is what a ring promises: a FIFO channel of limited capacity
in which a call appends or takes several entries at once, in order.

**`XskRing`** is one ring, access by access.  `producer`, `consumer` and `ring` are
the shared memory, `pCached*` and `cCached*` the fields of `struct xdp_uqueue` /
`xdp_umem_uqueue` on the two sides.  An enqueue call is `Reserve` (`nb_free`, with
the refresh of the cached consumer index; no room is an early return), one
`WriteSlot` per entry and `Publish`; a dequeue call is `Peek` (`nb_avail`), one
`ReadSlot` per entry and `Release`.  Counters are numbers modulo `Wrap` (2^32 in
the program).  Both halves exist in both programs and differ only in the entries'
type; the kernel's halves are assumed to work like the program's.

**`XdpSock`** runs the three loops over abstract rings (sequences).  What is left
of the cached indices is that a dequeue may find fewer entries than there are, but
not none (`NbAvail`), and that `nb_free` is exact when it matters (`HasFree`).
`conf` is the command line; `pc` follows the loop, one action per call that
touches a ring.  With `--poll`, `rx_drop_all` goes on when its first socket has packets
(it asks for no other), and `tx_only` goes on only when the TX ring has room (`Pollout`).
The kernel's actions take buffers and descriptors, receive,
complete and stop early; the device completes in any order, except for `tx_only`,
whose reuse of frames relies on the order (section 6).

**`AfXdpIf`** is the interface under lwIP: `InputDequeue`, `InputPass`,
`InputRefill` of `af_xdp_if_thread` interleaved with `OutputCopy`,
`OutputPublish`, `OutputKick`, `OutputDrain` of `low_level_output`.  `content` is
what the memory of each frame holds; `wire` records whether the last packet sent
was the one its descriptor was for.

**`XdpDispatch`** has processes that start up (`Load`, `Attach`, `SetQueue`,
`CreateSocket`, `InsertSocket`), fail at any step (`Fail`) or handle a signal
(`IntExit`), and CPUs on which `xdp_sock_prog` chooses a socket (`Pass`, `Choose`)
before the kernel looks it up (`Redirect`).  Each process has maps of its own, which
stay with the attached program when the process has ended.

**`SwrapTable`** is the descriptor table.  A step is a libc call, one access to
`socket_fds_idx`, which no lock protects, or a critical section.  `app` says which
calls the application makes and how many descriptors it may have.  `file` is the
kernel's descriptor table, `fdIdx` is `socket_fds_idx`, `info`, `refcount` and
`nextFree` are the fields of the slots, `call` the local variables of the running
calls.  `swrap_remove_stale` is `StaleFind`, `StaleReset`, `StaleDrop`;
`swrap_add_socket_info` is `Create`, `Take`, then `SetIndex`; `swrap_close` is
`CloseFind`, `CloseReset`, `CloseDrop` or `LibcClose`; `swrap_dup*` is `CallDup`
or `CallDup2`, `LibcDup`, `IncRefcount`; `swrap_accept` is `CallAccept`,
`LibcAccept`, `CopyParent` and the creation of the new socket's slot.
`LibcSignalfd` and `CallNotSocket` are what `signalfd` does, which gives its argument to
`swrap_remove_stale` instead of its result.  `HiddenClose` is a descriptor closed by code
that does not call the library's `close`.  `file` says that a descriptor is `Overlooked`
when the library gave its number out without looking at the index that number may have:
the results of `signalfd`, and of `dup`, `dup2` and `F_DUPFD` from what is no socket.

**`SwrapSocket`** is what happens to one socket, over the kernel's unix sockets.
`si` is `struct socket_info` of each slot; `sk` (state, path, peer, queue) and `dir`
(which socket a path was bound to) are the kernel.  A name is an address and a
port; `RemotePath`, `BindIface`, `ChosenPort` and `NameOf` are the conversions.  A
call holds the mutex of its `socket_info` and is identified by its socket:
`call[s].pc` says where it is, `call[s].then` where it goes on after `swrap_auto_bind`
(`AutobindSearch`, `AutobindBind`).  `swrap_bind` is `CallBind`, `UnlinkFirst`,
`LibcBind`; `swrap_connect` is `CallConnect`, then `ConnectDatagram`, which only
defers, or `ConnectStream` and `ConnectedStream`; `swrap_sendto` is `CallSend`,
`SendBefore` with the deferred connect, and, after the mutex was released,
`LibcSendto` or `SendBroadcast`; `swrap_close` is `CallClose`, `UnlinkLast`.
**`SwrapLocks`** is the locking of every call, and nothing else of it.  A call is a
sequence of mutexes to take and libc functions to call, one sequence for each way it
can go: `SocketBodies`, `CloseBodies`, `SendToBodies` and so on name the ways of each
function, and a call within a call is a step (`Fn`) that `Enter` replaces by one of
its bodies.  `LibcCall` is a wrapper `libc_f`: it tests the symbol without a lock and
goes to `BindSymbol` under `libc_symbol_binding_mutex` when it is NULL.
`ForkProcess` follows the parent or the child, in which what other threads had locked
is `Lost`; a `Signal` runs a handler, with a call of its own, inside the fork.  The capture
file is written with `write()` and, when its header cannot be written, closed with
`close()`, which are the library's own: `WriteCapture` and `Close` inside `dump`.  `app`
says whether the disk is `full` and whether an index may be `stale` on the number of the
capture file, on which `write()` then locks a slot and records a packet.

**`SwrapData`** is one connection: `Connect`, `Connected` and `Accept`, then on each end
a thread that sends (`SendBefore`, `SendEnter`, `SendLibc`, `SendAfter`, `Shutdown`) and
one that receives (`RecvBefore`, `RecvLibc`, `RecvAfter`, or `RecvNoMemory` when the copy
for the capture cannot be allocated), and `Close`.  Bytes are counted.  `Cut` is the MTU
loop with what it really does to a list of buffers; `Record` is which packets a call
dumps and how they advance `pck_snd` and `pck_rcv`.  Errors of libc's receiving
functions change nothing and are left out.

**`Ping`** is `ping_thread` against a network that answers each request never, once or
twice, up to `MaxAge` rounds late, with other ICMP traffic in between.  An answer in the
model also says how old it is, which the program cannot see; the properties can.

`SwrapTable`, `SwrapSocket`, `SwrapData` and `SwrapLocks` look at the same library from
four sides: the slots and descriptors without what is in a slot; names and paths with
one descriptor per slot; the data of one connection; and the mutexes of every call
without any data.  They share no variable but the mutexes, and each takes for granted
what another shows: `SwrapLocks` that a call that waits gets its mutex, `SwrapTable` that
a descriptor has the right slot.

`MCSwrapTable`, `MCSwrapSocket`, `MCSwrapData`, `MCSwrapLocks` and `MCXdpDispatch` add
symmetry sets, applications and names for TLC.  `XskRing_proofs`,
`XdpDispatch_proofs`, `XdpSock_proofs`, `SwrapTable_proofs`, `SwrapSocket_proofs`,
`SwrapData_proofs` and `SwrapLocks_proofs` hold the proofs about the module of their
name, `Lwip_proofs`, which extends both, those about `AfXdpIf` and `Ping` (hence `PingInit`,
`PingNext` and so on there).

## 3. The runs

| run | module, configuration | instance | what it shows |
|---|---|---|---|
| `ring` | `XskRing`, `XskRing.cfg` | 4 entries, indices modulo 8, batches of 2, 2 values | `IndexInv`, `StableEntries`, `ReadsPublished`; refinement of `BoundedChannel` (`ImplementsChannel`); `ConsumerNeverStuck`, `ProducerNeverStuck` |
| `xdpsock` | `XdpSock`, `XdpSock.cfg` | 4 descriptors, 12 frames, batches of 2, 1 or 2 sockets, all three loops, polling or not | `FrameConservation`, `OutstandingExact`, `EnqueueNeverFails`, `ForwardsSwapped`, `InFlightDistinct`, `BuffersReturn`, `TxOnlyProgress` |
| `xdp_dispatch` | `MCXdpDispatch`, `XdpDispatch.cfg` | 2 processes, 2 CPUs, 2 queues, 2 sockets | `RunningServed`, `RunningAttached`, `RoundRobin` |
| `netif` | `AfXdpIf`, `AfXdpIf.cfg` | 2 descriptors, 2 frames, 2 packets | `ReceiveBuffersConserved`, `DeliversReceived`, `BuffersReturn`, `TransmitsUnlessStopped` |
| `netif_payload` | `AfXdpIf`, `AfXdpIfPayload.cfg` | the same | `WireCarriesPacket` is violated |
| `netif_wedge` | `AfXdpIf`, `AfXdpIfWedge.cfg` | the same, 1 packet | `TransmitsAccepted` is violated |
| `swrap_table` | `MCSwrapTable`, `SwrapTable.cfg` | 2 threads, 2 slots, 4 applications: 3 descriptors, all sockets; or 2, with plain ones and closes the library does not see, with copies of plain ones, and with both and `signalfd` | `FreeListExact`, `RefcountExact`, `MappedSlotsLive`, `RightInfo` |
| `swrap_socket` | `MCSwrapSocket`, `SwrapSocket.cfg` | 2 threads, 3 stream or 2 datagram sockets, 1 interface, `bind` to a port it chooses (1) or to the first one of auto-bind, a window of 2 for auto-bind | `NameLeadsBack`, `PeersAgree`, `ConnectedToPeername`, `SourcesAnswerable`, `AutobindSucceeds` |
| `swrap_locks` | `MCSwrapLocks`, `SwrapLocks.cfg` | 2 threads, 2 slots, 7 applications, 1 signal | `WaitsEnd`, `LocksOrdered`, `ForkPrepared` |
| `swrap_fork_child` | `MCSwrapLocks`, `SwrapLocksFork.cfg` | the same, an application that forks, closes and sends | `ChildCallsReturn` is violated |
| `swrap_data` | `MCSwrapData`, `SwrapData.cfg` | MTU 1, a kernel buffer of 1 byte, 2 bytes each way, 2 failures, 4 pairs of callers | `EndMeansAll`, `CapturesAgree`, `TransferCompletes` |
| `ping` | `Ping`, `Ping.cfg` | numbers modulo 5, packets up to 2 rounds old, a socket that holds 2 | `SuccessIsCurrent`, `MissedOnlyForTwin`, `RoundsEnd` |

Every module has a type invariant `TypeOK` (`PingTypeOK`); all are proved.

### Why these bounds are enough

* `XskRing`: indices wrap every second time round the ring, so every relative
  position of the six indices to each other and to the wrap occurs; a batch is
  smaller than the ring and larger than one, so calls meet full, partly full and
  empty rings and are interrupted between two entries.  Two values tell an entry
  from its predecessor.  The theorems of section 5 hold for every size.
* `XdpSock`: batches divide the ring, as in the program, and there are two of them
  in it, so it is empty, half full and exactly full; dequeue calls may find fewer
  entries than there are, so partial batches and both sides of `outstanding <
  BATCH_SIZE` occur; `NumFrames` is the smallest number that `XdpSockAssumption`
  allows, so that `idx` wraps.  (With fewer frames than can be in flight the reuse in `tx_only` is wrong;
  the program has 131072 for 3 times 1024.)
* `AfXdpIf`: with two frames one is the transmit frame and one is not; two
  descriptors fill up.
* `XdpDispatch`: two processes are a predecessor, failed or not, and its
  successor; two sockets and CPUs are enough to take turns wrongly.
* `SwrapTable`: with two slots the table fills up, with three descriptors and two
  threads every pair of calls overlaps, and slots and numbers are reused.  Plain
  descriptors, their copies and hidden closes come with two, since a stale index needs
  one number and the copy of a descriptor two.
* `SwrapSocket`: listener, client and accepted socket are three stream sockets; two
  datagram sockets and the names of a bound and of an auto-bound one are enough to
  connect again to another name.  Names are bound to a port the library chooses and to
  port 10, which auto-bind also uses, whose path then stays behind; targets are these
  two and, for datagrams, a broadcast.  Auto-bind starts again after port 11 of 10 to
  12, and with three sockets its window of two is full.  Sockets of both types share
  nothing but `autobind_start` and its mutex, so they are checked apart
  (`Mixed = FALSE`).  A queue of one is empty or full.
* `SwrapLocks`: two threads make every pair of calls meet on every way they go; two
  slots are the same or different.  For more threads and slots `LocksOrdered`,
  `ForkPrepared` and `WaitsEnd` are proved.
  With all symbols bound every call may be made; before that, which symbols a call
  binds matters, so it is paired with a fork.  One handler interrupts one fork.  Two
  applications have a full disk and a stale index on the capture file; `MaxDumps = 2`
  bounds the captures within captures that the stale index leads to.
* `SwrapData`: with an MTU and a kernel buffer of one byte, two bytes take two calls, a
  request is cut, taken in part and finds no room; two failures are one on either end
  or two in a row.  The four pairs of callers send from one buffer and from two and
  receive into one, two and into a list with an empty buffer in front; no, one or both
  of them send with `sendto`.
* `Ping`: `MaxAge + Mbox < SeqSize` is tight, and the numbers wrap many times; the
  theorems hold for 2^16.

Deadlock is not checked where the modelled program may really stop: `kick_tx`
ends it on an unexpected `errno` (`XdpSock`, `AfXdpIf`), processes end
(`XdpDispatch`), after a failed `socket()` an application may have no descriptor left
to call with (`SwrapTable`), the only thread of a child may wait for a mutex that was
lost (`SwrapLocks`), a transfer ends, or two `sendto()` stop it (`SwrapData`), and the
ping thread ends when it gets no socket (`Ping`).

## 4. Fairness

* `XskRing`: each side keeps calling and finishes its calls (`WF`).  The program's
  loops are endless and no ring call blocks; the kernel's side is driven by the
  device and by `sendto()`.
* `XdpSock`, `AfXdpIf`: `WF` of the program's next step, since the loops never
  block for good; for a loop that polls, a ring with entries reports ready.  `WF`
  of each completion: the device finishes what it took.  `SF` of
  `KernelTakeDesc`/`KernelTransmit`: `sendto()` may return having taken nothing
  (`EAGAIN`, `ENOBUFS`, `EBUSY`), but not every time for ever.  `WF` of
  `KernelStop` in `AfXdpIf`: a `sendto()` returns.  No fairness on
  reception or on taking buffers: nothing promises that packets arrive.
* `SwrapSocket` has no liveness property: its calls wait for nothing but
  `autobind_start_mutex`, whose holder does not wait.
* `SwrapData`: `WF` of each sending and each receiving thread: a thread that does not
  wait goes on.  A mutex that is given back may be taken by another thread first, but
  only as often as there are bytes.
* `Ping`: `WF` of the thread.  The network owes nothing.
* `SwrapTable` and `SwrapLocks` state safety only; `WaitsEnd` says without fairness
  that whoever waits for a mutex waits for a thread inside a call, and that in a circle
  of waiting threads there is a handler that interrupted a fork.

## 5. What is proved

`XskRing_proofs` proves, for every `Size`, `Wrap`, `Batch` and `Values` that
`RingAssumption` allows (the size positive and a divisor of the range of the
indices, which is larger; the batch not larger than the ring):

| theorem | statement |
|---|---|
| `TypeCorrect` | `Spec => []TypeOK` |
| `IndicesOrdered` | `Spec => []IndexInv` |
| `EntriesStable` | `Spec => StableEntries` |
| `OnlyPublishedRead` | `Spec => []ReadsPublished` |

`IndexInv` is what makes the others provable, and it is inductive together with
`TypeOK`: consumer, the consumer's read position, the last producer index it saw,
producer, the producer's write position and the limit it computed follow each
other around the circle and span at most one ring.  `EntriesStable` adds that two
indices less than one ring apart never fall on the same slot on either side of the
wrap (`IdxDistinct`, from `Wrap % Size = 0`), so a write lies outside what is
published.  `OnlyPublishedRead` adds that every slot from the consumer to the
producer's write position has been written (`Filled`).

The module proves from these `RingImplementsChannel`, `Spec =>
ImplementsChannel`, under the same assumption: with the refinement mapping of
`XskRing` the ring's content is what lies between consumer and producer, `Publish`
appends a batch, `Release` takes one, and every other step leaves the content alone,
which needs `EntriesStable`'s argument and that a dequeue call has copied the entries
it has gone past, in order, and holds no more than a batch (`CallInv`).

`XdpDispatch_proofs` proves, for any number of processes, CPUs, queues, and any
`MAX_SOCKS` and `NUM_DESCS`:

| theorem | statement | inductive invariant |
|---|---|---|
| `TypeCorrect` | `Spec => []TypeOK` | `TypeInv`: with it, at most `MaxSocks` remembered choices, and fewer sockets than wanted while they are created |
| `RunningIsAttached` | `Spec => []RunningAttached` | `LinkInv`: one process is alive at a time, and from `SetQueue` on its program is the one attached |
| `RunningIsServed` | `Spec => []RunningServed` | `MapInv` and `PacketInv`: which maps are filled at each point of the start-up, and that a packet that arrived for a looping process is its own and has an existing socket |
| `TakesTurns` | `Spec => []RoundRobin` | `TurnInv`: the i-th remembered choice lies as far back around the circle of sockets as it was made before the current one |

`RunningIsServed` needs no assumption that processes do not overlap; the run checks
it without overlap, which keeps its graph small.

`XdpSock_proofs` proves, for every `NumDescs`, `BatchSize`, `MaxSocks` and `NumFrames`
that `XdpSockAssumption` allows (at least three rings of frames, a multiple of the
batch):

| theorem | statement | inductive invariant |
|---|---|---|
| `TypeCorrect` | `Spec => []TypeOK` | `TypeInv`, and `BatchInv`: `idx` is a multiple of the batch |
| `CountsOutstanding` | `Spec => []OutstandingExact` | `CountInv`: `outstanding_tx` is the number of frames on the TX ring, with the kernel, on the completion ring and just taken from it |
| `ForwardFits` | `Spec => []EnqueueNeverFails` | `CountInv` also: in `l2fwd` the frames on the fill ring, with the kernel for reception, on the RX ring, in the batch and outstanding total `NUM_DESCS`, so a batch in hand leaves the TX ring room |
| `FramesReusedInTime` | `Spec => []InFlightDistinct` | `OrderInv`: in `tx_only` the frames on the completion ring, with the kernel and on the TX ring are, in this order, consecutive around `NUM_FRAMES` up to `idx`; with at most three rings of them they are different |
| `FramesConserved` | `Spec => []FrameConservation` | `FrameInv`: in `rxdrop` and `l2fwd` the map from the places of the rings, the batch and the kernel to the frames there is a bijection onto the first `NUM_DESCS` frames |
| `SwappedOnce` | `Spec => []ForwardsSwapped` | `ContentInv`, on top of it: frames on the RX ring and in a batch before the swap are as they came, those of the batch after it, the TX ring and the kernel's transmit queue are swapped |

Every step moves frames from one of these holders to the end of another, several at once
(`MoveFrames`), or one from the middle where the device is done with it (`MoveOne`), and
both keep the bijection.  That the refill always finds room on the fill ring is not a
guard but a consequence: a bijection from more places than there are frames does not
exist (`PlacedRoom`).  A swap changes the frames of the batch only, which are in no other
holder (`HeldApart`).

`Lwip_proofs` proves of `AfXdpIf`, for every `NumDescs`, at most as many frames, and any packets:

| theorem | statement | inductive invariant |
|---|---|---|
| `TypeCorrect` | `Spec => []TypeOK` | `TypeInv`: with it, room on the TX ring between `OutputCopy` and `OutputPublish`, which nobody else takes |
| `BuffersConserved` | `Spec => []ReceiveBuffersConserved` | `PlaceInv`: no frame in two places (`Once`), each in one (`Somewhere`), and no more on fill ring, kernel, RX ring and in hand than the fill ring has entries (`Counted`), so the refill finds room |
| `DeliversWhatArrived` | `Spec => []DeliversReceived` | `ContentInv`, on top of these: the frame of an RX descriptor holds what arrived in it until it is copied |

`SwrapTable_proofs` proves, for any number of threads, descriptors and slots and any
applications that are `Disciplined` (section 6):

| theorem | statement | part of the inductive invariant `Inv` it rests on |
|---|---|---|
| `TypeCorrect` | `Disciplined => (Spec => []TypeOK)` | `TypeInv`; `NewSocketType`: a free descriptor always finds a kernel socket |
| `FreeListStaysExact` | `Disciplined => (Spec => []FreeListExact)` | `ListInv`: there is a sequence of different slots, those without references, that `first_free` and `next_free` link; `ListPush` and `ListPop` say that a drop and a take lengthen and shorten it |
| `RefcountsExact`, `MappedSlotsStayLive` | `Disciplined => (Spec => []RefcountExact)`, the same with `MappedSlotsLive` | `CountInv`: a slot has at least as many references as descriptors map to it and calls hold one, and exactly as many unless descriptors disappear |
| `InfoIsRight` | `Disciplined => (Spec => []RightInfo)` | `HeldInv`: what a held descriptor maps to; `InfoInv`: what a call knows of its descriptors and slots; `IndexInv`: without hidden closes only held descriptors and those about to be closed or replaced have an index |

`Inv` also has `CallInv` (where a call is and what it has filled in), `OwnInv` (a
descriptor that a call was given or has yet to close is nobody else's) and `LockInv`
(who has a mutex).  The argument for the steps of other threads is made once: `Frame`
says that a step of one thread changes only descriptors that are `Private` to it and
slots without references, `OthersCall`, `OthersOwn` and `OthersInfo` that this leaves the
invariant of all other threads alone; a slot some call works on has a reference
(`Counted`).  `CountMoves` turns the change of one entry and one call into the change of
the cardinalities.

Applications may close descriptors behind the library's back and copy or overwrite any
descriptor, sockets or not.  `RightInfo` then speaks of the sockets among those they hold,
and of what `pipe`, `open` and the like returned; it says nothing of what is `Overlooked`,
which may have the index of a socket that is gone.  `FreeListExact`, `RefcountExact` and
`MappedSlotsLive` hold in spite of such leftovers: they are counted, copied and dropped
like any index.  The discipline is needed, and the code is the reason: without it a `dup`
that races a `close` of its source leaves a slot referenced and on the free list, which TLC
finds after 12 steps, and so does a `dup` that races an `accept` or a `signalfd` on a
descriptor that is no socket, since both drop its index between the read and the increment.

`SwrapSocket_proofs` proves, for any number of sockets and threads, any interfaces,
names, ranges of ports and backlog that `SwrapSocketAssumption` and `NamesAssumption`
allow:

| theorem | statement | part of the inductive invariant it rests on |
|---|---|---|
| `TypeCorrect` | `Spec => []TypeOK` | `TypeInv`; `CallOf`: where the call of a socket is, and what it has made sure of |
| `AutobindAlwaysSucceeds` | `Disciplined => (Spec => []AutobindSucceeds)` | `AutoInv`: the path `stat()` found free stays free, that of an auto-bound socket leads to it and is no other's, and a `bind()` takes neither; `CallOf`: only the holder of `autobind_start_mutex` is between `stat()` and `bind()` |
| `ConnectedToNamed` | `Spec => []ConnectedToPeername` | `PeerOf`: the peer of a socket has a path and the same type, and for a datagram socket the path is that of `peername` |
| `NamesLeadBack` | `Disciplined => (Spec => []NameLeadsBack)` | `NamesOf`: where `myname` and `bindname` lead while a socket is fresh, being bound, and bound |
| `PeersAlwaysAgree` | `Disciplined => (Spec => []PeersAgree)` | `WaitingAt`: what waits in the queue of a listener is a client of its path; `Accepted`: so is the peer of a socket it was accepted for |
| `AlwaysAnswerable` | `Disciplined => (Spec => []SourcesAnswerable)` | `QueueOf`: an entry of a queue has the path its sender still has; `NamesOf`: that path leads to the sender |

`Inv` is the conjunction of the parts that hold whatever the application does (`TypeInv`,
`CallOf`, `SocketOf`, `PeerOf`, `QueueOf` of each socket, `PathOf` of each path);
`TypeCorrect` and `ConnectedToNamed` follow from it alone.  `AutoInv` and, on top of both,
`NameInv` hold for `Disciplined` applications (section 6): `NamesOf`, `WaitingAt` and
`Accepted` of each socket, and that one socket at a time is between the `unlink()` and the
`bind()` of `swrap_bind`.  The discipline is needed, and the code is the reason: without it
`swrap_bind` unlinks the path of an open socket, or takes the one auto-bind has just found
free, and a name that could not be bound stays in `bindname` (section 7).

Both are proved to be preserved in the same two layers.  `Do...` lemmas say what an action
changes, and frame lemmas what such a change leaves alone (`Local` and `NamesLocal` for a
step that works on one socket, `Quiet` and `NamesQuiet` for one that also keeps its path
and peer, `Queuing` and `NamesDatagram` for one that fills queues); `Step...` and `Names...`
then treat one action each.  That auto-bind finds a port rests on the paths that are left: one in its
range leads to an auto-bound socket, whose `close` unlinks it, or was given to `bind()`.

`SwrapData_proofs` proves, for every MTU, kernel buffer, length of the streams, number
of failures and behaviour of the callers that `SwrapDataAssumption` allows:

| theorem | statement | inductive invariant |
|---|---|---|
| `TypeCorrect` | `Spec => []TypeOK` | `StreamInv`: what the kernel has taken from an end is what its sender was told plus the call under way (`SendInv`), what it has given to an end is what its receiver was told, plus what calls that failed for lack of memory lost, plus the call under way (`RecvInv`); a cut request is never longer than what is left (`CutProperties`) |
| `EndIsTheEnd` | `Spec => []EndMeansAll` | `RecvInv`: libc returns 0 only for an empty list or when the peer has shut down and all is taken, and a cut list is empty only when it stalls |
| `CapturesAlike` | `Spec => []CapturesAgree` | `CaptureInv`, on top of these: as long as no call has failed, the sequence numbers of an end are its handshake, what its sender and receiver were told, and its FIN |

`Lwip_proofs` proves of `Ping`, for every `SeqSize`, `MaxAge` and `Mbox` with
`MaxAge + Mbox < SeqSize`:

| theorem | statement |
|---|---|
| `PingTypeCorrect` | `PingSpec => []PingTypeOK` |
| `OnlyCurrentSucceeds` | `PingSpec => []SuccessIsCurrent` |
| `MissedOnly` | `PingSpec => MissedOnlyForTwin` |

The invariant, `PingInv`, says of every answer in the socket that its number is that of
the request `age` rounds ago, and bounds the age: by `MaxAge` when the answer arrives,
and after that by one more for each round it has waited, of which there are at most as
many as there were packets in front of it, since every round reads at least one.  So no
two numbers of answers that can be in the socket differ by a whole `SeqSize`.

`SwrapLocks_proofs` proves, for any number of threads and slots, any applications and
any number of signals:

| theorem | statement | what it follows from |
|---|---|---|
| `TypeCorrect` | `Spec => []TypeOK` | `LockInv` |
| `MutexesOrdered` | `Spec => []LocksOrdered` | what `"lock"` and `"unlock"` require (`InvOrdered`) |
| `ForkIsPrepared` | `Spec => []ForkPrepared` | a thread that locks `"binding"` does not have it, and no thread of the parent is left with it (`InvForkPrepared`) |
| `WaitsAlwaysEnd` | `Spec => []WaitsEnd` | a thread that has a mutex is in a call (`IdleHasNothing`); in a circle of waiting threads one waits for a mutex of the highest rank (`HighestRank`), whose owner cannot wait for a later one, so the mutex is `"binding"` and the owner was interrupted in a fork |

The argument is a small Hoare logic.  What is left of a call is a sequence of steps.  A
*view* is what a thread may rely on between two of them: the mutexes it has (`held`),
whether all symbols are known to be bound (`ready`), and whether the library's own
`write()` and `close()` of the capture file can take mutexes (`loose`).  Every step, the functions of the library among them, `Requires` something of
the view (`add_socket_info` that no mutex is held, `dump` that `pcap` may still be taken,
a libc wrapper that `binding` may be taken or that nothing is left to bind) and has a
`Result`; `Runs(h, p, k)` says that the steps `p` can be taken from `h` and lead to `k`.
The lemmas `RemoveStaleRuns` to `ForkRuns` show this for every way of every function,
error paths included, and `BodiesRun` puts them together; none looks into a function that
is called.  The invariant, `LockInv`, says that what is left of every thread's call runs
from a view of what the thread really has (`ViewOf`) to one with no mutex, and that
`binding` was not lost in a fork.  A step that leaves the mutexes alone replaces its head
by steps that run to the same view (`Replaces`); the mutexes change under `LockMutex`,
`UnlockMutex`, `ForkDone` and in the child only.

With a full disk `close()` is called under other mutexes, and with a stale index on the
capture file's number `write()` takes some, so nothing can be said of them; then the
views follow `binding` alone (`Tracked`), which is enough for `ForkPrepared`,
stated without that exception.  `ready` is set by `swrap_bind_symbol_all` and is what
allows a handler that interrupts a fork to call the library while `binding` is held.

Model-checked only: the liveness properties, `ConsumerNeverStuck`, `ProducerNeverStuck`,
`BuffersReturn` (of two modules), `TxOnlyProgress`, `TransmitsUnlessStopped`,
`TransferCompletes` and `RoundsEnd`.  They rest on fairness, which is out of the prover's
reach.  Every invariant and every action property of the passing runs is proved.

## 6. Assumptions

* Memory is sequentially consistent, one access at a time.  Off aarch64 the
  barriers of the rings are compiler barriers (`af_xdp.h` 50-57), which is right on
  x86 for this pattern; weaker machines are not covered.
* The kernel and the device, modelled from how the code uses them: the kernel's
  halves of the rings follow the same protocol; a descriptor outside the UMEM is
  skipped; a full RX ring drops the packet and keeps the buffer; the kernel takes
  a TX descriptor only if its completion will have room.
* `tx_only` reuses frames in the order it sent them and never looks at which ones
  came back, so `InFlightDistinct` is stated for devices that complete in order.
* In `SwrapTable` the application is `Disciplined` where the configuration says so:
  no thread closes or overwrites a descriptor that a running call of another thread
  was given, no other call is given a descriptor that is no socket while `signalfd` or
  `accept` works on it, and no other call runs beside a `dup2`.  This rules out a close
  of a descriptor that is being duplicated or accepted on, about which nothing is shown.
* In `SwrapSocket` the application is `Disciplined`: it binds one fresh socket at a
  time, to a name that no open socket has; to a port of the range of auto-bind only
  while no socket is being auto-bound, and not before the `close` of a socket that was
  auto-bound to it is over (`Proper`); and it closes a socket it could not bind
  (`MayAutobind`).  A socket is closed when no call on it is running.  The sockets are
  those of one process.  Only `ConnectedToPeername` holds without the discipline.
* Of the constants of `SwrapSocket` the proofs use that there are finitely many sockets,
  that an interface is none of the special hosts, that `bind` with port 0 chooses from
  ports below those of auto-bind, and that the names the application uses are names.
* The kernel's unix sockets: a path is bound once until it is unlinked; a
  connection keeps the path the client had; a connected datagram socket takes
  datagrams from its peer only; a dead peer is reported once.
* Some properties except what the code is known to do otherwise, each in its comment:
  `EndMeansAll` and `TransferCompletes` lists of buffers that begin with an empty one
  before one longer than the MTU; `EndMeansAll` receivers one of whose calls failed for
  lack of memory after libc had delivered; `CapturesAgree` calls that fail and an
  `accept()` that does not ask for the address; `TransferCompletes` two ends that both
  use `sendto()`; `WaitsEnd` and `LocksOrdered` a capture file that cannot be written or
  on whose descriptor a stale index is left (`CaptureSafe`); `RightInfo` descriptors
  whose number the library overlooked; `BuffersReturn` of `XdpSock` a loop that polls
  its first socket only (`WaitsForFirst`), `TxOnlyProgress` one that polls with a full
  TX ring (`WaitsForKernel`); `TransmitsUnlessStopped` a kernel that has stopped;
  `DeliversReceived` frame 0; `RoundsEnd` packets that never cease and a timeout that
  could not be set.  `RunningServed` speaks of processes in their loop.
* In `Ping` a packet is at most `MaxAge` rounds old when it arrives, and a socket is
  read to its end within `Mbox` rounds; with rounds of a second and 2^16 numbers this
  is far from being tight.
* Compile-time values are constants: `NUM_DESCS` 1024, `NUM_FRAMES` 131072 and 256,
  `BATCH_SIZE` 16 and 1, `MAX_SOCKS` 4, `RR_LB` 0.

## 7. Findings

Each is a run that is expected to violate its property.

* `netif_payload`: `low_level_output` writes every packet to frame 0 whatever the
  kernel still has to send from it, and frame 0 is a receive buffer as well, so a
  packet can go out with the contents of another (`af_xdp.c` 363).
* `netif_wedge`: with a full TX ring `low_level_output` returns before it kicks the
  kernel or takes completions, so nothing empties the ring again (`af_xdp.c` 356).
* `swrap_fork_child`: `swrap_thread_prepare` takes `libc_symbol_binding_mutex` only, so
  any other mutex that a thread of the parent has at that moment stays locked in the
  child, and a call that needs it never returns (`socket_wrapper.c` 6263; the comment at
  6284-6286 says the handlers are there to prevent it).

Seen while modelling: comments that the code beside them contradicts.  The properties of
the passing runs leave these cases out and say so; they do not show that they go well.

* "dup2() does an implicit close of newfd, which we need to emulate"
  (`socket_wrapper.c` 6124): `swrap_dup2` returns before that when the source is no
  wrapped socket (6107), and a wrapped `newfd` keeps the slot of the socket it replaced.
  `RightInfo` excepts such descriptors.
* "prevent parent_si from being altered / closed while we read it" (3313-3316): the mutex
  is released before `libc_accept`, and `parent_si`, looked up before, is read again after
  it (3348): what is copied then may belong to another
  socket, if the application closed the listener meanwhile.  `Disciplined` excludes it.
* "we just not capture the packet" (5128): when `malloc` fails `swrap_recvmsg_after`
  returns -1 although libc has delivered, and what was delivered is lost.  `EndMeansAll`
  excepts such receivers.

Seen as well, without a sentence in the repository that they contradict:

* `outstanding_tx` is never incremented in `af_xdp.c`, only decremented; nothing
  reads it.
* `af_xdp_if` comes from `malloc` and `num_socks` is incremented without having been
  set (`af_xdp.c` 224).  `XdpDispatch` starts it at 0.
* `int_exit` detaches whatever program is attached, and a second process on the
  interface replaces the first one's: with `Overlap = TRUE` a process in its loop can
  be without its program.
* Between the attachment and the update of `qidconf_map` the packets of queue 0 are
  redirected to an empty map whichever queue was asked for (`xdpsock_user.c` 948).
* A second thread's `socket()` can be given `newfd` between the close and the
  `libc_dup2` of `swrap_dup2` (`socket_wrapper.c` 6126), as on any system for
  programs that use a number concurrently with `dup2` to it.
* In `tx_only` mode the first 1024 frames are on the fill ring as well as sent by
  `idx`; a received packet can overwrite the test frame (`xdpsock_user.c` 520).
* With `--poll`, `tx_only` skips `complete_tx_only` when the TX ring has no room
  (`xdpsock_user.c` 847-855): if the kernel has stopped, or the completion ring is full,
  nothing kicks it or takes completions again.
* With `--poll` and several sockets `rx_drop_all` polls the first one only (812, 825):
  packets of the others wait until it receives something.
* After a failed `bind` to an interface above 64 (or with no port left) `bindname`
  stays, and a later `connect` makes it the socket's name (`socket_wrapper.c` 3674):
  without the first part of `MayAutobind` `NameLeadsBack` fails.
* `swrap_bind` does not take `autobind_start_mutex`, and any port may be bound: a `bind`
  to a port of 10000 on can take the path between the `stat` and the `libc_bind` of an
  auto-bind, which then fails (3558-3560); can unlink a path that was just auto-bound
  (3800); and can have its own path removed by the `close` of the socket that was
  auto-bound to the port before (6017, 6036).  Without the conjuncts of `Proper` and
  `MayAutobind` about `AutoPorts` TLC finds `NameLeadsBack`, `SourcesAnswerable` and
  `AutobindSucceeds` violated.
* `swrap_bind` unlinks the path of an open socket that has the name, since the
  check for `EADDRINUSE` is compiled out (3779), and two calls with port 0 can choose
  the same port; `bindresvport` loops on an `EADDRINUSE` that does not come.
* Another process can take the path `swrap_auto_bind` found free; the call then fails
  instead of trying the next port (3560).
* An IPv6 socket that connects to an IPv4 address becomes an IPv4 one in
  `swrap_auto_bind` (3583).
* With a full table `swrap_socket` returns -1 and leaves libc's descriptor open.
* `signalfd` gives its argument to `swrap_remove_stale` instead of the descriptor it
  returns (3039), which keeps the index its number may have; and `dup` and `F_DUPFD` of
  what is no socket do not look at the index of the copy's number (6066, 6166).
* `accept` and `signalfd` on such a descriptor drop its index (3340, 3039) between the
  read and the increment of a concurrent `dup`, which can put a slot in use on the free
  list; `Disciplined` excludes it.
* Only `swrap_auto_bind` stores the path that `close` unlinks: paths of `bind()`ed sockets
  stay behind (3805).  Port 0 skips them, and fails with `ENFILE` after 4999.
* `swrap_pcap_get_fd` calls `close()`, not `libc_close()`, with `pcap_dump_mutex` and a
  slot's mutex held (2682): with a full disk two threads can wait for each other.
* The header and the packets of a capture are written with `write()`, not `libc_write()`
  (2681, 3016).  `libc_open` does not drop an index that is left over for the file's
  number, and with one `write()` locks that slot and records a packet, which takes
  `pcap_dump_mutex` again.
* A signal handler that interrupts a fork can wait for a thread that queues for
  `libc_symbol_binding_mutex` with a slot locked (722).
* The MTU loops never add to `len`, and a list that begins with an empty buffer before
  one longer than the MTU becomes a request for nothing, which returns 0 (4774, 5018).
* `recvmsg` hands the cut `msg_iovlen` back to the caller.
* `swrap_sendto` keeps the slot locked while libc waits for room (5374): two ends that
  both send this way can stop each other.
* `sendmsg` tests the zeroed copy for ancillary data, which is dropped (5799); `writev`
  falls back to `libc_readv` on `ENOTSOCK` (5975); `write`, `send` and `recv` have no such
  fallback.
* `lwip_sendto` returns -1, which `ping_send` takes for success (`ping.c` 185), and a
  failed `setsockopt` of the receive timeout is only printed (278).

## 8. What is not modelled, and what could follow

Not modelled:

* lwIP bring-up: `max_lwip_init`, `test_init` and `init_default_netif` call lwIP one step
  after the other and keep no state of their own.  That every `socket()` does it again
  is a hazard whose outcome lwIP decides, which is not in the repository.
* Statistics, hex dumps, the layout of captured packets, logging: pure output.
* The raw-API variant of ping, which is not compiled in.
* `bindresvport`, the values of socket options and of `ioctl`, ancillary data, the IPv6
  branches of the conversions: they change no state that the others read, or repeat
  what is modelled for IPv4.
* Several processes in one `socket_wrapper_dir`, with the race between `stat()` and
  `bind()`.
* Constants of the build.
