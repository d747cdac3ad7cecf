# cTCP: models, checks and proofs

cTCP is a stop-and-wait transport ("lab 1") that a client and a server run over
Unix datagram sockets (or over raw IP sockets, to talk to real servers).
`ctcp.c` is the transport; `ctcp_sys_internal.c` is the library under it: the
event loop, sockets, standard input and output, connection setup, and the
unreliability that is injected on request (`--drop`, `--duplicate`, `--delay`,
`--corrupt`).

This directory holds TLA+ modules translated from that code, the TLC
configurations that check them on small instances, and TLAPS proofs of the
results that hold for every instance. `PROJECT.json` lists components, runs,
mutants, the lines each definition models, findings, hazards and theorems.

## The system

| part | state it keeps | operations | talks to |
|---|---|---|---|
| transport (`ctcp.c`) | `ctcp_state_t` per connection: `conn_state`, `seqno`, `ackno`, the segment received last, the one unacknowledged segment with its age and number of transmissions, `td_state`, `tim`; the list of all states | `ctcp_read`, `ctcp_receive`, `ctcp_output`, `ctcp_timer`, `ctcp_init`, `ctcp_destroy` | called by `do_loop()`; calls `conn_send`, `conn_input`, `conn_output`, `conn_bufspace`, `conn_remove`, `end_client` |
| sending (`conn_send`, `send_pkt`) | whether the tester's one fault has happened; forked processes that hold a segment | drop, duplicate, delay, corrupt, send | socket of the peer |
| output (`conn_output`, `conn_drain`, `conn_bufspace`) | `out_queue`, `wrote_eof`, `wrote_err`, POLLOUT of stdout | write now or queue; write on when stdout is ready | calls `ctcp_output()` after a drain |
| input (`conn_input`) | `read_eof` | read up to a segment, or end of file | stdin |
| event loop (`do_loop`) | poll events, time of the last tick | one pass: stdin, stdout, socket, timer, deletion | calls all handlers, single threaded |
| connection table (server) | list of `conn_t`, `num_connected`, `new_connection` | `conn_add`, `conn_free`, `tcp_new_connection`, `recv_filter` | event loop |
| connection setup | initial sequence numbers | `tcp_handshake`, `tcp_new_connection` | peer |
| reset thread | `handling_resets` | `send_resets`, joined by `do_config` | main thread |
| packets, checksum | none | `convert_to_ctcp`, `convert_to_datagram`, `cksum`, `cksum_tcp` | sending and receiving |
| linked list | nodes | `ll_create`, `ll_add`, `ll_remove`, ... | created and destroyed by `ctcp.c`, otherwise unused |
| tester, logging, command line | | | |

What is hard here: two hosts and forked senders interleave; segments are lost,
duplicated, delayed, reordered and corrupted; timers race with answers; a
retransmission repeats what may have arrived; sends fail when a socket queue is
full; stdout takes part of a write, or nothing, or fails; both sides may close
at once; a connection may be destroyed by several handlers. `ctcp.c` does not
read the `ackno` of a segment, so that what an ACK acknowledges follows only
from stop-and-wait, and that is what most properties are about.

What would make each part correct:

* transport: what is printed is the peer's input in order, without repetition
  and (as far as the code can promise it) without gaps; an end of file comes
  after all data; everything is delivered as long as retransmissions last; both
  ends are released; no segment stays unacknowledged for ever;
* output: the queue stays within its capacity and is written in the end;
* connection table: every connection that is not destroyed is served, dispatched
  to and counted; the timer visits every state once;
* setup: both ends agree on the initial numbers, the first data are not lost;
* packets and checksum: conversion there and back is the identity on valid
  segments modulo 2^32, and keeps invalid ones invalid;
* reset thread: it holds nothing when it is cancelled;
* linked list: it behaves as a sequence.

## Modules

| module | what it is | checked by | proved in |
|---|---|---|---|
| `CtcpSys` | the library as one connection sees it: sending with faults, input, output | with `Ctcp` | with `Ctcp` |
| `Ctcp` | the transport on both hosts, over `CtcpSys` | `any_fault`, `fifo`, `slow_stdout`, `lossy`, `tester` and two violations | `CtcpProofs`; about the traffic and, under assumptions on the network, about completeness `CtcpFifoProofs`, `CtcpLossyProofs` |
| `OrderedStream` | abstract: what one direction of a connection promises | `any_fault` | `CtcpProofs` |
| `CtcpServer` | a server with several clients: `do_loop()` in its order, the lists of connections and of states, `ctcp_timer()` walking over the latter | `server`, `timer_returns` | `CtcpServerProofs` |
| `CtcpSetup` | starting, cleaning up, handshake, dispatch of packets to connections, kill and restart | `setup` | `CtcpSetupProofs` |
| `CtcpPacket` | one segment, byte for byte: checksum, bit flips, TCP/IP packet and back | `packets` | `CtcpPacketProofs` |
| `Sums` | what the loops of `conn_bufspace()` and `cksum()` add up | with `Ctcp`, `CtcpPacket` | `SumProofs` |
| `LinkedList` | `ctcp_linked_list.c` on a heap of nodes | `linked_list` | `LinkedListProofs` |
| `ObjectList` | abstract: the sequence of objects that `ctcp_linked_list.h` promises | `linked_list` | `LinkedListProofs` |

`MCCtcp`, `MCCtcpSetup`, `MCCtcpPacket` and `MCLinkedList` give names to the
constant values of the configurations. The models share the interfaces of the
code rather than variables: `CtcpSys` takes for granted that a corrupted segment
is found invalid, which `CtcpPacket` shows (`FlipIsDetected`); `Ctcp` starts with
an established connection and relative sequence numbers, which `CtcpSetup`
provides (`SetupAgrees`, `HandedAsSent`) and `CtcpPacket` converts (`Arrives`);
`CtcpServer` lets a segment come for any connection of the list, which one is the
business of `recv_filter()` in `CtcpSetup`.

The next sections describe `CtcpSys` and `Ctcp`.

### State

| variable | code |
|---|---|
| `state[h]` | `ctcp_state_t` of host h |
| `conn[h]` | `conn_t` of h, with `nread` (bytes taken from stdin so far), `out` (every piece of data `conn_output()` accepted), `pollout` (POLLOUT requested), `status` (`up`; `removed`: the server has destroyed the connection and goes on; `exited`; `crashed`) and `tainted` (`ctcp_output()` has used a freed segment) |
| `net` | receive queue of each socket, forked senders with their segment, faults injected so far |

Data are intervals of the sender's input, `(pos, len)`, so that order,
repetition, gaps and corruption of the output can be told. A corrupt segment
has `ok = FALSE` and position 0. `ackno` and `window` of a segment are left out,
because `ctcp.c` writes them and never reads them. `received_segment` is `NULL`
also while it points to freed memory. The linked list `segments_send` and
`tear_down_nums` are written and never read, and are left out.

### Actions

| action | code |
|---|---|
| `ReadData`, `ReadEof` | `ctcp_read()`, called when stdin is readable: data, or a FIN and TEAR_DOWN |
| `Receive` | `recv_filter()` and `ctcp_receive()`: validity, then by state `InDataTransfer`, `InTearDown`, `InWaitLastFin`, `InWaitLastAck`; data go through `ctcp_output()` |
| `Discard` | a datagram for a connection the server has destroyed |
| `Drain` | `conn_drain()` and the `ctcp_output()` it calls, with `UseAfterFree` when that finds a freed segment |
| `ctcp_timer` | one tick: `TimerDestroys` (end of WAIT_DESTROY) or `TimerTicks` (ageing, `Retransmit`, giving up) |
| `ForkedSend` | a forked sender wakes up and sends |

`do_loop()` is single threaded, so a handler is one atomic step of its host. A
call that the handler goes on from (`conn_send`, `conn_output`, `conn_drain`,
`conn_input`) is an operator whose value is the set of its outcomes: for
`conn_send()` a return code and the new network.

What the code leaves undefined is a choice: `ctcp_output()` on a freed segment
reads a length that is too large (nothing happens), zero (`ackno` becomes
garbage), or small enough (bytes that are nobody's input are printed and
acknowledged), or its second `free()` aborts. Garbage acknowledgement numbers
are represented by the extremes 0 and `MaxSeqno`.

The sockets are Unix datagram sockets: reliable and in order for one sender,
failing when the queue is full (`QueueLen`) or the peer is gone. Loss,
duplication and reordering come from `conn_send()` itself. A forked sender keeps
its parent's socket open, so a send to a host that has exited may still succeed
and is never read. `write()` and the sockets are the only external parts.

### The server

`CtcpServer` has one process, whose place in `do_loop()` is `pc`: stdin
(`ctcp_read()` for the newest connection), stdout (`conn_drain()` connection by
connection, newest first), socket (`tcp_new_connection()`, a refused SYN, the
swallowed first ACK, `ctcp_receive()`), timer (`ctcp_timer()`, state by state)
and deletion. Connections are numbered as they are accepted and both lists grow
at the front only, so a list is the set of its members in descending order:
`IsHead`, `IsNext`. Of a `ctcp_state_t` the model keeps what decides about the
lists: `conn_state`, whether a segment is unacknowledged (`pending`), `td_state`
and `tim` in ticks; of a `conn_t` whether output is queued, `delete_me`, and
whether it is freed. What a handler does to these is the projection of the
handlers of `Ctcp`: a segment may be old or invalid, a send may fail, stdout may
take all, some or nothing of the output, or fail, and the timer may give a
segment up.

`conn_free()` of the head of the list sets `config->connections` to `NULL` and
writes through `prev`, which holds the address of a local variable of
`conn_add()`: the older connections leave the list, and `pc` may become
`undefined`. So it may after `ctcp_receive()` on a state that the drain of the
same pass has destroyed, after a second `free()`, and it does when `ctcp_timer()`
follows `state_list` after destroying the only state.

### Setup

`CtcpSetup` has a process per host (`pc`: where its main thread is) with its reset
thread (`thread`, `handling_resets`), a socket queue per host, the client's
`conn_t`, the server's list of connections, `num_connected` and `new_connection`.

| action | code |
|---|---|
| `Start` | `main()` up to `pthread_create()`: a client draws its number and binds its socket, whose earlier queue is gone |
| `do_config`, `Join` | the sleep, the busy wait on `handling_resets`, `pthread_cancel()`, `pthread_join()` |
| `send_resets` | the thread, step by step: `recv()`, setting the flag, `sendto()`, leaving the loop and clearing it; cancellation is deferred, so that it takes effect in `recv()` or `sendto()` only |
| `send_syn`, `tcp_handshake`, `NoAnswer` | the client's half: the SYN, any SYN taken for the answer, a packet of an earlier connection that is continued (`Continues`), a timeout |
| `ServerReceives` | `recv_filter()` and the socket part of `do_loop()`: the swallowed ACK of the newest connection, a segment handed to `ctcp_receive()`, `tcp_new_connection()` or its refusal, a packet nobody waits for |
| `ClientReceives` | the same at a client, where a SYN fails the assertion of `tcp_new_connection()` |
| `Send` | `ctcp.c`, which is any program that sends segments over its connections |
| `Killed` | the process ends at any point; another may be started on the port |

`seqno` and `ackno` of a packet are history: what `ctcp.c` sent, 0 in the
handshake. Numbers are taken modulo `Long`, 2^32 in the code. The server always
uses Unix sockets, because only `do_config_server()`, which a client calls, clears
`unix_socket`. The binary is built without optimisation (`Makefile`), so the busy
wait reads `handling_resets` again; the flag is no atomic variable.

### Packets

`CtcpPacket` follows one segment: `segment_send` fills it in and sums it up,
`conn_send` flips one of the bits it may flip or none and converts it to a packet,
`do_loop` converts it back. A segment is the sequence of its bytes in memory,
checksums are computed word by word in the machine's byte order, and the error
of a wrong checksum is carried through the packet as the code does it. The
width of a byte is a parameter.

### Linked list

`LinkedList` has one action per function of `ctcp_linked_list.c`, on a heap that
maps addresses to nodes. `call` holds the function called last with its arguments
and `result` what it returned; both are shared with `ObjectList`, whose operations
say for each function and its arguments what becomes of the sequence and what is
returned. `Items`, the sequence behind the pointers, is the refinement mapping: an
`ll_add` that prepended, or an `ll_front` that returned the tail, would not refine
`ObjectList`, since the call recorded is the same.

### Abstractions

* `Ctcp`: one connection, established. `Init` is the state after the first pass of the
  loop, which clears the POLLOUT that `setup_poll()` requests.
* In `CtcpServer` a segment may come for any connection of the list: ports and
  initial sequence numbers are in `CtcpSetup`, whose connections in turn are only
  removed when the server ends.
* In `CtcpSetup` the windows and the initial values of `next_seqno` and `ackno`,
  which only serve to build packets, are left out.
* Unix sockets, no program behind the server; with raw sockets the peer is not
  this program.
* `read()` from stdin does not answer EAGAIN: poll has reported it readable.
  For the same reason the first `write()` of a drain takes at least a byte.
* The two sends of one handler see the queue of the peer unchanged in between.
* A forked duplicate is not delayed by a second fork (see the hazards).
* Times are scaled down: five transmissions, 40 ms, 200 ms and 50 timeouts
  become `Retries`, `Timer`, `RtTimeout`, `WaitFactor`.
* `Timely` states how the real times compare, where a property depends on it: a
  datagram in a socket is received before the next tick, 40 ms later (`Quiet`), and
  the 50 retransmission timeouts of WAIT_DESTROY, ten seconds, outlast the sleep of
  a delayed segment (up to four seconds) and all that the peer may still retransmit
  (one timeout and four ticks, `Settled`). A delayed segment itself sleeps through
  any number of ticks, as `sleep(rand() % 5)` does. Without `Timely` ticks happen at
  any time.
* `poll()` reports an error of stdout also when POLLOUT is not requested: `Drain` is
  then possible too, and writes nothing.
* Bounds: `MaxSeqno` (no wrap-around; at most that many FINs from a stdin whose
  end of file stays readable), `MaxFaults`, `MaxOut` (pieces printed by a host
  that prints freed memory), `QueueLen`; in `CtcpSetup` `MaxSent` (segments of
  `ctcp.c`) and `MaxStarts` (processes started).

## Runs

| run | instance | checks |
|---|---|---|
| `any_fault` | two bytes one way, one the other, the client closes; two faults of any kind on any host; queue of two; ticks at any time; two transmissions | `TypeOK`, `InOrderOnce`, `StreamInv`, `ImplementsStream`, `TrafficDiesDown` |
| `fifo` | two bytes each way, both close; no faults; queue of twenty-five; ticks at any time; fair | `OutputIsPrefix`, `CompleteAtEof`, `FifoInv`, `NoLoss`, `Resolved` |
| `slow_stdout` | four bytes, segments of two, room for three; partial, refused and failing writes; one drop or duplicate | `StreamInv`, `QueueFits` |
| `lossy` | four bytes one way; three drops or corruptions, four transmissions; fair | `OutputIsPrefix`, `OneSegmentAhead`, `RepairInv` (which implies `CompleteAtEof` here), `GivenUpInTime`, `FewUnderWay`, `AckedIsPrinted`, `Delivered` |
| `tester` | the same with one fault of any kind, as the tester injects it; delayed segments outlive ticks; three transmissions; fair | `Delivered`, `Closed` (which implies `Resolved`, as a host is not `up` again) |
| `server` | three clients in all, WAIT_DESTROY of two ticks | `TypeOK`, `TimerOnLive`, `LoopOnLive`, `ServerInv` |
| `setup` | two clients and a server, four starts in all, one segment, numbers modulo 8; fair | `TypeOK`, `SetupAgrees`, `SetupInv`, `SessionInv`, `HandedAsSent`, `OnlyAcksAreSwallowed`, `SetupEnds` |
| `packets` | five payloads, numbers at the edges of their range, every bit that may be flipped | `TypeOK`, `SumsToAllOnes`, `Arrives`, `FlipIsDetected`, `WireAgrees` |
| `linked_list` | four nodes (symmetric), three objects, any calls | `TypeOK`, `WellLinked`, `ImplementsList` |
| `bidirectional_drop` | two-way, one drop; fair | `Delivered` is violated |
| `freed_segment` | slow stdout | `OutputFindsSegment` is violated |
| `timer_returns` | two clients; fair | `TimerReturns` is violated |

The instances are small because the protocol has one segment under way in each
direction: two segments per direction give a current and an earlier one, two
faults let a fault hit the repair of another, and a queue of two lets a send
fail. `slow_stdout` has room for one segment and a half, so that a segment finds
no room, some room and enough room. The three faults of `lossy` are one less
than its transmissions by the timer: with as many, the sender gives up and reads
on while its last transmission is under way. The queue of twenty-five in `fifo` is
one more than all the transmissions there can be (each host sends two bytes and two
FINs, three times each), so that no send fails, as `NoLoss` confirms, and the run is
about what ticks at any time alone can do. Three connections give the server's
lists a head, a middle and an end; two suffice for the timer not to return.

In `setup` two clients compete for a queue of two packets and for a table of two
connections; four starts let one process be killed and started again while the
others keep running, with its packets still under way. One client draws from
{0, 2}, the other 7, the last number before the wrap, the server from {0, 3}, so
that ranges overlap and wrap and the range test of `recv_filter()` cannot tell the
connections apart by itself. `packets`
uses bytes of seven bits, so that TLC's integers hold a `uint32_t`; nothing in
the algorithms depends on there being eight. Its payloads have even and odd
lengths, words that carry, and a sum for which the code substitutes 0xffff for 0. Four
nodes give `linked_list` a head, a tail and two nodes in between, three objects
repetition in any pattern.

Every property of a passing run has a mutant in `PROJECT.json`: a plausible
error in one definition (the operators with a suffix such as `_OffByOne`, next
to the definition they replace) that TLC must refute.

Deadlock is not checked for `Ctcp`: a connection whose input is finished and
whose ends are closed has nothing left to do. Nor is it for `CtcpPacket`, where
the segment has then arrived, and for `CtcpSetup`, where all processes may be down
or at rest. It is for `CtcpServer`, whose loop never ends, and for `LinkedList`.

Fairness (`FairSpec`): each host's loop serves stdin, stdout, the socket and the
timer in every pass, so each of them is weakly fair; the kernel schedules the
forked senders. No fairness is assumed of faults, and none between the outcomes
of a call. For `CtcpServer` it is weak fairness of `Next`: the loop is one thread
that never blocks for longer than the timer's interval. For `CtcpSetup` it is weak
fairness of each thread's own steps: a thread that can run is scheduled. Nobody
has to start, to be killed or to send.

### What the runs show

* Whatever happens to segments and timers, the output is in order and without
  repetition (`any_fault`, and proved, see below). Gaps are possible: after a
  failed send, after data that cross a lost segment, and after giving up.
* Without faults spurious retransmissions alone lose and repeat nothing
  (`fifo`, and proved). In a one-way transfer, losses up to the number of
  retransmissions are repaired (`lossy`, and proved), and a segment is forgotten
  only once printed, although the code does not look at what an ACK acknowledges.
  Never more than two datagrams are under way then, however long the input, so that
  the sockets do not fill up although there is no window (`lossy`, and proved).
* A delayed, duplicated, dropped or corrupted segment, ACK or FIN does not keep a
  one-way transfer from being delivered completely and released on both ends
  (`tester`), also when it arrives after the sender has given up waiting for it.
* Whatever is lost, duplicated, delayed or corrupted, the traffic dies down
  (`any_fault`, and proved): every step that sends or receives lessens what is under
  way and may still be sent. Two hosts never answer each other for ever. This takes a stdin that reports its end once: with
  one that stays readable `ctcp_read()` sends a FIN whenever none is
  unacknowledged, in every state.
* With data in both directions one lost segment may be lost for good
  (`bidirectional_drop`): the peer's data clear it.
* A server's handlers of stdin, stdout and the timer never meet a destroyed state
  or a freed connection (`server`, and proved). Only a segment can, in the pass
  in which the drain destroyed its connection (`ReceiveOnFreed`).
* With two clients `ctcp_timer()` may never return (`timer_returns`): it goes on
  to `state_list->next`, the second state, again and again. With one that it has
  just destroyed it follows `NULL`.
* Stdout that takes part of a write leads to a freed segment (`freed_segment`).
* Each direction is an ordered stream with possible gaps until a host uses freed
  memory (`any_fault`, and proved): no handler prints a piece twice, two pieces at
  once, or something else than input.
* A client and a server that run for the first time agree about the initial
  numbers, although neither checks the other's, because a Unix socket lets
  nothing overtake the SYN-ACK (`setup`, and proved). Starting comes to an end
  however many packets arrive: the thread leaves its loop after the first. A
  segment reaches `ctcp.c` with the numbers it was sent with; only the handshake's
  own ACK is swallowed (both proved). For a client that is started again none of this is
  ensured: it may take the SYN-ACK meant for its predecessor and then fail the
  assertion at `ctcp_sys_internal.c:1034`.
* A segment arrives unchanged across the wrap of its absolute numbers, and one
  flipped bit is always found (`packets`, and proved for every payload).
* Further divergences from the comments of `ctcp.h`, seen while translating and
  without a run of their own: a drain that writes some chunks whole and is then
  refused leaves the rest queued with POLLOUT cleared (`ctcp.h:161`,
  `ctcp_sys_internal.c:645`); any segment in TEAR_DOWN counts as the
  acknowledgement of the FIN, so that a simultaneous close with a lost FIN leaves
  one host in WAIT_LAST_FIN (`ctcp.h:106`, `ctcp.c:371`); retransmissions after the
  first follow at every tick, 40 ms apart, because `time` is not reset, against "Do not
  retransmit every segment every time the timer is fired! A segment should only be
  retransmitted rt_timeout milliseconds after it was last sent" (`ctcp.h:178-180`,
  `ctcp.c:224`; `GivenUpInTime` is an upper bound that either pace meets); giving up does not tear the connection down
  (`ctcp.h:182`, `ctcp.c:229`); a FIN received in TEAR_DOWN or WAIT_LAST_FIN is
  not output as an end of file (`ctcp.h:142`, `ctcp.c:388`); a host closed by its
  peer is destroyed with its own input unread (`ctcp.h:99`, `ctcp.c:404`). In the
  same way, of the library: the data of a failed send are never sent again
  (`ctcp.c:152`); removing the newest connection forgets all the others
  (`ctcp_sys_internal.c:694`); `num_connected` counts the clients that ever
  connected (`ctcp_sys_internal.c:88`, `1041`).

## Proofs

`CtcpProofs` proves, for all values of the constants that satisfy the
assumptions of `CtcpSys` and `Ctcp` (two distinct hosts; sizes, times and bounds
natural numbers, positive where the code needs it; `NULL` is no segment):

* `StreamInvariant`: `Spec => []StreamInv`
* `TypeCorrect`: `Spec => []TypeOK`
* `OutputInOrderOnce`: `Spec => []InOrderOnce`

`InOrderOnce` is not inductive: that the next piece printed lies beyond the
earlier ones depends on which segments may still arrive. `Data(h)` collects all
of them: in h's socket, held by forked senders, kept by the peer for
retransmission, or waiting for room in h. `StreamInv` adds

* `DataWasRead`: each such segment carries input its sender has read, and its
  sequence number is not beyond the sender's;
* `SeqnoOrdersData`: of two such segments, if the first ends, by sequence
  numbers, before the second begins, it does so by position in the input too. It
  is stated with `<=` because after a failed send two segments can have the same
  sequence number (a copy of the failed one may have been forked off);
* `AcknoGuards`: in DATA_TRANSFER, a segment that passes the test against
  `ackno` lies beyond everything printed;
* `WaitingIsNew`: so does the segment that waits for room.

The argument has three layers. `ConnSendFacts` says that a send adds to the
network nothing but the segment, intact or corrupt, and `ConnOutputFacts` and
`ConnDrainFacts` what the output calls change. `HandlerStep` is the core: a
handler whose new segments are fresh (`AddsOnlyFresh`) and which prints nothing
or one piece beyond all earlier ones (`Prints`) preserves the invariant. Each
action is then shown to be such a handler (`ReadDataStep`, `ReadEofStep`,
`ReceiveStep`, `DiscardStep`, `DrainStep`, `TimerStep`, `ForkedSendStep`); most
fall under `QuietReturn`, `QuietGone` or `QuietDestroy` for handlers that print
nothing and send no data.

`CtcpServerProofs` proves, for any number of clients and any waiting time:

* `ServerInvariant`: `Spec => []ServerInv`
* `TimerSafe`: `Spec => []TimerOnLive`
* `LoopSafe`: `Spec => []LoopOnLive`
* `ServerTypeCorrect`: `Spec => []TypeOK`

The two safety properties are not inductive: that the connections found at the
next pass have live states depends on what `delete_all_connections()` frees and
on what the handlers marked. `ListsAgree` adds that the timer's list holds
exactly the accepted states whose connection is not marked, that only marked
connections are freed, and that the connections the drain has not reached yet
are live. `Moves` and `DestroyMoves` treat the steps that leave the lists alone
or destroy one state; the types of the per-connection states are kept apart
(`NextTcb`), because they need another prover.

`CtcpProofs` also proves `StreamRefinement`: `Spec => ImplementsStream`, that is
that `Ctcp` implements `OrderedStream` in both directions. `StepOf` says what one
step may do to the connection object of the host that takes it: read, print at
most one piece, or become undefined; there is a lemma for each action. That
the piece printed is a piece of what was read and lies beyond the earlier ones is
`InOrderOnce'`, which `StreamInvariant` provides.

And it proves `QueueNeverOverflows`: `Spec => []QueueFits`. `QueueFits` is inductive
given the types: only `conn_output()` makes the queue longer, `ctcp_output()` has
compared the segment with `conn_bufspace()` before, and a drain takes whole chunks
or a part of one away. What the sum of a queue becomes in each case is in
`SumProofs` (`TotalOfAppend`, `TotalOfRest`, `TotalOfChange`). Induction is done
there, as everywhere here, with the least number at which a claim would fail
(`Least`).

### Without losses

`CtcpFifoProofs` proves, if stdout takes all it is given (`~SlowStdout`) and has
room for a segment (`MSS <= BufSpace`), for every input, timeout and interleaving
of ticks, retransmissions and both directions:

* `FifoInvariant`: `Spec /\ []NoLoss => []FifoInv`
* `NothingIsMissing`: `Spec /\ []NoLoss => []OutputIsPrefix`
* `EofMeansComplete`: `Spec /\ []NoLoss => []CompleteAtEof`

`NoLoss` says that no fault is injected and no socket is full. The absence of
gaps is not inductive: an ACK moves `ackno` to its own sequence number
(`ctcp.c:349`), which loses nothing only because everything before it has arrived.
`FifoInv` says of each direction that the segments under way and the one kept for
retransmission reach from `ackno` to the sender's `seqno` without a gap and do not
overlap partly, that one begins at most where those ahead of it in the queue end
(`GapFree`), that sequence numbers are positions of the input (`CountsInput`), and
that a host which still takes data has sent no FIN. `GapFreeTake` and its
neighbours say what receiving and sending do to such a queue; each action is a
lemma. Whether `NoLoss` holds depends on the length of the socket queues and on how
long a peer does not run; the run `fifo` checks it for its instance, and
`CtcpLossyProofs` does without it.

### How much is sent

The second part of `CtcpFifoProofs` is about any faults, any stdout and any
queue length:

* `SegmentsGivenUpInTime`: `Spec => []GivenUpInTime`, if `Timer <= RtTimeout`
* `TrafficAlwaysDiesDown`: `Spec => TrafficDiesDown`, a property of steps, if no
  stdin is `sticky`

`Traffic` is a price of all that is under way and may still be sent. In a socket a
pure ACK costs 1, and a segment that may be answered, with data or a FIN, 3
(`Price`); a segment that sleeps in a forked sender and a fault that is left, which
pays for a fork, cost 4 (`UnderWay`). Each host has in addition the price of
`Retries + 1` transmissions of every byte of input not read, of the FIN at the end of
file and of the FIN that answers the peer's (`Unsent`), of the retries left of the
unacknowledged segment, and 2 for a segment that waits for room (`Extra`). Every step
that changes the network makes `Traffic` less, and no other makes it more: what is
sent, asleep or sent again costs 4 before and at most 3 in the socket, an answer is
an ACK and costs less than what it answers, and an ACK is not answered at all. As
`Traffic` is a natural number, there are finitely many such steps. A host that
answered ACKs would keep the number of segments constant, but not the price; that is
the mutant of this property. The difficult case is the first FIN received in
DATA_TRANSFER, which is answered by an ACK and a FIN: the host leaves DATA_TRANSFER
for good, and is never there again to answer so.

That the prices are natural numbers has to be known in every state, and this is the
inductive invariant `CountsInv`: with `StreamInv`, the forked senders are finitely
many, faults are within their bound, a host has read no more than its input and has
met the end of file only behind it, and `Paced`. Without the last, a segment could
have used up more retries than there are. `Paced` is inductive because the age of a
segment and the number of its transmissions grow together from `RtTimeout` on, and
`GivenUpInTime` follows from it. `Spare(h, s, c, n, k)` says, in the middle of a
handler, that `k` is left of what was paid; taking a segment from the socket starts
with its price (`TakenCounts`), an ACK uses a part of that up (`AckCounts`), and a
handler that sent or received may return with something left (`LighterReturn`,
`NewSendCounts`). There is a lemma for each action; only `Drain` on freed memory
(`tainted`) and an end of file that is reported again escape, which `NextCounts`
says.

### With losses

`CtcpLossyProofs` proves, under `LossyOneWay`:

* `LossesAreRepaired`: `Spec => []RepairInv`
* `NothingIsLost`: `Spec => []OutputIsPrefix`
* `LossyEofMeansComplete`: `Spec => []CompleteAtEof`
* `NeverFarAhead`: `Spec => []OneSegmentAhead`
* `AckMeansPrinted`: `Spec => AckedIsPrinted`, a property of steps
* `NeverManyUnderWay`: `Spec => []FewUnderWay`

`LossyOneWay` says: only drops and corruptions, in all fewer than the transmissions
by the timer (`MaxFaults < Retries`); one host has no input; datagrams arrive before
the next tick (`Timely`, see above); stdout takes everything; a socket has room for
two datagrams. The run `lossy` is an instance of it. The parts are needed: with data
both ways the code loses a segment (`bidirectional_drop`), and with any of the
others changed in that instance (ticks at any time, as many faults as
transmissions, a socket for one datagram, too little room on stdout, partial or
failing writes) TLC refutes `OneSegmentAhead`.

`RepairInv` is about the two ends of the one stream. While the receiver listens: it
has printed up to `ackno`; the sender has at most one unacknowledged segment, which
the receiver has printed or expects next (`OneUnacked`); whatever is under way and
not old is that segment, last in the queue; and if it is expected and not under
way, its transmissions, `no_of_times` by the timer and the first one, have each
cost a fault (`Repairable`), so that `GivesUp` is still false. An ACK under way
acknowledges this segment and nothing is under way the other way
(`Acknowledges`). Once the receiver does not listen any more, all has been printed.
`LInv` is `RepairInv` together with `StreamInv`, restated for a pair of records
(`Pair`) so that a handler's outcome can be put in place of a host's state
(`LossyReturn`). `Transmits` says what a lossy send makes of a queue; `FirstSend` and
`SendsAgain` are the sender's two ways to transmit; `HeadOfQueue`, `SenderGetsAcks`
and `ReceiverGetsKept` say what can be received in each role; then there is a lemma
for each case of each handler. In the states after DATA_TRANSFER everything that
arrives is late (`LateReceive`).

`FewUnderWay` is not inductive: a second datagram is sent while the first is under
way only if the sender keeps the segment sent first. `Few` says so: at most one
datagram is queued in all, and at most two if the sender keeps a segment (`Room`). A
tick sends again only when the sockets are empty (`Timely`), `ctcp_read()` only when
nothing is kept, and an answer takes the place of what it answers. The FIN that closes
the stream is answered by two segments, but with nothing else under way and while its
sender keeps it (`FinQueued`). While the peer listens the bound follows from `RepairInv`
(`FewWhileOpen`).

### The other modules

`LinkedListProofs` proves, for any set of nodes and objects:

* `ListIsWellLinked`: `Spec => [](TypeOK /\ WellLinked)`
* `ListTypeCorrect`: `Spec => []TypeOK`
* `ListRefinement`: `Spec => ImplementsList`

`WellLinked` is inductive with the types: the sequence that witnesses it for the
next state is the old one with a node inserted or removed (`InsertsFacts`,
`DeletesFacts`), to which each function is reduced (`AddInserts`, `RemoveDeletes`
and so on). The refinement needs that the sequence is unique (`BehindIsUnique`)
and that a walk along `next` meets all that follows (`WalkFacts`); both take the
least position at which they would fail, as the prover has no induction.

`CtcpSetupProofs` proves, for any number of clients, starts, kills and segments,
any queue length and any word size:

* `SetupInvariant`: `Spec => []SetupInv`
* `HandshakeAgrees`: `Spec => []SetupAgrees`
* `SetupTypeCorrect`: `Spec => []TypeOK`
* `SessionInvariant`: `Spec => []SessionInv`
* `SegmentsArriveAsSent`: `Spec => []HandedAsSent`
* `NoSegmentIsSwallowed`: `Spec => []OnlyAcksAreSwallowed`

`SetupAgrees` is not inductive: what a client takes from a SYN-ACK depends on what
the server put there, which depends on the SYN. `SetupInv` adds that packets and
connections carry the port of a client (`Addressed`), that a client which has not
sent its SYN is unheard of (`NotStarted`, `Unheard`), and, while client and server
are in their first run (`FirstRun`), that a SYN under way has the client's number
and a SYN-ACK under way those of a connection in the server's list
(`SynsAgree`), and that the head of the queue of a client which waits is a SYN-ACK
(`AnswerComesFirst`), so that `Continues` never applies. `Delivers` and `Takes` say
once what `sendto()` and `recv()` do to the queues; each action is a lemma.

The last two depend on the order of the packets of one client. `SessionInv` says of
a client in its first run that its SYN is the only packet it has at the server, or
that the handshake's ACK comes before its segments while the server still takes the
connection for new; that packets under way have the absolute numbers which the
receiving connection turns back into those they were sent with, modulo the word
size; and what its socket holds before, during and after the handshake. The server
may be started again and other clients may do anything meanwhile.

`CtcpPacketProofs` proves, for bytes of eight bits (and of the seven that the run
uses), every payload that fits a segment, all sequence numbers and addresses and
every initial number that `rand()` can return:

* `PacketTypeCorrect`: `Spec => []TypeOK`
* `SegmentSumsUp`: `Spec => []SumsToAllOnes`
* `SegmentArrives`: `Spec => []Arrives`
* `FlipNeverPasses`: `Spec => []FlipIsDetected`
* `WireSumAgrees`: `Spec => []WireAgrees`

The invariant is `Travels`: what is in `segment`, `datagram` and `received` at each
place is what the code before it made of the segment. The rest is arithmetic. The
folded sum is a remainder modulo 2^16 - 1 that is not 0 for a positive sum
(`FoldedFacts`), so that replacing one word changes the checksum exactly if the
remainder changes (`CksumOfReplaced`), which one flipped bit does, also in the odd
last byte (`FlipIsBad`); numbers come back modulo 2^32 (`Wraps`), and so does the
error of the checksum modulo 2^16 (`Errs`); fields that are written to bytes are
read back (`Made`, `FieldsOf`).

### Only model-checked

All liveness properties (`Delivered`, `Closed`, `Resolved`, `SetupEnds`), which need
fairness, and `NoLoss`, the condition of the theorems about a network without losses,
which depends on how long the queues of the sockets are. Every other property of a
passing run is stated by a theorem.

## Not modelled

* Raw sockets to real servers (and the RSTs, the line endings and the local
  address that go with them): the peer is not this code. `CtcpPacket` has the ACK
  bit that is added for such a peer.
* Programs run behind the server: their pipes and processes.
* A duplicate that is delayed too: the forked process forks once more and returns
  into the event loop (`ctcp_sys_internal.c:851`), so that two loops share all
  descriptors.
* The wrap of relative sequence numbers, which takes four gigabytes.
* Options, logging and formatting: no state a property is about. The values of
  the options are constants of the models.
* The tester and `test.c`: drivers, not part of the program. The tester's settings
  are the constants of the run `tester`.

## Plan

Done: the modules, runs and proofs above. Left: a proof that a server serves
connections in `CtcpServer` as `Ctcp` does. What its handlers do to one connection is
a projection of the handlers of `Ctcp`, which is so far by construction.
