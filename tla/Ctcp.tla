-------------------------------- MODULE Ctcp --------------------------------
(***************************************************************************)
(* The stop-and-wait transport of ctcp.c on both ends of one established   *)
(* connection, over the library of module CtcpSys.  do_loop() is single    *)
(* threaded, so a handler it calls is one atomic action of its host.       *)
(***************************************************************************)
EXTENDS CtcpSys

CONSTANTS
  Timer,       \* TIMER_INTERVAL: ms between calls of ctcp_timer()
  RtTimeout,   \* RT_INTERVAL: retransmission timeout in ms
  Retries,     \* transmissions by the timer before a segment is given up
  WaitFactor,  \* retransmission timeouts spent in WAIT_DESTROY
  MaxSeqno,    \* bound on seqno: no 32-bit wrap-around, no endless FINs
  MaxOut,      \* bound on the pieces a host with freed memory prints
  Timely       \* are the timers slow against the network (see below)?

ASSUME TimerAssumption == /\ Timer \in Nat \ {0}
                          /\ RtTimeout \in Nat \ {0}
                          /\ Retries \in Nat \ {0}
                          /\ WaitFactor \in Nat
ASSUME BoundAssumption == MaxSeqno \in Nat /\ MaxOut \in Nat /\ Timely \in BOOLEAN

vars == <<state, conn, net>>

ConnState == {"DATA_TRANSFER", "TEAR_DOWN", "WAIT_LAST_FIN", "WAIT_LAST_ACK"}
TdState == {"NOT_TEARDOWN", "WAIT_DESTROY"}
Uint16 == 0..65535

(* received_segment is NULL while it points to no segment or to a freed one *)
MaybeSegment == Segment \cup {NULL}
MaybeAttr == SegmentAttr \cup {NULL}

CtcpState == [conn_state : ConnState, seqno : Nat, ackno : Nat,
              received_segment : MaybeSegment, sent_segment_attr : MaybeAttr,
              td_state : TdState, tim : Uint16]

ctcp_init == [conn_state |-> "DATA_TRANSFER", seqno |-> 1, ackno |-> 1,
              received_segment |-> NULL, sent_segment_attr |-> NULL,
              td_state |-> "NOT_TEARDOWN", tim |-> 0]

Init == /\ state = [h \in Host |-> ctcp_init]
        /\ conn = [h \in Host |-> ConnInit]
        /\ net = NetInit

(* The handler of h returns with this ctcp_state, conn_t and network.       *)
Return(h, s, c, n) == /\ state' = [state EXCEPT ![h] = s]
                      /\ conn' = [conn EXCEPT ![h] = c]
                      /\ net' = n

(* The process is gone, and its socket with whatever it had not received.   *)
Gone(h, s, c, n, status) ==
  Return(h, s, [c EXCEPT !.status = status], [n EXCEPT !.wire[h] = <<>>])

-----------------------------------------------------------------------------
(* Helpers *)

is_segment_valid_Always(segment) == TRUE
is_segment_valid(segment) == segment.ok

save_sent_segment_Forgets(s, segment) == s
save_sent_segment(s, segment) ==
  [s EXCEPT !.sent_segment_attr =
              [segment |-> segment, time |-> 0, no_of_times |-> 0]]

destroy_acked_segment_KeepsPointer(s) == s
destroy_acked_segment(s) == [s EXCEPT !.sent_segment_attr = NULL]

(* _segment_send(): when conn_send() fails nothing is recorded; otherwise   *)
(* seqno moves past the segment, and data and FINs are kept.                *)
segment_send(h, s, n, flags, pos, len) ==
  LET segment == [flags |-> flags, seqno |-> s.seqno, pos |-> pos,
                  len |-> len, ok |-> TRUE]
      fin == "FIN" \in flags
      sent == [s EXCEPT !.seqno = @ + IF fin THEN 1 ELSE len]
      kept == IF len > 0 \/ fin THEN save_sent_segment(sent, segment) ELSE sent
  IN  {[rc |-> o.rc, n |-> o.n, s |-> IF o.rc < 0 THEN s ELSE kept] :
         o \in conn_send(h, n, segment)}

send_ack(h, s, n) == segment_send(h, s, n, {"ACK"}, 0, 0)
send_fin(h, s, n) == segment_send(h, s, n, {"FIN"}, 0, 0)

(* ctcp_destroy(): the client process exits in end_client(); the server     *)
(* forgets the connection and goes on.                                      *)
ctcp_destroy(h, s, c, n) ==
  IF h = Client THEN Gone(h, s, c, n, "exited")
  ELSE Return(h, s, [c EXCEPT !.status = "removed"], n)

-----------------------------------------------------------------------------
(* ctcp_read() *)

(* do_loop() calls ctcp_read(), which does nothing while a segment is       *)
(* unacknowledged.                                                          *)
MayRead_NoWait(h) == conn[h].status = "up" /\ StdinReady(h)
MayRead(h) == /\ conn[h].status = "up" /\ StdinReady(h)
              /\ state[h].sent_segment_attr = NULL

ReadData_NoErrorCheck(h) ==
  /\ MayRead(h)
  /\ \E i \in conn_input(h) :
       \E o \in segment_send(h, state[h], net, {"ACK"}, conn[h].nread + 1, i.rc) :
         Return(h, o.s, i.c, o.n)
ReadData(h) ==
  /\ MayRead(h)
  /\ \E i \in conn_input(h) :
       /\ i.rc >= 0
       /\ \E o \in segment_send(h, state[h], net, {"ACK"},
                                conn[h].nread + 1, i.rc) :
            Return(h, o.s, i.c, o.n)

ReadEof(h) ==
  /\ MayRead(h)
  /\ state[h].seqno < MaxSeqno
  /\ \E i \in conn_input(h) :
       /\ i.rc < 0
       /\ \E o \in send_fin(h, state[h], net) :
            Return(h, IF o.rc < 0 THEN o.s
                      ELSE [o.s EXCEPT !.conn_state = "TEAR_DOWN"], i.c, o.n)

-----------------------------------------------------------------------------
(* ctcp_output() *)

(* The acknowledgement of a data segment.                                   *)
AfterData_OffByLen(segment) == segment.seqno
AfterData(segment) == segment.seqno + segment.len

DataOf(segment) == [pos |-> segment.pos, len |-> segment.len]

(* No space at all: the segment is freed.  Not enough: it is kept.          *)
OutputWaits(h, s, c, n) ==
  /\ conn_bufspace(c) < s.received_segment.len
  /\ Return(h, IF conn_bufspace(c) = 0 THEN [s EXCEPT !.received_segment = NULL]
               ELSE s, c, n)

OutputData(h, s, c, n) ==
  LET segment == s.received_segment IN
  /\ conn_bufspace(c) >= segment.len
  /\ \E w \in conn_output(c, DataOf(segment)) :
       \/ w.rc < 0 /\ ctcp_destroy(h, s, w.c, n)
       \/ /\ w.rc >= 0
          /\ \E o \in send_ack(h, [s EXCEPT !.ackno = AfterData(segment)], n) :
               Return(h, [destroy_acked_segment(o.s) EXCEPT
                            !.received_segment = NULL], w.c, o.n)

ctcp_output(h, s, c, n) == OutputWaits(h, s, c, n) \/ OutputData(h, s, c, n)

-----------------------------------------------------------------------------
(* ctcp_receive(), by conn_state.  n: the network without the segment.      *)

IsOld_Never(s, segment) == FALSE
IsOld_OffByOne(s, segment) == segment.seqno <= s.ackno
IsOld(s, segment) == segment.seqno < s.ackno

(* An ACK without data, which is not answered.                              *)
TakesAck_Answers(h, s, segment, n) ==
  \E a \in send_ack(h, [s EXCEPT !.ackno = segment.seqno], n) :
    Return(h, destroy_acked_segment(a.s), conn[h], a.n)
TakesAck(h, s, segment, n) ==
  Return(h, destroy_acked_segment([s EXCEPT !.ackno = segment.seqno]), conn[h], n)

InDataTransfer(h, s, segment, n) ==
  /\ s.conn_state = "DATA_TRANSFER"
  /\ \/ /\ IsOld(s, segment)
        /\ Return(h, s, conn[h], n)
     \/ /\ ~IsOld(s, segment) /\ "FIN" \in segment.flags
        /\ \E a \in send_ack(h, [s EXCEPT !.ackno = segment.seqno + 1], n) :
             \E f \in send_fin(h, a.s, a.n) :
               Return(h, [f.s EXCEPT !.conn_state = "WAIT_LAST_ACK"],
                      output_eof(conn[h]), f.n)
     \/ /\ ~IsOld(s, segment) /\ segment.flags = {"ACK"} /\ segment.len = 0
        /\ TakesAck(h, s, segment, n)
     \/ /\ ~IsOld(s, segment) /\ segment.flags = {"ACK"} /\ segment.len > 0
        /\ ctcp_output(h, [s EXCEPT !.received_segment = segment], conn[h], n)

InTearDown(h, s, segment, n) ==
  /\ s.conn_state = "TEAR_DOWN"
  /\ \/ /\ "ACK" \in segment.flags
        /\ Return(h, [s EXCEPT !.conn_state = IF "FIN" \in segment.flags
                        THEN "WAIT_LAST_ACK" ELSE "WAIT_LAST_FIN"], conn[h], n)
     \/ /\ segment.flags = {"FIN"}
        /\ \E a \in send_ack(h, [s EXCEPT !.ackno = segment.seqno + 1], n) :
             ctcp_destroy(h, a.s, conn[h], a.n)

InWaitLastFin(h, s, segment, n) ==
  /\ s.conn_state = "WAIT_LAST_FIN"
  /\ \/ /\ "FIN" \in segment.flags
        /\ \E a \in send_ack(h, [s EXCEPT !.ackno = segment.seqno + 1], n) :
             Return(h, [a.s EXCEPT !.tim = 0, !.td_state = "WAIT_DESTROY"],
                    conn[h], a.n)
     \/ "FIN" \notin segment.flags /\ Return(h, s, conn[h], n)

InWaitLastAck(h, s, segment, n) ==
  /\ s.conn_state = "WAIT_LAST_ACK"
  /\ IF "ACK" \in segment.flags THEN ctcp_destroy(h, s, conn[h], n)
     ELSE Return(h, s, conn[h], n)

ctcp_receive(h, s, segment, n) ==
  IF is_segment_valid(segment)
  THEN \/ InDataTransfer(h, s, segment, n) \/ InTearDown(h, s, segment, n)
       \/ InWaitLastFin(h, s, segment, n) \/ InWaitLastAck(h, s, segment, n)
  ELSE Return(h, s, conn[h], n)

(* recv_filter() takes the oldest datagram of the socket.                   *)
Receive(h) ==
  /\ conn[h].status = "up" /\ net.wire[h] # <<>>
  /\ ctcp_receive(h, state[h], Head(net.wire[h]),
                  [net EXCEPT !.wire[h] = Tail(@)])

(* ... and drops what belongs to no connection of the server.               *)
Discard(h) ==
  /\ conn[h].status = "removed" /\ net.wire[h] # <<>>
  /\ Return(h, state[h], conn[h], [net EXCEPT !.wire[h] = Tail(@)])

-----------------------------------------------------------------------------
(* conn_drain() and the ctcp_output() it ends with *)

(* ctcp_output() on a segment already freed: the length it reads exceeds    *)
(* the space and nothing happens, or is 0, or is that of bytes which are no *)
(* input, printed and acknowledged; or the second free() aborts.            *)
UseAfterFree(h, s, c0, n) ==
  LET c == [c0 EXCEPT !.tainted = TRUE]
      Garbage == {[s EXCEPT !.ackno = ackno] : ackno \in {0, MaxSeqno}}
  IN
  \/ Return(h, s, c, n)
  \/ /\ conn_bufspace(c) > 0
     /\ \E t \in Garbage : Return(h, destroy_acked_segment(t), c, n)
  \/ /\ conn_bufspace(c) > 0 /\ Len(c.out) < MaxOut
     /\ \E w \in conn_output(c, [pos |-> 0, len |-> 1]) :
          \/ w.rc < 0 /\ ctcp_destroy(h, s, w.c, n)
          \/ /\ w.rc >= 0
             /\ \E t \in Garbage : \E o \in send_ack(h, t, n) :
                  Return(h, destroy_acked_segment(o.s), w.c, o.n)
  \/ Gone(h, s, c, n, "crashed")

(* poll() reports stdout writable when asked to, and an error, after which  *)
(* nothing can be written, also when not asked.                             *)
Drain(h) ==
  /\ conn[h].status = "up"
  /\ \E d \in conn_drain(conn[h]) :
       /\ conn[h].pollout \/ (StdoutErr /\ ~d.outputted)
       /\ \/ ~d.outputted /\ Return(h, state[h], d.c, net)
          \/ /\ d.outputted /\ state[h].received_segment # NULL
             /\ ctcp_output(h, state[h], d.c, net)
          \/ /\ d.outputted /\ state[h].received_segment = NULL
             /\ UseAfterFree(h, state[h], d.c, net)

-----------------------------------------------------------------------------
(* ctcp_timer() and retransmission_handler() *)

(* Timing, when Timely: a datagram in a socket is received before the next  *)
(* tick (40 ms), while a delayed one sleeps for up to 4 s, any number of    *)
(* ticks; and WAIT_DESTROY (50 retransmission timeouts, 10 s) outlasts that *)
(* and all that the peer has to retransmit (one timeout and four ticks).    *)
Quiet(n) == \A h \in Host : n.wire[h] = <<>>
Settled(h) == /\ net.forked = {}
              /\ \/ conn[Peer(h)].status # "up"
                 \/ state[Peer(h)].sent_segment_attr = NULL

(* WAIT_DESTROY: tim, a uint16_t, advances.                                 *)
tim_advance_Never(s) == s.tim
tim_advance(s) == IF s.td_state = "WAIT_DESTROY" THEN (s.tim + Timer) % 65536 ELSE s.tim
WaitOver(s) == s.td_state = "WAIT_DESTROY" /\ tim_advance(s) >= RtTimeout * WaitFactor

(* ctcp_timer() goes on to state_list->next: on the server, where           *)
(* ctcp_destroy() returns, state_list is then NULL.                         *)
TimerDestroys(h) ==
  /\ WaitOver(state[h])
  /\ Timely => Settled(h)
  /\ Gone(h, state[h], conn[h], net, IF h = Client THEN "exited" ELSE "crashed")

(* Five transmissions by the timer are the last.                            *)
GivesUp_OneEarly(attr) == attr.no_of_times + 2 >= Retries
GivesUp_Never(attr) == FALSE
GivesUp(attr) == attr.no_of_times + 1 >= Retries

(* time is never reset: from rt_timeout on every tick sends again.          *)
Retransmit(h, s, attr) ==
  \E o \in conn_send(h, net, attr.segment) :
    Return(h, IF GivesUp(attr) THEN destroy_acked_segment(s)
              ELSE [s EXCEPT !.sent_segment_attr =
                      [attr EXCEPT !.no_of_times = @ + 1]], conn[h], o.n)

Aged_Never(attr) == attr
Aged(attr) == [attr EXCEPT !.time = @ + Timer]

TimerTicks(h) ==
  LET s == [state[h] EXCEPT !.tim = tim_advance(state[h])]
      attr == Aged(s.sent_segment_attr)
  IN  /\ ~WaitOver(state[h])
      /\ \/ /\ s.sent_segment_attr = NULL
            /\ Return(h, s, conn[h], net)
         \/ /\ s.sent_segment_attr # NULL /\ attr.time < RtTimeout
            /\ Return(h, [s EXCEPT !.sent_segment_attr = attr], conn[h], net)
         \/ /\ s.sent_segment_attr # NULL /\ attr.time >= RtTimeout
            /\ Retransmit(h, s, attr)

ctcp_timer(h) == /\ conn[h].status = "up"
                 /\ Timely => Quiet(net)
                 /\ TimerDestroys(h) \/ TimerTicks(h)

-----------------------------------------------------------------------------

(* A forked sender wakes up, sends its segment and exits.                   *)
ForkedSend(f) ==
  /\ net' = send_pkt(f.to, [net EXCEPT !.forked = @ \ {f}], f.segment).n
  /\ UNCHANGED <<state, conn>>

Next == \/ \E h \in Host : \/ ReadData(h) \/ ReadEof(h) \/ Receive(h)
                           \/ Discard(h) \/ Drain(h) \/ ctcp_timer(h)
        \/ \E f \in net.forked : ForkedSend(f)

Spec == Init /\ [][Next]_vars

(* do_loop() serves stdin, stdout, the socket and the timer in each pass,   *)
(* and the kernel schedules every forked sender.                            *)
Fairness == /\ \A h \in Host : /\ WF_vars(ReadData(h) \/ ReadEof(h))
                               /\ WF_vars(Receive(h) \/ Discard(h))
                               /\ WF_vars(Drain(h))
                               /\ WF_vars(ctcp_timer(h))
            /\ WF_vars(\E f \in net.forked : ForkedSend(f))

FairSpec == Spec /\ Fairness
-----------------------------------------------------------------------------
(* Properties *)

(* Every variable of the two hosts and of the network has its C type.       *)
TypeOK == /\ state \in [Host -> CtcpState]
          /\ conn \in [Host -> Conn]
          /\ net \in Net

End(piece) == piece.pos + piece.len

(* Pieces of the first nread bytes of an input, in order, none twice.       *)
InOrder(out, nread) ==
  /\ \A i \in DOMAIN out : out[i].pos >= 1 /\ End(out[i]) <= nread + 1
  /\ \A i, j \in DOMAIN out : i < j => End(out[i]) <= out[j].pos

(* What a host prints is input of its peer, each byte at most once and in   *)
(* the order it was read, whatever is lost, duplicated, delayed, reordered, *)
(* corrupted or given up (until ctcp_output() uses freed memory).           *)
InOrderOnce == \A h \in Host :
  ~conn[h].tainted => InOrder(conn[h].out, conn[Peer(h)].nread)

(* The data segments of h's peer that h may still be given: in its socket,  *)
(* held by a forked sender, kept for retransmission or waiting for output.  *)
InNet(n, h) == Range(n.wire[h]) \cup
               {f.segment : f \in {g \in n.forked : g.to = h}}
Kept(s) == IF s.sent_segment_attr = NULL THEN {}
           ELSE {s.sent_segment_attr.segment}
Waiting(s) == {s.received_segment} \ {NULL}
IsData(g) == g.ok /\ g.len > 0
Data(h) == {g \in InNet(net, h) \cup Kept(state[Peer(h)]) \cup Waiting(state[h]) :
              IsData(g)}

(* Every such segment carries input its sender has read.                    *)
DataWasRead == \A h \in Host : \A g \in Data(h) :
  /\ g.seqno <= state[Peer(h)].seqno
  /\ g.pos >= 1 /\ End(g) <= conn[Peer(h)].nread + 1

(* Sequence numbers order the segments as the input is ordered, even when a *)
(* failed send has left two segments with one sequence number.              *)
SeqnoOrdersData == \A h \in Host : \A g1, g2 \in Data(h) :
  g1.seqno + g1.len <= g2.seqno => End(g1) <= g2.pos

Beyond(g, out) == \A i \in DOMAIN out : End(out[i]) <= g.pos

(* What ackno lets pass is beyond everything printed.                       *)
AcknoGuards == \A h \in Host :
  (~conn[h].tainted /\ state[h].conn_state = "DATA_TRANSFER") =>
    \A g \in Data(h) : g.seqno >= state[h].ackno => Beyond(g, conn[h].out)

(* So is the segment that waits for room on stdout.                         *)
WaitingIsNew == \A h \in Host : \A g \in Waiting(state[h]) :
  IsData(g) /\ (~conn[h].tainted => Beyond(g, conn[h].out))

(* The inductive invariant behind InOrderOnce.                              *)
StreamInv == /\ TypeOK /\ DataWasRead /\ SeqnoOrdersData
             /\ AcknoGuards /\ WaitingIsNew /\ InOrderOnce

(* The abstract view of what a host prints: undefined once ctcp_output()     *)
(* has used freed memory.                                                   *)
Printed(h) == IF conn[h].tainted THEN <<>> ELSE conn[h].out

ToClient == INSTANCE OrderedStream WITH nread <- conn[Server].nread,
              printed <- Printed(Client), defined <- ~conn[Client].tainted
ToServer == INSTANCE OrderedStream WITH nread <- conn[Client].nread,
              printed <- Printed(Server), defined <- ~conn[Server].tainted

(* Each direction implements an ordered stream: every step of every handler *)
(* reads, prints one further piece, does neither, or is undefined.          *)
ImplementsStream == ToClient!Spec /\ ToServer!Spec

(* Pieces of an input from its first byte on, without a gap.                *)
NoGap(out) == \A i \in DOMAIN out : out[i].pos = IF i = 1 THEN 1 ELSE End(out[i-1])

(* Nothing is missing from what a host has printed.                         *)
OutputIsPrefix == \A h \in Host : NoGap(conn[h].out)

Received(h) == LET out == conn[h].out
               IN  IF out = <<>> THEN 0 ELSE End(out[Len(out)]) - 1

(* A host that is told the end of file has printed all of the peer's input. *)
CompleteAtEof ==
  \A h \in Host : conn[h].wrote_eof =>
    /\ conn[Peer(h)].read_eof
    /\ Received(h) = conn[Peer(h)].nread

(* No fault is injected and no socket is ever full, since retransmissions    *)
(* come to an end: no segment is lost.                                       *)
NoLoss == net.faults = 0 /\ \A h \in Host : Len(net.wire[h]) < QueueLen

(* What h, with the record s and the connection c, has not sent for the     *)
(* first time: its input, its FIN at the end of file, and the FIN that      *)
(* answers its peer's.                                                      *)
Unsent(h, s, c) == (Input[h] - c.nread)
                   + (IF Eof[h] = "once" /\ ~c.read_eof THEN 1 ELSE 0)
                   + (IF s.conn_state = "DATA_TRANSFER" THEN 1 ELSE 0)
RetriesLeft(attr) == IF attr = NULL THEN 0 ELSE Retries - attr.no_of_times

(* A pure ACK in a socket costs 1, a segment that may be answered 3, more   *)
(* than its answer.  What waits for room is between the two; what is not    *)
(* sent yet, sleeps in a forked sender or is left to the faults costs 4,    *)
(* more than any segment in a socket.                                       *)
Asks(g) == g.len > 0 \/ "FIN" \in g.flags
Asking(wire) == {i \in DOMAIN wire : Asks(wire[i])}
Price(wire) == Len(wire) + 2 * Cardinality(Asking(wire))

Extra(s) == 4 * RetriesLeft(s.sent_segment_attr) + 2 * Cardinality(Waiting(s))
MaySendYet(h, s, c) == 4 * (Retries + 1) * Unsent(h, s, c) + Extra(s)
UnderWay(n) == Price(n.wire[Client]) + Price(n.wire[Server])
               + 4 * Cardinality(n.forked) + 4 * (MaxFaults - n.faults)
Traffic == UnderWay(net) + MaySendYet(Client, state[Client], conn[Client])
                         + MaySendYet(Server, state[Server], conn[Server])

(* Every step that sends or receives makes Traffic, a natural number, less  *)
(* and no step makes it more.  So there are finitely many such steps: no    *)
(* segment is sent again for ever, and two hosts do not answer each other   *)
(* for ever (until ctcp_output() uses freed memory).                        *)
TrafficDiesDown ==
  [][(\A h \in Host : ~conn'[h].tainted) =>
       IF net' = net THEN Traffic' <= Traffic ELSE Traffic' < Traffic]_vars

(* How far the timer has got with a segment: not all transmissions yet, the *)
(* first one at RtTimeout and, since time is not reset, one per tick since. *)
Paced(attr) == attr # NULL =>
  /\ attr.no_of_times < Retries
  /\ attr.time < RtTimeout + attr.no_of_times * Timer
  /\ attr.no_of_times > 0 => attr.time >= RtTimeout + (attr.no_of_times - 1) * Timer

(* No segment is kept for longer than a timeout for each transmission that  *)
(* ctcp.h:182 allows it, so that the sender is held up for a bounded time,  *)
(* whatever is lost, and time, a uint16_t that only grows, does not wrap    *)
(* around and stop the retransmissions.                                     *)
GivenUpInTime == \A h \in Host : LET attr == state[h].sent_segment_attr IN
  attr # NULL => attr.time < (Retries + 1) * RtTimeout

(* A host that still takes data; the sequence number after a segment.       *)
Open(h) == conn[h].status = "up" /\ state[h].conn_state = "DATA_TRANSFER"
IsFin(g) == "FIN" \in g.flags
Past(g) == g.seqno + IF IsFin(g) THEN 1 ELSE g.len

(* wire holds, oldest first, the segments under way to a host that has      *)
(* printed up to ackno, and kept the one its peer may send again; seqno is  *)
(* the peer's next.  Between ackno and seqno nothing is left out, and no    *)
(* segment begins within another or below ackno and ends beyond it.         *)
GapFree(wire, kept, ackno, seqno) ==
  /\ ackno <= seqno
  /\ \A g \in Range(wire) \cup kept :
       /\ g.ok /\ Past(g) <= seqno
       /\ g.seqno < ackno => Past(g) <= ackno
  /\ \A g1, g2 \in Range(wire) \cup kept :
       g1.seqno <= g2.seqno /\ g2.seqno < Past(g1) => Past(g2) <= Past(g1)
  /\ \A i \in DOMAIN wire :
       \/ wire[i].seqno <= ackno
       \/ \E j \in 1..(i-1) : wire[i].seqno <= Past(wire[j])
  /\ seqno <= ackno \/ \E j \in DOMAIN wire : seqno <= Past(wire[j])

(* Sequence numbers are positions of the input that c has read, followed by *)
(* FINs once it has ended.                                                  *)
CountsInput(segments, c, seqno) ==
  /\ seqno >= c.nread + 1 /\ (c.read_eof \/ seqno = c.nread + 1)
  /\ \A g \in segments :
       IF IsFin(g) THEN c.read_eof /\ g.seqno >= c.nread + 1
       ELSE g.len > 0 => g.pos = g.seqno /\ g.len <= MSS

Toward(h) == Range(net.wire[h]) \cup Kept(state[Peer(h)])

(* With nothing lost and a stdout that takes all it is given: as long as a  *)
(* host is open, its peer's stream is complete on its way to it, it has     *)
(* printed all up to ackno, and it has not sent a FIN itself.               *)
FifoInv ==
  /\ net.forked = {}
  /\ \A h \in Host :
       /\ conn[h].out_queue = <<>> /\ ~conn[h].pollout /\ ~conn[h].tainted
       /\ conn[h].wrote_eof => state[h].conn_state # "DATA_TRANSFER"
       /\ Open(h) =>
            /\ GapFree(net.wire[h], Kept(state[Peer(h)]), state[h].ackno,
                       state[Peer(h)].seqno)
            /\ CountsInput(Toward(h), conn[Peer(h)], state[Peer(h)].seqno)
            /\ Received(h) = state[h].ackno - 1
            /\ \A g \in Toward(Peer(h)) : ~IsFin(g)

(* h alone has input: its peer only acknowledges, until it is closed.       *)
OneWay(h) == Input[Peer(h)] = 0 /\ Eof[Peer(h)] = "never"

(* A sender with record s and connection c, whose peer expects ackno, has   *)
(* either nothing unacknowledged, and all of it was printed, or one segment *)
(* that its peer has printed or expects next.                               *)
OneUnacked(s, c, ackno) ==
  IF s.sent_segment_attr = NULL
  THEN s.conn_state = "DATA_TRANSFER" /\ s.seqno = c.nread + 1 /\ ackno = s.seqno
  ELSE LET g == s.sent_segment_attr.segment IN
       /\ g.ok /\ s.seqno = Past(g)
       /\ IF IsFin(g)
          THEN /\ s.conn_state = "TEAR_DOWN" /\ c.read_eof
               /\ g.seqno = c.nread + 1 /\ ackno = g.seqno
          ELSE /\ s.conn_state = "DATA_TRANSFER" /\ g.flags = {"ACK"}
               /\ g.pos = g.seqno /\ g.len >= 1 /\ g.len <= MSS
               /\ s.seqno = c.nread + 1 /\ ackno \in {g.seqno, s.seqno}

(* wire, to the peer: whatever is not old is the unacknowledged segment,    *)
(* sent last; and if that one is due and not under way, a fault has hit     *)
(* each of its transmissions.                                               *)
Repairable(wire, s, ackno, faults) ==
  /\ Len(wire) <= IF s.sent_segment_attr = NULL THEN 1 ELSE 2
  /\ \A i \in DOMAIN wire : wire[i].ok /\ wire[i].seqno >= ackno =>
       i = Len(wire) /\ Kept(s) = {wire[i]}
  /\ \A g \in Kept(s) : g.seqno = ackno =>
       \/ wire # <<>> /\ wire[Len(wire)] = g
       \/ s.sent_segment_attr.no_of_times < faults

(* back, from the peer: the ACK of the unacknowledged segment, after which  *)
(* nothing is under way to the peer.                                        *)
Acknowledges(back, wire, s, ackno) ==
  back # <<>> => /\ Len(back) = 1 /\ back[1].flags = {"ACK"} /\ back[1].len = 0
                 /\ wire = <<>> /\ s.sent_segment_attr # NULL /\ ackno = s.seqno

(* With data one way, drops and corruptions that are fewer than the         *)
(* transmissions by the timer, and a stdout that takes all it is given: as  *)
(* long as the peer of h is open, stop-and-wait repairs every loss; then    *)
(* everything was printed.                                                  *)
RepairInv ==
  /\ net.forked = {} /\ net.faults <= MaxFaults
  /\ \A h \in Host :
       /\ conn[h].out_queue = <<>> /\ ~conn[h].pollout /\ ~conn[h].tainted
       /\ ~conn[h].wrote_err
       /\ conn[h].wrote_eof => state[h].conn_state # "DATA_TRANSFER"
       /\ OneWay(h) =>
            LET p == Peer(h) IN
            /\ conn[h].out = <<>> /\ ~conn[h].wrote_eof /\ conn[p].nread = 0
            /\ IF Open(p)
               THEN /\ Received(p) = state[p].ackno - 1
                    /\ state[p].sent_segment_attr = NULL
                    /\ state[p].td_state = "NOT_TEARDOWN"
                    /\ OneUnacked(state[h], conn[h], state[p].ackno)
                    /\ Repairable(net.wire[p], state[h], state[p].ackno, net.faults)
                    /\ Acknowledges(net.wire[h], net.wire[p], state[h], state[p].ackno)
               ELSE /\ state[h].conn_state # "DATA_TRANSFER" /\ conn[h].read_eof
                    /\ Received(p) = conn[h].nread

(* Stop and wait: a host never reads more than one segment ahead of what    *)
(* its peer has printed.                                                    *)
OneSegmentAhead == \A h \in Host : conn[Peer(h)].nread - Received(h) <= MSS

(* The output queue never holds more than conn_bufspace() allows.           *)
QueueFits == \A h \in Host : Total(conn[h].out_queue) <= BufSpace

(* A socket needs no more room, and no send fails, however long the input:  *)
(* two datagrams at most are under way in both directions together.         *)
FewUnderWay == Len(net.wire[Client]) + Len(net.wire[Server]) <= 2

(* A received segment makes a host forget its unacknowledged data only when *)
(* its peer has printed them: ctcp_receive() never looks at ackno, so that  *)
(* this is left to stop-and-wait.                                           *)
AckedIsPrinted ==
  [][\A h \in Host : LET attr == state[h].sent_segment_attr IN
       (Receive(h) /\ attr # NULL /\ state'[h].sent_segment_attr = NULL)
         => Received(Peer(h)) >= End(attr.segment) - 1]_vars

(* The peer's whole input is eventually printed, with no byte left out.     *)
Delivered == \A h \in Host : <>(Received(h) = Input[Peer(h)] /\ NoGap(conn[h].out))

(* Both ends eventually release the connection.                             *)
Closed == \A h \in Host : <>(conn[h].status # "up")

(* No segment stays unacknowledged for ever.                                *)
Resolved == \A h \in Host :
  []<>(state[h].sent_segment_attr = NULL \/ conn[h].status # "up")

-----------------------------------------------------------------------------
(* What the comments of ctcp.h ask for *)

(* ctcp.h:161: the library calls ctcp_output() when there is room, which    *)
(* must find the segment that waits for it.                                 *)
OutputFindsSegment == \A h \in Host : ~conn[h].tainted
=============================================================================
