-------------------------- MODULE CtcpLossyProofs --------------------------
(* Proof that stop-and-wait (Ctcp) repairs drops and corruptions when data  *)
(* go one way and there are fewer faults than transmissions by the timer.   *)
EXTENDS CtcpFifoProofs

(* What the options and the surroundings have to be like for that.          *)
LossyOneWay ==
  /\ \A h \in Host : Faults[h] \subseteq {"drop", "corrupt"}
  /\ \E h \in Host : OneWay(h)
  /\ MaxFaults < Retries /\ Timely
  /\ ~SlowStdout /\ ~StdoutErr /\ BufSpace >= MSS /\ QueueLen >= 2

-----------------------------------------------------------------------------
(* Sending *)

Accepts(n, p) == Running(p) /\ Len(n.wire[p]) < QueueLen

(* o is what a send to p of segment g makes of the network n: g is queued,  *)
(* or a corrupt copy of it, or nothing, at the cost of a fault if p         *)
(* accepts it.                                                              *)
Adds(m, n, p, g) ==
  \E k \in Segment : /\ m.wire[p] = Append(n.wire[p], k)
                     /\ k.flags = g.flags /\ k.len = g.len
                     /\ k = g \/ (~k.ok /\ m.faults = n.faults + 1)
Transmits(o, n, p, g) ==
  /\ o.n \in Net /\ o.n.forked = {} /\ o.n.faults <= MaxFaults
  /\ o.n.wire[Peer(p)] = n.wire[Peer(p)] /\ o.rc \in {0, -1}
  /\ o.n.faults >= n.faults
  /\ Accepts(n, p) => o.rc = 0
  /\ o.rc = -1 => o.n.wire[p] = n.wire[p]
  /\ \/ Adds(o.n, n, p, g)
     \/ /\ o.n.wire[p] = n.wire[p]
        /\ Accepts(n, p) => o.n.faults = n.faults + 1

LEMMA FlipFacts ==
  ASSUME NEW g \in Segment
  PROVE  /\ flipbit(g) \in Segment /\ ~flipbit(g).ok
         /\ flipbit(g).flags = g.flags /\ flipbit(g).len = g.len
  BY DEF flipbit, Segment

(* send_pkt() of k, which is g or a corrupt copy of it.                     *)
LEMMA PktTransmits ==
  ASSUME NEW n \in Net, NEW q \in Net, NEW h \in Host, NEW g \in Segment,
         NEW k \in Segment, n.forked = {}, q.forked = {}, q.wire = n.wire,
         q.faults <= MaxFaults, k.flags = g.flags, k.len = g.len,
         \/ k = g /\ q.faults = n.faults
         \/ ~k.ok /\ q.faults = n.faults + 1
  PROVE  Transmits(send_pkt(Peer(h), q, k), n, Peer(h), g)
<1> DEFINE p == Peer(h)
           o == send_pkt(p, q, k)
           w == Append(n.wire[p], k)
           m == [q EXCEPT !.wire[p] = w]
<1>1. p \in Host /\ Peer(p) = h /\ p # h
  BY PeerFacts
<1>2. n.wire[p] \in Seq(Segment) /\ w \in Seq(Segment) /\ q.faults \in Nat /\ n.faults \in Nat
  BY <1>1 DEF Net, Wires
<1>3. OnlyWire(m, q, p, w)
  BY <1>1, <1>2, WithoutWire
<1>4. SocketOpen(p, q) <=> Running(p)
  BY DEF SocketOpen
<1> DEFINE room == Accepts(n, p)
<1>5. o = IF room THEN [rc |-> 0, n |-> m] ELSE [rc |-> -1, n |-> q]
  BY <1>4 DEF send_pkt, Accepts
<1>6. o.n = (IF room THEN m ELSE q) /\ o.rc = (IF room THEN 0 ELSE -1)
  BY <1>5
<1> HIDE DEF p, o, w, m, room
<1>7. q.faults >= n.faults
  BY <1>2
<1>8. CASE room
  <2>1. /\ o.n \in Net /\ o.n.wire[p] = w /\ o.n.wire[h] = n.wire[h]
        /\ o.n.forked = {} /\ o.n.faults = q.faults /\ o.rc = 0
    BY <1>1, <1>3, <1>6, <1>8 DEF OnlyWire
  <2>2. Adds(o.n, n, p, g)
    BY <2>1 DEF Adds, w
  <2> QED  BY <1>1, <1>7, <2>1, <2>2 DEF Transmits, o, p
<1>9. CASE ~room
  <2>1. o.n = q /\ o.rc = -1
    BY <1>6, <1>9
  <2> QED  BY <1>1, <1>7, <1>9, <2>1 DEF Transmits, o, p, room
<1> QED  BY <1>8, <1>9

(* conn_send() with nothing but drops and corruptions.                      *)
LEMMA LossySend ==
  ASSUME LossyOneWay, NEW n \in Net, NEW h \in Host, NEW g \in Segment,
         n.forked = {}, n.faults <= MaxFaults, NEW o \in conn_send(h, n, g)
  PROVE  Transmits(o, n, Peer(h), g)
<1>1. Peer(h) \in Host /\ Peer(Peer(h)) = h /\ MaxFaults \in Nat /\ n.faults \in Nat
  BY PeerFacts, FaultAssumption DEF Net
<1>2. ~CanInject(h, n, "duplicate") /\ ~CanInject(h, n, "delay")
  BY DEF LossyOneWay, CanInject
<1>3. Spend(n) \in Net /\ Spend(n).forked = {} /\ Spend(n).wire = n.wire
  BY SpendFacts
<1>4. Spend(n).faults = n.faults + 1
  BY DEF Spend, Net
<1>5. CASE CanInject(h, n, "drop") /\ o = [rc |-> 0, n |-> Spend(n)]
  <2>1. n.faults < MaxFaults /\ o.rc = 0 /\ o.n = Spend(n)
    BY <1>5 DEF CanInject
  <2>2. n.faults + 1 <= MaxFaults /\ n.faults + 1 >= n.faults
    BY <1>1, <2>1
  <2> QED  BY <1>3, <1>4, <2>1, <2>2 DEF Transmits
<1>6. CASE \E m \in Duplication(h, n, g) : o \in DelayOrSend(h, m, g)
  <2>1. o \in DelayOrSend(h, n, g)
    BY <1>2, <1>6 DEF Duplication, When
  <2>2. PICK c \in Corruption(h, n, g) : o = send_pkt(Peer(h), c.n, c.segment)
    BY <1>2, <2>1 DEF DelayOrSend, When
  <2>3. CASE c = [n |-> n, segment |-> g]
    <3>1. o = send_pkt(Peer(h), n, g)
      BY <2>2, <2>3
    <3> QED  BY <3>1, PktTransmits
  <2>4. CASE CanInject(h, n, "corrupt") /\ c = [n |-> Spend(n), segment |-> flipbit(g)]
    <3>1. o = send_pkt(Peer(h), Spend(n), flipbit(g))
      BY <2>2, <2>4
    <3>2. n.faults + 1 <= MaxFaults
      BY <1>1, <2>4 DEF CanInject
    <3> QED  BY <1>3, <1>4, <3>1, <3>2, FlipFacts, PktTransmits
  <2> QED  BY <2>3, <2>4 DEF Corruption, When
<1> QED  BY <1>5, <1>6 DEF conn_send, When

(* _segment_send(): an ACK changes nothing in the record but seqno; data    *)
(* and FINs that are accepted are kept.                                     *)
Records(s, t) ==
  /\ t \in CtcpState /\ t.conn_state = s.conn_state /\ t.td_state = s.td_state
  /\ t.ackno = s.ackno
Keeps(t, g) ==
  /\ t.seqno = Past(g)
  /\ t.sent_segment_attr = [segment |-> g, time |-> 0, no_of_times |-> 0]

LEMMA LossySegmentSend ==
  ASSUME LossyOneWay, NEW n \in Net, NEW h \in Host, NEW s \in CtcpState,
         n.forked = {}, n.faults <= MaxFaults,
         NEW flags \in Flags, NEW pos \in Nat, NEW len \in Nat,
         NEW o \in segment_send(h, s, n, flags, pos, len)
  PROVE  LET g == Built(s, flags, pos, len) IN
         /\ Transmits(o, n, Peer(h), g) /\ Records(s, o.s)
         /\ IF len > 0 \/ "FIN" \in flags THEN o.rc = 0 => Keeps(o.s, g)
            ELSE o.s.sent_segment_attr = s.sent_segment_attr
<1> DEFINE g == Built(s, flags, pos, len)
           adv == IF "FIN" \in flags THEN 1 ELSE len
           sent == [s EXCEPT !.seqno = @ + adv]
           kept == save_sent_segment(sent, g)
           attr == [segment |-> g, time |-> 0, no_of_times |-> 0]
           keep == len > 0 \/ "FIN" \in flags
<1>1. g \in Segment /\ s.seqno \in Nat /\ adv \in Nat
  BY DEF Built, Segment, CtcpState
<1>2. PICK r \in conn_send(h, n, g) :
        o = [rc |-> r.rc, n |-> r.n,
             s |-> IF r.rc < 0 THEN s ELSE IF keep THEN kept ELSE sent]
  BY DEF segment_send, Built
<1>3. o.rc = r.rc /\ o.n = r.n /\ o.s = IF r.rc < 0 THEN s ELSE IF keep THEN kept ELSE sent
  BY <1>2
<1>4. Past(g) = s.seqno + adv
  BY DEF Past, IsFin, Built
<1>5. /\ sent \in CtcpState /\ sent.conn_state = s.conn_state /\ sent.ackno = s.ackno
      /\ sent.td_state = s.td_state /\ sent.seqno = s.seqno + adv
      /\ sent.sent_segment_attr = s.sent_segment_attr
  BY <1>1 DEF CtcpState
<1>6. attr \in SegmentAttr /\ kept = [sent EXCEPT !.sent_segment_attr = attr]
  BY <1>1 DEF SegmentAttr, save_sent_segment
<1> HIDE DEF g, adv, sent, kept, attr, keep
<1>7. /\ kept \in CtcpState /\ kept.conn_state = s.conn_state /\ kept.ackno = s.ackno
      /\ kept.td_state = s.td_state /\ kept.seqno = s.seqno + adv
      /\ kept.sent_segment_attr = attr
  BY <1>5, <1>6 DEF CtcpState, MaybeAttr
<1>8. Transmits(r, n, Peer(h), g)
  BY <1>1, LossySend
<1>9. Transmits(o, n, Peer(h), g)
  BY <1>3, <1>8 DEF Transmits
<1>10. Records(s, o.s)
  BY <1>3, <1>5, <1>7 DEF Records
<1>11. CASE keep
  <2>1. o.rc = 0 => Keeps(o.s, g)
    BY <1>3, <1>4, <1>7, <1>11 DEF Keeps, attr
  <2> QED  BY <1>9, <1>10, <1>11, <2>1 DEF g, keep
<1>12. CASE ~keep
  <2>1. o.s.sent_segment_attr = s.sent_segment_attr
    BY <1>3, <1>5, <1>12
  <2> QED  BY <1>9, <1>10, <1>12, <2>1 DEF g, keep
<1> QED  BY <1>11, <1>12

-----------------------------------------------------------------------------
(* The invariant, in terms of a sender (record s, connection c) and its     *)
(* peer (t, d), the queues wire and back between them and the faults so far *)

Idle(s, c) ==
  /\ c.out_queue = <<>> /\ ~c.pollout /\ ~c.tainted /\ ~c.wrote_err
  /\ c.wrote_eof => s.conn_state # "DATA_TRANSFER"

Listens(t, d) == d.status = "up" /\ t.conn_state = "DATA_TRANSFER"

Progress(s, c, t, d, wire, back, faults) ==
  /\ ReceivedOf(d.out) = t.ackno - 1
  /\ t.sent_segment_attr = NULL /\ t.td_state = "NOT_TEARDOWN"
  /\ OneUnacked(s, c, t.ackno) /\ Repairable(wire, s, t.ackno, faults)
  /\ Acknowledges(back, wire, s, t.ackno)

Finished(s, c, d) == /\ s.conn_state # "DATA_TRANSFER" /\ c.read_eof
                     /\ ReceivedOf(d.out) = c.nread

Pair(s, c, t, d, wire, back, faults) ==
  /\ c.out = <<>> /\ ~c.wrote_eof /\ d.nread = 0 /\ NoGap(d.out)
  /\ Listens(t, d) => Progress(s, c, t, d, wire, back, faults)
  /\ ~Listens(t, d) => Finished(s, c, d)

LInv == /\ StreamInv /\ net.forked = {} /\ net.faults <= MaxFaults
        /\ \A h \in Host :
             /\ Idle(state[h], conn[h])
             /\ OneWay(h) => Pair(state[h], conn[h], state[Peer(h)], conn[Peer(h)],
                                  net.wire[Peer(h)], net.wire[h], net.faults)

LEMMA PairIsRepair ==
  ASSUME LInv
  PROVE  RepairInv
<1>1. ASSUME NEW h \in Host, OneWay(h)
      PROVE  LET p == Peer(h) IN
             /\ conn[h].out = <<>> /\ ~conn[h].wrote_eof /\ conn[p].nread = 0
             /\ IF Open(p)
                THEN /\ Received(p) = state[p].ackno - 1
                     /\ state[p].sent_segment_attr = NULL
                     /\ state[p].td_state = "NOT_TEARDOWN"
                     /\ OneUnacked(state[h], conn[h], state[p].ackno)
                     /\ Repairable(net.wire[p], state[h], state[p].ackno, net.faults)
                     /\ Acknowledges(net.wire[h], net.wire[p], state[h], state[p].ackno)
                ELSE /\ state[h].conn_state # "DATA_TRANSFER" /\ conn[h].read_eof
                     /\ Received(p) = conn[h].nread
  <2> DEFINE p == Peer(h)
  <2>1. Received(p) = ReceivedOf(conn[p].out) /\ (Open(p) <=> Listens(state[p], conn[p]))
    BY DEF Received, ReceivedOf, Open, Listens
  <2>2. Pair(state[h], conn[h], state[p], conn[p], net.wire[p], net.wire[h], net.faults)
    BY <1>1 DEF LInv
  <2> HIDE DEF p
  <2>3. CASE Open(p)
    BY <2>1, <2>2, <2>3 DEF Pair, Progress, p
  <2>4. CASE ~Open(p)
    BY <2>1, <2>2, <2>4 DEF Pair, Finished, p
  <2> QED  BY <2>3, <2>4
<1> QED  BY <1>1 DEF RepairInv, LInv, Idle

(* A handler of x that returns s, c and n keeps the invariant if it keeps   *)
(* the part of it where x sends and the part where x receives.              *)
LEMMA LossyReturn ==
  ASSUME LInv, StreamInv', NEW x \in Host, NEW s, NEW c, NEW n,
         Return(x, s, c, n), n.forked = {}, n.faults <= MaxFaults, Idle(s, c),
         OneWay(x) => Pair(s, c, state[Peer(x)], conn[Peer(x)],
                           n.wire[Peer(x)], n.wire[x], n.faults),
         OneWay(Peer(x)) => Pair(state[Peer(x)], conn[Peer(x)], s, c,
                                 n.wire[x], n.wire[Peer(x)], n.faults)
  PROVE  LInv'
<1> DEFINE p == Peer(x)
<1>1. p \in Host /\ p # x /\ Peer(p) = x /\ Host = {x, p}
  BY HostAssumption DEF Peer, Host
<1>2. state \in [Host -> CtcpState] /\ conn \in [Host -> Conn]
  BY DEF LInv, StreamInv, TypeOK
<1>3. /\ state'[x] = s /\ conn'[x] = c /\ net' = n
      /\ state'[p] = state[p] /\ conn'[p] = conn[p]
  BY <1>1, <1>2 DEF Return
<1> HIDE DEF p
<1>4. ASSUME NEW h \in Host
      PROVE  /\ Idle(state'[h], conn'[h])
             /\ OneWay(h) => Pair(state'[h], conn'[h], state'[Peer(h)], conn'[Peer(h)],
                                  net'.wire[Peer(h)], net'.wire[h], net'.faults)
  <2>1. CASE h = x
    BY <1>3, <2>1 DEF p
  <2>2. CASE h = p
    <3>1. Idle(state[p], conn[p])
      BY <1>1 DEF LInv
    <3> QED  BY <1>1, <1>3, <2>2, <3>1 DEF p
  <2> QED  BY <1>1, <2>1, <2>2
<1> QED  BY <1>3, <1>4 DEF LInv, Idle, Pair, Listens, Progress, Finished, ReceivedOf,
           NoGap, OneUnacked, Repairable, Acknowledges, Kept

(* Where a handler starts.                                                  *)
LEMMA LossyStarts ==
  ASSUME LInv, NEW x \in Host
  PROVE  /\ state[x] \in CtcpState /\ conn[x] \in Conn /\ net \in Net
         /\ net.wire[x] \in Seq(Segment) /\ net.faults \in Nat
         /\ net.forked = {} /\ net.faults <= MaxFaults /\ Idle(state[x], conn[x])
         /\ OneWay(x) => Pair(state[x], conn[x], state[Peer(x)], conn[Peer(x)],
                              net.wire[Peer(x)], net.wire[x], net.faults)
         /\ OneWay(Peer(x)) => Pair(state[Peer(x)], conn[Peer(x)], state[x], conn[x],
                                    net.wire[x], net.wire[Peer(x)], net.faults)
<1>1. state \in [Host -> CtcpState] /\ conn \in [Host -> Conn] /\ net \in Net
  BY DEF LInv, StreamInv, TypeOK
<1>2. net.wire[x] \in Seq(Segment) /\ net.faults \in Nat
  BY <1>1 DEF Net, Wires
<1>3. Peer(x) \in Host /\ Peer(Peer(x)) = x
  BY PeerFacts
<1> QED  BY <1>1, <1>2, <1>3 DEF LInv

-----------------------------------------------------------------------------
(* The sender *)

(* A queue after a transmission that its owner accepts: what was there, and *)
(* possibly one segment more, g itself or a corrupt one.                    *)
Grown(v, w, g, f, faults) ==
  \/ v = w /\ f = faults + 1
  \/ \E k \in Segment : v = Append(w, k) /\ ((k = g /\ f >= faults) \/ (~k.ok /\ f = faults + 1))

LEMMA AcceptedGrows ==
  ASSUME NEW n \in Net, NEW p \in Host, NEW g \in Segment, NEW o,
         Transmits(o, n, p, g), Accepts(n, p)
  PROVE  o.rc = 0 /\ Grown(o.n.wire[p], n.wire[p], g, o.n.faults, n.faults)
  BY DEF Transmits, Adds, Grown

(* If all of w is old, then in the grown queue only g may not be, at its    *)
(* end, and it is there or a fault was spent.                               *)
AllOld(w, ackno) == \A i \in DOMAIN w : ~(w[i].ok /\ w[i].seqno >= ackno)
NewAtEnd(v, w, g, f, faults, ackno) ==
  /\ v \in Seq(Segment) /\ Len(v) <= Len(w) + 1
  /\ \A i \in DOMAIN v : v[i].ok /\ v[i].seqno >= ackno => i = Len(v) /\ v[i] = g
  /\ (v # <<>> /\ v[Len(v)] = g) \/ f = faults + 1

LEMMA GrownFacts ==
  ASSUME NEW w \in Seq(Segment), NEW v, NEW g \in Segment, NEW f \in Nat,
         NEW faults \in Nat, Grown(v, w, g, f, faults), NEW ackno \in Nat, AllOld(w, ackno)
  PROVE  NewAtEnd(v, w, g, f, faults, ackno)
<1>1. Len(w) \in Nat /\ DOMAIN w = 1..Len(w)
  OBVIOUS
<1>2. CASE v = w /\ f = faults + 1
  BY <1>1, <1>2 DEF AllOld, NewAtEnd
<1>3. CASE \E k \in Segment : v = Append(w, k) /\ ((k = g /\ f >= faults) \/ (~k.ok /\ f = faults + 1))
  <2>1. PICK k \in Segment : v = Append(w, k) /\ ((k = g /\ f >= faults) \/ (~k.ok /\ f = faults + 1))
    BY <1>3
  <2>2. /\ v \in Seq(Segment) /\ Len(v) = Len(w) + 1 /\ v[Len(v)] = k /\ v # <<>>
        /\ DOMAIN v = 1..Len(v) /\ \A i \in 1..Len(w) : v[i] = w[i]
    BY <1>1, <2>1
  <2>3. ASSUME NEW i \in DOMAIN v, v[i].ok /\ v[i].seqno >= ackno
        PROVE  i = Len(v) /\ v[i] = g
    <3>1. i = Len(v) \/ i \in 1..Len(w)
      BY <1>1, <2>2
    <3> QED  BY <1>1, <2>1, <2>2, <2>3, <3>1 DEF AllOld
  <2> QED  BY <1>1, <2>1, <2>2, <2>3 DEF NewAtEnd
<1> QED  BY <1>2, <1>3 DEF Grown

(* The sender reads and sends the next segment.                             *)
LEMMA FirstSend ==
  ASSUME NEW s \in CtcpState, NEW c, NEW t \in CtcpState, NEW d, NEW wire \in Seq(Segment),
         NEW back, NEW faults \in Nat, Pair(s, c, t, d, wire, back, faults), Listens(t, d),
         s.sent_segment_attr = NULL, NEW g \in Segment,
         NEW s2, Keeps(s2, g), NEW e, e.out = <<>>, ~e.wrote_eof,
         OneUnacked(s2, e, t.ackno), NEW v, NEW f \in Nat, Grown(v, wire, g, f, faults)
  PROVE  Pair(s2, e, t, d, v, back, f)
<1> DEFINE attr == [segment |-> g, time |-> 0, no_of_times |-> 0]
<1>0. t.ackno \in Nat
  BY DEF CtcpState
<1>1. s2.sent_segment_attr = attr /\ attr.no_of_times = 0 /\ attr.segment = g
  BY DEF Keeps
<1>2. attr # NULL
  <2>1. attr \in SegmentAttr
    BY DEF SegmentAttr
  <2> QED  BY <2>1, NullAssumption
<1> HIDE DEF attr
<1>3. Kept(s2) = {g} /\ Kept(s) = {}
  BY <1>1, <1>2 DEF Kept
<1>4. /\ Repairable(wire, s, t.ackno, faults) /\ Acknowledges(back, wire, s, t.ackno)
      /\ ReceivedOf(d.out) = t.ackno - 1
      /\ t.sent_segment_attr = NULL /\ t.td_state = "NOT_TEARDOWN"
      /\ d.nread = 0 /\ NoGap(d.out)
  BY DEF Pair, Progress
<1>5. Len(wire) <= 1 /\ back = <<>>
  BY <1>4 DEF Repairable, Acknowledges
<1>6. AllOld(wire, t.ackno)
  BY <1>3, <1>4 DEF Repairable, AllOld
<1>7a. NewAtEnd(v, wire, g, f, faults, t.ackno)
  BY <1>0, <1>6, GrownFacts
<1>7. /\ v \in Seq(Segment) /\ Len(v) <= Len(wire) + 1
      /\ \A i \in DOMAIN v : v[i].ok /\ v[i].seqno >= t.ackno => i = Len(v) /\ v[i] = g
      /\ (v # <<>> /\ v[Len(v)] = g) \/ f = faults + 1
  BY <1>7a DEF NewAtEnd
<1>8. Len(v) <= 2
  BY <1>5, <1>7
<1>9. Repairable(v, s2, t.ackno, f)
  <2>1. f = faults + 1 => 0 < f
    OBVIOUS
  <2>2. \A i \in DOMAIN v : v[i].ok /\ v[i].seqno >= t.ackno => i = Len(v) /\ Kept(s2) = {v[i]}
    BY <1>3, <1>7
  <2>3. \A k \in Kept(s2) : \/ v # <<>> /\ v[Len(v)] = k
                            \/ s2.sent_segment_attr.no_of_times < f
    BY <1>1, <1>3, <1>7, <2>1
  <2> QED  BY <1>1, <1>2, <1>8, <2>2, <2>3 DEF Repairable
<1>10. Acknowledges(back, v, s2, t.ackno)
  BY <1>5 DEF Acknowledges
<1>11. Progress(s2, e, t, d, v, back, f)
  BY <1>4, <1>9, <1>10 DEF Progress
<1> QED  BY <1>4, <1>11 DEF Pair

(* It sends the segment that it keeps once more, when nothing is under way, *)
(* and counts that or gives up.                                             *)
LEMMA SendsAgain ==
  ASSUME LossyOneWay,
         NEW s \in CtcpState, NEW c, c.nread \in Nat, NEW t \in CtcpState, NEW d,
         NEW faults \in Nat,
         Pair(s, c, t, d, <<>>, <<>>, faults), Listens(t, d),
         s.sent_segment_attr # NULL, NEW s2, s2.seqno = s.seqno,
         s2.conn_state = s.conn_state,
         NEW v, NEW f \in Nat, f <= MaxFaults, faults <= MaxFaults,
         Grown(v, <<>>, s.sent_segment_attr.segment, f, faults),
         IF s.sent_segment_attr.no_of_times + 1 >= Retries
         THEN s2.sent_segment_attr = NULL
         ELSE /\ s2.sent_segment_attr # NULL
              /\ s2.sent_segment_attr.segment = s.sent_segment_attr.segment
              /\ s2.sent_segment_attr.no_of_times = s.sent_segment_attr.no_of_times + 1
  PROVE  Pair(s2, c, t, d, v, <<>>, f)
<1> DEFINE attr == s.sent_segment_attr
           g == attr.segment
<1>0. /\ attr \in SegmentAttr /\ g \in Segment /\ attr.no_of_times \in Nat
      /\ t.ackno \in Nat /\ MaxFaults \in Nat /\ Retries \in Nat /\ <<>> \in Seq(Segment)
      /\ g.seqno \in Nat /\ g.len \in Nat /\ s.seqno \in Nat
  <2>1. attr \in SegmentAttr
    BY DEF CtcpState, MaybeAttr
  <2>2. g \in Segment /\ attr.no_of_times \in Nat
    BY <2>1 DEF SegmentAttr
  <2>3. t.ackno \in Nat /\ s.seqno \in Nat /\ MaxFaults \in Nat /\ Retries \in Nat
    BY FaultAssumption, TimerAssumption DEF CtcpState
  <2>4. g.seqno \in Nat /\ g.len \in Nat
    BY <2>2 DEF Segment
  <2> QED  BY <2>1, <2>2, <2>3, <2>4
<1>1. Kept(s) = {g}
  BY DEF Kept
<1>2. /\ Repairable(<<>>, s, t.ackno, faults) /\ OneUnacked(s, c, t.ackno)
      /\ ReceivedOf(d.out) = t.ackno - 1
      /\ t.sent_segment_attr = NULL /\ t.td_state = "NOT_TEARDOWN"
      /\ d.nread = 0 /\ NoGap(d.out) /\ c.out = <<>> /\ ~c.wrote_eof
  BY DEF Pair, Progress
<1> HIDE DEF attr, g
<1>3. g.seqno = t.ackno => attr.no_of_times < faults
  BY <1>1, <1>2 DEF Repairable, attr
<1>4. /\ v \in Seq(Segment) /\ Len(v) <= Len(<<>>) + 1
      /\ \A i \in DOMAIN v : v[i].ok /\ v[i].seqno >= t.ackno => i = Len(v) /\ v[i] = g
      /\ (v # <<>> /\ v[Len(v)] = g) \/ f = faults + 1
  <2>1. AllOld(<<>>, t.ackno)
    BY DEF AllOld
  <2>2. Grown(v, <<>>, g, f, faults)
    BY DEF g, attr
  <2>3. NewAtEnd(v, <<>>, g, f, faults, t.ackno)
    BY <1>0, <2>1, <2>2, GrownFacts
  <2> QED  BY <2>3 DEF NewAtEnd
<1>5. Len(v) <= 1 /\ Len(v) <= 2
  BY <1>4
<1>6. Acknowledges(<<>>, v, s2, t.ackno)
  BY DEF Acknowledges
<1>7. CASE attr.no_of_times + 1 >= Retries
  <2>1. s2.sent_segment_attr = NULL /\ Kept(s2) = {}
    BY <1>7 DEF attr, Kept
  <2>2. g.seqno # t.ackno
    BY <1>0, <1>3, <1>7 DEF LossyOneWay
  <2>3. ~IsFin(g) /\ s.conn_state = "DATA_TRANSFER" /\ s.seqno = c.nread + 1 /\ t.ackno = s.seqno
        /\ s.seqno = Past(g) /\ g.len >= 1
    BY <1>2, <2>2 DEF OneUnacked, attr, g
  <2>4. g.seqno < t.ackno
    BY <1>0, <2>3 DEF Past
  <2>5. OneUnacked(s2, c, t.ackno)
    BY <2>1, <2>3 DEF OneUnacked
  <2>6. \A i \in DOMAIN v : ~(v[i].ok /\ v[i].seqno >= t.ackno)
    BY <1>0, <1>4, <2>4
  <2>7. Repairable(v, s2, t.ackno, f)
    BY <1>5, <2>1, <2>6 DEF Repairable
  <2>8. Progress(s2, c, t, d, v, <<>>, f)
    BY <1>2, <1>6, <2>5, <2>7 DEF Progress
  <2> QED  BY <1>2, <2>8 DEF Pair
<1>8. CASE ~(attr.no_of_times + 1 >= Retries)
  <2>1. /\ s2.sent_segment_attr # NULL /\ s2.sent_segment_attr.segment = g
        /\ s2.sent_segment_attr.no_of_times = attr.no_of_times + 1
    BY <1>8 DEF attr, g
  <2>2. Kept(s2) = {g}
    BY <2>1 DEF Kept
  <2>3. OneUnacked(s2, c, t.ackno)
    BY <1>2, <2>1 DEF OneUnacked, attr, g
  <2>4. g.seqno = t.ackno => \/ v # <<>> /\ v[Len(v)] = g
                             \/ attr.no_of_times + 1 < f
    BY <1>0, <1>3, <1>4
  <2>5. Repairable(v, s2, t.ackno, f)
    BY <1>4, <1>5, <2>1, <2>2, <2>4 DEF Repairable
  <2>6. Progress(s2, c, t, d, v, <<>>, f)
    BY <1>2, <1>6, <2>3, <2>5 DEF Progress
  <2> QED  BY <1>2, <2>6 DEF Pair
<1> QED  BY <1>7, <1>8

(* Once the peer has all, neither end does anything that counts.            *)
LEMMA LateSender ==
  ASSUME NEW s, NEW c, NEW t, NEW d, NEW wire, NEW back, NEW faults,
         Pair(s, c, t, d, wire, back, faults), ~Listens(t, d),
         NEW s2, s2.conn_state # "DATA_TRANSFER", NEW e, e.out = c.out,
         ~e.wrote_eof, e.read_eof, e.nread = c.nread, NEW v, NEW b, NEW f
  PROVE  Pair(s2, e, t, d, v, b, f)
  BY DEF Pair, Finished

LEMMA LateReceiver ==
  ASSUME NEW s, NEW c, NEW t, NEW d, NEW wire, NEW back, NEW faults,
         Pair(s, c, t, d, wire, back, faults), ~Listens(t, d),
         NEW t2, NEW e, ~Listens(t2, e), e.out = d.out, e.nread = d.nread,
         NEW v, NEW b, NEW f
  PROVE  Pair(s, c, t2, e, v, b, f)
  BY DEF Pair, Finished

(* The peer of a sender never reads.                                        *)
LEMMA NothingToRead ==
  ASSUME LInv, NEW x \in Host, MayRead(x)
  PROVE  ~OneWay(Peer(x))
<1> SUFFICES ASSUME OneWay(Peer(x)) PROVE FALSE
  OBVIOUS
<1>1. Peer(Peer(x)) = x /\ conn[x].nread = 0
  BY LossyStarts, PeerFacts DEF Pair
<1>2. Input[x] = 0 /\ Eof[x] = "never"
  BY <1>1 DEF OneWay
<1> QED  BY <1>1, <1>2 DEF MayRead, StdinReady

(* Its socket has room for what the sender reads next.                      *)
LEMMA RoomForNext ==
  ASSUME LossyOneWay, LInv, NEW x \in Host, OneWay(x),
         Listens(state[Peer(x)], conn[Peer(x)]), state[x].sent_segment_attr = NULL
  PROVE  Accepts(net, Peer(x)) /\ net.wire[x] = <<>>
<1> DEFINE p == Peer(x)
<1>1. Pair(state[x], conn[x], state[p], conn[p], net.wire[p], net.wire[x], net.faults)
  BY LossyStarts
<1>2. net.wire[p] \in Seq(Segment)
  BY LossyStarts, PeerFacts
<1> HIDE DEF p
<1>3. Len(net.wire[p]) <= 1 /\ net.wire[x] = <<>>
  BY <1>1 DEF Pair, Progress, Repairable, Acknowledges, p
<1>4. Len(net.wire[p]) < QueueLen
  BY <1>2, <1>3, SizeAssumption DEF LossyOneWay
<1> QED  BY <1>3, <1>4 DEF Accepts, Running, Listens, p

(* ctcp_read() of data.                                                     *)
LEMMA LossyReadData ==
  ASSUME LossyOneWay, LInv, StreamInv', NEW x \in Host, ReadData(x)
  PROVE  LInv'
<1> DEFINE p == Peer(x)
<1>1. PICK i \in conn_input(x) :
        /\ i.rc >= 0
        /\ \E o \in segment_send(x, state[x], net, {"ACK"}, conn[x].nread + 1, i.rc) :
             Return(x, o.s, i.c, o.n)
  BY DEF ReadData
<1>2. PICK o \in segment_send(x, state[x], net, {"ACK"}, conn[x].nread + 1, i.rc) :
        Return(x, o.s, i.c, o.n)
  BY <1>1
<1>3. /\ Idle(state[x], conn[x]) /\ net.forked = {} /\ net.faults <= MaxFaults
      /\ state[x] \in CtcpState /\ conn[x] \in Conn /\ net \in Net /\ net.faults \in Nat
  BY LossyStarts
<1>3a. /\ p \in Host /\ Peer(p) = x
       /\ state[p] \in CtcpState /\ net.wire[p] \in Seq(Segment)
  BY LossyStarts, PeerFacts
<1>4. /\ conn[x].nread \in Nat /\ state[x].seqno \in Nat /\ Input[x] \in Nat
      /\ MSS \in Nat /\ conn[x].nread + 1 \in Nat
  BY <1>3, InputAssumption, SizeAssumption DEF Conn, CtcpState
<1>5. PICK len \in Nat :
        /\ i = [rc |-> len, c |-> [conn[x] EXCEPT !.nread = @ + len]]
        /\ len <= MSS /\ len > 0 /\ ~conn[x].read_eof
  BY <1>1, <1>4 DEF conn_input
<1> DEFINE c == [conn[x] EXCEPT !.nread = @ + len]
<1>6. /\ c.nread = conn[x].nread + len /\ c.read_eof = conn[x].read_eof
      /\ c.out = conn[x].out /\ c.out_queue = conn[x].out_queue /\ c.pollout = conn[x].pollout
      /\ c.tainted = conn[x].tainted /\ c.wrote_eof = conn[x].wrote_eof
      /\ c.wrote_err = conn[x].wrote_err
  BY <1>3 DEF Conn
<1>7. i.c = c /\ i.rc = len
  BY <1>5
<1> DEFINE g == Built(state[x], {"ACK"}, conn[x].nread + 1, len)
<1>8. /\ g \in Segment /\ ~IsFin(g) /\ g.len = len /\ g.seqno = state[x].seqno /\ g.ok
      /\ g.flags = {"ACK"} /\ g.pos = conn[x].nread + 1 /\ Past(g) = state[x].seqno + len
  BY <1>4 DEF Built, IsFin, Past, Segment, Flags
<1>9. {"ACK"} \in Flags
  BY DEF Flags
<1>10. /\ Transmits(o, net, p, g) /\ Records(state[x], o.s)
       /\ o.rc = 0 => Keeps(o.s, g)
  <2>1. o \in segment_send(x, state[x], net, {"ACK"}, conn[x].nread + 1, len)
    BY <1>7
  <2> QED  BY <1>3, <1>4, <1>5, <1>9, <2>1, LossySegmentSend
<1> HIDE DEF c, g, p
<1>11. Idle(o.s, c)
  BY <1>3, <1>6, <1>10 DEF Idle, Records
<1>12. o.n \in Net /\ o.n.forked = {} /\ o.n.faults <= MaxFaults /\ o.n.wire[x] = net.wire[x]
       /\ o.n.faults \in Nat
  BY <1>3a, <1>10 DEF Transmits, Net
<1>13. ASSUME OneWay(x)
       PROVE  Pair(o.s, c, state[p], conn[p], o.n.wire[p], o.n.wire[x], o.n.faults)
  <2>1. /\ Pair(state[x], conn[x], state[p], conn[p], net.wire[p], net.wire[x], net.faults)
        /\ state[x].sent_segment_attr = NULL
    BY <1>13, LossyStarts DEF p, ReadData, MayRead
  <2>2. Listens(state[p], conn[p])
    BY <1>5, <2>1 DEF Pair, Finished
  <2>3. Accepts(net, p)
    BY <1>13, <2>1, <2>2, RoomForNext DEF p
  <2>4. Keeps(o.s, g) /\ Grown(o.n.wire[p], net.wire[p], g, o.n.faults, net.faults)
    BY <1>3, <1>3a, <1>8, <1>10, <2>3, AcceptedGrows
  <2>5. /\ OneUnacked(state[x], conn[x], state[p].ackno)
        /\ conn[x].out = <<>> /\ ~conn[x].wrote_eof
    BY <2>1, <2>2 DEF Pair, Progress
  <2>6. /\ state[x].conn_state = "DATA_TRANSFER" /\ state[x].seqno = conn[x].nread + 1
        /\ state[p].ackno = state[x].seqno
    BY <2>1, <2>5 DEF OneUnacked
  <2>7. OneUnacked(o.s, c, state[p].ackno)
    <3> DEFINE attr == [segment |-> g, time |-> 0, no_of_times |-> 0]
    <3>1. attr \in SegmentAttr /\ attr.segment = g /\ o.s.sent_segment_attr = attr
      BY <1>8, <2>4 DEF SegmentAttr, Keeps
    <3>2. attr # NULL
      BY <3>1, NullAssumption
    <3> HIDE DEF attr
    <3>3. o.s.seqno = Past(g) /\ o.s.conn_state = "DATA_TRANSFER"
      BY <1>10, <2>4, <2>6 DEF Keeps, Records
    <3>4. Past(g) = c.nread + 1 /\ g.len >= 1 /\ g.len <= MSS
      BY <1>4, <1>5, <1>6, <1>8, <2>6
    <3> QED  BY <1>8, <2>6, <3>1, <3>2, <3>3, <3>4 DEF OneUnacked
  <2> QED  BY <1>3, <1>3a, <1>6, <1>8, <1>12, <2>1, <2>2, <2>4, <2>5, <2>7, FirstSend
<1>14. ~OneWay(p)
  BY NothingToRead DEF p, ReadData
<1> QED  BY <1>2, <1>7, <1>11, <1>12, <1>13, <1>14, LossyReturn DEF p

(* ctcp_read() of the end of file.                                          *)
LEMMA LossyReadEof ==
  ASSUME LossyOneWay, LInv, StreamInv', NEW x \in Host, ReadEof(x)
  PROVE  LInv'
<1> DEFINE p == Peer(x)
<1>1. PICK i \in conn_input(x) :
        /\ i.rc < 0
        /\ \E o \in send_fin(x, state[x], net) :
             Return(x, IF o.rc < 0 THEN o.s
                       ELSE [o.s EXCEPT !.conn_state = "TEAR_DOWN"], i.c, o.n)
  BY DEF ReadEof
<1>2. PICK o \in send_fin(x, state[x], net) :
        Return(x, IF o.rc < 0 THEN o.s
                  ELSE [o.s EXCEPT !.conn_state = "TEAR_DOWN"], i.c, o.n)
  BY <1>1
<1>3. /\ Idle(state[x], conn[x]) /\ net.forked = {} /\ net.faults <= MaxFaults
      /\ state[x] \in CtcpState /\ conn[x] \in Conn /\ net \in Net /\ net.faults \in Nat
  BY LossyStarts
<1>3a. /\ p \in Host /\ Peer(p) = x
       /\ state[p] \in CtcpState /\ net.wire[p] \in Seq(Segment)
  BY LossyStarts, PeerFacts
<1>4. conn[x].nread \in Nat /\ state[x].seqno \in Nat /\ Input[x] \in Nat
  BY <1>3, InputAssumption DEF Conn, CtcpState
<1>5. i = [rc |-> -1, c |-> [conn[x] EXCEPT !.read_eof = TRUE]]
  BY <1>1, <1>4, SizeAssumption DEF conn_input
<1> DEFINE c == [conn[x] EXCEPT !.read_eof = TRUE]
<1>6. /\ c.nread = conn[x].nread /\ c.read_eof
      /\ c.out = conn[x].out /\ c.out_queue = conn[x].out_queue /\ c.pollout = conn[x].pollout
      /\ c.tainted = conn[x].tainted /\ c.wrote_eof = conn[x].wrote_eof
      /\ c.wrote_err = conn[x].wrote_err
  BY <1>3 DEF Conn
<1>7. i.c = c
  BY <1>5
<1> DEFINE g == Built(state[x], {"FIN"}, 0, 0)
<1>8. /\ g \in Segment /\ IsFin(g) /\ g.seqno = state[x].seqno /\ g.ok
      /\ Past(g) = state[x].seqno + 1
  BY <1>4 DEF Built, IsFin, Past, Segment, Flags
<1>9. {"FIN"} \in Flags /\ 0 \in Nat /\ "FIN" \in {"FIN"}
  BY DEF Flags
<1>10. /\ Transmits(o, net, p, g) /\ Records(state[x], o.s)
       /\ o.rc = 0 => Keeps(o.s, g)
  <2>1. o \in segment_send(x, state[x], net, {"FIN"}, 0, 0)
    BY DEF send_fin
  <2> QED  BY <1>3, <1>9, <2>1, LossySegmentSend
<1> DEFINE t == IF o.rc < 0 THEN o.s ELSE [o.s EXCEPT !.conn_state = "TEAR_DOWN"]
<1>11. /\ t.seqno = o.s.seqno /\ t.sent_segment_attr = o.s.sent_segment_attr
       /\ t.conn_state = state[x].conn_state \/ t.conn_state = "TEAR_DOWN"
       /\ o.rc = 0 => t.conn_state = "TEAR_DOWN"
  BY <1>10 DEF Records, CtcpState
<1> HIDE DEF c, g, p, t
<1>12. Idle(t, c)
  BY <1>3, <1>6, <1>11 DEF Idle
<1>13. o.n \in Net /\ o.n.forked = {} /\ o.n.faults <= MaxFaults /\ o.n.wire[x] = net.wire[x]
       /\ o.n.faults \in Nat
  BY <1>3a, <1>10 DEF Transmits, Net
<1>14. ASSUME OneWay(x)
       PROVE  Pair(t, c, state[p], conn[p], o.n.wire[p], o.n.wire[x], o.n.faults)
  <2>1. /\ Pair(state[x], conn[x], state[p], conn[p], net.wire[p], net.wire[x], net.faults)
        /\ state[x].sent_segment_attr = NULL
    BY <1>14, LossyStarts DEF p, ReadEof, MayRead
  <2>2. CASE Listens(state[p], conn[p])
    <3>1. Accepts(net, p)
      BY <1>14, <2>1, <2>2, RoomForNext DEF p
    <3>2. /\ o.rc = 0 /\ Keeps(o.s, g)
          /\ Grown(o.n.wire[p], net.wire[p], g, o.n.faults, net.faults)
      BY <1>3, <1>3a, <1>8, <1>10, <3>1, AcceptedGrows
    <3>3. Keeps(t, g)
      BY <1>11, <3>2 DEF Keeps
    <3>4. /\ OneUnacked(state[x], conn[x], state[p].ackno)
          /\ conn[x].out = <<>> /\ ~conn[x].wrote_eof
      BY <2>1, <2>2 DEF Pair, Progress
    <3>5. state[x].seqno = conn[x].nread + 1 /\ state[p].ackno = state[x].seqno
      BY <2>1, <3>4 DEF OneUnacked
    <3>6. OneUnacked(t, c, state[p].ackno)
      <4> DEFINE attr == [segment |-> g, time |-> 0, no_of_times |-> 0]
      <4>1. attr \in SegmentAttr /\ attr.segment = g /\ t.sent_segment_attr = attr
        BY <1>8, <3>3 DEF SegmentAttr, Keeps
      <4>2. attr # NULL
        BY <4>1, NullAssumption
      <4> HIDE DEF attr
      <4>3. t.seqno = Past(g) /\ t.conn_state = "TEAR_DOWN"
        BY <1>11, <3>2, <3>3 DEF Keeps
      <4> QED  BY <1>6, <1>8, <3>5, <4>1, <4>2, <4>3 DEF OneUnacked
    <3> QED  BY <1>3, <1>3a, <1>6, <1>8, <1>13, <2>1, <2>2, <3>2, <3>3, <3>4, <3>6, FirstSend
  <2>3. CASE ~Listens(state[p], conn[p])
    <3>1. state[x].conn_state # "DATA_TRANSFER" /\ ~conn[x].wrote_eof
      BY <2>1, <2>3 DEF Pair, Finished
    <3>2. t.conn_state # "DATA_TRANSFER"
      BY <1>11, <3>1
    <3> QED  BY <1>6, <2>1, <2>3, <3>1, <3>2, LateSender
  <2> QED  BY <2>2, <2>3
<1>15. ~OneWay(p)
  BY NothingToRead DEF p, ReadEof
<1>16. Return(x, t, c, o.n)
  BY <1>2, <1>7 DEF t
<1> QED  BY <1>12, <1>13, <1>14, <1>15, <1>16, LossyReturn DEF p

(* What of the two records and of the sender's connection counts.           *)
LEMMA PairOnly ==
  ASSUME NEW s, NEW c, NEW t, NEW d, NEW wire, NEW back, NEW faults,
         Pair(s, c, t, d, wire, back, faults),
         NEW s2, s2.seqno = s.seqno, s2.conn_state = s.conn_state,
         s2.sent_segment_attr = NULL <=> s.sent_segment_attr = NULL,
         s.sent_segment_attr # NULL =>
           /\ s2.sent_segment_attr.segment = s.sent_segment_attr.segment
           /\ s2.sent_segment_attr.no_of_times = s.sent_segment_attr.no_of_times,
         NEW e, e.out = c.out, e.wrote_eof = c.wrote_eof, e.nread = c.nread,
         e.read_eof = c.read_eof, NEW b, b = back \/ b = <<>>,
         NEW t2, t2.ackno = t.ackno, t2.conn_state = t.conn_state,
         t2.td_state = t.td_state, t2.sent_segment_attr = t.sent_segment_attr
  PROVE  Pair(s2, e, t2, d, wire, b, faults)
<1>1. Kept(s2) = Kept(s)
  BY DEF Kept
<1>2. Listens(t2, d) <=> Listens(t, d)
  BY DEF Listens
<1>3. ASSUME Listens(t, d)
      PROVE  Progress(s2, e, t2, d, wire, b, faults)
  <2>1. /\ OneUnacked(s, c, t.ackno) /\ Repairable(wire, s, t.ackno, faults)
        /\ Acknowledges(back, wire, s, t.ackno) /\ ReceivedOf(d.out) = t.ackno - 1
        /\ t.sent_segment_attr = NULL /\ t.td_state = "NOT_TEARDOWN"
    BY <1>3 DEF Pair, Progress
  <2>2. OneUnacked(s2, e, t.ackno)
    <3>1. CASE s.sent_segment_attr = NULL
      BY <2>1, <3>1 DEF OneUnacked
    <3>2. CASE s.sent_segment_attr # NULL
      <4>1. s2.sent_segment_attr # NULL
        BY <3>2
      <4> QED  BY <2>1, <3>2, <4>1 DEF OneUnacked
    <3> QED  BY <3>1, <3>2
  <2>3. Repairable(wire, s2, t.ackno, faults)
    <3>1. CASE s.sent_segment_attr = NULL
      <4>1. Kept(s) = {}
        BY <3>1 DEF Kept
      <4> QED  BY <1>1, <2>1, <3>1, <4>1 DEF Repairable
    <3>2. CASE s.sent_segment_attr # NULL
      <4>1. s2.sent_segment_attr # NULL
        BY <3>2
      <4> QED  BY <1>1, <2>1, <3>2, <4>1 DEF Repairable
    <3> QED  BY <3>1, <3>2
  <2>4. Acknowledges(b, wire, s2, t.ackno)
    BY <2>1 DEF Acknowledges
  <2> QED  BY <2>1, <2>2, <2>3, <2>4 DEF Progress
<1>4. ASSUME ~Listens(t, d)
      PROVE  Finished(s2, e, d)
  BY <1>4 DEF Pair, Finished
<1>5. e.out = <<>> /\ ~e.wrote_eof /\ d.nread = 0 /\ NoGap(d.out)
  BY DEF Pair
<1> QED  BY <1>2, <1>3, <1>4, <1>5 DEF Pair

(* A process that ends takes its status and its queue along.                *)
LEMMA GoneFacts ==
  ASSUME NEW x \in Host, NEW s, NEW c \in Conn, NEW n \in Net,
         NEW status \in Status, Gone(x, s, c, n, status)
  PROVE  \E e \in Conn, m \in Net :
           /\ Return(x, s, e, m) /\ OnlyWire(m, n, x, <<>>)
           /\ e.status = status /\ e.nread = c.nread /\ e.read_eof = c.read_eof
           /\ e.out = c.out /\ e.out_queue = c.out_queue /\ e.pollout = c.pollout
           /\ e.tainted = c.tainted /\ e.wrote_eof = c.wrote_eof
           /\ e.wrote_err = c.wrote_err
<1> DEFINE e == [c EXCEPT !.status = status]
           m == [n EXCEPT !.wire[x] = <<>>]
<1>1. <<>> \in Seq(Segment)
  OBVIOUS
<1>2. OnlyWire(m, n, x, <<>>)
  BY <1>1, WithoutWire
<1>3. /\ e \in Conn /\ e.status = status /\ e.nread = c.nread /\ e.read_eof = c.read_eof
      /\ e.out = c.out /\ e.out_queue = c.out_queue /\ e.pollout = c.pollout
      /\ e.tainted = c.tainted /\ e.wrote_eof = c.wrote_eof /\ e.wrote_err = c.wrote_err
  BY DEF Conn
<1>4. Return(x, s, e, m)
  BY DEF Gone
<1>5. m \in Net
  BY <1>2 DEF OnlyWire
<1> HIDE DEF e, m
<1> QED  BY <1>2, <1>3, <1>4, <1>5

LEMMA TailOfOne ==
  ASSUME NEW w \in Seq(Segment), Len(w) = 1
  PROVE  Tail(w) = <<>> /\ Head(w) = w[1] /\ w # <<>>
<1>1. w # <<>> /\ Tail(w) \in Seq(Segment) /\ Len(Tail(w)) = 0
  OBVIOUS
<1>2. \A v \in Seq(Segment) : Len(v) = 0 => v = <<>>
  OBVIOUS
<1>3. Head(w) = w[1]
  OBVIOUS
<1>4. Tail(w) = <<>>
  BY <1>1, <1>2, Zenon
<1> QED  BY <1>1, <1>3, <1>4

(* recv_filter() on a removed connection.                                   *)
LEMMA LossyDiscard ==
  ASSUME LInv, StreamInv', NEW x \in Host, Discard(x)
  PROVE  LInv'
<1> DEFINE p == Peer(x)
           n == [net EXCEPT !.wire[x] = Tail(@)]
<1>1. /\ Idle(state[x], conn[x]) /\ net.forked = {} /\ net.faults <= MaxFaults
      /\ state[x] \in CtcpState /\ conn[x] \in Conn /\ net \in Net
      /\ net.wire[x] \in Seq(Segment)
  BY LossyStarts
<1>2. net.wire[x] # <<>> /\ conn[x].status # "up" /\ Return(x, state[x], conn[x], n)
  BY DEF Discard
<1>3. Tail(net.wire[x]) \in Seq(Segment)
  BY <1>1, <1>2
<1>4. OnlyWire(n, net, x, Tail(net.wire[x]))
  BY <1>1, <1>3, WithoutWire
<1> HIDE DEF n, p
<1>5. /\ n.forked = {} /\ n.faults = net.faults /\ n.wire[x] = Tail(net.wire[x])
      /\ n.wire[p] = net.wire[p]
  BY <1>1, <1>4 DEF OnlyWire, p
<1>6. ASSUME OneWay(x)
      PROVE  Pair(state[x], conn[x], state[p], conn[p], n.wire[p], n.wire[x], n.faults)
  <2>1. Pair(state[x], conn[x], state[p], conn[p], net.wire[p], net.wire[x], net.faults)
    BY <1>6, LossyStarts DEF p
  <2>2. CASE Listens(state[p], conn[p])
    <3>1. Len(net.wire[x]) = 1
      BY <1>2, <2>1, <2>2 DEF Pair, Progress, Acknowledges
    <3>2. Tail(net.wire[x]) = <<>>
      BY <1>1, <3>1, TailOfOne
    <3> QED  BY <1>5, <2>1, <3>2, PairOnly
  <2>3. CASE ~Listens(state[p], conn[p])
    <3>1. state[x].conn_state # "DATA_TRANSFER" /\ conn[x].read_eof /\ ~conn[x].wrote_eof
      BY <2>1, <2>3 DEF Pair, Finished
    <3> QED  BY <2>1, <2>3, <3>1, LateSender
  <2> QED  BY <2>2, <2>3
<1>7. ASSUME OneWay(p)
      PROVE  Pair(state[p], conn[p], state[x], conn[x], n.wire[x], n.wire[p], n.faults)
  <2>1. Pair(state[p], conn[p], state[x], conn[x], net.wire[x], net.wire[p], net.faults)
    BY <1>7, LossyStarts DEF p
  <2>2. ~Listens(state[x], conn[x])
    BY <1>2 DEF Listens
  <2> QED  BY <2>1, <2>2, LateReceiver
<1> QED  BY <1>1, <1>2, <1>5, <1>6, <1>7, LossyReturn DEF p

(* The end of WAIT_DESTROY.                                                 *)
LEMMA LossyTimerDestroys ==
  ASSUME LInv, StreamInv', NEW x \in Host, TimerDestroys(x)
  PROVE  LInv'
<1> DEFINE p == Peer(x)
<1>1. /\ Idle(state[x], conn[x]) /\ net.forked = {} /\ net.faults <= MaxFaults
      /\ state[x] \in CtcpState /\ conn[x] \in Conn /\ net \in Net
  BY LossyStarts
<1>2. PICK status \in Status \ {"up"} : Gone(x, state[x], conn[x], net, status)
  BY DEF TimerDestroys, Status
<1>3. PICK e \in Conn, m \in Net :
           /\ Return(x, state[x], e, m) /\ OnlyWire(m, net, x, <<>>)
           /\ e.status = status /\ e.nread = conn[x].nread /\ e.read_eof = conn[x].read_eof
           /\ e.out = conn[x].out /\ e.out_queue = conn[x].out_queue
           /\ e.pollout = conn[x].pollout
           /\ e.tainted = conn[x].tainted /\ e.wrote_eof = conn[x].wrote_eof
           /\ e.wrote_err = conn[x].wrote_err
  BY <1>1, <1>2, GoneFacts
<1> HIDE DEF p
<1>4. /\ m.forked = {} /\ m.faults = net.faults /\ m.wire[x] = <<>>
      /\ m.wire[p] = net.wire[p]
  BY <1>1, <1>3 DEF OnlyWire, p
<1>5. Idle(state[x], e)
  BY <1>1, <1>3 DEF Idle
<1>6. ASSUME OneWay(x)
      PROVE  Pair(state[x], e, state[p], conn[p], m.wire[p], m.wire[x], m.faults)
  <2>1. Pair(state[x], conn[x], state[p], conn[p], net.wire[p], net.wire[x], net.faults)
    BY <1>6, LossyStarts DEF p
  <2> QED  BY <1>3, <1>4, <2>1, PairOnly
<1>7. ASSUME OneWay(p)
      PROVE  Pair(state[p], conn[p], state[x], e, m.wire[x], m.wire[p], m.faults)
  <2>1. Pair(state[p], conn[p], state[x], conn[x], net.wire[x], net.wire[p], net.faults)
    BY <1>7, LossyStarts DEF p
  <2>2. state[x].td_state = "WAIT_DESTROY"
    BY DEF TimerDestroys, WaitOver
  <2>3. ~Listens(state[x], conn[x])
    BY <2>1, <2>2 DEF Pair, Progress
  <2>4. ~Listens(state[x], e)
    BY <1>3 DEF Listens
  <2> QED  BY <1>3, <2>1, <2>3, <2>4, LateReceiver
<1> QED  BY <1>1, <1>3, <1>4, <1>5, <1>6, <1>7, LossyReturn DEF p

(* ctcp_timer() and retransmission_handler(): s is the record that x        *)
(* returns with, m the network.                                             *)
LEMMA LossyTick ==
  ASSUME LossyOneWay, LInv, StreamInv', NEW x \in Host, Quiet(net),
         NEW s, NEW m, Return(x, s, conn[x], m), m.forked = {}, m.faults <= MaxFaults,
         s.seqno = state[x].seqno, s.conn_state = state[x].conn_state,
         s.ackno = state[x].ackno, s.td_state = state[x].td_state,
         \/ /\ m = net
            /\ s.sent_segment_attr = NULL <=> state[x].sent_segment_attr = NULL
            /\ state[x].sent_segment_attr # NULL =>
                 /\ s.sent_segment_attr.segment = state[x].sent_segment_attr.segment
                 /\ s.sent_segment_attr.no_of_times = state[x].sent_segment_attr.no_of_times
         \/ /\ state[x].sent_segment_attr # NULL
            /\ m \in Net /\ m.wire[x] = net.wire[x]
            /\ Accepts(net, Peer(x)) =>
                 Grown(m.wire[Peer(x)], net.wire[Peer(x)],
                       state[x].sent_segment_attr.segment, m.faults, net.faults)
            /\ IF state[x].sent_segment_attr.no_of_times + 1 >= Retries
               THEN s.sent_segment_attr = NULL
               ELSE /\ s.sent_segment_attr # NULL
                    /\ s.sent_segment_attr.segment = state[x].sent_segment_attr.segment
                    /\ s.sent_segment_attr.no_of_times =
                         state[x].sent_segment_attr.no_of_times + 1
  PROVE  LInv'
<1> DEFINE p == Peer(x)
<1>1. /\ Idle(state[x], conn[x]) /\ net.forked = {} /\ net.faults <= MaxFaults
      /\ state[x] \in CtcpState /\ conn[x] \in Conn /\ net \in Net /\ net.faults \in Nat
  BY LossyStarts
<1>2. /\ p \in Host /\ Peer(p) = x /\ state[p] \in CtcpState
      /\ net.wire[p] = <<>> /\ net.wire[x] = <<>>
  BY LossyStarts, PeerFacts DEF Quiet
<1>3. Idle(s, conn[x])
  BY <1>1 DEF Idle
<1> DEFINE stays == /\ m = net
                    /\ s.sent_segment_attr = NULL <=> state[x].sent_segment_attr = NULL
                    /\ state[x].sent_segment_attr # NULL =>
                         /\ s.sent_segment_attr.segment = state[x].sent_segment_attr.segment
                         /\ s.sent_segment_attr.no_of_times =
                              state[x].sent_segment_attr.no_of_times
<1> HIDE DEF p
<1>4. ASSUME OneWay(x)
      PROVE  Pair(s, conn[x], state[p], conn[p], m.wire[p], m.wire[x], m.faults)
  <2>1. Pair(state[x], conn[x], state[p], conn[p], net.wire[p], net.wire[x], net.faults)
    BY <1>4, LossyStarts DEF p
  <2>2. CASE stays
    BY <2>1, <2>2, PairOnly
  <2>3. CASE ~stays /\ ~Listens(state[p], conn[p])
    <3>1. state[x].conn_state # "DATA_TRANSFER" /\ conn[x].read_eof /\ ~conn[x].wrote_eof
      BY <2>1, <2>3 DEF Pair, Finished
    <3> QED  BY <2>1, <2>3, <3>1, LateSender
  <2>4. CASE ~stays /\ Listens(state[p], conn[p])
    <3>1. Accepts(net, p)
      <4>1. Len(net.wire[p]) = 0
        BY <1>2
      <4> QED  BY <2>4, <4>1, SizeAssumption DEF Accepts, Running, Listens
    <3>2. /\ state[x].sent_segment_attr # NULL
          /\ m \in Net /\ m.wire[x] = <<>> /\ m.faults \in Nat
          /\ Grown(m.wire[p], <<>>,
                   state[x].sent_segment_attr.segment, m.faults, net.faults)
          /\ IF state[x].sent_segment_attr.no_of_times + 1 >= Retries
             THEN s.sent_segment_attr = NULL
             ELSE /\ s.sent_segment_attr # NULL
                  /\ s.sent_segment_attr.segment = state[x].sent_segment_attr.segment
                  /\ s.sent_segment_attr.no_of_times =
                       state[x].sent_segment_attr.no_of_times + 1
      <4>1. \A k \in Net : k.faults \in Nat
        BY DEF Net
      <4> QED  BY <1>2, <2>4, <3>1, <4>1 DEF p
    <3>3. Pair(state[x], conn[x], state[p], conn[p], <<>>, <<>>, net.faults)
      BY <1>2, <2>1
    <3>4. conn[x].nread \in Nat
      BY <1>1 DEF Conn
    <3> QED  BY <1>1, <1>2, <2>4, <3>2, <3>3, <3>4, SendsAgain
  <2> QED  BY <2>2, <2>3, <2>4
<1>5. ASSUME OneWay(p)
      PROVE  Pair(state[p], conn[p], s, conn[x], m.wire[x], m.wire[p], m.faults)
  <2>1. Pair(state[p], conn[p], state[x], conn[x], net.wire[x], net.wire[p], net.faults)
    BY <1>5, LossyStarts DEF p
  <2>2. CASE Listens(state[x], conn[x])
    <3>1. state[x].sent_segment_attr = NULL
      BY <2>1, <2>2 DEF Pair, Progress
    <3>2. m = net /\ s.sent_segment_attr = state[x].sent_segment_attr
      BY <3>1
    <3> QED  BY <2>1, <3>2, PairOnly
  <2>3. CASE ~Listens(state[x], conn[x])
    <3>1. ~Listens(s, conn[x])
      BY <2>3 DEF Listens
    <3> QED  BY <2>1, <2>3, <3>1, LateReceiver
  <2> QED  BY <2>2, <2>3
<1> QED  BY <1>3, <1>4, <1>5, LossyReturn DEF p

LEMMA LossyTimer ==
  ASSUME LossyOneWay, LInv, StreamInv', NEW x \in Host, ctcp_timer(x)
  PROVE  LInv'
<1>1. /\ net.forked = {} /\ net.faults <= MaxFaults
      /\ state[x] \in CtcpState /\ conn[x] \in Conn /\ net \in Net
  BY LossyStarts
<1>2. Quiet(net)
  BY DEF ctcp_timer, LossyOneWay
<1>3. CASE TimerDestroys(x)
  BY <1>3, LossyTimerDestroys
<1>4. CASE TimerTicks(x)
  <2> DEFINE s == [state[x] EXCEPT !.tim = tim_advance(state[x])]
             attr == [s.sent_segment_attr EXCEPT !.time = @ + Timer]
  <2>1. /\ s.seqno = state[x].seqno /\ s.ackno = state[x].ackno
        /\ s.conn_state = state[x].conn_state /\ s.td_state = state[x].td_state
        /\ s.sent_segment_attr = state[x].sent_segment_attr
        /\ \A y : LET t == [s EXCEPT !.sent_segment_attr = y] IN
             /\ t.seqno = s.seqno /\ t.ackno = s.ackno /\ t.td_state = s.td_state
             /\ t.conn_state = s.conn_state /\ t.sent_segment_attr = y
    BY <1>1 DEF CtcpState
  <2>2. \/ Return(x, s, conn[x], net)
        \/ s.sent_segment_attr # NULL /\ Return(x, [s EXCEPT !.sent_segment_attr = attr], conn[x], net)
        \/ s.sent_segment_attr # NULL /\ Retransmit(x, s, attr)
    BY <1>4 DEF TimerTicks, Aged
  <2> HIDE DEF s
  <2>3. ASSUME s.sent_segment_attr # NULL
        PROVE  /\ attr \in SegmentAttr /\ attr.segment = s.sent_segment_attr.segment
               /\ attr.segment \in Segment /\ attr # NULL
               /\ attr.no_of_times = s.sent_segment_attr.no_of_times
    <3>1. s.sent_segment_attr \in SegmentAttr
      BY <1>1, <2>1, <2>3 DEF CtcpState, MaybeAttr
    <3>2. /\ attr \in SegmentAttr /\ attr.segment = s.sent_segment_attr.segment
          /\ attr.segment \in Segment /\ attr.no_of_times = s.sent_segment_attr.no_of_times
      BY <3>1, TimerAssumption DEF SegmentAttr
    <3> QED  BY <3>2, NullAssumption
  <2> HIDE DEF attr
  <2>4. CASE Return(x, s, conn[x], net)
    BY <1>1, <1>2, <2>1, <2>4, LossyTick
  <2>5. CASE s.sent_segment_attr # NULL /\ Return(x, [s EXCEPT !.sent_segment_attr = attr], conn[x], net)
    <3> DEFINE t == [s EXCEPT !.sent_segment_attr = attr]
    <3>1. /\ t.seqno = s.seqno /\ t.ackno = s.ackno /\ t.td_state = s.td_state
          /\ t.conn_state = s.conn_state /\ t.sent_segment_attr = attr
          /\ Return(x, t, conn[x], net)
      BY <2>1, <2>5
    <3> HIDE DEF t
    <3> QED  BY <1>1, <1>2, <2>1, <2>3, <2>5, <3>1, LossyTick
  <2>6. CASE s.sent_segment_attr # NULL /\ Retransmit(x, s, attr)
    <3> DEFINE y == [attr EXCEPT !.no_of_times = @ + 1]
               over == attr.no_of_times + 1 >= Retries
               t == IF over THEN [s EXCEPT !.sent_segment_attr = NULL]
                    ELSE [s EXCEPT !.sent_segment_attr = y]
    <3>1. PICK o \in conn_send(x, net, attr.segment) : Return(x, t, conn[x], o.n)
      BY <2>6 DEF Retransmit, GivesUp, destroy_acked_segment
    <3>2. y \in SegmentAttr /\ y.segment = attr.segment /\ y.no_of_times = attr.no_of_times + 1
      BY <2>3, <2>6 DEF SegmentAttr
    <3>3. y # NULL
      BY <3>2, NullAssumption
    <3> HIDE DEF y
    <3>4. /\ t.seqno = s.seqno /\ t.ackno = s.ackno /\ t.td_state = s.td_state
          /\ t.conn_state = s.conn_state
          /\ t.sent_segment_attr = IF over THEN NULL ELSE y
      BY <2>1
    <3>5. Transmits(o, net, Peer(x), attr.segment)
      BY <1>1, <2>3, <2>6, LossySend
    <3>6. /\ o.n \in Net /\ o.n.forked = {} /\ o.n.faults <= MaxFaults
          /\ o.n.wire[x] = net.wire[x]
      BY <3>5, PeerFacts DEF Transmits
    <3>7. Accepts(net, Peer(x)) =>
            Grown(o.n.wire[Peer(x)], net.wire[Peer(x)], attr.segment, o.n.faults, net.faults)
      BY <1>1, <2>3, <2>6, <3>5, PeerFacts, AcceptedGrows
    <3> HIDE DEF t
    <3>8. IF state[x].sent_segment_attr.no_of_times + 1 >= Retries
          THEN t.sent_segment_attr = NULL
          ELSE /\ t.sent_segment_attr # NULL
               /\ t.sent_segment_attr.segment = state[x].sent_segment_attr.segment
               /\ t.sent_segment_attr.no_of_times = state[x].sent_segment_attr.no_of_times + 1
      <4>1. CASE over
        BY <2>1, <2>3, <2>6, <3>4, <4>1
      <4>2. CASE ~over
        BY <2>1, <2>3, <2>6, <3>2, <3>3, <3>4, <4>2
      <4> QED  BY <4>1, <4>2
    <3>9. attr.segment = state[x].sent_segment_attr.segment /\ state[x].sent_segment_attr # NULL
      BY <2>1, <2>3, <2>6
    <3> QED  BY <1>2, <2>1, <3>1, <3>4, <3>6, <3>7, <3>8, <3>9, LossyTick
  <2> QED  BY <2>2, <2>4, <2>5, <2>6
<1> QED  BY <1>3, <1>4 DEF ctcp_timer

-----------------------------------------------------------------------------
(* ctcp_receive() *)

(* The oldest datagram in the queue of the peer that listens: it is the     *)
(* unacknowledged segment, alone in the queue, or is dropped.               *)
KeptOrDropped(s, c, t, d, wire, back, faults) ==
  /\ back = <<>>
  /\ IF Head(wire).ok /\ Head(wire).seqno >= t.ackno
     THEN /\ Len(wire) = 1 /\ s.sent_segment_attr # NULL
          /\ s.sent_segment_attr.segment = Head(wire)
     ELSE Pair(s, c, t, d, Tail(wire), back, faults)

LEMMA HeadOfQueue ==
  ASSUME NEW s \in CtcpState, NEW c, NEW t \in CtcpState, NEW d, NEW wire \in Seq(Segment),
         NEW back, NEW faults \in Nat, Pair(s, c, t, d, wire, back, faults), Listens(t, d),
         wire # <<>>
  PROVE  KeptOrDropped(s, c, t, d, wire, back, faults)
<1>1. /\ OneUnacked(s, c, t.ackno) /\ Repairable(wire, s, t.ackno, faults)
      /\ Acknowledges(back, wire, s, t.ackno) /\ ReceivedOf(d.out) = t.ackno - 1
      /\ t.sent_segment_attr = NULL /\ t.td_state = "NOT_TEARDOWN"
      /\ c.out = <<>> /\ ~c.wrote_eof /\ d.nread = 0 /\ NoGap(d.out)
  BY DEF Pair, Progress
<1>2. back = <<>>
  BY <1>1 DEF Acknowledges
<1>3. /\ Len(wire) \in Nat /\ Len(wire) >= 1 /\ DOMAIN wire = 1..Len(wire)
      /\ Head(wire) = wire[1] /\ 1 \in DOMAIN wire
      /\ Tail(wire) \in Seq(Segment) /\ Len(Tail(wire)) = Len(wire) - 1
      /\ DOMAIN Tail(wire) = 1..(Len(wire) - 1)
      /\ \A i \in 1..(Len(wire) - 1) : Tail(wire)[i] = wire[i+1]
  OBVIOUS
<1> DEFINE w == Tail(wire)
<1>4. CASE Head(wire).ok /\ Head(wire).seqno >= t.ackno
  <2>1. 1 = Len(wire) /\ Kept(s) = {wire[1]}
    BY <1>1, <1>3, <1>4 DEF Repairable
  <2>2. s.sent_segment_attr # NULL /\ s.sent_segment_attr.segment = wire[1]
    BY <2>1 DEF Kept
  <2> QED  BY <1>2, <1>3, <1>4, <2>1, <2>2 DEF KeptOrDropped
<1>5. CASE ~(Head(wire).ok /\ Head(wire).seqno >= t.ackno)
  <2>1. Len(w) <= IF s.sent_segment_attr = NULL THEN 1 ELSE 2
    <3>1. Len(wire) <= IF s.sent_segment_attr = NULL THEN 1 ELSE 2
      BY <1>1 DEF Repairable
    <3> QED  BY <1>3, <3>1
  <2>2. ASSUME NEW i \in DOMAIN w, w[i].ok /\ w[i].seqno >= t.ackno
        PROVE  i = Len(w) /\ Kept(s) = {w[i]}
    <3>1. i \in 1..(Len(wire) - 1) /\ i + 1 \in DOMAIN wire /\ w[i] = wire[i+1]
      BY <1>3
    <3>2. i + 1 = Len(wire) /\ Kept(s) = {wire[i+1]}
      BY <1>1, <2>2, <3>1 DEF Repairable
    <3> QED  BY <1>3, <3>1, <3>2
  <2>3. ASSUME NEW g \in Kept(s), g.seqno = t.ackno
        PROVE  (w # <<>> /\ w[Len(w)] = g) \/ s.sent_segment_attr.no_of_times < faults
    <3>1. \/ wire # <<>> /\ wire[Len(wire)] = g
          \/ s.sent_segment_attr.no_of_times < faults
      BY <1>1, <2>3 DEF Repairable
    <3>2. CASE wire[Len(wire)] = g
      <4>1. g.ok /\ g.seqno >= t.ackno
        <5>1. g.ok
          BY <1>1 DEF OneUnacked, Kept
        <5>2. t.ackno \in Nat
          BY DEF CtcpState
        <5> QED  BY <2>3, <5>1, <5>2
      <4>2. Len(wire) # 1
        BY <1>3, <1>5, <3>2, <4>1
      <4>3. Len(w) = Len(wire) - 1 /\ Len(w) \in 1..(Len(wire) - 1) /\ Len(w) + 1 = Len(wire)
        BY <1>3, <4>2
      <4>4. w[Len(w)] = g
        BY <1>3, <3>2, <4>3
      <4>5. w # <<>>
        <5>1. Len(w) >= 1 /\ Len(w) \in Nat
          BY <1>3, <4>2
        <5> HIDE DEF w
        <5> QED  BY <5>1
      <4> QED  BY <4>4, <4>5
    <3> QED  BY <3>1, <3>2
  <2>4. Repairable(w, s, t.ackno, faults)
    BY <2>1, <2>2, <2>3 DEF Repairable
  <2>5. Acknowledges(back, w, s, t.ackno)
    BY <1>2 DEF Acknowledges
  <2>6. Progress(s, c, t, d, w, back, faults)
    BY <1>1, <2>4, <2>5 DEF Progress
  <2>7. Pair(s, c, t, d, w, back, faults)
    BY <1>1, <2>6 DEF Pair
  <2> QED  BY <1>2, <1>5, <2>7 DEF KeptOrDropped
<1> QED  BY <1>4, <1>5

(* The network without the datagram that x takes.                           *)
LEMMA LossyTaken ==
  ASSUME LInv, NEW x \in Host, net.wire[x] # <<>>
  PROVE  Taken(x, [net EXCEPT !.wire[x] = Tail(@)])
<1>1. net \in Net /\ net.wire[x] \in Seq(Segment)
  BY LossyStarts
<1>2. Tail(net.wire[x]) \in Seq(Segment)
  BY <1>1
<1> QED  BY <1>1, <1>2, WithoutWire DEF Taken

(* A segment that is invalid or old.                                        *)
LEMMA LossyDropped ==
  ASSUME LInv, StreamInv', NEW x \in Host, NEW n, Taken(x, n), conn[x].status = "up",
         state[x].conn_state = "DATA_TRANSFER",
         LET g == Head(net.wire[x]) IN ~(g.ok /\ g.seqno >= state[x].ackno),
         Return(x, state[x], conn[x], n)
  PROVE  LInv'
<1> DEFINE p == Peer(x)
<1>1. /\ Idle(state[x], conn[x]) /\ net.forked = {} /\ net.faults <= MaxFaults
      /\ state[x] \in CtcpState /\ conn[x] \in Conn /\ net \in Net /\ net.faults \in Nat
      /\ net.wire[x] \in Seq(Segment)
  BY LossyStarts
<1>2. p \in Host /\ Peer(p) = x /\ state[p] \in CtcpState
  BY LossyStarts, PeerFacts
<1> HIDE DEF p
<1>3. /\ net.wire[x] # <<>> /\ n.forked = {} /\ n.faults = net.faults
      /\ n.wire[x] = Tail(net.wire[x]) /\ n.wire[p] = net.wire[p]
  BY <1>1 DEF Taken, OnlyWire, p
<1>4. ASSUME OneWay(x)
      PROVE  Pair(state[x], conn[x], state[p], conn[p], n.wire[p], n.wire[x], n.faults)
  <2>1. Pair(state[x], conn[x], state[p], conn[p], net.wire[p], net.wire[x], net.faults)
    BY <1>4, LossyStarts DEF p
  <2>2. Listens(state[p], conn[p])
    BY <2>1 DEF Pair, Finished
  <2>3. Len(net.wire[x]) = 1
    BY <1>3, <2>1, <2>2 DEF Pair, Progress, Acknowledges
  <2>4. Tail(net.wire[x]) = <<>>
    BY <1>1, <2>3, TailOfOne
  <2> QED  BY <1>3, <2>1, <2>4, PairOnly
<1>5. ASSUME OneWay(p)
      PROVE  Pair(state[p], conn[p], state[x], conn[x], n.wire[x], n.wire[p], n.faults)
  <2>1. Pair(state[p], conn[p], state[x], conn[x], net.wire[x], net.wire[p], net.faults)
    BY <1>5, LossyStarts DEF p
  <2>2. Listens(state[x], conn[x])
    BY DEF Listens
  <2>3. KeptOrDropped(state[p], conn[p], state[x], conn[x], net.wire[x], net.wire[p], net.faults)
    BY <1>1, <1>2, <1>3, <2>1, <2>2, HeadOfQueue
  <2> QED  BY <1>3, <2>3 DEF KeptOrDropped
<1> QED  BY <1>1, <1>3, <1>4, <1>5, LossyReturn DEF p

(* A sender in DATA_TRANSFER only gets acknowledgements.                    *)
LEMMA SenderGetsAcks ==
  ASSUME LInv, NEW x \in Host, OneWay(x), conn[x].status = "up",
         net.wire[x] # <<>>,
         \/ state[x].conn_state = "DATA_TRANSFER"
         \/ Listens(state[Peer(x)], conn[Peer(x)])
  PROVE  /\ state[x].conn_state = "DATA_TRANSFER" /\ Listens(state[Peer(x)], conn[Peer(x)])
         /\ Head(net.wire[x]).flags = {"ACK"} /\ Head(net.wire[x]).len = 0
         /\ Tail(net.wire[x]) = <<>> /\ net.wire[Peer(x)] = <<>>
         /\ state[x].sent_segment_attr # NULL
         /\ state[x].seqno = conn[x].nread + 1 /\ state[Peer(x)].ackno = state[x].seqno
         /\ End(state[x].sent_segment_attr.segment) = state[x].seqno
<1> DEFINE p == Peer(x)
           s == state[x]
           g == s.sent_segment_attr.segment
<1>1. /\ Pair(s, conn[x], state[p], conn[p], net.wire[p], net.wire[x], net.faults)
      /\ net.wire[x] \in Seq(Segment) /\ s \in CtcpState
  BY LossyStarts
<1>2. Listens(state[p], conn[p])
  BY <1>1 DEF Pair, Finished
<1>3. /\ Acknowledges(net.wire[x], net.wire[p], s, state[p].ackno)
      /\ OneUnacked(s, conn[x], state[p].ackno)
  BY <1>1, <1>2 DEF Pair, Progress
<1>4. /\ Len(net.wire[x]) = 1 /\ net.wire[x][1].flags = {"ACK"} /\ net.wire[x][1].len = 0
      /\ net.wire[p] = <<>> /\ s.sent_segment_attr # NULL /\ state[p].ackno = s.seqno
  BY <1>3 DEF Acknowledges
<1>5. Tail(net.wire[x]) = <<>> /\ Head(net.wire[x]) = net.wire[x][1]
  BY <1>1, <1>4, TailOfOne
<1>6. g \in Segment /\ g.seqno \in Nat /\ g.len \in Nat
  BY <1>1, <1>4 DEF CtcpState, MaybeAttr, SegmentAttr, Segment
<1> HIDE DEF p, s, g
<1>7. s.seqno = Past(g) /\ (IsFin(g) => s.seqno = g.seqno)
  BY <1>3, <1>4 DEF OneUnacked, g
<1>8. ~IsFin(g)
  BY <1>6, <1>7 DEF Past
<1>9. s.conn_state = "DATA_TRANSFER" /\ s.seqno = conn[x].nread + 1 /\ g.pos = g.seqno
  BY <1>3, <1>4, <1>8 DEF OneUnacked, g
<1>10. End(g) = s.seqno
  BY <1>7, <1>8, <1>9 DEF Past, End
<1> QED  BY <1>2, <1>4, <1>5, <1>9, <1>10 DEF p, s, g

(* send_ack() and send_fin().                                               *)
MaySendNow(s, n) == s \in CtcpState /\ n \in Net /\ n.forked = {} /\ n.faults <= MaxFaults

LEMMA AckSent ==
  ASSUME LossyOneWay, NEW x \in Host, NEW s, NEW n, MaySendNow(s, n), NEW a \in send_ack(x, s, n)
  PROVE  /\ Transmits(a, n, Peer(x), Built(s, {"ACK"}, 0, 0)) /\ Records(s, a.s)
         /\ a.s.sent_segment_attr = s.sent_segment_attr
         /\ MaySendNow(a.s, a.n) /\ a.n.wire[x] = n.wire[x]
<1>1. {"ACK"} \in Flags /\ 0 \in Nat /\ "FIN" \notin {"ACK"} /\ ~(0 > 0)
  BY DEF Flags
<1>2. a \in segment_send(x, s, n, {"ACK"}, 0, 0)
  BY DEF send_ack
<1>3. /\ Transmits(a, n, Peer(x), Built(s, {"ACK"}, 0, 0)) /\ Records(s, a.s)
      /\ a.s.sent_segment_attr = s.sent_segment_attr
  BY <1>1, <1>2, LossySegmentSend DEF MaySendNow
<1>4. MaySendNow(a.s, a.n) /\ a.n.wire[x] = n.wire[x]
  BY <1>3, PeerFacts DEF MaySendNow, Transmits, Records
<1> QED  BY <1>3, <1>4

LEMMA FinSent ==
  ASSUME LossyOneWay, NEW x \in Host, NEW s, NEW n, MaySendNow(s, n), NEW a \in send_fin(x, s, n)
  PROVE  Records(s, a.s) /\ MaySendNow(a.s, a.n)
<1>1. {"FIN"} \in Flags /\ 0 \in Nat
  BY DEF Flags
<1>2. a \in segment_send(x, s, n, {"FIN"}, 0, 0)
  BY DEF send_fin
<1>3. /\ Transmits(a, n, Peer(x), Built(s, {"FIN"}, 0, 0)) /\ Records(s, a.s)
  BY <1>1, <1>2, LossySegmentSend DEF MaySendNow
<1> QED  BY <1>3 DEF MaySendNow, Transmits, Records

(* A stdout without errors.                                                 *)
LEMMA NoOutputError ==
  ASSUME ~SlowStdout, ~StdoutErr, NEW c \in Conn, NEW piece \in Piece,
         ~c.wrote_err, ~c.wrote_eof, NEW w \in conn_output(c, piece)
  PROVE  w.rc >= 0 /\ ~w.c.wrote_err
<1>1. PICK k : w = [rc |-> piece.len, c |->
                  [c EXCEPT !.out = Append(@, piece),
                            !.out_queue = IF k < piece.len
                                          THEN Append(@, piece.len - k) ELSE @,
                            !.pollout = @ \/ c.out_queue # <<>> \/ k < piece.len]]
  BY DEF conn_output, When
<1>2. w.c.wrote_err = c.wrote_err
  BY <1>1 DEF Conn
<1> QED  BY <1>1, <1>2 DEF Piece

(* A sender's acknowledgement.                                              *)
LEMMA LossyAcked ==
  ASSUME LossyOneWay, LInv, StreamInv', NEW x \in Host, NEW n, Taken(x, n),
         conn[x].status = "up", state[x].conn_state = "DATA_TRANSFER",
         NEW g, g = Head(net.wire[x]), g.ok, g.seqno >= state[x].ackno,
         g.flags = {"ACK"}, g.len = 0,
         Return(x, destroy_acked_segment([state[x] EXCEPT !.ackno = g.seqno]), conn[x], n)
  PROVE  LInv'
<1> DEFINE p == Peer(x)
           s == destroy_acked_segment([state[x] EXCEPT !.ackno = g.seqno])
<1>1. /\ Idle(state[x], conn[x]) /\ net.forked = {} /\ net.faults <= MaxFaults
      /\ state[x] \in CtcpState /\ conn[x] \in Conn /\ net \in Net /\ net.faults \in Nat
      /\ net.wire[x] \in Seq(Segment)
  BY LossyStarts
<1>2. p \in Host /\ Peer(p) = x /\ state[p] \in CtcpState
  BY LossyStarts, PeerFacts
<1>3. s.sent_segment_attr = NULL /\ s.seqno = state[x].seqno /\ s.conn_state = "DATA_TRANSFER"
  BY <1>1 DEF destroy_acked_segment, CtcpState
<1>4. Return(x, s, conn[x], n)
  OBVIOUS
<1> HIDE DEF p, s
<1>5. /\ net.wire[x] # <<>> /\ n.forked = {} /\ n.faults = net.faults
      /\ n.wire[x] = Tail(net.wire[x]) /\ n.wire[p] = net.wire[p]
  BY <1>1 DEF Taken, OnlyWire, p
<1>6. Idle(s, conn[x])
  BY <1>1, <1>3 DEF Idle
<1>7. ASSUME OneWay(x)
      PROVE  Pair(s, conn[x], state[p], conn[p], n.wire[p], n.wire[x], n.faults)
  <2>1. /\ Listens(state[p], conn[p]) /\ Tail(net.wire[x]) = <<>> /\ net.wire[p] = <<>>
        /\ state[x].seqno = conn[x].nread + 1 /\ state[p].ackno = state[x].seqno
    BY <1>5, <1>7, SenderGetsAcks DEF p
  <2>2. Pair(state[x], conn[x], state[p], conn[p], net.wire[p], net.wire[x], net.faults)
    BY <1>7, LossyStarts DEF p
  <2>3. /\ ReceivedOf(conn[p].out) = state[p].ackno - 1
        /\ state[p].sent_segment_attr = NULL /\ state[p].td_state = "NOT_TEARDOWN"
        /\ conn[x].out = <<>> /\ ~conn[x].wrote_eof /\ conn[p].nread = 0
        /\ NoGap(conn[p].out)
    BY <2>1, <2>2 DEF Pair, Progress
  <2>4. OneUnacked(s, conn[x], state[p].ackno)
    BY <1>3, <2>1 DEF OneUnacked
  <2>5. Kept(s) = {}
    BY <1>3 DEF Kept
  <2>6. Repairable(<<>>, s, state[p].ackno, n.faults)
    BY <1>3, <2>5 DEF Repairable
  <2>7. Acknowledges(<<>>, <<>>, s, state[p].ackno)
    BY DEF Acknowledges
  <2>8. Progress(s, conn[x], state[p], conn[p], <<>>, <<>>, n.faults)
    BY <2>3, <2>4, <2>6, <2>7 DEF Progress
  <2>9. n.wire[p] = <<>> /\ n.wire[x] = <<>>
    BY <1>5, <2>1
  <2> QED  BY <2>1, <2>3, <2>8, <2>9 DEF Pair
<1>8. ~OneWay(p)
  <2> SUFFICES ASSUME OneWay(p) PROVE FALSE
    OBVIOUS
  <2>1. Pair(state[p], conn[p], state[x], conn[x], net.wire[x], net.wire[p], net.faults)
    BY LossyStarts DEF p
  <2>2. Listens(state[x], conn[x])
    BY DEF Listens
  <2>3. state[p].sent_segment_attr # NULL /\ state[p].sent_segment_attr.segment = g
    <3>1. KeptOrDropped(state[p], conn[p], state[x], conn[x], net.wire[x], net.wire[p], net.faults)
      BY <1>1, <1>2, <1>5, <2>1, <2>2, HeadOfQueue
    <3> QED  BY <3>1 DEF KeptOrDropped
  <2>4. OneUnacked(state[p], conn[p], state[x].ackno)
    BY <2>1, <2>2 DEF Pair, Progress
  <2>5. ~IsFin(g)
    BY DEF IsFin
  <2>6. g.len >= 1
    BY <2>3, <2>4, <2>5 DEF OneUnacked
  <2> QED  BY <2>6
<1> QED  BY <1>1, <1>4, <1>5, <1>6, <1>7, <1>8, LossyReturn DEF p

(* What the peer of a sender gets that is neither invalid nor old.          *)
LEMMA ReceiverGetsKept ==
  ASSUME LossyOneWay, LInv, NEW x \in Host,
         conn[x].status = "up", state[x].conn_state = "DATA_TRANSFER", net.wire[x] # <<>>,
         NEW g, g = Head(net.wire[x]), g.ok, g.seqno >= state[x].ackno, g.len > 0 \/ IsFin(g)
  PROVE  LET p == Peer(x)  s == state[p]  ackno == state[x].ackno IN
         /\ ~OneWay(x) /\ OneWay(p) /\ g \in Segment /\ ackno \in Nat
         /\ conn[p].out = <<>> /\ ~conn[p].wrote_eof /\ conn[x].nread = 0
         /\ NoGap(conn[x].out) /\ ReceivedOf(conn[x].out) = ackno - 1
         /\ state[x].sent_segment_attr = NULL /\ state[x].td_state = "NOT_TEARDOWN"
         /\ net.wire[p] = <<>> /\ Tail(net.wire[x]) = <<>>
         /\ s.sent_segment_attr # NULL /\ s.sent_segment_attr.segment = g
         /\ g.seqno = ackno /\ s.seqno = Past(g)
         /\ IF IsFin(g) THEN /\ s.conn_state = "TEAR_DOWN" /\ conn[p].read_eof
                             /\ conn[p].nread = ackno - 1
            ELSE /\ s.conn_state = "DATA_TRANSFER" /\ g.flags = {"ACK"} /\ g.pos = g.seqno
                 /\ g.len >= 1 /\ g.len <= MSS /\ s.seqno = conn[p].nread + 1
<1> DEFINE p == Peer(x)
           s == state[p]
           ackno == state[x].ackno
<1>1. /\ state[x] \in CtcpState /\ net.faults \in Nat /\ net.wire[x] \in Seq(Segment)
      /\ ackno \in Nat
  BY LossyStarts DEF CtcpState
<1>2. p \in Host /\ Peer(p) = x /\ s \in CtcpState /\ conn[p] \in Conn /\ Host = {x, p}
  BY LossyStarts, PeerFacts, HostAssumption DEF Peer, Host
<1>3. ~OneWay(x)
  <2> SUFFICES ASSUME OneWay(x) PROVE FALSE
    OBVIOUS
  <2>1. g.flags = {"ACK"} /\ g.len = 0
    BY SenderGetsAcks
  <2> QED  BY <2>1 DEF IsFin
<1>4. OneWay(p)
  BY <1>2, <1>3 DEF LossyOneWay
<1>5. /\ Pair(s, conn[p], state[x], conn[x], net.wire[x], net.wire[p], net.faults)
      /\ Listens(state[x], conn[x])
  BY <1>4, LossyStarts DEF p, Listens
<1>6. /\ net.wire[p] = <<>> /\ Len(net.wire[x]) = 1
      /\ s.sent_segment_attr # NULL /\ s.sent_segment_attr.segment = g
  <2>1. KeptOrDropped(s, conn[p], state[x], conn[x], net.wire[x], net.wire[p], net.faults)
    BY <1>1, <1>2, <1>5, HeadOfQueue
  <2> QED  BY <2>1 DEF KeptOrDropped
<1>7. Tail(net.wire[x]) = <<>>
  BY <1>1, <1>6, TailOfOne
<1>8. g \in Segment /\ g.seqno \in Nat /\ g.len \in Nat /\ conn[p].nread \in Nat
  BY <1>2, <1>6 DEF CtcpState, MaybeAttr, SegmentAttr, Segment, Conn
<1>9. /\ conn[p].out = <<>> /\ ~conn[p].wrote_eof /\ conn[x].nread = 0
      /\ NoGap(conn[x].out) /\ ReceivedOf(conn[x].out) = ackno - 1
      /\ state[x].sent_segment_attr = NULL /\ state[x].td_state = "NOT_TEARDOWN"
      /\ OneUnacked(s, conn[p], ackno)
  BY <1>5 DEF Pair, Progress
<1> HIDE DEF p, s, ackno
<1>10. s.seqno = Past(g)
  BY <1>6, <1>9 DEF OneUnacked
<1>11. CASE IsFin(g)
  <2>1. s.conn_state = "TEAR_DOWN" /\ conn[p].read_eof /\ g.seqno = conn[p].nread + 1 /\ ackno = g.seqno
    BY <1>6, <1>9, <1>11 DEF OneUnacked
  <2>2. conn[p].nread = ackno - 1
    BY <1>8, <2>1
  <2> QED  BY <1>1, <1>3, <1>4, <1>6, <1>7, <1>8, <1>9, <1>10, <1>11, <2>1, <2>2 DEF p, s, ackno
<1>12. CASE ~IsFin(g)
  <2>1. /\ s.conn_state = "DATA_TRANSFER" /\ g.flags = {"ACK"} /\ g.pos = g.seqno
        /\ g.len >= 1 /\ g.len <= MSS /\ s.seqno = conn[p].nread + 1
        /\ ackno \in {g.seqno, s.seqno}
    BY <1>6, <1>9, <1>12 DEF OneUnacked
  <2>2. s.seqno = g.seqno + g.len
    BY <1>10, <1>12 DEF Past
  <2>3. g.seqno >= ackno
    BY DEF ackno
  <2>4. g.seqno = ackno
    BY <1>8, <2>1, <2>2, <2>3
  <2> QED  BY <1>1, <1>3, <1>4, <1>6, <1>7, <1>8, <1>9, <1>10, <1>12, <2>1, <2>4 DEF p, s, ackno
<1> QED  BY <1>11, <1>12

(* The FIN: acknowledged, answered with a FIN, and stdout is told.          *)
LEMMA LossyFin ==
  ASSUME LossyOneWay, LInv, StreamInv', NEW x \in Host, NEW n, Taken(x, n),
         conn[x].status = "up", state[x].conn_state = "DATA_TRANSFER",
         NEW g, g = Head(net.wire[x]), g.ok, g.seqno >= state[x].ackno, IsFin(g),
         NEW a \in send_ack(x, [state[x] EXCEPT !.ackno = g.seqno + 1], n),
         NEW f \in send_fin(x, a.s, a.n),
         Return(x, [f.s EXCEPT !.conn_state = "WAIT_LAST_ACK"], output_eof(conn[x]), f.n)
  PROVE  LInv'
<1> DEFINE p == Peer(x)
           s == [state[x] EXCEPT !.ackno = g.seqno + 1]
           t == [f.s EXCEPT !.conn_state = "WAIT_LAST_ACK"]
           e == output_eof(conn[x])
<1>1. /\ Idle(state[x], conn[x]) /\ net.forked = {} /\ net.faults <= MaxFaults
      /\ state[x] \in CtcpState /\ conn[x] \in Conn /\ net \in Net
  BY LossyStarts
<1>2. n \in Net /\ n.forked = {} /\ n.faults <= MaxFaults /\ net.wire[x] # <<>>
  BY <1>1 DEF Taken, OnlyWire
<1>3. /\ ~OneWay(x) /\ g \in Segment /\ conn[p].out = <<>> /\ ~conn[p].wrote_eof
      /\ conn[x].nread = 0 /\ NoGap(conn[x].out)
      /\ ReceivedOf(conn[x].out) = state[x].ackno - 1
      /\ state[p].conn_state = "TEAR_DOWN" /\ conn[p].read_eof
      /\ conn[p].nread = state[x].ackno - 1
  BY <1>2, ReceiverGetsKept
<1>4. g.seqno + 1 \in Nat
  BY <1>3 DEF Segment
<1>5. MaySendNow(s, n)
  BY <1>1, <1>2, <1>4 DEF MaySendNow, CtcpState
<1>6. e.out = conn[x].out /\ e.nread = conn[x].nread /\ Return(x, t, e, f.n)
  BY <1>1 DEF output_eof, Conn
<1>7. /\ e.out_queue = conn[x].out_queue /\ e.pollout = conn[x].pollout
      /\ e.tainted = conn[x].tainted /\ e.wrote_err = conn[x].wrote_err
  BY <1>1 DEF output_eof, Conn
<1> HIDE DEF p, s, e
<1>8. MaySendNow(a.s, a.n)
  BY <1>5, AckSent DEF s
<1>9. f.s \in CtcpState /\ f.n.forked = {} /\ f.n.faults <= MaxFaults
  <2>1. MaySendNow(f.s, f.n)
    BY <1>8, FinSent
  <2> QED  BY <2>1 DEF MaySendNow
<1>10. t.conn_state = "WAIT_LAST_ACK"
  BY <1>9 DEF CtcpState
<1> HIDE DEF t
<1>11. Idle(t, e)
  BY <1>1, <1>7, <1>10 DEF Idle
<1>12. ~Listens(t, e)
  BY <1>10 DEF Listens
<1>13. Finished(state[p], conn[p], e)
  BY <1>3, <1>6 DEF Finished
<1>14. Pair(state[p], conn[p], t, e, f.n.wire[x], f.n.wire[p], f.n.faults)
  BY <1>3, <1>6, <1>12, <1>13 DEF Pair
<1> QED  BY <1>3, <1>6, <1>9, <1>11, <1>14, LossyReturn DEF p

(* Data: printed at once and acknowledged.                                  *)
LEMMA LossyData ==
  ASSUME LossyOneWay, LInv, StreamInv', NEW x \in Host, NEW n, Taken(x, n),
         conn[x].status = "up", state[x].conn_state = "DATA_TRANSFER",
         NEW g, g = Head(net.wire[x]), g.ok, g.seqno >= state[x].ackno, ~IsFin(g), g.len > 0,
         ctcp_output(x, [state[x] EXCEPT !.received_segment = g], conn[x], n)
  PROVE  LInv'
<1> DEFINE p == Peer(x)
           s == [state[x] EXCEPT !.received_segment = g]
           c == conn[x]
           ackno == state[x].ackno
           piece == DataOf(g)
           next == AfterData(g)
           t == [s EXCEPT !.ackno = next]
<1>1. /\ Idle(state[x], c) /\ net.forked = {} /\ net.faults <= MaxFaults
      /\ state[x] \in CtcpState /\ c \in Conn /\ net \in Net
      /\ net.wire[x] \in Seq(Segment)
  BY LossyStarts
<1>2. p \in Host /\ Peer(p) = x /\ state[p] \in CtcpState
  BY LossyStarts, PeerFacts
<1>3. /\ n \in Net /\ n.forked = {} /\ n.faults <= MaxFaults /\ net.wire[x] # <<>>
      /\ n.wire[x] = Tail(net.wire[x]) /\ n.wire[p] = net.wire[p]
  BY <1>1 DEF Taken, OnlyWire
<1>4. /\ ~OneWay(x) /\ g \in Segment /\ ackno \in Nat /\ conn[p].out = <<>>
      /\ ~conn[p].wrote_eof /\ c.nread = 0 /\ NoGap(c.out)
      /\ ReceivedOf(c.out) = ackno - 1 /\ state[x].sent_segment_attr = NULL
      /\ state[x].td_state = "NOT_TEARDOWN"
      /\ net.wire[p] = <<>> /\ Tail(net.wire[x]) = <<>>
      /\ state[p].sent_segment_attr # NULL /\ state[p].sent_segment_attr.segment = g
      /\ g.seqno = ackno /\ state[p].seqno = Past(g)
      /\ state[p].conn_state = "DATA_TRANSFER" /\ g.flags = {"ACK"} /\ g.pos = g.seqno
      /\ g.len >= 1 /\ g.len <= MSS /\ state[p].seqno = conn[p].nread + 1
  BY <1>3, ReceiverGetsKept
<1>5. g.seqno \in Nat /\ g.len \in Nat /\ g.pos \in Nat /\ Past(g) = g.seqno + g.len
  BY <1>4 DEF Segment, Past
<1>6. piece \in Piece /\ piece.len = g.len /\ piece.pos = ackno /\ End(piece) = ackno + g.len
  BY <1>4, <1>5 DEF DataOf, Piece, End
<1>7. next = Past(g) /\ next \in Nat /\ next = ackno + g.len
  BY <1>4, <1>5 DEF AfterData
<1>8. ~(conn_bufspace(c) < g.len)
  <2>1. conn_bufspace(c) = BufSpace
    BY <1>1, EmptyHasRoom DEF Idle
  <2> QED  BY <1>4, <1>5, <2>1, SizeAssumption DEF LossyOneWay
<1>9. s.received_segment = g /\ s \in CtcpState
  BY <1>1, <1>4 DEF CtcpState, MaybeSegment
<1>10. OutputData(x, s, c, n)
  BY <1>8, <1>9 DEF ctcp_output, OutputWaits
<1>11. /\ t \in CtcpState /\ t.ackno = next /\ t.conn_state = "DATA_TRANSFER"
       /\ t.td_state = "NOT_TEARDOWN"
  BY <1>1, <1>4, <1>7, <1>9 DEF CtcpState
<1> HIDE DEF s, piece, next, t, p, c, ackno
<1>12. PICK w \in conn_output(c, piece) :
         \/ w.rc < 0 /\ ctcp_destroy(x, s, w.c, n)
         \/ /\ w.rc >= 0
            /\ \E o \in send_ack(x, t, n) :
                 Return(x, [destroy_acked_segment(o.s) EXCEPT
                              !.received_segment = NULL], w.c, o.n)
  BY <1>9, <1>10 DEF OutputData, piece, next, t
<1>13. ~c.wrote_eof /\ ~c.wrote_err /\ c.out_queue = <<>> /\ ~c.pollout /\ ~c.tainted
  BY <1>1 DEF Idle
<1>14. /\ w.c \in Conn /\ w.c.nread = c.nread /\ w.c.tainted = c.tainted
       /\ w.c.wrote_eof = c.wrote_eof
       /\ w.c.out_queue = <<>> /\ ~w.c.pollout /\ w.c.status = c.status
       /\ w.c.out = IF w.rc < 0 THEN c.out ELSE Append(c.out, piece)
       /\ w.rc \in Int
  BY <1>1, <1>4, <1>5, <1>6, <1>13, FastOutput DEF LossyOneWay
<1>15. w.rc >= 0 /\ ~w.c.wrote_err
  BY <1>1, <1>6, <1>13, NoOutputError DEF LossyOneWay
<1>16. ~(w.rc < 0)
  BY <1>14, <1>15
<1>17. PICK o \in send_ack(x, t, n) :
         Return(x, [destroy_acked_segment(o.s) EXCEPT !.received_segment = NULL], w.c, o.n)
  BY <1>12, <1>16
<1> DEFINE k == Built(t, {"ACK"}, 0, 0)
           u == [destroy_acked_segment(o.s) EXCEPT !.received_segment = NULL]
<1>18. MaySendNow(t, n)
  BY <1>3, <1>11 DEF MaySendNow
<1>19. /\ Transmits(o, n, p, k) /\ Records(t, o.s) /\ MaySendNow(o.s, o.n)
       /\ o.n.wire[x] = n.wire[x]
  BY <1>18, AckSent DEF p
<1>20. k.flags = {"ACK"} /\ k.len = 0
  BY DEF Built
<1>21. /\ u.ackno = next /\ u.conn_state = "DATA_TRANSFER"
       /\ u.td_state = "NOT_TEARDOWN" /\ u.sent_segment_attr = NULL
  BY <1>11, <1>19 DEF Records, destroy_acked_segment, CtcpState
<1>22. Return(x, u, w.c, o.n)
  BY <1>17
<1> HIDE DEF k, u
<1>23. NoGap(w.c.out) /\ ReceivedOf(w.c.out) = next - 1
  <2>1. c.out \in Seq(Piece) /\ piece.pos = ReceivedOf(c.out) + 1
    BY <1>1, <1>4, <1>6 DEF Conn, Pieces
  <2>2. NoGap(Append(c.out, piece)) /\ ReceivedOf(Append(c.out, piece)) = End(piece) - 1
    BY <1>4, <1>6, <2>1, PrefixAppend
  <2>3. w.c.out = Append(c.out, piece)
    BY <1>14, <1>16
  <2> QED  BY <1>6, <1>7, <2>2, <2>3
<1>24. o.n.wire[x] = <<>>
  BY <1>3, <1>4, <1>19
<1>25. \/ o.n.wire[p] = <<>>
       \/ \E j \in Segment : o.n.wire[p] = <<j>> /\ j.flags = {"ACK"} /\ j.len = 0
  <2>1. n.wire[p] = <<>>
    BY <1>3, <1>4
  <2>2. CASE o.n.wire[p] = n.wire[p]
    BY <2>1, <2>2
  <2>3. CASE Adds(o.n, n, p, k)
    <3>1. PICK j \in Segment : o.n.wire[p] = Append(n.wire[p], j) /\ j.flags = k.flags /\ j.len = k.len
      BY <2>3 DEF Adds
    <3>2. Append(<<>>, j) = <<j>>
      OBVIOUS
    <3> QED  BY <1>20, <2>1, <3>1, <3>2
  <2> QED  BY <1>19, <2>2, <2>3 DEF Transmits
<1>26. next = state[p].seqno
  BY <1>4, <1>7
<1>27. OneUnacked(state[p], conn[p], next)
  <2>1. g.ok /\ ~IsFin(g)
    OBVIOUS
  <2> QED  BY <1>4, <1>26, <2>1 DEF OneUnacked
<1>28. Repairable(<<>>, state[p], next, o.n.faults)
  <2>1. Kept(state[p]) = {g}
    BY <1>4 DEF Kept
  <2>2. g.seqno # next
    BY <1>4, <1>5, <1>7
  <2> QED  BY <1>4, <2>1, <2>2 DEF Repairable
<1>29. Acknowledges(o.n.wire[p], <<>>, state[p], next)
  <2>1. CASE o.n.wire[p] = <<>>
    BY <2>1 DEF Acknowledges
  <2>2. ASSUME NEW j \in Segment, o.n.wire[p] = <<j>>, j.flags = {"ACK"}, j.len = 0
        PROVE  Acknowledges(o.n.wire[p], <<>>, state[p], next)
    <3>1. Len(<<j>>) = 1 /\ <<j>>[1] = j
      OBVIOUS
    <3> QED  BY <1>4, <1>26, <2>2, <3>1 DEF Acknowledges
  <2> QED  BY <1>25, <2>1, <2>2
<1>30. Progress(state[p], conn[p], u, w.c, <<>>, o.n.wire[p], o.n.faults)
  BY <1>21, <1>23, <1>27, <1>28, <1>29 DEF Progress
<1>31. Listens(u, w.c)
  BY <1>14, <1>21 DEF Listens, c
<1>32. Pair(state[p], conn[p], u, w.c, o.n.wire[x], o.n.wire[p], o.n.faults)
  BY <1>4, <1>14, <1>23, <1>24, <1>30, <1>31 DEF Pair
<1>33. Idle(u, w.c) /\ o.n.forked = {} /\ o.n.faults <= MaxFaults
  BY <1>13, <1>14, <1>15, <1>19 DEF Idle, MaySendNow
<1> QED  BY <1>4, <1>22, <1>32, <1>33, LossyReturn DEF p

(* A connection that differs in its status alone.                           *)
SameStreams(e, c) ==
  /\ e.nread = c.nread /\ e.read_eof = c.read_eof /\ e.out = c.out
  /\ e.out_queue = c.out_queue /\ e.pollout = c.pollout /\ e.tainted = c.tainted
  /\ e.wrote_eof = c.wrote_eof /\ e.wrote_err = c.wrote_err

(* A datagram that arrives after DATA_TRANSFER: the stream is complete.     *)
Late(x) == conn[x].status = "up" /\ state[x].conn_state # "DATA_TRANSFER" /\ net.wire[x] # <<>>

LEMMA LateReturn ==
  ASSUME LInv, StreamInv', NEW x \in Host, Late(x), NEW s, s.conn_state # "DATA_TRANSFER",
         NEW e, SameStreams(e, conn[x]), NEW m, m.forked = {}, m.faults <= MaxFaults,
         Return(x, s, e, m)
  PROVE  LInv'
<1> DEFINE p == Peer(x)
<1>1. Idle(state[x], conn[x])
  BY LossyStarts
<1>2. Idle(s, e)
  BY <1>1 DEF Idle, SameStreams
<1>3. ASSUME OneWay(x)
      PROVE  Pair(s, e, state[p], conn[p], m.wire[p], m.wire[x], m.faults)
  <2>1. Pair(state[x], conn[x], state[p], conn[p], net.wire[p], net.wire[x], net.faults)
    BY <1>3, LossyStarts
  <2>2. ~Listens(state[p], conn[p])
    BY <1>3, SenderGetsAcks DEF Late
  <2>3. conn[x].read_eof /\ ~conn[x].wrote_eof
    BY <2>1, <2>2 DEF Pair, Finished
  <2>4. ~e.wrote_eof /\ e.read_eof /\ e.out = conn[x].out /\ e.nread = conn[x].nread
    BY <2>3 DEF SameStreams
  <2> HIDE DEF p
  <2> QED  BY <2>1, <2>2, <2>4, LateSender
<1>4. ASSUME OneWay(p)
      PROVE  Pair(state[p], conn[p], s, e, m.wire[x], m.wire[p], m.faults)
  <2>1. Pair(state[p], conn[p], state[x], conn[x], net.wire[x], net.wire[p], net.faults)
    BY <1>4, LossyStarts
  <2>2. ~Listens(state[x], conn[x]) /\ ~Listens(s, e)
    BY DEF Late, Listens
  <2>3. e.out = conn[x].out /\ e.nread = conn[x].nread
    BY DEF SameStreams
  <2> HIDE DEF p
  <2> QED  BY <2>1, <2>2, <2>3, LateReceiver
<1> QED  BY <1>2, <1>3, <1>4, LossyReturn

LEMMA LateDestroy ==
  ASSUME LInv, StreamInv', NEW x \in Host, Late(x), NEW s, s.conn_state # "DATA_TRANSFER",
         NEW m \in Net, m.forked = {}, m.faults <= MaxFaults, ctcp_destroy(x, s, conn[x], m)
  PROVE  LInv' /\ state'[x] = s
<1>1. conn[x] \in Conn /\ state \in [Host -> CtcpState]
  BY LossyStarts DEF LInv, StreamInv, TypeOK
<1>2. CASE x = Client
  <2>1. Gone(x, s, conn[x], m, "exited") /\ "exited" \in Status
    BY <1>2 DEF ctcp_destroy, Status
  <2>2. PICK e \in Conn, q \in Net :
           /\ Return(x, s, e, q) /\ OnlyWire(q, m, x, <<>>)
           /\ e.status = "exited" /\ e.nread = conn[x].nread /\ e.read_eof = conn[x].read_eof
           /\ e.out = conn[x].out /\ e.out_queue = conn[x].out_queue
           /\ e.pollout = conn[x].pollout /\ e.tainted = conn[x].tainted
           /\ e.wrote_eof = conn[x].wrote_eof /\ e.wrote_err = conn[x].wrote_err
    BY <1>1, <2>1, GoneFacts
  <2>3. SameStreams(e, conn[x]) /\ q.forked = {} /\ q.faults <= MaxFaults /\ state'[x] = s
    BY <1>1, <2>2 DEF SameStreams, OnlyWire, Return
  <2> QED  BY <2>2, <2>3, LateReturn
<1>3. CASE x # Client
  <2> DEFINE e == [conn[x] EXCEPT !.status = "removed"]
  <2>1. SameStreams(e, conn[x])
    BY <1>1 DEF SameStreams, Conn
  <2>2. Return(x, s, e, m)
    BY <1>3 DEF ctcp_destroy
  <2> HIDE DEF e
  <2>3. state'[x] = s
    BY <1>1, <2>2 DEF Return
  <2> QED  BY <2>1, <2>2, <2>3, LateReturn
<1> QED  BY <1>2, <1>3

(* The acknowledgement of a FIN in a late state.                            *)
LEMMA LateAck ==
  ASSUME LossyOneWay, LInv, NEW x \in Host, Late(x), NEW n, Taken(x, n),
         NEW next \in Nat, NEW a \in send_ack(x, [state[x] EXCEPT !.ackno = next], n)
  PROVE  /\ a.s \in CtcpState /\ a.s.conn_state = state[x].conn_state
         /\ a.s.sent_segment_attr = state[x].sent_segment_attr
         /\ a.n \in Net /\ a.n.forked = {} /\ a.n.faults <= MaxFaults
<1> DEFINE t == [state[x] EXCEPT !.ackno = next]
<1>1. /\ net.forked = {} /\ net.faults <= MaxFaults /\ state[x] \in CtcpState
  BY LossyStarts
<1>2. n \in Net /\ n.forked = {} /\ n.faults <= MaxFaults
  BY <1>1 DEF Taken, OnlyWire
<1>3. /\ t \in CtcpState /\ t.conn_state = state[x].conn_state
      /\ t.sent_segment_attr = state[x].sent_segment_attr
  BY <1>1 DEF CtcpState
<1>a. a \in send_ack(x, t, n)
  OBVIOUS
<1> HIDE DEF t
<1>4. MaySendNow(t, n)
  BY <1>2, <1>3 DEF MaySendNow
<1>5. /\ Records(t, a.s) /\ a.s.sent_segment_attr = t.sent_segment_attr
      /\ MaySendNow(a.s, a.n)
  BY <1>a, <1>4, AckSent
<1> QED  BY <1>3, <1>5 DEF MaySendNow, Records

LEMMA LateReceive ==
  ASSUME LossyOneWay, LInv, StreamInv', NEW x \in Host, Late(x), NEW n, Taken(x, n),
         NEW g \in Segment, ctcp_receive(x, state[x], g, n)
  PROVE  LInv' /\ state'[x].sent_segment_attr = state[x].sent_segment_attr
<1> DEFINE s == state[x]
           c == conn[x]
<1>1. /\ net.forked = {} /\ net.faults <= MaxFaults /\ s \in CtcpState
      /\ state \in [Host -> CtcpState]
  BY LossyStarts DEF LInv, StreamInv, TypeOK
<1>2. n \in Net /\ n.forked = {} /\ n.faults <= MaxFaults
  BY <1>1 DEF Taken, OnlyWire
<1>3. SameStreams(c, c) /\ s.conn_state # "DATA_TRANSFER" /\ g.seqno + 1 \in Nat
  BY DEF SameStreams, Late, Segment
<1>4. ASSUME NEW u, NEW m, Return(x, u, c, m), u.conn_state # "DATA_TRANSFER",
             u.sent_segment_attr = s.sent_segment_attr, m.forked = {}, m.faults <= MaxFaults
      PROVE  LInv' /\ state'[x].sent_segment_attr = s.sent_segment_attr
  <2>1. LInv'
    BY <1>3, <1>4, LateReturn
  <2> QED  BY <1>1, <1>4, <2>1 DEF Return
<1>5. ASSUME NEW u, NEW m \in Net, ctcp_destroy(x, u, c, m), u.conn_state # "DATA_TRANSFER",
             u.sent_segment_attr = s.sent_segment_attr, m.forked = {}, m.faults <= MaxFaults
      PROVE  LInv' /\ state'[x].sent_segment_attr = s.sent_segment_attr
  BY <1>5, LateDestroy
<1>6. CASE Return(x, s, c, n)
  BY <1>2, <1>3, <1>4, <1>6
<1>7. CASE InTearDown(x, s, g, n)
  <2>1. CASE \E td \in {"WAIT_LAST_ACK", "WAIT_LAST_FIN"} :
               Return(x, [s EXCEPT !.conn_state = td], c, n)
    <3>1. PICK td \in {"WAIT_LAST_ACK", "WAIT_LAST_FIN"} :
                 Return(x, [s EXCEPT !.conn_state = td], c, n)
      BY <2>1
    <3> DEFINE u == [s EXCEPT !.conn_state = td]
    <3>2. u.conn_state # "DATA_TRANSFER" /\ u.sent_segment_attr = s.sent_segment_attr
      BY <1>1 DEF CtcpState
    <3> HIDE DEF u
    <3>3. Return(x, u, c, n)
      BY <3>1 DEF u
    <3> QED  BY <1>2, <1>4, <3>2, <3>3
  <2>2. CASE \E a \in send_ack(x, [s EXCEPT !.ackno = g.seqno + 1], n) :
               ctcp_destroy(x, a.s, c, a.n)
    <3>1. PICK a \in send_ack(x, [s EXCEPT !.ackno = g.seqno + 1], n) :
               ctcp_destroy(x, a.s, c, a.n)
      BY <2>2
    <3>2. /\ a.s.conn_state = s.conn_state
          /\ a.s.sent_segment_attr = s.sent_segment_attr
          /\ a.n \in Net /\ a.n.forked = {} /\ a.n.faults <= MaxFaults
      BY <1>3, LateAck
    <3> QED  BY <1>3, <1>5, <3>1, <3>2
  <2> QED  BY <1>7, <2>1, <2>2 DEF InTearDown
<1>8. CASE InWaitLastFin(x, s, g, n)
  <2>1. CASE \E a \in send_ack(x, [s EXCEPT !.ackno = g.seqno + 1], n) :
               Return(x, [a.s EXCEPT !.tim = 0, !.td_state = "WAIT_DESTROY"], c, a.n)
    <3>1. PICK a \in send_ack(x, [s EXCEPT !.ackno = g.seqno + 1], n) :
               Return(x, [a.s EXCEPT !.tim = 0, !.td_state = "WAIT_DESTROY"], c, a.n)
      BY <2>1
    <3>2. /\ a.s \in CtcpState /\ a.s.conn_state = s.conn_state
          /\ a.s.sent_segment_attr = s.sent_segment_attr
          /\ a.n \in Net /\ a.n.forked = {} /\ a.n.faults <= MaxFaults
      BY <1>3, LateAck
    <3> DEFINE u == [a.s EXCEPT !.tim = 0, !.td_state = "WAIT_DESTROY"]
    <3>3. u.conn_state = s.conn_state /\ u.sent_segment_attr = s.sent_segment_attr
      BY <3>2 DEF CtcpState
    <3> HIDE DEF u
    <3>4. Return(x, u, c, a.n)
      BY <3>1 DEF u
    <3> QED  BY <1>3, <1>4, <3>2, <3>3, <3>4
  <2> QED  BY <1>6, <1>8, <2>1 DEF InWaitLastFin
<1>9. CASE InWaitLastAck(x, s, g, n)
  <2>1. CASE ctcp_destroy(x, s, c, n)
    BY <1>2, <1>3, <1>5, <2>1
  <2> QED  BY <1>6, <1>9, <2>1 DEF InWaitLastAck
<1>10. ~InDataTransfer(x, s, g, n)
  BY <1>3 DEF InDataTransfer
<1> QED  BY <1>6, <1>7, <1>8, <1>9, <1>10 DEF ctcp_receive

LEMMA LossyReceive ==
  ASSUME LossyOneWay, LInv, StreamInv', NEW x \in Host, Receive(x)
  PROVE  LInv'
<1> DEFINE s == state[x]
           g == Head(net.wire[x])
           n == [net EXCEPT !.wire[x] = Tail(@)]
<1>1. /\ s \in CtcpState /\ conn[x].status = "up" /\ net.wire[x] # <<>>
      /\ net.wire[x] \in Seq(Segment) /\ ctcp_receive(x, s, g, n)
  BY LossyStarts DEF Receive
<1>2. Taken(x, n) /\ g \in Segment
  BY <1>1, LossyTaken
<1>3. s.ackno \in Nat /\ g.seqno \in Nat
  BY <1>1, <1>2 DEF CtcpState, Segment
<1> HIDE DEF n, g
<1>4. CASE s.conn_state # "DATA_TRANSFER"
  BY <1>1, <1>2, <1>4, LateReceive DEF Late
<1>5. CASE s.conn_state = "DATA_TRANSFER"
  <2>1. CASE ~(g.ok /\ g.seqno >= s.ackno) /\ Return(x, s, conn[x], n)
    BY <1>1, <1>2, <1>5, <2>1, LossyDropped DEF g
  <2>2. CASE g.ok /\ InDataTransfer(x, s, g, n)
    <3>1. IsOld(s, g) <=> ~(g.seqno >= s.ackno)
      BY <1>3 DEF IsOld
    <3>2. CASE /\ ~IsOld(s, g) /\ "FIN" \in g.flags
               /\ \E a \in send_ack(x, [s EXCEPT !.ackno = g.seqno + 1], n) :
                    \E f \in send_fin(x, a.s, a.n) :
                      Return(x, [f.s EXCEPT !.conn_state = "WAIT_LAST_ACK"],
                             output_eof(conn[x]), f.n)
      BY <1>1, <1>2, <1>5, <2>2, <3>1, <3>2, LossyFin DEF IsFin, g
    <3>3. CASE /\ ~IsOld(s, g) /\ g.flags = {"ACK"} /\ g.len = 0
               /\ Return(x, destroy_acked_segment([s EXCEPT !.ackno = g.seqno]), conn[x], n)
      BY <1>1, <1>2, <1>5, <2>2, <3>1, <3>3, LossyAcked DEF g
    <3>4. CASE /\ ~IsOld(s, g) /\ g.flags = {"ACK"} /\ g.len > 0
               /\ ctcp_output(x, [s EXCEPT !.received_segment = g], conn[x], n)
      <4>1. ~IsFin(g)
        BY <3>4 DEF IsFin
      <4> QED  BY <1>1, <1>2, <1>5, <2>2, <3>1, <3>4, <4>1, LossyData DEF g
    <3>5. CASE IsOld(s, g) /\ Return(x, s, conn[x], n)
      BY <2>1, <3>1, <3>5
    <3> QED  BY <2>2, <3>2, <3>3, <3>4, <3>5 DEF InDataTransfer, TakesAck
  <2> QED  BY <1>1, <1>5, <2>1, <2>2 DEF ctcp_receive, is_segment_valid, InTearDown,
              InWaitLastFin, InWaitLastAck
<1> QED  BY <1>4, <1>5

-----------------------------------------------------------------------------
(* Theorems *)

(* The connection starts with nothing sent.                                 *)
LEMMA InitLossy == Init => LInv
<1> SUFFICES ASSUME Init PROVE LInv
  OBVIOUS
<1>1. StreamInv
  BY InitStreamInv
<1>2. ASSUME NEW h \in Host
      PROVE  /\ state[h] = ctcp_init /\ conn[h] = ConnInit /\ net.wire[h] = <<>>
             /\ net.forked = {} /\ net.faults = 0 /\ Peer(h) \in Host
  BY PeerFacts DEF Init, NetInit
<1>3. /\ ctcp_init.ackno = 1 /\ ctcp_init.seqno = 1 /\ ctcp_init.sent_segment_attr = NULL
      /\ ctcp_init.conn_state = "DATA_TRANSFER" /\ ctcp_init.td_state = "NOT_TEARDOWN"
      /\ ConnInit.out = <<>> /\ ~ConnInit.wrote_eof /\ ConnInit.nread = 0
      /\ ConnInit.status = "up"
  BY DEF ctcp_init, ConnInit
<1>4. Idle(ctcp_init, ConnInit)
  BY DEF Idle, ConnInit
<1>5. NoGap(<<>>) /\ ReceivedOf(<<>>) = 0 /\ Kept(ctcp_init) = {}
  BY <1>3 DEF NoGap, ReceivedOf, Kept
<1>6. /\ OneUnacked(ctcp_init, ConnInit, 1) /\ Repairable(<<>>, ctcp_init, 1, 0)
      /\ Acknowledges(<<>>, <<>>, ctcp_init, 1)
  BY <1>3, <1>5 DEF OneUnacked, Repairable, Acknowledges
<1>7. Progress(ctcp_init, ConnInit, ctcp_init, ConnInit, <<>>, <<>>, 0)
  BY <1>3, <1>5, <1>6 DEF Progress
<1>8. Pair(ctcp_init, ConnInit, ctcp_init, ConnInit, <<>>, <<>>, 0)
  BY <1>3, <1>5, <1>7 DEF Pair, Listens
<1>9. net.forked = {} /\ net.faults <= MaxFaults
  BY FaultAssumption DEF Init, NetInit
<1> QED  BY <1>1, <1>2, <1>4, <1>8, <1>9 DEF LInv

LEMMA NextLossy ==
  ASSUME LossyOneWay
  PROVE  LInv /\ [Next]_vars => LInv'
<1> SUFFICES ASSUME LInv, [Next]_vars PROVE LInv'
  OBVIOUS
<1>1. StreamInv'
  BY NextStreamInv DEF LInv
<1>2. CASE UNCHANGED vars
  BY <1>1, <1>2 DEF vars, LInv, Idle, Pair, Listens, Progress, Finished, ReceivedOf,
     NoGap, OneUnacked, Repairable, Acknowledges, Kept
<1>3. ASSUME NEW h \in Host, Drain(h)
      PROVE  FALSE
  BY <1>3 DEF Drain, LInv, Idle, LossyOneWay
<1>4. ASSUME NEW f \in net.forked
      PROVE  FALSE
  BY DEF LInv
<1> QED  BY <1>1, <1>2, <1>3, <1>4, LossyReadData, LossyReadEof, LossyReceive, LossyDiscard,
            LossyTimer DEF Next

LEMMA LossyInvariant ==
  ASSUME LossyOneWay
  PROVE  Spec => []LInv
  BY InitLossy, NextLossy, PTL DEF Spec

(* With drops and corruptions, fewer of them than the transmissions that    *)
(* retransmission_handler() makes of one segment, data one way, and a       *)
(* stdout that takes all it is given, stop-and-wait repairs every loss.     *)
THEOREM LossesAreRepaired ==
  ASSUME LossyOneWay
  PROVE  Spec => []RepairInv
  BY LossyInvariant, PairIsRepair, PTL

(* The two ends of the one direction that carries data.                     *)
LEMMA SenderAndPeer ==
  ASSUME LossyOneWay, LInv
  PROVE  \E x \in Host : /\ OneWay(x) /\ Peer(x) \in Host /\ Host = {x, Peer(x)}
                         /\ Peer(Peer(x)) = x
                         /\ Pair(state[x], conn[x], state[Peer(x)], conn[Peer(x)],
                                 net.wire[Peer(x)], net.wire[x], net.faults)
<1>1. PICK x \in Host : OneWay(x)
  BY DEF LossyOneWay
<1>2. Peer(x) \in Host /\ Host = {x, Peer(x)} /\ Peer(Peer(x)) = x
  BY PeerFacts, HostAssumption DEF Peer, Host
<1> QED  BY <1>1, <1>2, LossyStarts

(* ... ctcp_output() then prints the peer's input without a gap ...         *)
THEOREM NothingIsLost ==
  ASSUME LossyOneWay
  PROVE  Spec => []OutputIsPrefix
<1>1. ASSUME LInv PROVE OutputIsPrefix
  <2>1. PICK x \in Host : /\ OneWay(x) /\ Peer(x) \in Host /\ Host = {x, Peer(x)}
                          /\ Pair(state[x], conn[x], state[Peer(x)], conn[Peer(x)],
                                  net.wire[Peer(x)], net.wire[x], net.faults)
    BY <1>1, SenderAndPeer
  <2>2. conn[x].out = <<>> /\ NoGap(conn[Peer(x)].out)
    BY <2>1 DEF Pair
  <2>3. NoGap(<<>>)
    BY DEF NoGap
  <2>4. \A h \in Host : NoGap(conn[h].out)
    BY <2>1, <2>2, <2>3
  <2> QED  BY <2>4 DEF OutputIsPrefix
<1> QED  BY <1>1, LossyInvariant, PTL

(* ... ctcp_receive() reports the end of file on stdout only when all of    *)
(* the peer's input has been printed ...                                    *)
THEOREM LossyEofMeansComplete ==
  ASSUME LossyOneWay
  PROVE  Spec => []CompleteAtEof
<1>1. ASSUME LInv PROVE CompleteAtEof
  <2>1. PICK x \in Host : /\ OneWay(x) /\ Peer(x) \in Host /\ Host = {x, Peer(x)}
                          /\ Peer(Peer(x)) = x
                          /\ Pair(state[x], conn[x], state[Peer(x)], conn[Peer(x)],
                                  net.wire[Peer(x)], net.wire[x], net.faults)
    BY <1>1, SenderAndPeer
  <2>2. ~conn[x].wrote_eof
    BY <2>1 DEF Pair
  <2>3. ASSUME conn[Peer(x)].wrote_eof
        PROVE  conn[x].read_eof /\ Received(Peer(x)) = conn[x].nread
    <3>1. ~Listens(state[Peer(x)], conn[Peer(x)])
      BY <1>1, <2>1, <2>3 DEF LInv, Idle, Listens
    <3> QED  BY <2>1, <3>1 DEF Pair, Finished, Received, ReceivedOf
  <2> QED  BY <2>1, <2>2, <2>3 DEF CompleteAtEof
<1> QED  BY <1>1, LossyInvariant, PTL

(* ... ctcp_read() is never more than one segment ahead of the peer's       *)
(* stdout, since it waits while a segment is unacknowledged ...             *)
THEOREM NeverFarAhead ==
  ASSUME LossyOneWay
  PROVE  Spec => []OneSegmentAhead
<1>1. ASSUME LInv PROVE OneSegmentAhead
  <2>1. PICK x \in Host : /\ OneWay(x) /\ Peer(x) \in Host /\ Host = {x, Peer(x)}
                          /\ Peer(Peer(x)) = x
                          /\ Pair(state[x], conn[x], state[Peer(x)], conn[Peer(x)],
                                  net.wire[Peer(x)], net.wire[x], net.faults)
    BY <1>1, SenderAndPeer
  <2> DEFINE p == Peer(x)
             s == state[x]
             c == conn[x]
             ackno == state[p].ackno
             g == s.sent_segment_attr.segment
  <2>2. MSS \in Nat /\ c.nread \in Nat /\ s \in CtcpState /\ state[p] \in CtcpState
    BY <1>1, <2>1, LossyStarts, SizeAssumption DEF Conn
  <2>3. Received(p) = ReceivedOf(conn[p].out)
    BY DEF Received, ReceivedOf
  <2>4. ackno \in Nat
    BY <2>2 DEF CtcpState
  <2> HIDE DEF p, s, c, ackno, g
  <2>5. conn[p].nread - Received(x) <= MSS
    <3>1. conn[p].nread = 0 /\ Received(x) = 0
      BY <2>1 DEF Pair, Received, p
    <3> QED  BY <2>2, <3>1
  <2>6. c.nread - Received(p) <= MSS
    <3>1. CASE Listens(state[p], conn[p])
      <4>1. OneUnacked(s, c, ackno) /\ Received(p) = ackno - 1
        BY <2>1, <2>3, <3>1 DEF Pair, Progress, p, s, c, ackno
      <4>2. CASE ackno = c.nread + 1
        BY <2>2, <4>1, <4>2
      <4>3. CASE ackno # c.nread + 1
        <5>1. s.sent_segment_attr # NULL /\ ~IsFin(g)
          BY <4>1, <4>3 DEF OneUnacked, g
        <5>2. s.seqno = Past(g) /\ s.seqno = c.nread + 1 /\ ackno = g.seqno /\ g.len <= MSS
          BY <4>1, <4>3, <5>1 DEF OneUnacked, g
        <5>3. g.len \in Nat /\ g.seqno \in Nat
          BY <2>2, <5>1 DEF CtcpState, MaybeAttr, SegmentAttr, Segment, g
        <5>4. s.seqno = g.seqno + g.len
          BY <5>1, <5>2 DEF Past
        <5> QED  BY <2>2, <2>4, <4>1, <5>2, <5>3, <5>4
      <4> QED  BY <4>2, <4>3
    <3>2. CASE ~Listens(state[p], conn[p])
      <4>1. Received(p) = c.nread
        BY <2>1, <2>3, <3>2 DEF Pair, Finished, p, s, c
      <4> QED  BY <2>2, <4>1
    <3> QED  BY <3>1, <3>2
  <2> QED  BY <2>1, <2>5, <2>6 DEF OneSegmentAhead, p, c
<1> QED  BY <1>1, LossyInvariant, PTL

(* ... and ctcp_receive(), which never looks at an ackno, forgets the       *)
(* unacknowledged segment only when the peer has printed it.                *)
THEOREM AckMeansPrinted ==
  ASSUME LossyOneWay
  PROVE  Spec => AckedIsPrinted
<1>1. ASSUME LInv, StreamInv', NEW h \in Host, Receive(h),
             state[h].sent_segment_attr # NULL, state'[h].sent_segment_attr = NULL
      PROVE  Received(Peer(h)) >= End(state[h].sent_segment_attr.segment) - 1
  <2> DEFINE p == Peer(h)
             g == Head(net.wire[h])
             n == [net EXCEPT !.wire[h] = Tail(@)]
  <2>1. /\ state[h] \in CtcpState /\ conn[h].status = "up" /\ net.wire[h] # <<>>
        /\ net.wire[h] \in Seq(Segment) /\ ctcp_receive(h, state[h], g, n)
    BY <1>1, LossyStarts DEF Receive
  <2>2. Taken(h, n) /\ g \in Segment
    BY <1>1, <2>1, LossyTaken
  <2> HIDE DEF n, g
  <2>3. state[h].conn_state = "DATA_TRANSFER"
    BY <1>1, <2>1, <2>2, LateReceive DEF Late
  <2>4. OneWay(h)
    <3> SUFFICES ASSUME ~OneWay(h) PROVE FALSE
      OBVIOUS
    <3>1. OneWay(p)
      BY HostAssumption DEF LossyOneWay, Peer, Host
    <3>2. Pair(state[p], conn[p], state[h], conn[h], net.wire[h], net.wire[p], net.faults)
      BY <1>1, <3>1, LossyStarts
    <3>3. Listens(state[h], conn[h])
      BY <2>1, <2>3 DEF Listens
    <3> QED  BY <1>1, <3>2, <3>3 DEF Pair, Progress
  <2>5. /\ Listens(state[p], conn[p]) /\ state[p].ackno = state[h].seqno
        /\ End(state[h].sent_segment_attr.segment) = state[h].seqno
    BY <1>1, <2>1, <2>3, <2>4, SenderGetsAcks
  <2>6. Received(p) = state[p].ackno - 1
    <3>1. Pair(state[h], conn[h], state[p], conn[p], net.wire[p], net.wire[h], net.faults)
      BY <1>1, <2>4, LossyStarts
    <3> QED  BY <2>5, <3>1 DEF Pair, Progress, Received, ReceivedOf
  <2>7. state[h].seqno \in Nat
    BY <2>1 DEF CtcpState
  <2> QED  BY <2>5, <2>6, <2>7
<1>2. LInv /\ [Next]_vars =>
        [\A h \in Host : LET attr == state[h].sent_segment_attr IN
           (Receive(h) /\ attr # NULL /\ state'[h].sent_segment_attr = NULL)
             => Received(Peer(h)) >= End(attr.segment) - 1]_vars
  <2>1. LInv /\ [Next]_vars => StreamInv'
    BY NextStreamInv DEF LInv
  <2> QED  BY <1>1, <2>1
<1> QED  BY <1>2, LossyInvariant, PTL DEF Spec, AckedIsPrinted

-----------------------------------------------------------------------------
(* How many segments are under way *)

InSockets(n) == Len(n.wire[Client]) + Len(n.wire[Server])

(* A host with a segment to repeat may have two segments under way, to it   *)
(* or from it, and one otherwise.                                           *)
Room(s) == IF s.sent_segment_attr = NULL THEN 1 ELSE 2
Few == \A h \in Host : OneWay(h) => InSockets(net) <= Room(state[h])

LEMMA QueuedIs ==
  ASSUME NEW n \in Net, NEW x \in Host
  PROVE  /\ InSockets(n) = Len(n.wire[x]) + Len(n.wire[Peer(x)]) /\ InSockets(n) \in Nat
         /\ Len(n.wire[x]) \in Nat /\ Len(n.wire[Peer(x)]) \in Nat
<1>1. Len(n.wire[Client]) \in Nat /\ Len(n.wire[Server]) \in Nat
  BY DEF Net, Wires, Host
<1>2. (x = Client /\ Peer(x) = Server) \/ (x = Server /\ Peer(x) = Client)
  BY HostAssumption DEF Host, Peer
<1> DEFINE a == Len(n.wire[Client])
           b == Len(n.wire[Server])
           u == Len(n.wire[x])
           v == Len(n.wire[Peer(x)])
<1>3. InSockets(n) = a + b /\ a \in Nat /\ b \in Nat
  BY <1>1 DEF InSockets
<1>4. (u = a /\ v = b) \/ (u = b /\ v = a)
  BY <1>2
<1>5. InSockets(n) = u + v /\ InSockets(n) \in Nat /\ u \in Nat /\ v \in Nat
  <2> HIDE DEF a, b, u, v
  <2> QED  BY <1>3, <1>4
<1> QED  BY <1>5

(* A transmission queues one segment at most, and none if it fails.         *)
LEMMA TransmitsOne ==
  ASSUME NEW n \in Net, NEW p \in Host, NEW o, NEW g, Transmits(o, n, p, g)
  PROVE  /\ o.n \in Net /\ InSockets(o.n) <= InSockets(n) + 1
         /\ o.rc # 0 => InSockets(o.n) = InSockets(n)
<1>1. /\ o.n \in Net /\ o.n.wire[Peer(p)] = n.wire[Peer(p)] /\ o.rc \in {0, -1}
      /\ o.rc = -1 => o.n.wire[p] = n.wire[p]
      /\ Adds(o.n, n, p, g) \/ o.n.wire[p] = n.wire[p]
  BY DEF Transmits
<1> DEFINE a == Len(n.wire[p])
           b == Len(n.wire[Peer(p)])
           c == Len(o.n.wire[p])
<1>2. InSockets(n) = a + b /\ a \in Nat /\ b \in Nat /\ InSockets(o.n) = c + b /\ c \in Nat
  BY <1>1, QueuedIs
<1>3. c = a \/ (c = a + 1 /\ o.rc = 0)
  <2>1. CASE o.n.wire[p] = n.wire[p]
    BY <2>1
  <2>2. CASE Adds(o.n, n, p, g) /\ o.n.wire[p] # n.wire[p]
    <3>1. PICK k \in Segment : o.n.wire[p] = Append(n.wire[p], k)
      BY <2>2 DEF Adds
    <3>2. n.wire[p] \in Seq(Segment)
      BY DEF Net, Wires
    <3>3. c = a + 1
      BY <3>1, <3>2
    <3> QED  BY <1>1, <2>2, <3>3
  <2> QED  BY <1>1, <2>1, <2>2
<1> HIDE DEF a, b, c
<1> QED  BY <1>1, <1>2, <1>3

(* A queue that loses its segments or its oldest one.                       *)
LEMMA QueuedLess ==
  ASSUME NEW n \in Net, NEW x \in Host, NEW m
  PROVE  /\ OnlyWire(m, n, x, <<>>) => m \in Net /\ InSockets(m) <= InSockets(n)
         /\ n.wire[x] # <<>> /\ OnlyWire(m, n, x, Tail(n.wire[x]))
              => m \in Net /\ InSockets(m) + 1 = InSockets(n)
<1> DEFINE a == Len(n.wire[x])
           b == Len(n.wire[Peer(x)])
           c == Len(m.wire[x])
<1>1. n.wire[x] \in Seq(Segment) /\ InSockets(n) = a + b /\ a \in Nat /\ b \in Nat
  BY QueuedIs DEF Net, Wires
<1>2. ASSUME NEW q, OnlyWire(m, n, x, q)
      PROVE  m \in Net /\ InSockets(m) = c + b /\ c = Len(q) /\ c \in Nat
  BY <1>2, QueuedIs DEF OnlyWire
<1>3. ASSUME OnlyWire(m, n, x, <<>>)  PROVE m \in Net /\ InSockets(m) <= InSockets(n)
  <2>0. m \in Net /\ InSockets(m) = c + b /\ c = Len(<<>>)
    BY <1>2, <1>3
  <2>1. m \in Net /\ InSockets(m) = c + b /\ c = 0
    BY <2>0
  <2> HIDE DEF a, b, c
  <2> QED  BY <1>1, <2>1
<1>4. ASSUME n.wire[x] # <<>>, OnlyWire(m, n, x, Tail(n.wire[x]))
      PROVE  m \in Net /\ InSockets(m) + 1 = InSockets(n)
  <2>1. m \in Net /\ InSockets(m) = c + b /\ c = Len(Tail(n.wire[x])) /\ c \in Nat
    BY <1>2, <1>4
  <2>2. c + 1 = a
    BY <1>1, <1>4, <2>1
  <2> HIDE DEF a, b, c
  <2> QED  BY <1>1, <2>1, <2>2
<1> QED  BY <1>3, <1>4

(* ctcp_destroy() may empty a socket.                                       *)
LEMMA DestroyQueued ==
  ASSUME NEW x \in Host, NEW s, NEW c, NEW n \in Net,
         ctcp_destroy(x, s, c, n) \/ \E status : Gone(x, s, c, n, status)
  PROVE  net' \in Net /\ InSockets(net') <= InSockets(n)
<1> DEFINE m == [n EXCEPT !.wire[x] = <<>>]
<1>1. <<>> \in Seq(Segment)
  OBVIOUS
<1>2. OnlyWire(m, n, x, <<>>)
  BY <1>1, WithoutWire
<1>3. net' = m \/ net' = n
  BY DEF ctcp_destroy, Gone, Return
<1> HIDE DEF m
<1>4. m \in Net /\ InSockets(m) <= InSockets(n)
  BY <1>2, QueuedLess
<1>5. InSockets(n) \in Nat
  BY QueuedIs
<1> QED  BY <1>3, <1>4, <1>5

(* An answer takes the place of the segment it answers.                     *)
LEMMA AnswerQueued ==
  ASSUME LossyOneWay, LInv, NEW x \in Host, NEW n, Taken(x, n), NEW s \in CtcpState,
         NEW a \in send_ack(x, s, n)
  PROVE  a.n \in Net /\ InSockets(a.n) <= InSockets(net)
<1>1. net \in Net /\ net.forked = {} /\ net.faults <= MaxFaults /\ Peer(x) \in Host
  BY LossyStarts, PeerFacts
<1>2. /\ n \in Net /\ n.forked = {} /\ n.faults <= MaxFaults /\ InSockets(n) + 1 = InSockets(net)
  BY <1>1, QueuedLess DEF Taken, OnlyWire
<1>3. Transmits(a, n, Peer(x), Built(s, {"ACK"}, 0, 0))
  BY <1>2, AckSent DEF MaySendNow
<1>4. a.n \in Net /\ InSockets(a.n) <= InSockets(n) + 1
  BY <1>1, <1>2, <1>3, TransmitsOne
<1> QED  BY <1>2, <1>4

(* ctcp_receive() of anything but the FIN that closes the stream sends one  *)
(* segment at most.                                                         *)
LEMMA ReceiveQueued ==
  ASSUME LossyOneWay, LInv, NEW x \in Host, NEW n, Taken(x, n), NEW g \in Segment,
         ~(state[x].conn_state = "DATA_TRANSFER" /\ IsFin(g)),
         ctcp_receive(x, state[x], g, n)
  PROVE  InSockets(net') <= InSockets(net)
<1> DEFINE s == state[x]
           c == conn[x]
<1>1. /\ net \in Net /\ s \in CtcpState /\ g.seqno \in Nat /\ g.seqno + 1 \in Nat
      /\ g.len \in Nat /\ AfterData(g) \in Nat
  BY LossyStarts DEF Segment, AfterData
<1>2. n \in Net /\ InSockets(n) + 1 = InSockets(net) /\ InSockets(n) \in Nat /\ InSockets(net) \in Nat
  BY <1>1, QueuedLess, QueuedIs DEF Taken
<1>3. ASSUME NEW t, NEW d, NEW m, Return(x, t, d, m), InSockets(m) <= InSockets(net)
      PROVE  InSockets(net') <= InSockets(net)
  BY <1>3 DEF Return
<1>4. ASSUME NEW t, NEW d, NEW m \in Net, ctcp_destroy(x, t, d, m), InSockets(m) <= InSockets(net)
      PROVE  InSockets(net') <= InSockets(net)
  <2>1. net' \in Net /\ InSockets(net') <= InSockets(m)
    BY <1>4, DestroyQueued
  <2>2. InSockets(net') \in Nat /\ InSockets(m) \in Nat
    BY <2>1, QueuedIs
  <2> QED  BY <1>2, <1>4, <2>1, <2>2
<1>5. ASSUME NEW t, NEW d, Return(x, t, d, n)  PROVE InSockets(net') <= InSockets(net)
  BY <1>2, <1>3, <1>5
<1>6. ASSUME NEW t, NEW d, ctcp_destroy(x, t, d, n)  PROVE InSockets(net') <= InSockets(net)
  BY <1>2, <1>4, <1>6
<1>7. ASSUME NEW u \in CtcpState, NEW ackno \in Nat, NEW a \in send_ack(x, [u EXCEPT !.ackno = ackno], n)
      PROVE  a.n \in Net /\ InSockets(a.n) <= InSockets(net)
  <2>1. [u EXCEPT !.ackno = ackno] \in CtcpState
    BY DEF CtcpState
  <2> QED  BY <1>7, <2>1, AnswerQueued
<1>8. CASE InDataTransfer(x, s, g, n)
  <2>1. CASE ctcp_output(x, [s EXCEPT !.received_segment = g], c, n)
    <3> DEFINE u == [s EXCEPT !.received_segment = g]
    <3>1. u \in CtcpState /\ u.received_segment = g
      BY <1>1 DEF CtcpState, MaybeSegment
    <3>2. OutputWaits(x, u, c, n) \/ OutputData(x, u, c, n)
      BY <2>1 DEF ctcp_output
    <3> HIDE DEF u
    <3>3. CASE OutputWaits(x, u, c, n)
      BY <1>5, <3>3 DEF OutputWaits
    <3>4. CASE OutputData(x, u, c, n)
      <4>1. \/ \E d : ctcp_destroy(x, u, d, n)
            \/ \E a \in send_ack(x, [u EXCEPT !.ackno = AfterData(g)], n) :
                 \E t, d : Return(x, t, d, a.n)
        BY <3>1, <3>4 DEF OutputData
      <4> QED  BY <1>1, <1>3, <1>6, <1>7, <3>1, <4>1
    <3> QED  BY <3>2, <3>3, <3>4
  <2>2. \/ \E t : Return(x, t, c, n)
        \/ ctcp_output(x, [s EXCEPT !.received_segment = g], c, n)
    BY <1>8 DEF InDataTransfer, TakesAck, IsFin
  <2> QED  BY <1>5, <2>1, <2>2
<1>9. CASE InTearDown(x, s, g, n) \/ InWaitLastFin(x, s, g, n) \/ InWaitLastAck(x, s, g, n)
  <2>1. \/ \E t : Return(x, t, c, n) \/ ctcp_destroy(x, t, c, n)
        \/ \E a \in send_ack(x, [s EXCEPT !.ackno = g.seqno + 1], n) :
             \E t : Return(x, t, c, a.n) \/ ctcp_destroy(x, t, c, a.n)
    BY <1>9 DEF InTearDown, InWaitLastFin, InWaitLastAck
  <2> QED  BY <1>1, <1>3, <1>4, <1>5, <1>6, <1>7, <2>1
<1>10. CASE Return(x, s, c, n)
  BY <1>5, <1>10
<1> QED  BY <1>8, <1>9, <1>10 DEF ctcp_receive

(* The FIN that closes the stream is answered twice, with nothing else      *)
(* under way and while its sender may still repeat it.                      *)
LEMMA FinQueued ==
  ASSUME LossyOneWay, LInv, NEW x \in Host, NEW n, Taken(x, n), conn[x].status = "up",
         state[x].conn_state = "DATA_TRANSFER", NEW g, g = Head(net.wire[x]), IsFin(g),
         ctcp_receive(x, state[x], g, n)
  PROVE  \/ InSockets(net') <= InSockets(net)
         \/ InSockets(net') <= 2 /\ state[Peer(x)].sent_segment_attr # NULL
<1> DEFINE s == state[x]
           u == [s EXCEPT !.ackno = g.seqno + 1]
<1>1. /\ net \in Net /\ s \in CtcpState /\ net.forked = {} /\ net.faults <= MaxFaults
      /\ net.wire[x] \in Seq(Segment) /\ net.wire[x] # <<>> /\ Peer(x) \in Host
  BY LossyStarts, PeerFacts DEF Taken
<1>2. g \in Segment /\ g.seqno \in Nat /\ s.ackno \in Nat
  <2>1. g \in Segment
    BY <1>1
  <2>2. s.ackno \in Nat
    BY <1>1 DEF CtcpState
  <2> QED  BY <2>1, <2>2 DEF Segment
<1>3. /\ n \in Net /\ InSockets(n) + 1 = InSockets(net) /\ InSockets(n) \in Nat /\ InSockets(net) \in Nat
      /\ n.forked = {} /\ n.faults <= MaxFaults
      /\ n.wire[x] = Tail(net.wire[x]) /\ n.wire[Peer(x)] = net.wire[Peer(x)]
  BY <1>1, QueuedLess, QueuedIs DEF Taken, OnlyWire
<1>4. CASE \E t, d : Return(x, t, d, n)
  BY <1>3, <1>4 DEF Return
<1>5. CASE /\ g.ok /\ ~IsOld(s, g)
           /\ \E a \in send_ack(x, u, n) : \E f \in send_fin(x, a.s, a.n) :
                \E t, d : Return(x, t, d, f.n)
  <2>1. PICK a \in send_ack(x, u, n) : \E f \in send_fin(x, a.s, a.n) :
               \E t, d : Return(x, t, d, f.n)
    BY <1>5
  <2>2. PICK f \in send_fin(x, a.s, a.n) : \E t, d : Return(x, t, d, f.n)
    BY <2>1
  <2>3. MaySendNow(u, n)
    BY <1>1, <1>2, <1>3 DEF MaySendNow, CtcpState
  <2> HIDE DEF u
  <2>4. MaySendNow(a.s, a.n) /\ Transmits(a, n, Peer(x), Built(u, {"ACK"}, 0, 0))
    BY <2>3, AckSent
  <2>5. InSockets(a.n) <= InSockets(n) + 1 /\ a.n \in Net
    BY <1>1, <1>3, <2>4, TransmitsOne
  <2>6. InSockets(f.n) <= InSockets(a.n) + 1 /\ f.n \in Net
    <3>1. {"FIN"} \in Flags /\ 0 \in Nat
      BY DEF Flags
    <3>2. f \in segment_send(x, a.s, a.n, {"FIN"}, 0, 0)
      BY DEF send_fin
    <3>3. Transmits(f, a.n, Peer(x), Built(a.s, {"FIN"}, 0, 0))
      BY <2>4, <3>1, <3>2, LossySegmentSend DEF MaySendNow
    <3> QED  BY <1>1, <2>5, <3>3, TransmitsOne
  <2>7. /\ net.wire[Peer(x)] = <<>> /\ Tail(net.wire[x]) = <<>>
        /\ state[Peer(x)].sent_segment_attr # NULL
    <3>1. g.seqno >= s.ackno
      BY <1>2, <1>5 DEF IsOld
    <3> QED  BY <1>1, <1>5, <3>1, ReceiverGetsKept
  <2>8. InSockets(n) = 0
    <3>1. n.wire[x] = <<>> /\ n.wire[Peer(x)] = <<>>
      BY <1>3, <2>7
    <3>2. InSockets(n) = Len(n.wire[x]) + Len(n.wire[Peer(x)])
      BY <1>3, QueuedIs
    <3> QED  BY <3>1, <3>2
  <2>9. InSockets(a.n) \in Nat /\ InSockets(f.n) \in Nat
    BY <2>5, <2>6, QueuedIs
  <2>10. net' = f.n
    BY <2>2 DEF Return
  <2> QED  BY <2>5, <2>6, <2>7, <2>8, <2>9, <2>10
<1>6. CASE g.ok /\ InDataTransfer(x, s, g, n)
  <2>1. "FIN" \in g.flags /\ g.flags # {"ACK"}
    BY DEF IsFin
  <2>2. \/ Return(x, s, conn[x], n)
        \/ /\ ~IsOld(s, g)
           /\ \E a \in send_ack(x, u, n) : \E f \in send_fin(x, a.s, a.n) :
                Return(x, [f.s EXCEPT !.conn_state = "WAIT_LAST_ACK"],
                       output_eof(conn[x]), f.n)
    BY <1>6, <2>1 DEF InDataTransfer
  <2> HIDE DEF u
  <2> QED  BY <1>4, <1>5, <1>6, <2>2
<1>7. CASE Return(x, s, conn[x], n)
  BY <1>4, <1>7
<1>8. Return(x, s, conn[x], n) \/ (g.ok /\ InDataTransfer(x, s, g, n))
  BY DEF ctcp_receive, is_segment_valid, InTearDown, InWaitLastFin, InWaitLastAck
<1> QED  BY <1>6, <1>7, <1>8

(* A tick finds nothing under way, and sends one segment at most.           *)
LEMMA TimerQueued ==
  ASSUME LossyOneWay, LInv, NEW x \in Host, ctcp_timer(x)
  PROVE  InSockets(net') <= 1
<1>1. /\ net \in Net /\ state[x] \in CtcpState /\ net.forked = {} /\ net.faults <= MaxFaults
      /\ Peer(x) \in Host
  BY LossyStarts, PeerFacts
<1>2. InSockets(net) = 0
  <2>1. Quiet(net) /\ Client \in Host /\ Server \in Host
    BY DEF ctcp_timer, LossyOneWay, Host
  <2>2. net.wire[Client] = <<>> /\ net.wire[Server] = <<>>
    BY <2>1 DEF Quiet
  <2>3. Len(<<>>) = 0
    OBVIOUS
  <2>4. InSockets(net) = 0 + 0
    BY <2>2, <2>3, Zenon DEF InSockets
  <2> QED  BY <2>4
<1>3. CASE TimerDestroys(x)
  <2>1. \E status : Gone(x, state[x], conn[x], net, status)
    BY <1>3 DEF TimerDestroys
  <2>2. net' \in Net /\ InSockets(net') <= InSockets(net)
    BY <1>1, <2>1, DestroyQueued
  <2>3. InSockets(net') \in Nat
    BY <2>2, QueuedIs
  <2> QED  BY <1>2, <2>2, <2>3
<1>4. CASE \E t, d : Return(x, t, d, net)
  BY <1>2, <1>4 DEF Return
<1>5. CASE state[x].sent_segment_attr # NULL
           /\ \E o \in conn_send(x, net, state[x].sent_segment_attr.segment) :
                \E t, d : Return(x, t, d, o.n)
  <2> DEFINE g == state[x].sent_segment_attr.segment
  <2>1. PICK o \in conn_send(x, net, g) : \E t, d : Return(x, t, d, o.n)
    BY <1>5
  <2>2. g \in Segment
    BY <1>1, <1>5 DEF CtcpState, MaybeAttr, SegmentAttr
  <2> HIDE DEF g
  <2>3. Transmits(o, net, Peer(x), g)
    BY <1>1, <2>2, LossySend
  <2>4. InSockets(o.n) <= InSockets(net) + 1
    BY <1>1, <2>3, TransmitsOne
  <2>5. net' = o.n
    BY <2>1 DEF Return
  <2> QED  BY <1>2, <2>4, <2>5
<1>6. ASSUME TimerTicks(x)
      PROVE  \/ \E t, d : Return(x, t, d, net)
             \/ /\ state[x].sent_segment_attr # NULL
                /\ \E o \in conn_send(x, net, state[x].sent_segment_attr.segment) :
                     \E t, d : Return(x, t, d, o.n)
  <2> DEFINE s == [state[x] EXCEPT !.tim = tim_advance(state[x])]
             old == state[x].sent_segment_attr
  <2>1. s.sent_segment_attr = old
    BY <1>1 DEF CtcpState
  <2>2. \/ \E t, d : Return(x, t, d, net)
        \/ s.sent_segment_attr # NULL /\ Retransmit(x, s, Aged(s.sent_segment_attr))
    BY <1>6 DEF TimerTicks
  <2> HIDE DEF s
  <2>3. ASSUME s.sent_segment_attr # NULL  PROVE Aged(old).segment = old.segment
    BY <1>1, <2>1, <2>3 DEF CtcpState, MaybeAttr, SegmentAttr, Aged
  <2>4. ASSUME s.sent_segment_attr # NULL, Retransmit(x, s, Aged(old))
        PROVE  \E o \in conn_send(x, net, old.segment) : \E t, d : Return(x, t, d, o.n)
    BY <2>3, <2>4 DEF Retransmit
  <2> QED  BY <2>1, <2>2, <2>4
<1> QED  BY <1>3, <1>4, <1>5, <1>6 DEF ctcp_timer

(* While the peer listens the bound follows from the invariant.             *)
LEMMA FewWhileOpen ==
  ASSUME NEW s, NEW c, NEW t, NEW d, NEW wire \in Seq(Segment), NEW back \in Seq(Segment),
         NEW faults, Pair(s, c, t, d, wire, back, faults), Listens(t, d)
  PROVE  Len(back) + Len(wire) <= Room(s)
<1>1. Repairable(wire, s, t.ackno, faults) /\ Acknowledges(back, wire, s, t.ackno)
  BY DEF Pair, Progress
<1>2. Len(wire) <= Room(s) /\ Len(wire) \in Nat /\ Len(back) \in Nat /\ Room(s) \in 1..2
  BY <1>1 DEF Repairable, Room
<1>3. back = <<>> \/ (Len(back) = 1 /\ wire = <<>>)
  BY <1>1 DEF Acknowledges
<1>4. CASE back = <<>>
  BY <1>2, <1>4
<1>5. CASE Len(back) = 1 /\ wire = <<>>
  BY <1>2, <1>5
<1> QED  BY <1>3, <1>4, <1>5

(* ctcp_read() at the end of file when the peer does not listen any more.   *)
LEMMA ReadEofQueued ==
  ASSUME LossyOneWay, LInv, NEW x \in Host, ReadEof(x), InSockets(net) <= Room(state[x])
  PROVE  InSockets(net') <= Room(state'[x])
<1>1. PICK i \in conn_input(x), o \in send_fin(x, state[x], net) :
        Return(x, IF o.rc < 0 THEN o.s
                  ELSE [o.s EXCEPT !.conn_state = "TEAR_DOWN"], i.c, o.n)
  BY DEF ReadEof
<1>2. /\ net.forked = {} /\ net.faults <= MaxFaults /\ state[x] \in CtcpState /\ net \in Net
      /\ state \in [Host -> CtcpState] /\ Peer(x) \in Host /\ state[x].seqno \in Nat
  BY LossyStarts, PeerFacts DEF LInv, StreamInv, TypeOK, CtcpState
<1>3. state[x].sent_segment_attr = NULL
  BY DEF ReadEof, MayRead
<1> DEFINE g == Built(state[x], {"FIN"}, 0, 0)
           t == IF o.rc < 0 THEN o.s ELSE [o.s EXCEPT !.conn_state = "TEAR_DOWN"]
<1>4. g \in Segment
  BY <1>2 DEF Built, Segment, Flags
<1>5. Transmits(o, net, Peer(x), g) /\ Records(state[x], o.s) /\ (o.rc = 0 => Keeps(o.s, g))
  <2>1. {"FIN"} \in Flags /\ 0 \in Nat /\ "FIN" \in {"FIN"}
    BY DEF Flags
  <2>2. o \in segment_send(x, state[x], net, {"FIN"}, 0, 0)
    BY DEF send_fin
  <2> QED  BY <1>2, <2>1, <2>2, LossySegmentSend
<1>6. t.sent_segment_attr = o.s.sent_segment_attr /\ net' = o.n /\ state'[x] = t
  BY <1>1, <1>2, <1>5 DEF Records, CtcpState, Return
<1> HIDE DEF g, t
<1>7. InSockets(o.n) <= InSockets(net) + 1 /\ (o.rc # 0 => InSockets(o.n) = InSockets(net)) /\ o.n \in Net
  BY <1>2, <1>5, TransmitsOne
<1>8. InSockets(net) <= 1 /\ InSockets(net) \in Nat /\ InSockets(o.n) \in Nat
  BY <1>2, <1>3, <1>7, QueuedIs DEF Room
<1>9. Room(t) \in 1..2 /\ (o.rc = 0 => Room(t) = 2)
  <2>1. ASSUME o.rc = 0  PROVE t.sent_segment_attr # NULL
    <3> DEFINE attr == [segment |-> g, time |-> 0, no_of_times |-> 0]
    <3>1. attr \in SegmentAttr /\ t.sent_segment_attr = attr
      BY <1>4, <1>5, <1>6, <2>1 DEF SegmentAttr, Keeps
    <3> HIDE DEF attr
    <3> QED  BY <3>1, NullAssumption
  <2> QED  BY <2>1 DEF Room
<1>10. InSockets(o.n) <= Room(t)
  BY <1>7, <1>8, <1>9
<1> QED  BY <1>6, <1>10

(* A handler changes only its own host.                                     *)
LEMMA ReceiveIsLocal ==
  ASSUME LInv, NEW x \in Host, Receive(x)
  PROVE  state'[Peer(x)] = state[Peer(x)] /\ conn'[Peer(x)] = conn[Peer(x)]
<1>1. /\ state \in [Host -> CtcpState] /\ conn \in [Host -> Conn]
      /\ Peer(x) \in Host /\ Peer(x) # x
  BY PeerFacts DEF LInv, StreamInv, TypeOK
<1>2. \E s, c, n : Return(x, s, c, n)
  BY DEF Receive, ctcp_receive, InDataTransfer, TakesAck, InTearDown, InWaitLastFin,
         InWaitLastAck, ctcp_output, OutputWaits, OutputData, ctcp_destroy, Gone
<1> QED  BY <1>1, <1>2 DEF Return

LEMMA NextFew ==
  ASSUME LossyOneWay, LInv, Few, [Next]_vars, LInv'
  PROVE  Few'
<1> SUFFICES ASSUME NEW h \in Host, OneWay(h)
             PROVE  InSockets(net') <= Room(state'[h])
  BY DEF Few, OneWay
<1> DEFINE p == Peer(h)
           open == Listens(state[p], conn[p])
           openAfter == Listens(state'[p], conn'[p])
<1>1. p \in Host /\ Peer(p) = h /\ p # h /\ Host = {h, p}
  BY HostAssumption DEF Peer, Host
<1>2. /\ net \in Net /\ net' \in Net /\ StreamInv'
      /\ state \in [Host -> CtcpState] /\ conn \in [Host -> Conn]
  BY DEF LInv, StreamInv, TypeOK
<1>3. InSockets(net) <= Room(state[h]) /\ InSockets(net) \in Nat /\ InSockets(net') \in Nat
  BY <1>1, <1>2, QueuedIs DEF Few
<1>4. Room(state[h]) \in 1..2 /\ Room(state'[h]) \in 1..2
  BY DEF Room
<1>5. /\ Pair(state[h], conn[h], state[p], conn[p], net.wire[p], net.wire[h], net.faults)
      /\ Pair(state'[h], conn'[h], state'[p], conn'[p], net'.wire[p], net'.wire[h], net'.faults)
  BY DEF LInv
<1> HIDE DEF p
<1>6. CASE openAfter
  <2>1. net'.wire[p] \in Seq(Segment) /\ net'.wire[h] \in Seq(Segment)
    BY <1>1, <1>2 DEF Net, Wires
  <2>2. Len(net'.wire[h]) + Len(net'.wire[p]) <= Room(state'[h])
    BY <1>5, <1>6, <2>1, FewWhileOpen
  <2>3. InSockets(net') = Len(net'.wire[h]) + Len(net'.wire[p])
    BY <1>2, QueuedIs DEF p
  <2> QED  BY <2>2, <2>3
<1>7. ASSUME ~openAfter  PROVE InSockets(net') <= Room(state'[h])
  <2>1. ASSUME NEW x \in Host, NEW s, NEW c, NEW n, Return(x, s, c, n)
        PROVE  /\ x = p => state'[h] = state[h]
               /\ x = h => state'[p] = state[p] /\ conn'[p] = conn[p]
    BY <1>1, <1>2, <2>1 DEF Return
  <2>2. ASSUME ~open PROVE state[h].conn_state # "DATA_TRANSFER" /\ conn[h].read_eof
    BY <1>5, <2>2 DEF Pair, Finished
  <2>3. CASE UNCHANGED vars
    BY <1>3, <2>3 DEF vars
  <2>4. ASSUME NEW x \in Host, MayRead(x)  PROVE x = h
    BY <1>1, <2>4, NothingToRead
  <2>5. ASSUME ReadData(h)  PROVE FALSE
    <3>1. ~open
      BY <1>7, <2>1, <2>5 DEF ReadData
    <3>2. conn[h].read_eof
      BY <2>2, <3>1
    <3> QED  BY <2>5, <3>2 DEF ReadData, conn_input
  <2>6. ASSUME ReadEof(h)  PROVE InSockets(net') <= Room(state'[h])
    BY <1>3, <2>6, ReadEofQueued
  <2>7. ASSUME NEW x \in Host, Receive(x)  PROVE InSockets(net') <= Room(state'[h])
    <3> DEFINE g == Head(net.wire[x])
               n == [net EXCEPT !.wire[x] = Tail(@)]
    <3>1. /\ conn[x].status = "up" /\ net.wire[x] # <<>> /\ ctcp_receive(x, state[x], g, n)
      BY <2>7 DEF Receive
    <3>2. Taken(x, n)
      BY <3>1, LossyTaken
    <3>3. g \in Segment
      BY <1>2, <3>1 DEF Net, Wires
    <3> HIDE DEF g, n
    <3>4. CASE x = h
      <4>1. ~open
        <5> SUFFICES ASSUME open PROVE FALSE
          OBVIOUS
        <5>1. state'[p] = state[p] /\ conn'[p] = conn[p]
          BY <2>7, <3>4, ReceiveIsLocal DEF p
        <5> QED  BY <1>7, <5>1
      <4>2. Late(h)
        BY <2>2, <3>1, <3>4, <4>1 DEF Late
      <4>3. state'[h].sent_segment_attr = state[h].sent_segment_attr
        BY <1>2, <3>1, <3>2, <3>3, <3>4, <4>2, LateReceive
      <4>4. InSockets(net') <= InSockets(net)
        BY <3>1, <3>2, <3>3, <3>4, <4>2, ReceiveQueued DEF Late
      <4>5. Room(state'[h]) = Room(state[h])
        BY <4>3 DEF Room
      <4> QED  BY <1>3, <1>4, <4>4, <4>5
    <3>5. CASE x = p
      <4>1. state'[h] = state[h]
        BY <1>1, <1>2, <2>7, <3>5, ReceiveIsLocal
      <4>2. CASE state[x].conn_state = "DATA_TRANSFER" /\ IsFin(g)
        <5>1. \/ InSockets(net') <= InSockets(net)
              \/ InSockets(net') <= 2 /\ state[h].sent_segment_attr # NULL
          BY <1>1, <3>1, <3>2, <3>5, <4>2, FinQueued DEF g
        <5>2. state[h].sent_segment_attr # NULL => Room(state[h]) = 2
          BY DEF Room
        <5> QED  BY <1>3, <1>4, <4>1, <5>1, <5>2
      <4>3. CASE ~(state[x].conn_state = "DATA_TRANSFER" /\ IsFin(g))
        <5>1. InSockets(net') <= InSockets(net)
          BY <3>1, <3>2, <3>3, <4>3, ReceiveQueued
        <5> QED  BY <1>3, <1>4, <4>1, <5>1
      <4> QED  BY <4>2, <4>3
    <3> QED  BY <1>1, <3>4, <3>5
  <2>8. ASSUME NEW x \in Host, Discard(x)  PROVE InSockets(net') <= Room(state'[h])
    <3>1. /\ net.wire[x] # <<>>
          /\ Return(x, state[x], conn[x], [net EXCEPT !.wire[x] = Tail(@)])
      BY <2>8 DEF Discard
    <3> DEFINE n == [net EXCEPT !.wire[x] = Tail(@)]
    <3>2. Taken(x, n)
      BY <3>1, LossyTaken
    <3>3. net' = n /\ state'[h] = state[h]
      BY <1>1, <1>2, <3>1 DEF Return
    <3> HIDE DEF n
    <3>4. InSockets(n) + 1 = InSockets(net)
      BY <1>2, <3>2, QueuedLess DEF Taken
    <3> QED  BY <1>3, <1>4, <3>3, <3>4
  <2>9. ASSUME NEW x \in Host, ctcp_timer(x)  PROVE InSockets(net') <= Room(state'[h])
    <3>1. InSockets(net') <= 1
      BY <2>9, TimerQueued
    <3> QED  BY <1>3, <1>4, <3>1
  <2>10. ASSUME NEW x \in Host, Drain(x)  PROVE FALSE
    BY <2>10 DEF Drain, LInv, Idle, LossyOneWay
  <2>11. ASSUME NEW f \in net.forked  PROVE FALSE
    BY DEF LInv
  <2>12. ASSUME NEW x \in Host, ReadData(x) \/ ReadEof(x)
         PROVE  InSockets(net') <= Room(state'[h])
    BY <2>4, <2>5, <2>6, <2>12 DEF ReadData, ReadEof
  <2> QED  BY <2>3, <2>7, <2>8, <2>9, <2>10, <2>11, <2>12 DEF Next
<1> QED  BY <1>6, <1>7

(* ... and no more than two segments are ever under way: two places in a    *)
(* socket are enough for conn_send() never to fail, however long the input  *)
(* and whatever is lost, since ctcp_read() waits for the acknowledgement    *)
(* and ctcp_receive() answers one segment with one.                         *)
THEOREM NeverManyUnderWay ==
  ASSUME LossyOneWay
  PROVE  Spec => []FewUnderWay
<1>1. Init => Few
  <2> SUFFICES ASSUME Init PROVE Few
    OBVIOUS
  <2>1. InSockets(net) = 0
    BY DEF Init, NetInit, InSockets, Host
  <2> QED  BY <2>1 DEF Few, Room
<1>2. LInv /\ Few /\ [Next]_vars => LInv' /\ Few'
  BY NextLossy, NextFew
<1>3. LInv /\ Few => FewUnderWay
  <2> SUFFICES ASSUME LInv, Few PROVE FewUnderWay
    OBVIOUS
  <2>1. PICK h \in Host : OneWay(h)
    BY DEF LossyOneWay
  <2>2. InSockets(net) <= Room(state[h]) /\ Room(state[h]) \in 1..2
    BY <2>1 DEF Few, Room
  <2>3. InSockets(net) \in Nat
    <3>1. net \in Net
      BY LossyStarts
    <3> QED  BY <3>1, QueuedIs DEF Host
  <2>4. InSockets(net) <= 2
    BY <2>2, <2>3
  <2> QED  BY <2>4 DEF FewUnderWay, InSockets
<1> QED  BY <1>1, <1>2, <1>3, InitLossy, PTL DEF Spec
=============================================================================
