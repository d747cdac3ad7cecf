----------------------------- MODULE CtcpProofs -----------------------------
(* Proofs about Ctcp with any faults: types, that what is printed is in     *)
(* order and once, that each direction of a connection implements an        *)
(* ordered stream (OrderedStream), and that the output queue never outgrows *)
(* MAX_BUF_SPACE.                                                           *)
EXTENDS Ctcp, SumProofs, TLAPS

(* m is a network a send of segment by h may leave behind n: what arrives   *)
(* at the peer was there before, is the segment, or is corrupt.             *)
After(m, n, h, segment) ==
  /\ m \in Net
  /\ \A g \in InNet(m, Peer(h)) : g \in InNet(n, Peer(h)) \/ g = segment \/ ~g.ok
  /\ InNet(m, h) \subseteq InNet(n, h)

(* Each host of the connection is the other's peer.                         *)
LEMMA PeerFacts == \A h \in Host : Peer(h) \in Host /\ Peer(h) # h /\ Peer(Peer(h)) = h
  BY HostAssumption DEF Peer, Host

(* A network is one that sending nothing leaves behind.                     *)
LEMMA AfterRefl ==
  ASSUME NEW n \in Net, NEW h \in Host, NEW g \in Segment
  PROVE  After(n, n, h, g)
  BY DEF After

(* conn_send(): stages of one send compose.                                 *)
LEMMA AfterTrans ==
  ASSUME NEW m, NEW k, NEW n, NEW h \in Host, NEW g,
         After(m, k, h, g), After(k, n, h, g)
  PROVE  After(m, n, h, g)
  BY DEF After

(* Counting a fault changes nothing else.                                   *)
LEMMA SpendFacts ==
  ASSUME NEW n \in Net
  PROVE  /\ Spend(n) \in Net
         /\ \A h \in Host : InNet(Spend(n), h) = InNet(n, h)
         /\ Spend(n).forked = n.forked /\ Spend(n).wire = n.wire
<1>1. Spend(n).forked = n.forked /\ Spend(n).wire = n.wire
  BY DEF Spend, Net
<1>2. Spend(n) \in Net
  BY DEF Spend, Net
<1> QED  BY <1>1, <1>2 DEF InNet

(* send_pkt() puts the segment in the receiver's queue or changes nothing.  *)
LEMMA SendPktFacts ==
  ASSUME NEW n \in Net, NEW h \in Host, NEW g \in Segment, NEW p \in Host
  PROVE  /\ send_pkt(h, n, g).n \in Net
         /\ send_pkt(h, n, g).rc \in {0, -1}
         /\ InNet(send_pkt(h, n, g).n, h) \subseteq InNet(n, h) \cup {g}
         /\ p # h => InNet(send_pkt(h, n, g).n, p) \subseteq InNet(n, p)
<1> DEFINE m == [n EXCEPT !.wire[h] = Append(@, g)]
<1>1. CASE send_pkt(h, n, g).n = n
  <2>1. send_pkt(h, n, g).rc \in {0, -1}
    BY DEF send_pkt
  <2> QED  BY <1>1, <2>1
<1>2. CASE send_pkt(h, n, g).n = m
  <2>1. send_pkt(h, n, g).rc \in {0, -1}
    BY DEF send_pkt
  <2>2. /\ [n.wire EXCEPT ![h] = Append(@, g)] \in Wires
        /\ n.wire[h] \in Seq(Segment)
    BY DEF Net, Wires
  <2>3. m \in Net
    BY <2>2 DEF Net
  <2>4. /\ m.wire[h] = Append(n.wire[h], g)
        /\ m.forked = n.forked /\ (p # h => m.wire[p] = n.wire[p])
    BY DEF Net, Wires
  <2>5. Range(m.wire[h]) \subseteq Range(n.wire[h]) \cup {g}
    BY <2>2, <2>4 DEF Range
  <2> QED  BY <1>2, <2>1, <2>3, <2>4, <2>5 DEF InNet
<1> QED  BY <1>1, <1>2 DEF send_pkt

(* Segment corruption leaves the network alone and the segment a segment.   *)
LEMMA CorruptionFacts ==
  ASSUME NEW n \in Net, NEW h \in Host, NEW g \in Segment,
         NEW c \in Corruption(h, n, g)
  PROVE  /\ c.n \in Net /\ c.segment \in Segment
         /\ \A p \in Host : InNet(c.n, p) = InNet(n, p)
         /\ c.n.forked = n.forked
         /\ c.segment = g \/ ~c.segment.ok
<1>1. flipbit(g) \in Segment /\ ~flipbit(g).ok
  BY DEF flipbit, Segment
<1>2. CASE c = [n |-> n, segment |-> g]
  BY <1>2
<1>3. CASE c = [n |-> Spend(n), segment |-> flipbit(g)]
  BY <1>1, <1>3, SpendFacts
<1> QED  BY <1>2, <1>3 DEF Corruption, When

(* A forked sender holds the segment, possibly corrupt, for the peer.       *)
LEMMA ForkFacts ==
  ASSUME NEW n \in Net, NEW h \in Host, NEW g \in Segment, NEW m \in Fork(h, n, g)
  PROVE  After(m, n, h, g)
<1>1. PICK c \in Corruption(h, Spend(n), g) :
        m = [c.n EXCEPT !.forked = @ \cup
               {[pid |-> n.faults, to |-> Peer(h), segment |-> c.segment]}]
  BY DEF Fork
<1> DEFINE child == [pid |-> n.faults, to |-> Peer(h), segment |-> c.segment]
<1>2. /\ c.n \in Net /\ c.segment \in Segment
      /\ \A p \in Host : InNet(c.n, p) = InNet(n, p)
      /\ c.segment = g \/ ~c.segment.ok
  BY SpendFacts, CorruptionFacts
<1>3. n.faults \in Nat /\ Peer(h) \in Host /\ Peer(h) # h
  BY PeerFacts DEF Net
<1>4. child \in ForkedSender
  BY <1>2, <1>3 DEF ForkedSender
<1>5. c.n.forked \cup {child} \in Forks
  BY <1>2, <1>4 DEF Net, Forks
<1> HIDE DEF child
<1>6. m \in Net /\ m.wire = c.n.wire /\ m.forked = c.n.forked \cup {child}
  BY <1>1, <1>2, <1>5 DEF Net, child
<1>7. child.to = Peer(h) /\ child.segment = c.segment
  BY DEF child
<1>8. InNet(m, Peer(h)) = InNet(c.n, Peer(h)) \cup {c.segment}
  BY <1>6, <1>7 DEF InNet
<1>9. InNet(m, h) = InNet(c.n, h)
  BY <1>6, <1>7, <1>3 DEF InNet
<1> QED  BY <1>2, <1>3, <1>6, <1>8, <1>9 DEF After

(* conn_send(): whatever is injected, nothing but the segment, intact or    *)
(* corrupt, is added to what travels to the peer.                           *)
LEMMA ConnSendFacts ==
  ASSUME NEW n \in Net, NEW h \in Host, NEW g \in Segment,
         NEW o \in conn_send(h, n, g)
  PROVE  After(o.n, n, h, g) /\ o.rc \in {0, -1}
<1>1. CASE o = [rc |-> 0, n |-> Spend(n)]
  BY <1>1, SpendFacts, PeerFacts DEF After
<1>2. CASE \E m \in Duplication(h, n, g) : o \in DelayOrSend(h, m, g)
  <2>1. PICK m \in Duplication(h, n, g) : o \in DelayOrSend(h, m, g)
    BY <1>2
  <2>2. After(m, n, h, g) /\ m \in Net
    BY ForkFacts, AfterRefl DEF Duplication, When, After
  <2>3. CASE \E k \in Fork(h, m, g) : o = [rc |-> 0, n |-> k]
    BY <2>2, <2>3, ForkFacts, AfterTrans
  <2>4. CASE \E c \in Corruption(h, m, g) : o = send_pkt(Peer(h), c.n, c.segment)
    <3>1. PICK c \in Corruption(h, m, g) : o = send_pkt(Peer(h), c.n, c.segment)
      BY <2>4
    <3>2. /\ c.n \in Net /\ c.segment \in Segment
          /\ \A p \in Host : InNet(c.n, p) = InNet(m, p)
          /\ c.segment = g \/ ~c.segment.ok
      BY <2>2, CorruptionFacts
    <3>3. /\ o.n \in Net /\ o.rc \in {0, -1}
          /\ InNet(o.n, Peer(h)) \subseteq InNet(c.n, Peer(h)) \cup {c.segment}
          /\ InNet(o.n, h) \subseteq InNet(c.n, h)
      BY <3>1, <3>2, PeerFacts, SendPktFacts
    <3>4. After(o.n, m, h, g)
      BY <3>2, <3>3, PeerFacts DEF After
    <3> QED  BY <2>2, <3>3, <3>4, AfterTrans
  <2> QED  BY <2>1, <2>3, <2>4 DEF DelayOrSend, When
<1> QED  BY <1>1, <1>2 DEF conn_send, When

-----------------------------------------------------------------------------
(* The segments a network or a ctcp_state holds are segments.               *)
LEMMA SegmentsAreTyped ==
  /\ \A n \in Net, h \in Host : InNet(n, h) \subseteq Segment
  /\ \A s \in CtcpState : Kept(s) \subseteq Segment /\ Waiting(s) \subseteq Segment
<1>1. ASSUME NEW n \in Net, NEW h \in Host
      PROVE  InNet(n, h) \subseteq Segment
  <2>1. n.wire[h] \in Seq(Segment) /\ n.forked \subseteq ForkedSender
    BY DEF Net, Wires, Forks
  <2>2. Range(n.wire[h]) \subseteq Segment
    BY <2>1 DEF Range
  <2> QED  BY <2>1, <2>2 DEF InNet, ForkedSender
<1>2. ASSUME NEW s \in CtcpState
      PROVE  Kept(s) \subseteq Segment /\ Waiting(s) \subseteq Segment
  <2>1. s.received_segment \in MaybeSegment /\ s.sent_segment_attr \in MaybeAttr
    BY DEF CtcpState
  <2> QED  BY <2>1 DEF Kept, Waiting, MaybeSegment, MaybeAttr, SegmentAttr
<1> QED  BY <1>1, <1>2

(* The fields that properties compute with are numbers.                     *)
LEMMA DataIsTyped ==
  ASSUME TypeOK, NEW h \in Host
  PROVE  Data(h) \subseteq Segment
<1>1. state[h] \in CtcpState /\ state[Peer(h)] \in CtcpState /\ net \in Net
  BY PeerFacts DEF TypeOK
<1> QED  BY <1>1, SegmentsAreTyped DEF Data

(* The segment that _segment_send() builds.                                 *)
Built(s, flags, pos, len) ==
  [flags |-> flags, seqno |-> s.seqno, pos |-> pos, len |-> len, ok |-> TRUE]

(* _segment_send() touches seqno and sent_segment_attr only; seqno never    *)
(* moves back, and what is kept is what was kept or the segment just built. *)
LEMMA SegmentSendFacts ==
  ASSUME NEW n \in Net, NEW h \in Host, NEW s \in CtcpState,
         NEW flags \in Flags, NEW pos \in Nat, NEW len \in Nat,
         NEW o \in segment_send(h, s, n, flags, pos, len)
  PROVE  /\ o.s \in CtcpState /\ o.rc \in {0, -1}
         /\ After(o.n, n, h, Built(s, flags, pos, len))
         /\ o.s.seqno >= s.seqno /\ o.s.ackno = s.ackno
         /\ o.s.conn_state = s.conn_state
         /\ o.s.received_segment = s.received_segment
         /\ Kept(o.s) \subseteq Kept(s) \cup {Built(s, flags, pos, len)}
<1> DEFINE g == Built(s, flags, pos, len)
<1> DEFINE adv == IF "FIN" \in flags THEN 1 ELSE len
<1> DEFINE sent == [s EXCEPT !.seqno = @ + adv]
<1> DEFINE kept == save_sent_segment(sent, g)
<1>1. g \in Segment /\ s.seqno \in Nat /\ adv \in Nat
  BY DEF Built, Segment, CtcpState
<1>2. PICK p \in conn_send(h, n, g) :
        o = [rc |-> p.rc, n |-> p.n,
             s |-> IF p.rc < 0 THEN s
                   ELSE IF len > 0 \/ "FIN" \in flags THEN kept ELSE sent]
  BY DEF segment_send, Built
<1>3. After(o.n, n, h, g) /\ o.rc \in {0, -1}
  BY <1>1, <1>2, ConnSendFacts
<1>4. /\ sent \in CtcpState /\ sent.seqno >= s.seqno
      /\ sent.ackno = s.ackno /\ sent.conn_state = s.conn_state
      /\ sent.received_segment = s.received_segment
      /\ sent.sent_segment_attr = s.sent_segment_attr
  BY <1>1 DEF CtcpState
<1> DEFINE attr == [segment |-> g, time |-> 0, no_of_times |-> 0]
<1>5. attr \in SegmentAttr /\ attr.segment = g /\ attr # NULL
  BY <1>1, NullAssumption DEF SegmentAttr
<1>6. kept = [sent EXCEPT !.sent_segment_attr = attr]
  BY DEF save_sent_segment
<1> HIDE DEF g, adv, sent, kept, attr
<1>7. /\ kept \in CtcpState /\ kept.seqno = sent.seqno
      /\ kept.ackno = sent.ackno /\ kept.conn_state = sent.conn_state
      /\ kept.received_segment = sent.received_segment
      /\ kept.sent_segment_attr = attr
  BY <1>4, <1>5, <1>6 DEF CtcpState, MaybeAttr
<1>8. Kept(sent) = Kept(s) /\ Kept(kept) = {g}
  BY <1>4, <1>5, <1>7 DEF Kept
<1>9. o.s = s \/ o.s = sent \/ o.s = kept
  BY <1>2
<1> QED  BY <1>1, <1>3, <1>4, <1>7, <1>8, <1>9 DEF g

-----------------------------------------------------------------------------
(* A handler of h returns s, c and n.  A data segment it adds is the next   *)
(* piece of input under the next sequence number.                           *)
Fresh(h, g, c) == /\ g.seqno = state[h].seqno
                  /\ g.pos = conn[h].nread + 1
                  /\ End(g) <= c.nread + 1

AddsOnlyFresh(h, s, c, n) ==
  /\ s.seqno >= state[h].seqno /\ c.nread >= conn[h].nread
  /\ \A g \in InNet(n, Peer(h)) \cup Kept(s) :
       IsData(g) => g \in Data(Peer(h)) \/ Fresh(h, g, c)
  /\ InNet(n, h) \subseteq InNet(net, h)
  /\ Waiting(s) \subseteq Data(h)

(* It prints nothing, and lets nothing older pass than before ...           *)
PrintsNothing(h, s, c) ==
  /\ c.out = conn[h].out
  /\ s.conn_state = "DATA_TRANSFER" =>
       state[h].conn_state = "DATA_TRANSFER" /\ s.ackno >= state[h].ackno
  /\ \A g \in Waiting(s) : Beyond(g, conn[h].out)

(* ... or moves ackno past a segment beyond all that was printed, which it  *)
(* prints unless stdout has had its end of file.                            *)
PrintsNext(h, s, c) ==
  \E r \in Data(h) : /\ Beyond(r, conn[h].out)
                     /\ c.out \in {conn[h].out, Append(conn[h].out, DataOf(r))}
                     /\ s.ackno = r.seqno + r.len
                     /\ Waiting(s) = {}

Prints(h, s, c) ==
  \/ c.tainted
  \/ ~conn[h].tainted /\ (PrintsNothing(h, s, c) \/ PrintsNext(h, s, c))

(* The step of one handler with these effects preserves the invariant.      *)
LEMMA HandlerStep ==
  ASSUME StreamInv, NEW h \in Host,
         NEW s \in CtcpState, NEW c \in Conn, NEW n \in Net,
         Return(h, s, c, n), AddsOnlyFresh(h, s, c, n), Prints(h, s, c)
  PROVE  StreamInv'
<1> DEFINE p == Peer(h)
<1>1. p \in Host /\ p # h /\ Peer(p) = h /\ Host = {h, p}
  BY HostAssumption DEF Peer, Host
<1>2. TypeOK /\ state \in [Host -> CtcpState] /\ conn \in [Host -> Conn] /\ net \in Net
  BY DEF StreamInv, TypeOK
<1>3. /\ state'[h] = s /\ conn'[h] = c /\ net' = n
      /\ state'[p] = state[p] /\ conn'[p] = conn[p]
  BY <1>1, <1>2 DEF Return
<1>4. TypeOK'
  BY <1>2 DEF Return, TypeOK
<1>5. /\ Data(h) \subseteq Segment /\ Data(p) \subseteq Segment
      /\ Data(h)' \subseteq Segment /\ Data(p)' \subseteq Segment
  <2>1. Data(h) \subseteq Segment /\ Data(p) \subseteq Segment
    BY <1>1, <1>2, DataIsTyped
  <2>2. InNet(n, h) \subseteq Segment /\ InNet(n, p) \subseteq Segment
    BY <1>1, SegmentsAreTyped
  <2>3. \A t \in CtcpState : Kept(t) \subseteq Segment /\ Waiting(t) \subseteq Segment
    BY SegmentsAreTyped
  <2>4. state'[h] \in CtcpState /\ state'[p] \in CtcpState
    BY <1>1, <1>2, <1>3
  <2> QED  BY <1>1, <1>3, <2>1, <2>2, <2>3, <2>4 DEF Data
<1>6. Data(h)' \subseteq Data(h)
  BY <1>1, <1>3 DEF Data, AddsOnlyFresh
<1>7. \A g \in Data(p)' : IsData(g) /\ (g \in Data(p) \/ Fresh(h, g, c))
  BY <1>1, <1>3 DEF Data, AddsOnlyFresh
<1>8. /\ state[h].seqno \in Nat /\ s.seqno \in Nat /\ s.seqno >= state[h].seqno
      /\ conn[h].nread \in Nat /\ c.nread \in Nat /\ c.nread >= conn[h].nread
      /\ state[p].ackno \in Nat /\ s.ackno \in Nat /\ state[h].ackno \in Nat
      /\ conn[p].nread \in Nat
      /\ conn[h].out \in Pieces /\ conn[p].out \in Pieces /\ c.out \in Pieces
  BY <1>1, <1>2 DEF AddsOnlyFresh, CtcpState, Conn
<1> HIDE DEF p
<1>9. \A g \in Segment : g.seqno \in Nat /\ g.pos \in Nat /\ g.len \in Nat /\ End(g) = g.pos + g.len
  BY DEF Segment, End
<1>10. DataWasRead'
  <2>1. ASSUME NEW g \in Data(h)'
        PROVE  g.seqno <= state[p].seqno /\ g.pos >= 1 /\ End(g) <= conn[p].nread + 1
    BY <1>1, <1>6 DEF StreamInv, DataWasRead, p
  <2>2. ASSUME NEW g \in Data(p)'
        PROVE  g.seqno <= s.seqno /\ g.pos >= 1 /\ End(g) <= c.nread + 1
    <3>1. CASE g \in Data(p)
      <4>1. g.seqno <= state[h].seqno /\ g.pos >= 1 /\ End(g) <= conn[h].nread + 1
        BY <1>1, <3>1 DEF StreamInv, DataWasRead
      <4> QED  BY <1>5, <1>8, <1>9, <4>1
    <3>2. CASE Fresh(h, g, c)
      BY <1>5, <1>8, <1>9, <3>2 DEF Fresh
    <3> QED  BY <1>7, <3>1, <3>2
  <2> QED  BY <1>1, <1>3, <2>1, <2>2 DEF DataWasRead, p
<1>11. SeqnoOrdersData'
  <2>1. ASSUME NEW g1 \in Data(h)', NEW g2 \in Data(h)', g1.seqno + g1.len <= g2.seqno
        PROVE  End(g1) <= g2.pos
    BY <1>1, <1>6, <2>1 DEF StreamInv, SeqnoOrdersData
  <2>2. ASSUME NEW g1 \in Data(p)', NEW g2 \in Data(p)', g1.seqno + g1.len <= g2.seqno
        PROVE  End(g1) <= g2.pos
    <3>1. g1.len > 0 /\ g1 \in Segment /\ g2 \in Segment
      BY <1>5, <1>7 DEF IsData
    <3>2. \A g \in Data(p) : g.seqno <= state[h].seqno /\ End(g) <= conn[h].nread + 1
      BY <1>1 DEF StreamInv, DataWasRead
    <3>3. g2.seqno <= state[h].seqno
      BY <1>5, <1>7, <1>8, <1>9, <3>2 DEF Fresh
    <3>4. g1 \in Data(p)
      <4>1. ASSUME Fresh(h, g1, c)  PROVE FALSE
        BY <1>8, <1>9, <2>2, <3>1, <3>3, <4>1 DEF Fresh
      <4> QED  BY <1>7, <4>1
    <3>5. CASE g2 \in Data(p)
      BY <1>1, <2>2, <3>4, <3>5 DEF StreamInv, SeqnoOrdersData
    <3>6. CASE Fresh(h, g2, c)
      BY <3>2, <3>4, <3>6 DEF Fresh
    <3> QED  BY <1>7, <3>5, <3>6
  <2> QED  BY <1>1, <2>1, <2>2 DEF SeqnoOrdersData
<1>12. \A r \in Data(h) :
         Beyond(r, conn[h].out) /\ c.out \in {conn[h].out, Append(conn[h].out, DataOf(r))}
           => \A g \in Segment : End(r) <= g.pos => Beyond(g, c.out)
  <2> SUFFICES ASSUME NEW r \in Data(h), Beyond(r, conn[h].out),
                      c.out \in {conn[h].out, Append(conn[h].out, DataOf(r))},
                      NEW g \in Segment, End(r) <= g.pos,
                      NEW i \in DOMAIN c.out
               PROVE  End(c.out[i]) <= g.pos
    BY DEF Beyond
  <2>1. /\ r.pos \in Nat /\ r.len \in Nat /\ g.pos \in Nat /\ End(r) = r.pos + r.len
        /\ End(DataOf(r)) = End(r)
    BY <1>5, <1>9 DEF DataOf, End
  <2>2. conn[h].out \in Seq(Piece)
    BY <1>8 DEF Pieces
  <2>3. ASSUME NEW j \in DOMAIN conn[h].out  PROVE End(conn[h].out[j]) <= g.pos
    <3>1. conn[h].out[j] \in Piece
      BY <2>2
    <3>2. End(conn[h].out[j]) <= r.pos /\ End(conn[h].out[j]) \in Nat
      BY <3>1 DEF Beyond, End, Piece
    <3> QED  BY <2>1, <3>2
  <2>4. CASE c.out = conn[h].out
    BY <2>3, <2>4
  <2>5. CASE c.out = Append(conn[h].out, DataOf(r))
    <3>1. c.out[i] = DataOf(r) \/ (i \in DOMAIN conn[h].out /\ c.out[i] = conn[h].out[i])
      BY <2>2, <2>5
    <3> QED  BY <2>1, <2>3, <3>1
  <2> QED  BY <2>4, <2>5
<1>13. AcknoGuards'
  <2>1. ASSUME ~conn[p].tainted, state[p].conn_state = "DATA_TRANSFER",
               NEW g \in Data(p)', g.seqno >= state[p].ackno
        PROVE  Beyond(g, conn[p].out)
    <3>1. CASE g \in Data(p)
      BY <1>1, <2>1, <3>1 DEF StreamInv, AcknoGuards
    <3>2. CASE Fresh(h, g, c)
      BY <1>1, <2>1, <3>2 DEF StreamInv, InOrderOnce, InOrder, Beyond, Fresh
    <3> QED  BY <1>7, <3>1, <3>2
  <2>2. ASSUME ~c.tainted, s.conn_state = "DATA_TRANSFER",
               NEW g \in Data(h)', g.seqno >= s.ackno
        PROVE  Beyond(g, c.out)
    <3>1. CASE PrintsNothing(h, s, c)
      <4>1. g.seqno >= state[h].ackno /\ state[h].conn_state = "DATA_TRANSFER"
        BY <1>5, <1>8, <1>9, <2>2, <3>1 DEF PrintsNothing
      <4>2. ~conn[h].tainted /\ c.out = conn[h].out
        BY <2>2, <3>1 DEF Prints, PrintsNothing
      <4> QED  BY <1>6, <4>1, <4>2 DEF StreamInv, AcknoGuards
    <3>2. CASE PrintsNext(h, s, c)
      <4>1. PICK r \in Data(h) : /\ Beyond(r, conn[h].out)
                                 /\ c.out \in {conn[h].out, Append(conn[h].out, DataOf(r))}
                                 /\ s.ackno = r.seqno + r.len
        BY <3>2 DEF PrintsNext
      <4>2. End(r) <= g.pos
        BY <1>6, <2>2, <4>1 DEF StreamInv, SeqnoOrdersData
      <4> QED  BY <1>5, <1>12, <4>1, <4>2
    <3> QED  BY <2>2, <3>1, <3>2 DEF Prints
  <2> QED  BY <1>1, <1>3, <2>1, <2>2 DEF AcknoGuards
<1>14. WaitingIsNew'
  <2>1. ASSUME NEW g \in Waiting(s)
        PROVE  IsData(g) /\ (~c.tainted => Beyond(g, c.out))
    <3>1. IsData(g)
      BY DEF AddsOnlyFresh, Data
    <3>2. ASSUME ~c.tainted PROVE Beyond(g, c.out)
      BY <3>2 DEF Prints, PrintsNothing, PrintsNext
    <3> QED  BY <3>1, <3>2
  <2> QED  BY <1>1, <1>3, <2>1 DEF StreamInv, WaitingIsNew
<1>15. InOrderOnce'
  <2>1. ASSUME ~conn[p].tainted
        PROVE  InOrder(conn[p].out, c.nread)
    <3>1. \A i \in DOMAIN conn[p].out : conn[p].out[i] \in Piece /\ End(conn[p].out[i]) \in Nat
      <4>1. \A i \in DOMAIN conn[p].out : conn[p].out[i] \in Piece
        BY <1>8 DEF Pieces
      <4> QED  BY <4>1 DEF Piece, End
    <3>2. \A i \in DOMAIN conn[p].out : conn[p].out[i].pos >= 1
                                        /\ End(conn[p].out[i]) <= conn[h].nread + 1
      BY <1>1, <2>1 DEF StreamInv, InOrderOnce, InOrder
    <3>3. \A i \in DOMAIN conn[p].out : End(conn[p].out[i]) <= c.nread + 1
      BY <1>8, <3>1, <3>2
    <3> QED  BY <1>1, <2>1, <3>2, <3>3 DEF StreamInv, InOrderOnce, InOrder
  <2>2. ASSUME ~c.tainted
        PROVE  InOrder(c.out, conn[p].nread)
    <3>1. ~conn[h].tainted
      BY <2>2 DEF Prints
    <3>2. /\ \A i \in DOMAIN conn[h].out : conn[h].out[i].pos >= 1
                                   /\ End(conn[h].out[i]) <= conn[p].nread + 1
          /\ \A i, j \in DOMAIN conn[h].out :
               i < j => End(conn[h].out[i]) <= conn[h].out[j].pos
      BY <3>1 DEF StreamInv, InOrderOnce, InOrder, p
    <3>3. CASE PrintsNothing(h, s, c)
      BY <3>2, <3>3 DEF PrintsNothing, InOrder
    <3>4. CASE PrintsNext(h, s, c)
      <4>0. CASE c.out = conn[h].out
        BY <3>2, <4>0 DEF InOrder
      <4> SUFFICES ASSUME c.out # conn[h].out  PROVE InOrder(c.out, conn[p].nread)
        BY <4>0
      <4>1. PICK r \in Data(h) : /\ Beyond(r, conn[h].out)
                                 /\ c.out = Append(conn[h].out, DataOf(r))
        BY <3>4 DEF PrintsNext
      <4>2. r.pos >= 1 /\ End(r) <= conn[p].nread + 1
        BY DEF StreamInv, DataWasRead, p
      <4>3. DataOf(r).pos = r.pos /\ End(DataOf(r)) = End(r)
        BY DEF DataOf, End
      <4>4. conn[h].out \in Seq(Piece)
        BY <1>8 DEF Pieces
      <4> HIDE DEF Prints
      <4>5. /\ DOMAIN c.out = DOMAIN conn[h].out \cup {Len(conn[h].out) + 1}
            /\ \A i \in DOMAIN conn[h].out : c.out[i] = conn[h].out[i] /\ i < Len(conn[h].out) + 1
            /\ c.out[Len(conn[h].out) + 1] = DataOf(r)
            /\ \A i, j \in DOMAIN c.out : i < j => i \in DOMAIN conn[h].out
        BY <4>1, <4>4
      <4> QED  BY <3>2, <4>1, <4>2, <4>3, <4>5 DEF Beyond, InOrder
    <3> QED  BY <2>2, <3>3, <3>4 DEF Prints
  <2> QED  BY <1>1, <1>3, <2>1, <2>2 DEF InOrderOnce, p
<1> QED  BY <1>4, <1>10, <1>11, <1>13, <1>14, <1>15 DEF StreamInv

-----------------------------------------------------------------------------
(* The record and the network of a handler of h in which no data segment    *)
(* has been added so far.                                                   *)
NoNewData(h, s, n) ==
  /\ s \in CtcpState /\ n \in Net
  /\ s.seqno >= state[h].seqno
  /\ \A g \in InNet(n, Peer(h)) \cup Kept(s) : IsData(g) => g \in Data(Peer(h))
  /\ InNet(n, h) \subseteq InNet(net, h)

(* A host's parts of a typed state.                                         *)
LEMMA HostParts ==
  ASSUME StreamInv, NEW h \in Host
  PROVE  /\ state[h] \in CtcpState /\ conn[h] \in Conn /\ net \in Net
         /\ net.wire[h] \in Seq(Segment)
         /\ Waiting(state[h]) \subseteq Data(h)
         /\ \A g \in Waiting(state[h]) : ~conn[h].tainted => Beyond(g, conn[h].out)
<1>1. state[h] \in CtcpState /\ conn[h] \in Conn /\ net \in Net
  BY DEF StreamInv, TypeOK
<1>2. net.wire[h] \in Seq(Segment)
  BY <1>1 DEF Net, Wires
<1>3. \A g \in Waiting(state[h]) :
        IsData(g) /\ (~conn[h].tainted => Beyond(g, conn[h].out))
  BY DEF StreamInv, WaitingIsNew
<1> QED  BY <1>1, <1>2, <1>3 DEF Data

(* Where a handler starts: with the network as it is, without the segment   *)
(* just received, or with the socket gone.                                  *)
LEMMA HandlerStarts ==
  ASSUME StreamInv, NEW h \in Host
  PROVE  NoNewData(h, state[h], net)
<1>1. Peer(h) \in Host /\ Peer(Peer(h)) = h
  BY PeerFacts
<1>2. state[h] \in CtcpState /\ net \in Net /\ state[h].seqno \in Nat
  BY HostParts DEF CtcpState
<1> QED  BY <1>1, <1>2 DEF NoNewData, Data

(* Taking segments out of the socket of h adds no data.                     *)
LEMMA ShorterWire ==
  ASSUME NEW h \in Host, NEW s, NEW n, NoNewData(h, s, n), NEW q \in Seq(Segment),
         Range(q) \subseteq Range(n.wire[h])
  PROVE  NoNewData(h, s, [n EXCEPT !.wire[h] = q])
<1> DEFINE m == [n EXCEPT !.wire[h] = q]
<1>1. n \in Net /\ Peer(h) \in Host /\ Peer(h) # h
  BY PeerFacts DEF NoNewData
<1>2. [n.wire EXCEPT ![h] = q] \in Wires
  BY <1>1 DEF Net, Wires
<1>3. m \in Net
  BY <1>1, <1>2 DEF Net
<1>4. m.wire[h] = q /\ m.wire[Peer(h)] = n.wire[Peer(h)] /\ m.forked = n.forked
  BY <1>1 DEF Net, Wires
<1>5. InNet(m, Peer(h)) = InNet(n, Peer(h)) /\ InNet(m, h) \subseteq InNet(n, h)
  BY <1>4 DEF InNet
<1> QED  BY <1>3, <1>5 DEF NoNewData

(* An assignment that keeps no segment it did not keep before.              *)
LEMMA KeepsLess ==
  ASSUME NEW h \in Host, NEW s, NEW n, NoNewData(h, s, n), NEW t \in CtcpState,
         t.seqno = s.seqno, Kept(t) \subseteq Kept(s)
  PROVE  NoNewData(h, t, n)
  BY DEF NoNewData

(* Sending an ACK or a FIN adds no data.                                    *)
LEMMA ControlSend ==
  ASSUME NEW h \in Host, NEW s, NEW n, NoNewData(h, s, n), NEW flags \in Flags,
         StreamInv, NEW o \in segment_send(h, s, n, flags, 0, 0)
  PROVE  /\ NoNewData(h, o.s, o.n)
         /\ o.s.ackno = s.ackno /\ o.s.conn_state = s.conn_state
         /\ o.s.received_segment = s.received_segment
<1> DEFINE g == Built(s, flags, 0, 0)
<1>1. ~IsData(g)
  BY DEF Built, IsData
<1>2. s \in CtcpState /\ n \in Net /\ s.seqno \in Nat /\ state[h].seqno \in Nat
  BY HostParts DEF NoNewData, CtcpState
<1>3. /\ o.s \in CtcpState /\ After(o.n, n, h, g)
      /\ o.s.seqno >= s.seqno /\ o.s.seqno \in Nat /\ o.s.ackno = s.ackno
      /\ o.s.conn_state = s.conn_state
      /\ o.s.received_segment = s.received_segment
      /\ Kept(o.s) \subseteq Kept(s) \cup {g}
  BY <1>2, SegmentSendFacts DEF CtcpState
<1> HIDE DEF g
<1>4. o.s.seqno >= state[h].seqno
  BY <1>2, <1>3 DEF NoNewData
<1>5. \A x \in InNet(o.n, Peer(h)) \cup Kept(o.s) : IsData(x) =>
        x \in InNet(n, Peer(h)) \cup Kept(s)
  BY <1>1, <1>3 DEF After, IsData
<1> QED  BY <1>3, <1>4, <1>5 DEF NoNewData, After

-----------------------------------------------------------------------------
(* A handler's connection object on which nothing has been printed yet.     *)
SameOutput(h, c) == /\ c \in Conn /\ c.nread = conn[h].nread
                    /\ c.out = conn[h].out /\ c.tainted = conn[h].tainted

(* A handler's record that lets nothing pass that was not let pass before.  *)
NotLaxer(h, s) ==
  /\ Waiting(s) \subseteq Waiting(state[h])
  /\ s.conn_state = "DATA_TRANSFER" =>
       state[h].conn_state = "DATA_TRANSFER" /\ s.ackno >= state[h].ackno

(* Handlers that print nothing and send no data preserve the invariant,     *)
(* whether their process survives or not.                                   *)
LEMMA QuietReturn ==
  ASSUME StreamInv, NEW h \in Host, NEW s, NEW c, NEW n,
         NoNewData(h, s, n), SameOutput(h, c), NotLaxer(h, s), Return(h, s, c, n)
  PROVE  StreamInv'
<1>1. s \in CtcpState /\ n \in Net /\ c \in Conn
  BY DEF NoNewData, SameOutput
<1>2. conn[h].nread \in Nat /\ Waiting(state[h]) \subseteq Data(h)
  BY HostParts DEF Conn
<1>3. AddsOnlyFresh(h, s, c, n)
  BY <1>2 DEF AddsOnlyFresh, NoNewData, SameOutput, NotLaxer
<1>4. ~conn[h].tainted => PrintsNothing(h, s, c)
  BY HostParts DEF PrintsNothing, NotLaxer, SameOutput
<1>5. conn[h].tainted => c.tainted
  BY DEF SameOutput
<1>6. Prints(h, s, c)
  BY <1>4, <1>5 DEF Prints
<1> QED  BY <1>1, <1>3, <1>6, HandlerStep

(* The same when the process of h is gone, and its socket with it.          *)
LEMMA QuietGone ==
  ASSUME StreamInv, NEW h \in Host, NEW s, NEW c, NEW n, NEW status \in Status,
         NoNewData(h, s, n), SameOutput(h, c), NotLaxer(h, s),
         Gone(h, s, c, n, status)
  PROVE  StreamInv'
<1>0. <<>> \in Seq(Segment) /\ Range(<<>>) = {}
  BY DEF Range
<1>1. NoNewData(h, s, [n EXCEPT !.wire[h] = <<>>])
  BY <1>0, ShorterWire
<1>2. SameOutput(h, [c EXCEPT !.status = status])
  BY DEF SameOutput, Conn
<1> QED  BY <1>1, <1>2, QuietReturn DEF Gone

(* The same when the handler ends in ctcp_destroy().                        *)
LEMMA QuietDestroy ==
  ASSUME StreamInv, NEW h \in Host, NEW s, NEW c, NEW n,
         NoNewData(h, s, n), SameOutput(h, c), NotLaxer(h, s), ctcp_destroy(h, s, c, n)
  PROVE  StreamInv'
<1>1. {"exited", "removed"} \subseteq Status
  BY DEF Status
<1>2. CASE h = Client
  BY <1>1, <1>2, QuietGone DEF ctcp_destroy
<1>3. CASE h # Client
  <2>1. SameOutput(h, [c EXCEPT !.status = "removed"])
    BY <1>1 DEF SameOutput, Conn
  <2>2. Return(h, s, [c EXCEPT !.status = "removed"], n)
    BY <1>3 DEF ctcp_destroy
  <2> QED  BY <2>1, <2>2, QuietReturn
<1> QED  BY <1>2, <1>3

(* conn_output() accepts the piece, or nothing.                             *)
LEMMA ConnOutputFacts ==
  ASSUME NEW c \in Conn, NEW piece \in Piece, NEW w \in conn_output(c, piece)
  PROVE  /\ w.c \in Conn /\ w.c.nread = c.nread /\ w.c.tainted = c.tainted
         /\ w.c.read_eof = c.read_eof
         /\ w.c.out \in {c.out, Append(c.out, piece)}
         /\ w.rc < 0 => w.c.out = c.out
<1>1. piece.len \in Nat /\ c.out \in Seq(Piece) /\ c.out_queue \in Seq(Nat)
  BY DEF Conn, Piece, Pieces, Chunks
<1>2. CASE w = [rc |-> 0, c |-> c] \/ w = [rc |-> -1, c |-> c]
  BY <1>2
<1>3. CASE w = [rc |-> -1, c |-> [c EXCEPT !.wrote_err = TRUE]]
  BY <1>3 DEF Conn
<1>4. ASSUME NEW k \in 0..piece.len,
             w = [rc |-> piece.len, c |->
                   [c EXCEPT !.out = Append(@, piece),
                             !.out_queue = IF k < piece.len
                                           THEN Append(@, piece.len - k) ELSE @,
                             !.pollout = @ \/ c.out_queue # <<>> \/ k < piece.len]]
      PROVE  /\ w.c \in Conn /\ w.c.nread = c.nread /\ w.c.tainted = c.tainted
             /\ w.c.read_eof = c.read_eof
             /\ w.c.out = Append(c.out, piece) /\ ~(w.rc < 0)
  <2> DEFINE q == IF k < piece.len THEN Append(c.out_queue, piece.len - k)
                  ELSE c.out_queue
  <2> DEFINE armed == c.pollout \/ c.out_queue # <<>> \/ k < piece.len
  <2>1. q \in Chunks /\ Append(c.out, piece) \in Pieces
    BY <1>1 DEF Chunks, Pieces
  <2>2. armed \in BOOLEAN
    BY DEF Conn
  <2>3. w.c = [c EXCEPT !.out = Append(c.out, piece), !.out_queue = q, !.pollout = armed]
    BY <1>4
  <2> HIDE DEF q, armed
  <2>4. /\ w.c \in Conn /\ w.c.nread = c.nread /\ w.c.tainted = c.tainted
        /\ w.c.read_eof = c.read_eof
        /\ w.c.out = Append(c.out, piece)
    BY <2>1, <2>2, <2>3 DEF Conn
  <2> QED  BY <1>1, <1>4, <2>4
<1>5. \A k \in (IF c.out_queue = <<>> THEN Written(piece.len) ELSE {0}) : k \in 0..piece.len
  BY <1>1 DEF Written
<1>6. \/ w = [rc |-> 0, c |-> c] \/ w = [rc |-> -1, c |-> c]
      \/ w = [rc |-> -1, c |-> [c EXCEPT !.wrote_err = TRUE]]
      \/ \E k \in 0..piece.len :
           w = [rc |-> piece.len, c |->
                   [c EXCEPT !.out = Append(@, piece),
                             !.out_queue = IF k < piece.len
                                           THEN Append(@, piece.len - k) ELSE @,
                             !.pollout = @ \/ c.out_queue # <<>> \/ k < piece.len]]
  BY <1>5 DEF conn_output, When
<1> QED  BY <1>2, <1>3, <1>4, <1>6

(* ctcp_output() of a data segment beyond all that was printed.             *)
LEMMA OutputStep ==
  ASSUME StreamInv, NEW h \in Host, NEW s, NEW c, NEW n,
         NoNewData(h, s, n), SameOutput(h, c),
         s.ackno = state[h].ackno, s.conn_state = state[h].conn_state,
         s.received_segment \in Data(h), s.received_segment # NULL,
         ~conn[h].tainted => Beyond(s.received_segment, conn[h].out),
         ctcp_output(h, s, c, n)
  PROVE  StreamInv'
<1> DEFINE r == s.received_segment
<1>1. /\ s \in CtcpState /\ n \in Net /\ c \in Conn /\ r \in Segment
      /\ r.seqno \in Nat /\ r.len \in Nat /\ r.pos \in Nat
      /\ state[h].ackno \in Nat /\ conn[h].nread \in Nat
  <2>1. r \in Segment
    BY DataIsTyped DEF StreamInv
  <2> QED  BY <2>1, HostParts DEF NoNewData, SameOutput, Segment, CtcpState, Conn
<1>2. Waiting(s) = {r}
  BY DEF Waiting
<1>3. ASSUME NEW t, NEW m, NoNewData(h, t, m), NEW d, SameOutput(h, d),
             Waiting(t) \subseteq {r}, t.ackno = s.ackno, t.conn_state = s.conn_state
      PROVE  AddsOnlyFresh(h, t, d, m) /\ Prints(h, t, d)
  <2>1. AddsOnlyFresh(h, t, d, m)
    BY <1>1, <1>3 DEF AddsOnlyFresh, NoNewData, SameOutput
  <2>2. ~conn[h].tainted => PrintsNothing(h, t, d)
    BY <1>1, <1>3 DEF PrintsNothing, SameOutput
  <2>3. conn[h].tainted => d.tainted
    BY <1>3 DEF SameOutput
  <2> QED  BY <2>1, <2>2, <2>3 DEF Prints
<1>4. CASE OutputWaits(h, s, c, n)
  <2> DEFINE t == [s EXCEPT !.received_segment = NULL]
  <2>1. t \in CtcpState /\ t.seqno = s.seqno /\ Kept(t) = Kept(s) /\ Waiting(t) = {}
        /\ t.ackno = s.ackno /\ t.conn_state = s.conn_state
    BY <1>1 DEF CtcpState, MaybeSegment, Kept, Waiting
  <2>2. NoNewData(h, t, n)
    BY <2>1, KeepsLess
  <2> HIDE DEF t
  <2>3. Return(h, s, c, n) \/ Return(h, t, c, n)
    BY <1>4 DEF OutputWaits, t
  <2>4. CASE Return(h, s, c, n)
    <3>1. AddsOnlyFresh(h, s, c, n) /\ Prints(h, s, c)
      BY <1>2, <1>3
    <3> QED  BY <1>1, <2>4, <3>1, HandlerStep
  <2>5. CASE Return(h, t, c, n)
    <3>1. AddsOnlyFresh(h, t, c, n) /\ Prints(h, t, c)
      BY <1>3, <2>1, <2>2
    <3> QED  BY <1>1, <2>1, <2>5, <3>1, HandlerStep
  <2> QED  BY <2>3, <2>4, <2>5
<1>5. CASE OutputData(h, s, c, n)
  <2>1. PICK w \in conn_output(c, DataOf(r)) :
          \/ w.rc < 0 /\ ctcp_destroy(h, s, w.c, n)
          \/ /\ w.rc >= 0
             /\ \E o \in send_ack(h, [s EXCEPT !.ackno = r.seqno + r.len], n) :
                  Return(h, [destroy_acked_segment(o.s) EXCEPT
                               !.received_segment = NULL], w.c, o.n)
    BY <1>5 DEF OutputData, AfterData
  <2>2. DataOf(r) \in Piece
    BY <1>1 DEF DataOf, Piece
  <2>3. /\ w.c \in Conn /\ w.c.nread = c.nread /\ w.c.tainted = c.tainted
        /\ w.c.out \in {c.out, Append(c.out, DataOf(r))}
        /\ w.rc < 0 => w.c.out = c.out
    BY <1>1, <2>2, ConnOutputFacts
  <2>4. CASE w.rc < 0 /\ ctcp_destroy(h, s, w.c, n)
    <3>1. SameOutput(h, w.c)
      BY <2>3, <2>4 DEF SameOutput
    <3>2. CASE h = Client
      <4> DEFINE d == [w.c EXCEPT !.status = "exited"]
      <4> DEFINE m == [n EXCEPT !.wire[h] = <<>>]
      <4>1. SameOutput(h, d)
        BY <3>1 DEF SameOutput, Conn, Status
      <4>2. <<>> \in Seq(Segment) /\ Range(<<>>) = {}
        BY DEF Range
      <4>3. NoNewData(h, s, m)
        BY <4>2, ShorterWire
      <4>4. Return(h, s, d, m)
        BY <2>4, <3>2 DEF ctcp_destroy, Gone
      <4> HIDE DEF d, m
      <4>5. AddsOnlyFresh(h, s, d, m) /\ Prints(h, s, d)
        BY <1>2, <1>3, <4>1, <4>3
      <4>6. d \in Conn /\ m \in Net
        BY <4>1, <4>3 DEF SameOutput, NoNewData
      <4> QED  BY <1>1, <4>4, <4>5, <4>6, HandlerStep
    <3>3. CASE h # Client
      <4> DEFINE d == [w.c EXCEPT !.status = "removed"]
      <4>1. SameOutput(h, d)
        BY <3>1 DEF SameOutput, Conn, Status
      <4>2. Return(h, s, d, n)
        BY <2>4, <3>3 DEF ctcp_destroy
      <4> HIDE DEF d
      <4>3. AddsOnlyFresh(h, s, d, n) /\ Prints(h, s, d)
        BY <1>2, <1>3, <4>1
      <4> QED  BY <1>1, <4>1, <4>2, <4>3, HandlerStep DEF SameOutput
    <3> QED  BY <3>2, <3>3
  <2>5. CASE \E o \in send_ack(h, [s EXCEPT !.ackno = r.seqno + r.len], n) :
               Return(h, [destroy_acked_segment(o.s) EXCEPT
                            !.received_segment = NULL], w.c, o.n)
    <3> DEFINE a == [s EXCEPT !.ackno = r.seqno + r.len]
    <3>1. r.seqno + r.len \in Nat
      BY <1>1
    <3>2. a \in CtcpState /\ a.seqno = s.seqno /\ Kept(a) = Kept(s)
          /\ a.ackno = r.seqno + r.len
      BY <1>1, <3>1 DEF CtcpState, Kept
    <3>3. NoNewData(h, a, n)
      BY <3>2, KeepsLess
    <3>4. PICK o \in send_ack(h, a, n) :
            Return(h, [destroy_acked_segment(o.s) EXCEPT
                         !.received_segment = NULL], w.c, o.n)
      BY <2>5
    <3> HIDE DEF a
    <3>5. {"ACK"} \in Flags
      BY DEF Flags
    <3>6. NoNewData(h, o.s, o.n) /\ o.s.ackno = a.ackno
      BY <3>3, <3>5, ControlSend DEF send_ack
    <3> DEFINE t == [destroy_acked_segment(o.s) EXCEPT !.received_segment = NULL]
    <3>7. /\ t \in CtcpState /\ t.seqno = o.s.seqno /\ t.ackno = o.s.ackno
          /\ Kept(t) = {} /\ Waiting(t) = {}
      BY <3>6 DEF NoNewData, destroy_acked_segment, CtcpState, MaybeSegment,
                  MaybeAttr, Kept, Waiting
    <3>8. NoNewData(h, t, o.n) /\ Return(h, t, w.c, o.n)
      BY <3>4, <3>6, <3>7, KeepsLess
    <3> HIDE DEF t
    <3>9. AddsOnlyFresh(h, t, w.c, o.n)
      BY <1>1, <2>3, <3>7, <3>8 DEF AddsOnlyFresh, NoNewData, SameOutput
    <3>10. ~conn[h].tainted => PrintsNext(h, t, w.c)
      BY <2>3, <3>2, <3>6, <3>7 DEF PrintsNext, SameOutput
    <3>11. conn[h].tainted => w.c.tainted
      BY <2>3 DEF SameOutput
    <3>12. Prints(h, t, w.c)
      BY <3>10, <3>11 DEF Prints
    <3> QED  BY <2>3, <3>7, <3>8, <3>9, <3>12, HandlerStep DEF NoNewData
  <2> QED  BY <2>1, <2>4, <2>5
<1> QED  BY <1>4, <1>5 DEF ctcp_output

-----------------------------------------------------------------------------
(* ctcp_read() of data: the segment is the next of the input.               *)
LEMMA ReadDataStep ==
  ASSUME StreamInv, NEW h \in Host, ReadData(h)
  PROVE  StreamInv'
<1>1. PICK i \in conn_input(h) :
        /\ i.rc >= 0
        /\ \E o \in segment_send(h, state[h], net, {"ACK"}, conn[h].nread + 1, i.rc) :
             Return(h, o.s, i.c, o.n)
  BY DEF ReadData
<1>2. PICK o \in segment_send(h, state[h], net, {"ACK"}, conn[h].nread + 1, i.rc) :
        Return(h, o.s, i.c, o.n)
  BY <1>1
<1>3. /\ state[h] \in CtcpState /\ conn[h] \in Conn /\ net \in Net
      /\ conn[h].nread \in Nat /\ state[h].ackno \in Nat /\ state[h].seqno \in Nat
      /\ Input[h] \in Nat
  BY HostParts, InputAssumption DEF Conn, CtcpState
<1>4. /\ i.c \in Conn /\ i.c.nread = conn[h].nread + i.rc /\ i.rc \in Nat
      /\ i.c.out = conn[h].out /\ i.c.tainted = conn[h].tainted
  <2>1. PICK len \in Nat : i = [rc |-> len, c |-> [conn[h] EXCEPT !.nread = @ + len]]
    BY <1>1, <1>3, SizeAssumption DEF conn_input
  <2> QED  BY <1>3, <2>1 DEF Conn
<1> DEFINE g == Built(state[h], {"ACK"}, conn[h].nread + 1, i.rc)
<1>5. {"ACK"} \in Flags /\ conn[h].nread + 1 \in Nat
  BY <1>3 DEF Flags
<1>6. /\ o.s \in CtcpState /\ After(o.n, net, h, g)
      /\ o.s.seqno >= state[h].seqno /\ o.s.ackno = state[h].ackno
      /\ o.s.conn_state = state[h].conn_state
      /\ o.s.received_segment = state[h].received_segment
      /\ Kept(o.s) \subseteq Kept(state[h]) \cup {g}
  BY <1>2, <1>3, <1>4, <1>5, SegmentSendFacts
<1>7. Fresh(h, g, i.c)
  BY <1>3, <1>4 DEF Fresh, Built, End
<1> HIDE DEF g
<1>8. NoNewData(h, state[h], net)
  BY HandlerStarts
<1>9. /\ Waiting(o.s) = Waiting(state[h]) /\ Waiting(state[h]) \subseteq Data(h)
      /\ \A x \in Waiting(state[h]) : ~conn[h].tainted => Beyond(x, conn[h].out)
  BY <1>6, HostParts DEF Waiting
<1>10. AddsOnlyFresh(h, o.s, i.c, o.n)
  <2>1. i.c.nread >= conn[h].nread
    BY <1>3, <1>4
  <2>2. ASSUME NEW x \in InNet(o.n, Peer(h)) \cup Kept(o.s), IsData(x)
        PROVE  x \in Data(Peer(h)) \/ Fresh(h, x, i.c)
    <3>1. x \in InNet(net, Peer(h)) \cup Kept(state[h]) \/ x = g
      BY <1>6, <2>2 DEF After, IsData
    <3> QED  BY <1>7, <1>8, <2>2, <3>1 DEF NoNewData
  <2> QED  BY <1>6, <1>9, <2>1, <2>2 DEF AddsOnlyFresh, After
<1>11. ~conn[h].tainted => PrintsNothing(h, o.s, i.c)
  BY <1>3, <1>4, <1>6, <1>9 DEF PrintsNothing
<1>12. Prints(h, o.s, i.c)
  BY <1>4, <1>11 DEF Prints
<1> QED  BY <1>2, <1>4, <1>6, <1>10, <1>12, HandlerStep DEF After

(* ctcp_read() of the end of file sends a FIN.                              *)
LEMMA ReadEofStep ==
  ASSUME StreamInv, NEW h \in Host, ReadEof(h)
  PROVE  StreamInv'
<1>1. PICK i \in conn_input(h) :
        /\ i.rc < 0
        /\ \E o \in send_fin(h, state[h], net) :
             Return(h, IF o.rc < 0 THEN o.s
                       ELSE [o.s EXCEPT !.conn_state = "TEAR_DOWN"], i.c, o.n)
  BY DEF ReadEof
<1>2. PICK o \in send_fin(h, state[h], net) :
        Return(h, IF o.rc < 0 THEN o.s
                  ELSE [o.s EXCEPT !.conn_state = "TEAR_DOWN"], i.c, o.n)
  BY <1>1
<1>3. /\ state[h] \in CtcpState /\ conn[h] \in Conn /\ conn[h].nread \in Nat
      /\ Input[h] \in Nat /\ state[h].ackno \in Nat
  BY HostParts, InputAssumption DEF Conn, CtcpState
<1>4. i = [rc |-> -1, c |-> [conn[h] EXCEPT !.read_eof = TRUE]]
  BY <1>1, <1>3, SizeAssumption DEF conn_input
<1>5. SameOutput(h, i.c)
  BY <1>3, <1>4 DEF SameOutput, Conn
<1>6. {"FIN"} \in Flags /\ NoNewData(h, state[h], net)
  BY HandlerStarts DEF Flags
<1>7. /\ NoNewData(h, o.s, o.n) /\ o.s.ackno = state[h].ackno
      /\ o.s.conn_state = state[h].conn_state
      /\ o.s.received_segment = state[h].received_segment
  BY <1>6, ControlSend DEF send_fin
<1> DEFINE t == [o.s EXCEPT !.conn_state = "TEAR_DOWN"]
<1>8. /\ t \in CtcpState /\ t.seqno = o.s.seqno /\ Kept(t) = Kept(o.s)
      /\ t.conn_state = "TEAR_DOWN" /\ Waiting(t) = Waiting(o.s)
  BY <1>7 DEF NoNewData, CtcpState, ConnState, Kept, Waiting
<1>9. NoNewData(h, t, o.n)
  BY <1>7, <1>8, KeepsLess
<1>10. NotLaxer(h, t) /\ NotLaxer(h, o.s)
  BY <1>3, <1>7, <1>8 DEF NotLaxer, Waiting
<1> QED  BY <1>2, <1>5, <1>7, <1>9, <1>10, QuietReturn

(* recv_filter() of a server that has removed the connection.               *)
LEMMA DiscardStep ==
  ASSUME StreamInv, NEW h \in Host, Discard(h)
  PROVE  StreamInv'
<1>1. net.wire[h] \in Seq(Segment) /\ net.wire[h] # <<>> /\ state[h].ackno \in Nat
  BY HostParts DEF Discard, CtcpState
<1>2. Tail(net.wire[h]) \in Seq(Segment) /\ Range(Tail(net.wire[h])) \subseteq Range(net.wire[h])
  BY <1>1 DEF Range
<1>3. NoNewData(h, state[h], [net EXCEPT !.wire[h] = Tail(@)])
  BY <1>2, HandlerStarts, ShorterWire
<1>4. SameOutput(h, conn[h]) /\ NotLaxer(h, state[h])
  BY <1>1, HostParts DEF SameOutput, NotLaxer
<1> QED  BY <1>3, <1>4, QuietReturn DEF Discard

(* A forked sender's segment was in the network already.                    *)
LEMMA ForkedSendStep ==
  ASSUME StreamInv, NEW f \in net.forked, ForkedSend(f)
  PROVE  StreamInv'
<1>1. net \in Net /\ f \in ForkedSender /\ f.to \in Host /\ f.segment \in Segment
  BY DEF StreamInv, TypeOK, Net, Forks, ForkedSender
<1> DEFINE h == Peer(f.to)
<1>2. h \in Host /\ Peer(h) = f.to /\ h # f.to
  BY <1>1, PeerFacts
<1> DEFINE m == [net EXCEPT !.forked = @ \ {f}]
<1>3. net.forked \ {f} \in Forks
  BY <1>1 DEF Net, Forks
<1>4. m \in Net /\ m.wire = net.wire /\ m.forked \subseteq net.forked
  BY <1>1, <1>3 DEF Net
<1>5. \A p \in Host : InNet(m, p) \subseteq InNet(net, p)
  BY <1>4 DEF InNet
<1>6. f.segment \in InNet(net, f.to)
  BY DEF InNet
<1> HIDE DEF h
<1>7. /\ net' \in Net
      /\ InNet(net', Peer(h)) \subseteq InNet(m, Peer(h)) \cup {f.segment}
      /\ InNet(net', h) \subseteq InNet(m, h)
  BY <1>1, <1>2, <1>4, SendPktFacts DEF ForkedSend
<1>8. NoNewData(h, state[h], net)
  BY <1>2, HandlerStarts
<1> DEFINE n == net'
<1> HIDE DEF m
<1>9. NoNewData(h, state[h], n)
  <2>1. InNet(n, Peer(h)) \subseteq InNet(net, Peer(h)) /\ InNet(n, h) \subseteq InNet(net, h)
    BY <1>1, <1>2, <1>5, <1>6, <1>7
  <2>2. n \in Net
    BY <1>7
  <2> HIDE DEF n
  <2> QED  BY <1>8, <2>1, <2>2 DEF NoNewData
<1>10. state \in [Host -> CtcpState] /\ conn \in [Host -> Conn] /\ state[h].ackno \in Nat
  BY <1>2, HostParts DEF StreamInv, TypeOK, CtcpState
<1>11. Return(h, state[h], conn[h], net')
  BY <1>2, <1>10 DEF ForkedSend, Return
<1>12. SameOutput(h, conn[h]) /\ NotLaxer(h, state[h])
  BY <1>2, <1>10 DEF SameOutput, NotLaxer
<1> QED  BY <1>2, <1>9, <1>11, <1>12, QuietReturn

(* ctcp_receive() of a datagram just taken from the socket, by conn_state.  *)
LEMMA ReceiveStep ==
  ASSUME StreamInv, NEW h \in Host, Receive(h)
  PROVE  StreamInv'
<1> DEFINE s == state[h]
<1> DEFINE g == Head(net.wire[h])
<1> DEFINE n == [net EXCEPT !.wire[h] = Tail(@)]
<1>1. /\ s \in CtcpState /\ s.ackno \in Nat
      /\ net.wire[h] \in Seq(Segment) /\ net.wire[h] # <<>>
  BY HostParts DEF Receive, CtcpState
<1>2. /\ Tail(net.wire[h]) \in Seq(Segment)
      /\ Range(Tail(net.wire[h])) \subseteq Range(net.wire[h])
      /\ g \in Segment /\ g \in Range(net.wire[h])
  BY <1>1 DEF Range
<1>3. NoNewData(h, s, n)
  BY <1>2, HandlerStarts, ShorterWire
<1>4. g \in InNet(net, h) /\ g.seqno \in Nat /\ g.len \in Nat
  BY <1>2 DEF InNet, Segment
<1>5. SameOutput(h, conn[h])
  BY HostParts DEF SameOutput
<1>6. {"ACK"} \in Flags /\ {"FIN"} \in Flags
  BY DEF Flags
<1>7. ctcp_receive(h, s, g, n)
  BY DEF Receive
<1> HIDE DEF s, g, n
<1>8. /\ \A t : t.conn_state # "DATA_TRANSFER" /\ t.received_segment = s.received_segment
             => NotLaxer(h, t)
      /\ NotLaxer(h, s)
  BY <1>1 DEF NotLaxer, Waiting, s
<1>9. CASE Return(h, s, conn[h], n)
  BY <1>3, <1>5, <1>8, <1>9, QuietReturn
(* An acknowledgement of a FIN, whatever follows it.                        *)
<1>10. ASSUME NEW a \in send_ack(h, [s EXCEPT !.ackno = g.seqno + 1], n)
       PROVE  /\ NoNewData(h, a.s, a.n) /\ a.s \in CtcpState
              /\ a.s.conn_state = s.conn_state
              /\ a.s.received_segment = s.received_segment
  <2> DEFINE t == [s EXCEPT !.ackno = g.seqno + 1]
  <2>1. g.seqno + 1 \in Nat
    BY <1>4
  <2>2. /\ t \in CtcpState /\ t.seqno = s.seqno /\ Kept(t) = Kept(s)
        /\ t.conn_state = s.conn_state /\ t.received_segment = s.received_segment
    BY <1>1, <2>1 DEF CtcpState, Kept
  <2>3. NoNewData(h, t, n)
    BY <1>3, <2>2, KeepsLess
  <2>4. a \in segment_send(h, t, n, {"ACK"}, 0, 0)
    BY <1>10 DEF send_ack
  <2> HIDE DEF t
  <2>5. /\ NoNewData(h, a.s, a.n) /\ a.s.conn_state = t.conn_state
        /\ a.s.received_segment = t.received_segment
    BY <1>6, <2>3, <2>4, ControlSend
  <2> QED  BY <2>2, <2>5 DEF NoNewData
<1>11. CASE is_segment_valid(g) /\ InDataTransfer(h, s, g, n)
  <2>1. CASE /\ g.seqno >= s.ackno
             /\ \E a \in send_ack(h, [s EXCEPT !.ackno = g.seqno + 1], n) :
                  \E f \in send_fin(h, a.s, a.n) :
                    Return(h, [f.s EXCEPT !.conn_state = "WAIT_LAST_ACK"],
                           output_eof(conn[h]), f.n)
    <3>0. PICK a \in send_ack(h, [s EXCEPT !.ackno = g.seqno + 1], n) :
            \E f \in send_fin(h, a.s, a.n) :
              Return(h, [f.s EXCEPT !.conn_state = "WAIT_LAST_ACK"],
                     output_eof(conn[h]), f.n)
      BY <2>1
    <3>1. PICK f \in send_fin(h, a.s, a.n) :
            Return(h, [f.s EXCEPT !.conn_state = "WAIT_LAST_ACK"],
                   output_eof(conn[h]), f.n)
      BY <3>0
    <3>2. /\ NoNewData(h, a.s, a.n) /\ a.s.received_segment = s.received_segment
      BY <1>10
    <3>3. f \in segment_send(h, a.s, a.n, {"FIN"}, 0, 0)
      BY DEF send_fin
    <3>4. NoNewData(h, f.s, f.n) /\ f.s.received_segment = s.received_segment
      BY <1>6, <3>2, <3>3, ControlSend
    <3> DEFINE t == [f.s EXCEPT !.conn_state = "WAIT_LAST_ACK"]
    <3>5. /\ t \in CtcpState /\ t.seqno = f.s.seqno /\ Kept(t) = Kept(f.s)
          /\ t.conn_state = "WAIT_LAST_ACK" /\ t.received_segment = s.received_segment
      BY <3>4 DEF NoNewData, CtcpState, ConnState, Kept
    <3>6. NoNewData(h, t, f.n)
      BY <3>4, <3>5, KeepsLess
    <3>7. SameOutput(h, output_eof(conn[h]))
      BY HostParts DEF SameOutput, output_eof, Conn
    <3>8. Return(h, t, output_eof(conn[h]), f.n)
      BY <3>1
    <3> HIDE DEF t
    <3>9. NotLaxer(h, t)
      BY <1>8, <3>5
    <3> QED  BY <3>6, <3>7, <3>8, <3>9, QuietReturn
  <2>2. CASE /\ g.seqno >= s.ackno
             /\ Return(h, destroy_acked_segment([s EXCEPT !.ackno = g.seqno]), conn[h], n)
    <3> DEFINE t == destroy_acked_segment([s EXCEPT !.ackno = g.seqno])
    <3>1. /\ t \in CtcpState /\ t.seqno = s.seqno /\ Kept(t) = {}
          /\ t.conn_state = s.conn_state /\ t.ackno = g.seqno /\ Waiting(t) = Waiting(s)
      BY <1>1, <1>4 DEF destroy_acked_segment, CtcpState, MaybeAttr, Kept, Waiting
    <3>2. Return(h, t, conn[h], n)
      BY <2>2
    <3> HIDE DEF t
    <3>3. NoNewData(h, t, n)
      BY <1>3, <3>1, KeepsLess
    <3>4. NotLaxer(h, t)
      BY <2>2, <3>1 DEF NotLaxer, s
    <3> QED  BY <1>5, <3>2, <3>3, <3>4, QuietReturn
  <2>3. CASE /\ g.seqno >= s.ackno /\ g.len > 0 /\ s.conn_state = "DATA_TRANSFER"
             /\ ctcp_output(h, [s EXCEPT !.received_segment = g], conn[h], n)
    <3> DEFINE t == [s EXCEPT !.received_segment = g]
    <3>1. /\ t \in CtcpState /\ t.seqno = s.seqno /\ Kept(t) = Kept(s)
          /\ t.conn_state = s.conn_state /\ t.ackno = s.ackno /\ t.received_segment = g
      BY <1>1, <1>2 DEF CtcpState, MaybeSegment, Kept
    <3>2. NoNewData(h, t, n)
      BY <1>3, <3>1, KeepsLess
    <3>3. g \in Data(h) /\ g # NULL
      BY <1>2, <1>4, <1>11, <2>3, NullAssumption DEF Data, IsData, is_segment_valid
    <3>4. ~conn[h].tainted => Beyond(g, conn[h].out)
      BY <2>3, <3>3 DEF StreamInv, AcknoGuards, s
    <3>5. ctcp_output(h, t, conn[h], n)
      BY <2>3
    <3> HIDE DEF t
    <3> QED  BY <1>5, <3>1, <3>2, <3>3, <3>4, <3>5, OutputStep DEF s
  <2> QED
    <3>1. g.seqno \in Nat /\ s.ackno \in Nat
      BY <1>1, <1>4 DEF CtcpState
    <3>2. ~IsOld(s, g) => g.seqno >= s.ackno
      BY <3>1 DEF IsOld
    <3> QED  BY <1>9, <1>11, <2>1, <2>2, <2>3, <3>2 DEF InDataTransfer, TakesAck
<1>12. CASE InTearDown(h, s, g, n)
  <2>1. ASSUME NEW cs \in ConnState, cs # "DATA_TRANSFER",
               Return(h, [s EXCEPT !.conn_state = cs], conn[h], n)
        PROVE  StreamInv'
    <3> DEFINE t == [s EXCEPT !.conn_state = cs]
    <3>1. /\ t \in CtcpState /\ t.seqno = s.seqno /\ Kept(t) = Kept(s)
          /\ t.conn_state = cs /\ t.received_segment = s.received_segment
      BY <1>1 DEF CtcpState, Kept
    <3>2. NoNewData(h, t, n) /\ NotLaxer(h, t)
      BY <1>3, <1>8, <2>1, <3>1, KeepsLess
    <3> QED  BY <1>5, <2>1, <3>2, QuietReturn
  <2>2. ASSUME NEW a \in send_ack(h, [s EXCEPT !.ackno = g.seqno + 1], n),
               ctcp_destroy(h, a.s, conn[h], a.n)
        PROVE  StreamInv'
    <3>1. NoNewData(h, a.s, a.n) /\ NotLaxer(h, a.s)
      BY <1>8, <1>10, <1>12 DEF InTearDown
    <3> QED  BY <1>5, <2>2, <3>1, QuietDestroy
  <2> QED  BY <1>12, <2>1, <2>2 DEF InTearDown, ConnState
<1>13. CASE InWaitLastFin(h, s, g, n)
  <2>1. ASSUME NEW a \in send_ack(h, [s EXCEPT !.ackno = g.seqno + 1], n),
               Return(h, [a.s EXCEPT !.tim = 0, !.td_state = "WAIT_DESTROY"], conn[h], a.n)
        PROVE  StreamInv'
    <3> DEFINE t == [a.s EXCEPT !.tim = 0, !.td_state = "WAIT_DESTROY"]
    <3>1. /\ NoNewData(h, a.s, a.n) /\ a.s \in CtcpState
          /\ a.s.conn_state = "WAIT_LAST_FIN"
          /\ a.s.received_segment = s.received_segment
      BY <1>10, <1>13 DEF InWaitLastFin
    <3>2. 0 \in Uint16 /\ "WAIT_DESTROY" \in TdState
      BY DEF Uint16, TdState
    <3>3. /\ t \in CtcpState /\ t.seqno = a.s.seqno /\ Kept(t) = Kept(a.s)
          /\ t.conn_state = "WAIT_LAST_FIN" /\ t.received_segment = s.received_segment
      BY <3>1, <3>2 DEF CtcpState, Kept
    <3>4. NoNewData(h, t, a.n) /\ NotLaxer(h, t)
      BY <1>8, <3>1, <3>3, KeepsLess
    <3> QED  BY <1>5, <2>1, <3>4, QuietReturn
  <2> QED  BY <1>9, <1>13, <2>1 DEF InWaitLastFin
<1>14. CASE InWaitLastAck(h, s, g, n)
  <2>1. CASE ctcp_destroy(h, s, conn[h], n)
    BY <1>3, <1>5, <1>8, <2>1, QuietDestroy
  <2> QED  BY <1>9, <1>14, <2>1 DEF InWaitLastAck
<1> QED  BY <1>7, <1>9, <1>11, <1>12, <1>13, <1>14 DEF ctcp_receive

(* What is left of a queue of chunks is a queue of chunks.                  *)
LEMMA RestFacts ==
  ASSUME NEW q \in Chunks, NEW k \in 0..Len(q)
  PROVE  /\ Rest(q, k) \in Chunks /\ Len(Rest(q, k)) = Len(q) - k
         /\ k < Len(q) => Rest(q, k)[1] = q[k+1]
<1>1. q \in Seq(Nat) /\ Len(q) \in Nat /\ k \in Nat /\ k <= Len(q)
  BY DEF Chunks
<1> DEFINE r == SubSeq(q, k + 1, Len(q))
<1>2. \A i \in (k + 1)..Len(q) : i \in 1..Len(q) /\ q[i] \in Nat
  BY <1>1
<1>3. r \in Seq(Nat)
  BY <1>1, <1>2
<1>4. Len(r) = Len(q) - k
  BY <1>1
<1>5. k < Len(q) => r[1] = q[k+1]
  BY <1>1
<1> QED  BY <1>3, <1>4, <1>5 DEF Rest, Chunks

(* r is left of the queue q: some chunks are gone, or part of one, or none. *)
Shortened(q, r) ==
  \/ r = q
  \/ \E k \in 0..Len(q) : r = Rest(q, k)
  \/ \E k \in 0..(Len(q) - 1) : \E w \in 1..(q[k+1] - 1) :
       r = [Rest(q, k) EXCEPT ![1] = @ - w]

(* conn_drain() shortens the output queue and accepts nothing.              *)
LEMMA ConnDrainFacts ==
  ASSUME NEW c \in Conn, NEW d \in conn_drain(c)
  PROVE  /\ d.c \in Conn /\ d.c.nread = c.nread /\ d.c.out = c.out
         /\ d.c.read_eof = c.read_eof /\ d.c.tainted = c.tainted
         /\ Shortened(c.out_queue, d.c.out_queue)
<1> DEFINE q == c.out_queue
           Drained(e) == /\ e \in Conn /\ e.nread = c.nread /\ e.read_eof = c.read_eof
                         /\ e.out = c.out /\ e.tainted = c.tainted
                         /\ Shortened(q, e.out_queue)
<1>1. q \in Chunks /\ Len(q) \in Nat
  BY DEF Conn, Chunks
<1>2. ASSUME NEW k \in 0..Len(q), NEW armed \in BOOLEAN, NEW err \in BOOLEAN
      PROVE  /\ Drained(Left(c, k, armed, err))
             /\ Left(c, k, armed, err).out_queue = Rest(q, k)
  <2>1. Rest(q, k) \in Chunks
    BY <1>1, RestFacts
  <2>2. Shortened(q, Rest(q, k))
    BY DEF Shortened
  <2> QED  BY <2>1, <2>2 DEF Conn, Left
<1>3. ASSUME NEW k \in 0..(Len(q) - 1), NEW w \in 1..(q[k+1] - 1)
      PROVE  Drained(LeftPartly(c, k, w))
  <2> DEFINE r == Rest(q, k)
             e == Left(c, k, TRUE, FALSE)
  <2>0. k \in 0..Len(q) /\ k < Len(q)
    BY <1>1
  <2>1. r \in Chunks /\ Len(r) >= 1 /\ r[1] = q[k+1]
    <3>1. r \in Chunks /\ Len(r) = Len(q) - k /\ r[1] = q[k+1]
      BY <1>1, <2>0, RestFacts
    <3>2. Len(q) - k >= 1
      BY <1>1, <2>0
    <3> QED  BY <3>1, <3>2
  <2>2. q[k+1] \in Nat /\ w \in Nat /\ w <= q[k+1]
    BY <1>1 DEF Chunks
  <2>3. [r EXCEPT ![1] = @ - w] \in Chunks
    <3> HIDE DEF r
    <3> QED BY <2>1, <2>2 DEF Chunks
  <2>4. Drained(e) /\ e.out_queue = r
    BY <1>2, <2>0
  <2>4a. Shortened(q, [r EXCEPT ![1] = @ - w])
    BY DEF Shortened
  <2> HIDE DEF e, r
  <2>5. Drained([e EXCEPT !.out_queue[1] = @ - w])
    BY <2>3, <2>4, <2>4a DEF Conn
  <2> QED  BY <2>5 DEF e, LeftPartly
<1>4a. \A k \in 0..(Len(q) - 1) : k \in 0..Len(q)
  BY <1>1
<1>4b. \A k \in 1..(Len(q) - 1) : k \in 0..Len(q)
  BY <1>1
<1>4c. Len(q) \in 0..Len(q)
  BY <1>1
<1>4. ASSUME NEW x, x \in DrainWrites(c)
      PROVE  Drained(x.c) /\ x = [outputted |-> x.outputted, c |-> x.c]
  <2>0. ASSUME NEW e, NEW o, x = [outputted |-> o, c |-> e], Drained(e)
        PROVE  Drained(x.c) /\ x = [outputted |-> x.outputted, c |-> x.c]
    BY <2>0
  <2> HIDE DEF Drained, q
  <2>1. CASE x \in AllWritten(c)
    BY <1>4c, <1>2, <2>0, <2>1 DEF AllWritten, q
  <2>2. CASE x \in Blocked(c)
    BY <1>4b, <1>2, <2>0, <2>2 DEF Blocked, q
  <2>3. CASE x \in PartlyWritten(c)
    BY <1>3, <2>0, <2>3 DEF PartlyWritten, q
  <2>4. CASE x \in WriteFails(c)
    BY <1>4a, <1>2, <2>0, <2>4 DEF WriteFails, q
  <2> QED  BY <1>4, <2>1, <2>2, <2>3, <2>4 DEF DrainWrites, When
<1>5. CASE d = [outputted |-> FALSE, c |-> [c EXCEPT !.pollout = FALSE]]
  <2>1. Shortened(q, q)
    BY DEF Shortened
  <2> QED  BY <1>5, <2>1 DEF Conn
<1>6. CASE \E x \in DrainWrites(c) :
             d = [x EXCEPT !.c.wrote_err = @ \/ (x.c.wrote_eof /\ x.c.out_queue = <<>>)]
  <2>1. PICK x \in DrainWrites(c) :
             d = [x EXCEPT !.c.wrote_err = @ \/ (x.c.wrote_eof /\ x.c.out_queue = <<>>)]
    BY <1>6
  <2> DEFINE b == x.c.wrote_err \/ (x.c.wrote_eof /\ x.c.out_queue = <<>>)
  <2>2. b \in BOOLEAN
    OBVIOUS
  <2>3. x = [outputted |-> x.outputted, c |-> x.c] /\ Drained(x.c)
    BY <1>4
  <2>4. d.c = [x.c EXCEPT !.wrote_err = b]
    <3>1. x.c \in Conn
      BY <2>3
    <3> QED BY <2>1, <2>3, <3>1 DEF Conn
  <2> HIDE DEF b
  <2> QED  BY <2>2, <2>3, <2>4 DEF Conn
<1> QED  BY <1>5, <1>6 DEF conn_drain

(* conn_drain() and the ctcp_output() it calls.                             *)
LEMMA DrainStep ==
  ASSUME StreamInv, NEW h \in Host, Drain(h)
  PROVE  StreamInv'
<1> DEFINE s == state[h]
<1>1. PICK d \in conn_drain(conn[h]) :
        \/ Return(h, s, d.c, net)
        \/ s.received_segment # NULL /\ ctcp_output(h, s, d.c, net)
        \/ s.received_segment = NULL /\ UseAfterFree(h, s, d.c, net)
  BY DEF Drain
<1>2. /\ s \in CtcpState /\ conn[h] \in Conn /\ s.ackno \in Nat
      /\ NoNewData(h, s, net) /\ NotLaxer(h, s)
  BY HostParts, HandlerStarts DEF CtcpState, NotLaxer
<1>3. SameOutput(h, d.c)
  BY <1>2, ConnDrainFacts DEF SameOutput
<1>4. Waiting(s) \subseteq Data(h) /\ \A x \in Waiting(s) : ~conn[h].tainted => Beyond(x, conn[h].out)
  BY HostParts
<1>5. CASE Return(h, s, d.c, net)
  BY <1>2, <1>3, <1>5, QuietReturn
<1>6. CASE s.received_segment # NULL /\ ctcp_output(h, s, d.c, net)
  <2>1. s.received_segment \in Waiting(s)
    BY <1>6 DEF Waiting
  <2> QED  BY <1>2, <1>3, <1>4, <1>6, <2>1, OutputStep
<1>7. CASE s.received_segment = NULL /\ UseAfterFree(h, s, d.c, net)
  <2> DEFINE c == [d.c EXCEPT !.tainted = TRUE]
  <2>1. c \in Conn /\ c.tainted /\ c.nread = conn[h].nread /\ conn[h].nread \in Nat
    BY <1>2, <1>3 DEF SameOutput, Conn
  <2>2. ASSUME NEW t, NEW m, NoNewData(h, t, m), t.received_segment = NULL,
               NEW e \in Conn, e.tainted, e.nread = conn[h].nread, Return(h, t, e, m)
        PROVE  StreamInv'
    <3>1. Waiting(t) = {} /\ t \in CtcpState /\ m \in Net
      BY <2>2 DEF Waiting, NoNewData
    <3>2. AddsOnlyFresh(h, t, e, m) /\ Prints(h, t, e)
      BY <2>1, <2>2, <3>1 DEF AddsOnlyFresh, Prints, NoNewData
    <3> QED  BY <2>2, <3>1, <3>2, HandlerStep
  <2>3. CASE Return(h, s, c, net)
    BY <1>2, <1>7, <2>1, <2>2, <2>3
  <2>4. ASSUME NEW e \in Conn, e.tainted, e.nread = conn[h].nread,
               NEW status \in Status, Gone(h, s, e, net, status)
        PROVE  StreamInv'
    <3> DEFINE f == [e EXCEPT !.status = status]
    <3>1. f \in Conn /\ f.tainted /\ f.nread = conn[h].nread
      BY <2>4 DEF Conn
    <3>2. <<>> \in Seq(Segment) /\ Range(<<>>) = {}
      BY DEF Range
    <3>3. NoNewData(h, s, [net EXCEPT !.wire[h] = <<>>])
      BY <1>2, <3>2, ShorterWire
    <3> QED  BY <1>7, <2>2, <2>4, <3>1, <3>3 DEF Gone
  <2>5. ASSUME NEW e \in Conn, e.tainted, e.nread = conn[h].nread,
               ctcp_destroy(h, s, e, net)
        PROVE  StreamInv'
    <3>1. "exited" \in Status /\ "removed" \in Status
      BY DEF Status
    <3>2. CASE h = Client
      BY <2>4, <2>5, <3>1, <3>2 DEF ctcp_destroy
    <3>3. CASE h # Client
      <4> DEFINE f == [e EXCEPT !.status = "removed"]
      <4>1. f \in Conn /\ f.tainted /\ f.nread = conn[h].nread
        BY <2>5, <3>1 DEF Conn
      <4>2. Return(h, s, f, net)
        BY <2>5, <3>3 DEF ctcp_destroy
      <4> HIDE DEF f
      <4> QED  BY <1>2, <1>7, <2>2, <4>1, <4>2
    <3> QED  BY <3>2, <3>3
  <2> DEFINE Garbage == {[s EXCEPT !.ackno = ackno] : ackno \in {0, MaxSeqno}}
  <2>6. ASSUME NEW t \in Garbage
        PROVE  NoNewData(h, t, net) /\ t.received_segment = NULL
    <3>1. PICK ackno \in Nat : t = [s EXCEPT !.ackno = ackno]
      BY BoundAssumption
    <3>2. /\ t \in CtcpState /\ t.seqno = s.seqno /\ Kept(t) = Kept(s)
          /\ t.received_segment = s.received_segment
      BY <1>2, <3>1 DEF CtcpState, Kept
    <3> QED  BY <1>2, <1>7, <3>2, KeepsLess
  <2> HIDE DEF Garbage
  <2>7. ASSUME NEW t, NEW m, NoNewData(h, t, m), t.received_segment = NULL,
               NEW e \in Conn, e.tainted, e.nread = conn[h].nread,
               Return(h, destroy_acked_segment(t), e, m)
        PROVE  StreamInv'
    <3> DEFINE u == destroy_acked_segment(t)
    <3>1. /\ u \in CtcpState /\ u.seqno = t.seqno /\ Kept(u) = {}
          /\ u.received_segment = NULL
      BY <2>7 DEF NoNewData, destroy_acked_segment, CtcpState, MaybeAttr, Kept
    <3>2. NoNewData(h, u, m)
      BY <2>7, <3>1, KeepsLess
    <3>3. Return(h, u, e, m)
      BY <2>7
    <3> HIDE DEF u
    <3> QED  BY <2>2, <2>7, <3>1, <3>2, <3>3
  <2>8. ASSUME NEW w \in conn_output(c, [pos |-> 0, len |-> 1])
        PROVE  w.c \in Conn /\ w.c.tainted /\ w.c.nread = conn[h].nread
    <3>1. [pos |-> 0, len |-> 1] \in Piece
      BY DEF Piece
    <3> QED  BY <2>1, <3>1, ConnOutputFacts
  <2>9. ASSUME NEW t \in Garbage, NEW o \in send_ack(h, t, net)
        PROVE  NoNewData(h, o.s, o.n) /\ o.s.received_segment = NULL
    <3>1. {"ACK"} \in Flags
      BY DEF Flags
    <3>2. o \in segment_send(h, t, net, {"ACK"}, 0, 0)
      BY DEF send_ack
    <3> QED  BY <2>6, <3>1, <3>2, ControlSend
  <2>10. CASE \E t \in Garbage : Return(h, destroy_acked_segment(t), c, net)
    BY <2>1, <2>6, <2>7, <2>10
  <2>11. CASE \E w \in conn_output(c, [pos |-> 0, len |-> 1]) :
                \/ ctcp_destroy(h, s, w.c, net)
                \/ \E t \in Garbage : \E o \in send_ack(h, t, net) :
                     Return(h, destroy_acked_segment(o.s), w.c, o.n)
    BY <2>5, <2>7, <2>8, <2>9, <2>11
  <2>12. CASE Gone(h, s, c, net, "crashed")
    BY <2>1, <2>4, <2>12 DEF Status
  <2> QED  BY <1>7, <2>3, <2>10, <2>11, <2>12 DEF UseAfterFree, Garbage
<1> QED  BY <1>1, <1>5, <1>6, <1>7

(* Addition in uint16_t wraps around.                                       *)
LEMMA Wraps == \A a \in Nat : a % 65536 \in Uint16
<1> SUFFICES ASSUME NEW a \in Nat PROVE a % 65536 \in Uint16
  OBVIOUS
<1> DEFINE r == a % 65536
           max == 65535
<1>1. r \in Int /\ max \in Int
  BY SMT
<1>2. r >= 0
  BY SMT
<1>3. r <= max
  BY SMT
<1>4. Uint16 = 0..max
  BY DEF Uint16
<1> HIDE DEF r, max
<1>5. r \in 0..max
  BY <1>1, <1>2, <1>3, SMT
<1>6. r \in Uint16
  BY <1>4, <1>5
<1> QED  BY <1>6 DEF r

(* tim stays a uint16_t.                                                    *)
LEMMA TimIsUint16 ==
  ASSUME NEW tim \in Uint16
  PROVE  (tim + Timer) % 65536 \in Uint16
<1>1. tim \in Nat
  BY SMT DEF Uint16
<1>2. Timer \in Nat
  BY TimerAssumption
<1>3. tim + Timer \in Nat
  BY <1>1, <1>2, SMT
<1> QED  BY <1>3, Wraps, SMT

(* retransmission_handler() sends again what is kept, or gives it up.       *)
LEMMA TimerStep ==
  ASSUME StreamInv, NEW h \in Host, ctcp_timer(h)
  PROVE  StreamInv'
<1>1. /\ state[h] \in CtcpState /\ state[h].ackno \in Nat /\ state[h].tim \in Uint16
      /\ SameOutput(h, conn[h]) /\ NoNewData(h, state[h], net) /\ NotLaxer(h, state[h])
  BY HostParts, HandlerStarts DEF CtcpState, SameOutput, NotLaxer
<1>2. CASE TimerDestroys(h)
  <2>1. {"exited", "crashed"} \subseteq Status
    BY DEF Status
  <2> QED  BY <1>1, <1>2, <2>1, QuietGone DEF TimerDestroys
<1>3. CASE TimerTicks(h)
  <2> DEFINE s == [state[h] EXCEPT !.tim = tim_advance(state[h])]
  <2> DEFINE attr == [s.sent_segment_attr EXCEPT !.time = @ + Timer]
  <2>1. tim_advance(state[h]) \in Uint16
    BY <1>1, TimIsUint16, SMT DEF tim_advance
  <2>2. /\ s \in CtcpState /\ s.seqno = state[h].seqno /\ Kept(s) = Kept(state[h])
        /\ s.ackno = state[h].ackno /\ s.conn_state = state[h].conn_state
        /\ Waiting(s) = Waiting(state[h])
    BY <1>1, <2>1 DEF CtcpState, Kept, Waiting
  <2>3. NoNewData(h, s, net)
    BY <1>1, <2>2, KeepsLess
  <2>4. \/ Return(h, s, conn[h], net)
        \/ s.sent_segment_attr # NULL /\ Return(h, [s EXCEPT !.sent_segment_attr = attr], conn[h], net)
        \/ s.sent_segment_attr # NULL /\ Retransmit(h, s, attr)
    BY <1>3 DEF TimerTicks, Aged
  <2> HIDE DEF s
  <2>5. ASSUME NEW x \in MaybeAttr,
               x = NULL \/ (s.sent_segment_attr # NULL /\ x.segment = s.sent_segment_attr.segment),
               NEW m, NoNewData(h, s, m),
               Return(h, [s EXCEPT !.sent_segment_attr = x], conn[h], m)
        PROVE  StreamInv'
    <3> DEFINE t == [s EXCEPT !.sent_segment_attr = x]
    <3>1. /\ t \in CtcpState /\ t.seqno = s.seqno /\ t.sent_segment_attr = x
          /\ t.ackno = s.ackno /\ t.conn_state = s.conn_state
          /\ t.received_segment = s.received_segment
      BY <2>2 DEF CtcpState
    <3>2. Kept(t) \subseteq Kept(s) /\ Waiting(t) = Waiting(s)
      BY <2>5, <3>1 DEF Kept, Waiting
    <3>3. Return(h, t, conn[h], m)
      BY <2>5
    <3> HIDE DEF t
    <3>4. NoNewData(h, t, m)
      BY <2>5, <3>1, <3>2, KeepsLess
    <3>5. NotLaxer(h, t)
      BY <1>1, <2>2, <3>1, <3>2 DEF NotLaxer
    <3> QED  BY <1>1, <3>3, <3>4, <3>5, QuietReturn
  <2>6. CASE Return(h, s, conn[h], net)
    <3>1. NotLaxer(h, s)
      BY <1>1, <2>2 DEF NotLaxer
    <3> QED  BY <1>1, <2>3, <2>6, <3>1, QuietReturn
  <2>7. ASSUME s.sent_segment_attr # NULL
        PROVE  /\ attr \in SegmentAttr /\ attr.segment = s.sent_segment_attr.segment
               /\ attr.segment \in Segment /\ attr.no_of_times \in Nat
    <3>1. s.sent_segment_attr \in SegmentAttr
      BY <2>2, <2>7 DEF CtcpState, MaybeAttr
    <3> QED  BY <3>1, TimerAssumption DEF SegmentAttr
  <2> HIDE DEF attr
  <2>8. CASE s.sent_segment_attr # NULL /\ Return(h, [s EXCEPT !.sent_segment_attr = attr], conn[h], net)
    BY <2>3, <2>5, <2>7, <2>8 DEF MaybeAttr
  <2>9. CASE s.sent_segment_attr # NULL /\ Retransmit(h, s, attr)
    <3>1. PICK o \in conn_send(h, net, attr.segment) :
            \/ Return(h, destroy_acked_segment(s), conn[h], o.n)
            \/ Return(h, [s EXCEPT !.sent_segment_attr =
                            [attr EXCEPT !.no_of_times = @ + 1]], conn[h], o.n)
      BY <2>9 DEF Retransmit
    <3>2. After(o.n, net, h, attr.segment)
      BY <2>7, <2>9, HostParts, ConnSendFacts
    <3>3. attr.segment \in Kept(s)
      BY <2>7, <2>9 DEF Kept
    <3>4. NoNewData(h, s, o.n)
      BY <2>3, <3>2, <3>3 DEF NoNewData, After, IsData
    <3>5. /\ [attr EXCEPT !.no_of_times = @ + 1] \in SegmentAttr
          /\ [attr EXCEPT !.no_of_times = @ + 1].segment = s.sent_segment_attr.segment
      BY <2>7, <2>9 DEF SegmentAttr
    <3> QED  BY <2>5, <2>9, <3>1, <3>4, <3>5 DEF destroy_acked_segment, MaybeAttr
  <2> QED  BY <2>4, <2>6, <2>8, <2>9
<1> QED  BY <1>2, <1>3 DEF ctcp_timer

(* The connection starts with nothing read, sent, received or printed.      *)
LEMMA InitStreamInv == Init => StreamInv
<1> SUFFICES ASSUME Init PROVE StreamInv
  OBVIOUS
<1>1. ctcp_init \in CtcpState
  <2>1. /\ "DATA_TRANSFER" \in ConnState /\ "NOT_TEARDOWN" \in TdState
        /\ NULL \in MaybeSegment /\ NULL \in MaybeAttr
    BY DEF ConnState, TdState, MaybeSegment, MaybeAttr
  <2>2. 0 \in Uint16
    BY SMT DEF Uint16
  <2> QED  BY <2>1, <2>2 DEF ctcp_init, CtcpState
<1>2. ConnInit \in Conn
  <2>1. <<>> \in Pieces /\ <<>> \in Chunks /\ "up" \in Status
    BY DEF Pieces, Chunks, Status
  <2> QED  BY <2>1 DEF ConnInit, Conn
<1>3. NetInit \in Net
  <2>1. NetInit.wire \in Wires /\ {} \in Forks
    BY DEF NetInit, Wires, Forks
  <2> QED  BY <2>1 DEF NetInit, Net
<1>4. TypeOK
  BY <1>1, <1>2, <1>3 DEF Init, TypeOK
<1>5. ASSUME NEW h \in Host
      PROVE  /\ state[h] = ctcp_init /\ conn[h] = ConnInit
             /\ Waiting(state[h]) = {} /\ Data(h) = {}
  <2>1. state[h] = ctcp_init /\ state[Peer(h)] = ctcp_init /\ conn[h] = ConnInit
    BY PeerFacts DEF Init
  <2>2. net.wire[h] = <<>> /\ net.forked = {}
    BY DEF Init, NetInit
  <2>3. InNet(net, h) = {}
    BY <2>2 DEF InNet, Range
  <2>4. Kept(state[Peer(h)]) = {} /\ Waiting(state[h]) = {}
    BY <2>1 DEF ctcp_init, Kept, Waiting
  <2> QED  BY <2>1, <2>3, <2>4 DEF Data
<1>6. \A h \in Host : conn[h].out = <<>>
  BY <1>5 DEF ConnInit
<1>7. InOrderOnce
  BY <1>6 DEF InOrderOnce, InOrder
<1> QED  BY <1>4, <1>5, <1>7 DEF StreamInv, DataWasRead, SeqnoOrdersData, AcknoGuards, WaitingIsNew

(* No step of either host, of a forked sender or of the rest of the system  *)
(* breaks the invariant.                                                    *)
LEMMA NextStreamInv == StreamInv /\ [Next]_vars => StreamInv'
<1> SUFFICES ASSUME StreamInv, [Next]_vars PROVE StreamInv'
  OBVIOUS
<1>1. CASE UNCHANGED vars
  BY <1>1 DEF vars, StreamInv, TypeOK, DataWasRead, SeqnoOrdersData, AcknoGuards,
              WaitingIsNew, InOrderOnce, Data
<1>2. ASSUME NEW h \in Host, ReadData(h)  PROVE StreamInv'
  BY <1>2, ReadDataStep
<1>3. ASSUME NEW h \in Host, ReadEof(h)  PROVE StreamInv'
  BY <1>3, ReadEofStep
<1>4. ASSUME NEW h \in Host, Receive(h)  PROVE StreamInv'
  BY <1>4, ReceiveStep
<1>5. ASSUME NEW h \in Host, Discard(h)  PROVE StreamInv'
  BY <1>5, DiscardStep
<1>6. ASSUME NEW h \in Host, Drain(h)  PROVE StreamInv'
  BY <1>6, DrainStep
<1>7. ASSUME NEW h \in Host, ctcp_timer(h)  PROVE StreamInv'
  BY <1>7, TimerStep
<1>8. ASSUME NEW f \in net.forked, ForkedSend(f)  PROVE StreamInv'
  BY <1>8, ForkedSendStep
<1> QED  BY <1>1, <1>2, <1>3, <1>4, <1>5, <1>6, <1>7, <1>8 DEF Next

(* StreamInv, the inductive invariant, holds in every behaviour.            *)
THEOREM StreamInvariant == Spec => []StreamInv
  BY InitStreamInv, NextStreamInv, PTL DEF Spec

(* The two hosts and the network keep their types, for every input, buffer  *)
(* size, queue length, timeout and number of faults.                        *)
THEOREM TypeCorrect == Spec => []TypeOK
<1>1. StreamInv => TypeOK
  BY DEF StreamInv
<1> QED  BY <1>1, StreamInvariant, PTL

(* What ctcp_output() prints is the peer's input in order, no byte twice,   *)
(* whatever conn_send() drops, duplicates, delays or corrupts and whatever  *)
(* the retransmissions do.                                                  *)
THEOREM OutputInOrderOnce == Spec => []InOrderOnce
<1>1. StreamInv => InOrderOnce
  BY DEF StreamInv
<1> QED  BY <1>1, StreamInvariant, PTL

-----------------------------------------------------------------------------
(* Each direction is an ordered stream *)

(* What one step may do to the connection object of the host that takes it: *)
(* read, or print at most one piece, or become undefined.                   *)
ReadsOrPrints(c, d) ==
  /\ d \in Conn
  /\ c.tainted => d.tainted
  /\ \/ d.nread > c.nread /\ d.out = c.out /\ d.tainted = c.tainted
     \/ /\ d.nread = c.nread
        /\ d.tainted \/ d.out = c.out \/ \E piece \in Piece : d.out = Append(c.out, piece)

(* A step of host h.                                                        *)
StepOf(h) == /\ ReadsOrPrints(conn[h], conn'[h])
             /\ \A p \in Host \ {h} : conn'[p] = conn[p]

(* A handler returns with the connection object c.                          *)
LEMMA ReturnIsStep ==
  ASSUME StreamInv, NEW h \in Host, NEW s, NEW c, NEW n,
         Return(h, s, c, n), ReadsOrPrints(conn[h], c)
  PROVE  StepOf(h)
<1>1. conn \in [Host -> Conn]
  BY DEF StreamInv, TypeOK
<1>2. conn' = [conn EXCEPT ![h] = c]
  BY DEF Return
<1>3. conn'[h] = c /\ \A p \in Host \ {h} : conn'[p] = conn[p]
  BY <1>1, <1>2
<1> QED  BY <1>3 DEF StepOf

(* What becomes of the process does not touch input and output.             *)
LEMMA StatusOnly ==
  ASSUME NEW c, NEW d, ReadsOrPrints(c, d), NEW status \in Status
  PROVE  ReadsOrPrints(c, [d EXCEPT !.status = status])
<1> DEFINE e == [d EXCEPT !.status = status]
<1>1. d \in Conn
  BY DEF ReadsOrPrints
<1>2. e \in Conn /\ e.nread = d.nread /\ e.out = d.out /\ e.tainted = d.tainted
  BY <1>1 DEF Conn
<1> HIDE DEF e
<1>3. ReadsOrPrints(c, e)
  BY <1>2 DEF ReadsOrPrints
<1> QED  BY <1>3 DEF e

LEMMA GoneIsStep ==
  ASSUME StreamInv, NEW h \in Host, NEW s, NEW c, NEW n, NEW status \in Status,
         Gone(h, s, c, n, status), ReadsOrPrints(conn[h], c)
  PROVE  StepOf(h)
BY StatusOnly, ReturnIsStep DEF Gone

LEMMA DestroyIsStep ==
  ASSUME StreamInv, NEW h \in Host, NEW s, NEW c, NEW n,
         ctcp_destroy(h, s, c, n), ReadsOrPrints(conn[h], c)
  PROVE  StepOf(h)
<1>1. "exited" \in Status /\ "removed" \in Status
  BY DEF Status
<1>2. CASE h = Client
  BY <1>1, <1>2, GoneIsStep DEF ctcp_destroy
<1>3. CASE h # Client
  <2>1. Return(h, s, [c EXCEPT !.status = "removed"], n)
    BY <1>3 DEF ctcp_destroy
  <2> QED  BY <1>1, <2>1, StatusOnly, ReturnIsStep
<1> QED  BY <1>2, <1>3

(* A handler that has touched neither input nor output.                     *)
LEMMA SameIsStep ==
  ASSUME NEW h \in Host, NEW c, SameOutput(h, c)
  PROVE  ReadsOrPrints(conn[h], c)
BY DEF SameOutput, ReadsOrPrints

(* conn_output() prints the piece or nothing.                               *)
LEMMA PrintIsStep ==
  ASSUME NEW h \in Host, NEW c, SameOutput(h, c), NEW piece \in Piece,
         NEW w \in conn_output(c, piece)
  PROVE  ReadsOrPrints(conn[h], w.c)
<1>1. c \in Conn /\ c.nread = conn[h].nread /\ c.out = conn[h].out /\ c.tainted = conn[h].tainted
  BY DEF SameOutput
<1>2. /\ w.c \in Conn /\ w.c.nread = c.nread /\ w.c.tainted = c.tainted
      /\ w.c.out = c.out \/ w.c.out = Append(c.out, piece)
  BY <1>1, ConnOutputFacts
<1> QED  BY <1>1, <1>2 DEF ReadsOrPrints

LEMMA OutputIsStep ==
  ASSUME StreamInv, NEW h \in Host, NEW s, NEW c, NEW n, SameOutput(h, c),
         s.received_segment \in Segment, ctcp_output(h, s, c, n)
  PROVE  StepOf(h)
<1>1. DataOf(s.received_segment) \in Piece
  BY DEF DataOf, Piece, Segment
<1>2. CASE OutputWaits(h, s, c, n)
  BY <1>2, SameIsStep, ReturnIsStep DEF OutputWaits
<1>3. CASE OutputData(h, s, c, n)
  <2>1. PICK w \in conn_output(c, DataOf(s.received_segment)) :
          \/ ctcp_destroy(h, s, w.c, n)
          \/ \E t, m : Return(h, t, w.c, m)
    BY <1>3 DEF OutputData
  <2>2. ReadsOrPrints(conn[h], w.c)
    BY <1>1, PrintIsStep
  <2> QED  BY <2>1, <2>2, DestroyIsStep, ReturnIsStep
<1> QED  BY <1>2, <1>3 DEF ctcp_output

-----------------------------------------------------------------------------
(* One lemma per action *)

LEMMA Unchanged ==
  ASSUME StreamInv, NEW h \in Host
  PROVE  SameOutput(h, conn[h]) /\ conn[h].nread \in Nat
BY HostParts DEF SameOutput, Conn

LEMMA ReadDataIsStep ==
  ASSUME StreamInv, NEW h \in Host, ReadData(h)  PROVE StepOf(h)
<1>1. PICK i \in conn_input(h) : i.rc >= 0 /\ \E t, m : Return(h, t, i.c, m)
  BY DEF ReadData
<1>2. conn[h] \in Conn /\ conn[h].nread \in Nat /\ Input[h] \in Nat
  BY HostParts, InputAssumption DEF Conn
<1>3. ReadsOrPrints(conn[h], i.c)
  <2>1. PICK len \in Nat \ {0} :
          i = [rc |-> len, c |-> [conn[h] EXCEPT !.nread = @ + len]]
    BY <1>1, <1>2, SizeAssumption DEF conn_input
  <2>2. /\ i.c \in Conn /\ i.c.nread = conn[h].nread + len
        /\ i.c.out = conn[h].out /\ i.c.tainted = conn[h].tainted
    BY <1>2, <2>1 DEF Conn
  <2> QED  BY <1>2, <2>2 DEF ReadsOrPrints
<1> QED  BY <1>1, <1>3, ReturnIsStep

LEMMA ReadEofIsStep ==
  ASSUME StreamInv, NEW h \in Host, ReadEof(h)  PROVE StepOf(h)
<1>1. PICK i \in conn_input(h) : i.rc < 0 /\ \E t, m : Return(h, t, i.c, m)
  BY DEF ReadEof
<1>2. conn[h] \in Conn /\ conn[h].nread \in Nat /\ Input[h] \in Nat
  BY HostParts, InputAssumption DEF Conn
<1>3. i.c = [conn[h] EXCEPT !.read_eof = TRUE]
  <2>1. CASE i \in {[rc |-> -1, c |-> [conn[h] EXCEPT !.read_eof = TRUE]]}
    BY <2>1
  <2>2. ASSUME NEW len \in Nat,
               i = [rc |-> len, c |-> [conn[h] EXCEPT !.nread = @ + len]]
        PROVE  FALSE
    BY <1>1, <2>2
  <2> QED  BY <1>2, <2>1, <2>2, SizeAssumption DEF conn_input
<1>4. SameOutput(h, i.c)
  BY <1>2, <1>3 DEF SameOutput, Conn
<1> QED  BY <1>1, <1>4, SameIsStep, ReturnIsStep

LEMMA ReceiveIsStep ==
  ASSUME StreamInv, NEW h \in Host, Receive(h)  PROVE StepOf(h)
<1> DEFINE s == state[h]  g == Head(net.wire[h])  c == conn[h]
<1>1. /\ SameOutput(h, c) /\ s \in CtcpState /\ net.wire[h] \in Seq(Segment)
      /\ net.wire[h] # <<>>
  BY Unchanged, HostParts DEF Receive
<1>2. g \in Segment
  BY <1>1
<1>3. PICK n : ctcp_receive(h, s, g, n)
  BY DEF Receive
<1>4. SameOutput(h, output_eof(c))
  BY <1>1 DEF output_eof, SameOutput, Conn
<1>5. \/ \E t, m : Return(h, t, c, m)
      \/ \E t, m : Return(h, t, output_eof(c), m)
      \/ \E t, m : ctcp_destroy(h, t, c, m)
      \/ ctcp_output(h, [s EXCEPT !.received_segment = g], c, n)
  BY <1>3, Zenon DEF ctcp_receive, InDataTransfer, TakesAck, InTearDown, InWaitLastFin,
                       InWaitLastAck
<1>6. [s EXCEPT !.received_segment = g].received_segment = g
  BY <1>1 DEF CtcpState
<1> HIDE DEF s, g, c
<1> QED  BY <1>1, <1>2, <1>4, <1>5, <1>6, SameIsStep, ReturnIsStep, DestroyIsStep,
            OutputIsStep

LEMMA DiscardIsStep ==
  ASSUME StreamInv, NEW h \in Host, Discard(h)  PROVE StepOf(h)
BY Unchanged, SameIsStep, ReturnIsStep DEF Discard

LEMMA TimerIsStep ==
  ASSUME StreamInv, NEW h \in Host, ctcp_timer(h)  PROVE StepOf(h)
<1>1. \/ \E t, m : Return(h, t, conn[h], m)
      \/ \E t, m : \E status \in Status : Gone(h, t, conn[h], m, status)
  BY DEF ctcp_timer, TimerDestroys, TimerTicks, Retransmit, Status
<1> QED  BY <1>1, Unchanged, SameIsStep, ReturnIsStep, GoneIsStep

LEMMA DrainIsStep ==
  ASSUME StreamInv, NEW h \in Host, Drain(h)  PROVE StepOf(h)
<1> DEFINE s == state[h]
<1>1. PICK d \in conn_drain(conn[h]) :
        \/ Return(h, s, d.c, net)
        \/ s.received_segment # NULL /\ ctcp_output(h, s, d.c, net)
        \/ UseAfterFree(h, s, d.c, net)
  BY DEF Drain
<1>2. SameOutput(h, d.c) /\ s \in CtcpState
  BY HostParts, ConnDrainFacts DEF SameOutput
<1>3. CASE Return(h, s, d.c, net)
  BY <1>2, <1>3, SameIsStep, ReturnIsStep
<1>4. CASE s.received_segment # NULL /\ ctcp_output(h, s, d.c, net)
  <2>1. s.received_segment \in Segment
    BY <1>2, <1>4 DEF CtcpState, MaybeSegment
  <2> QED  BY <1>2, <1>4, <2>1, OutputIsStep
<1>5. CASE UseAfterFree(h, s, d.c, net)
  <2> DEFINE c == [d.c EXCEPT !.tainted = TRUE]
  <2>1. c \in Conn /\ c.tainted /\ c.nread = conn[h].nread
    BY <1>2 DEF SameOutput, Conn
  <2>2. ASSUME NEW e \in Conn, e.tainted, e.nread = conn[h].nread
        PROVE  ReadsOrPrints(conn[h], e)
    BY <2>2 DEF ReadsOrPrints
  <2>3. \/ \E t, m : Return(h, t, c, m)
        \/ Gone(h, s, c, net, "crashed")
        \/ \E w \in conn_output(c, [pos |-> 0, len |-> 1]) :
             ctcp_destroy(h, s, w.c, net) \/ \E t, m : Return(h, t, w.c, m)
    BY <1>5, Zenon DEF UseAfterFree
  <2>4. [pos |-> 0, len |-> 1] \in Piece /\ "crashed" \in Status
    BY DEF Piece, Status
  <2> HIDE DEF c
  <2>5. ASSUME NEW w \in conn_output(c, [pos |-> 0, len |-> 1])
        PROVE  w.c \in Conn /\ w.c.tainted /\ w.c.nread = conn[h].nread
    BY <2>1, <2>4, ConnOutputFacts
  <2> QED  BY <2>1, <2>2, <2>3, <2>4, <2>5, ReturnIsStep, GoneIsStep, DestroyIsStep
<1> QED  BY <1>1, <1>3, <1>4, <1>5

(* Every step of the connection is a step of one host, or of neither.       *)
LEMMA NextIsStep ==
  ASSUME StreamInv, Next
  PROVE  (\E h \in Host : StepOf(h)) \/ UNCHANGED conn
<1>1. CASE \E h \in Host : \/ ReadData(h) \/ ReadEof(h) \/ Receive(h)
                           \/ Discard(h) \/ Drain(h) \/ ctcp_timer(h)
  BY <1>1, ReadDataIsStep, ReadEofIsStep, ReceiveIsStep, DiscardIsStep,
     DrainIsStep, TimerIsStep
<1>2. CASE \E f \in net.forked : ForkedSend(f)
  BY <1>2 DEF ForkedSend
<1> QED  BY <1>1, <1>2 DEF Next

-----------------------------------------------------------------------------
(* The steps of the direction towards host h *)

StreamReads(h) == /\ conn'[Peer(h)].nread \in Nat
                  /\ conn'[Peer(h)].nread > conn[Peer(h)].nread
                  /\ Printed(h)' = Printed(h)
                  /\ (~conn[h].tainted)' = ~conn[h].tainted

StreamPrints(h) ==
  LET piece == Printed(h)'[Len(Printed(h)) + 1] IN
  /\ Len(Printed(h)') = Len(Printed(h)) + 1
  /\ Printed(h)' = Append(Printed(h), piece)
  /\ piece.pos >= 1 /\ piece.pos + piece.len <= conn[Peer(h)].nread + 1
  /\ \A i \in DOMAIN Printed(h) :
       Printed(h)[i].pos + Printed(h)[i].len <= piece.pos
  /\ conn'[Peer(h)].nread = conn[Peer(h)].nread
  /\ (~conn[h].tainted)' = ~conn[h].tainted

StreamUndefined(h) == /\ (~conn[h].tainted)' = FALSE /\ Printed(h)' = <<>>
                      /\ conn'[Peer(h)].nread = conn[Peer(h)].nread

StreamStutters(h) == /\ conn'[Peer(h)].nread = conn[Peer(h)].nread
                     /\ Printed(h)' = Printed(h)
                     /\ (~conn[h].tainted)' = ~conn[h].tainted

StreamStep(h) == StreamReads(h) \/ StreamPrints(h) \/ StreamUndefined(h) \/ StreamStutters(h)

(* A step of one host, seen from the direction towards h.                   *)
LEMMA StepIsStreamStep ==
  ASSUME StreamInv, StreamInv', NEW h \in Host,
         (\E p \in Host : StepOf(p)) \/ UNCHANGED conn
  PROVE  StreamStep(h)
<1>1. /\ Peer(h) \in Host /\ Peer(h) # h /\ Host = {h, Peer(h)}
  BY HostAssumption DEF Peer, Host
<1>2. /\ conn[h] \in Conn /\ conn[Peer(h)] \in Conn /\ conn'[h] \in Conn
      /\ conn[h].out \in Seq(Piece) /\ conn'[h].out \in Seq(Piece)
      /\ conn[Peer(h)].nread \in Nat /\ conn'[Peer(h)].nread \in Nat
  BY <1>1 DEF StreamInv, TypeOK, Conn, Pieces
<1>3. ~conn'[h].tainted => InOrder(conn'[h].out, conn'[Peer(h)].nread)
  BY DEF StreamInv, InOrderOnce
<1>4. CASE UNCHANGED conn
  BY <1>4 DEF StreamStep, StreamStutters, Printed
<1>5. CASE StepOf(Peer(h))
  <2>1. conn'[h] = conn[h] /\ conn'[Peer(h)].nread >= conn[Peer(h)].nread
    BY <1>1, <1>2, <1>5 DEF StepOf, ReadsOrPrints
  <2>2. CASE conn'[Peer(h)].nread > conn[Peer(h)].nread
    BY <1>2, <2>1, <2>2 DEF StreamStep, StreamReads, Printed
  <2>3. CASE conn'[Peer(h)].nread = conn[Peer(h)].nread
    BY <2>1, <2>3 DEF StreamStep, StreamStutters, Printed
  <2> QED  BY <1>2, <2>1, <2>2, <2>3
<1>6. CASE StepOf(h)
  <2>1. conn'[Peer(h)] = conn[Peer(h)] /\ ReadsOrPrints(conn[h], conn'[h])
    BY <1>1, <1>6 DEF StepOf
  <2>2. CASE conn'[h].tainted
    BY <2>1, <2>2 DEF StreamStep, StreamUndefined, Printed
  <2>3. CASE ~conn'[h].tainted /\ conn'[h].out = conn[h].out
    BY <2>1, <2>3 DEF StreamStep, StreamStutters, Printed, ReadsOrPrints
  <2>4. ASSUME NEW piece \in Piece, ~conn'[h].tainted,
               conn'[h].out = Append(conn[h].out, piece)
        PROVE  StreamStep(h)
    <3> DEFINE out == conn[h].out  last == Len(out) + 1
    <3>1. ~conn[h].tainted
      BY <2>1, <2>4 DEF ReadsOrPrints
    <3>2. Printed(h) = out /\ Printed(h)' = Append(out, piece)
      BY <2>4, <3>1 DEF Printed
    <3>3. /\ Len(Append(out, piece)) = last /\ Append(out, piece)[last] = piece
          /\ \A i \in DOMAIN out : /\ Append(out, piece)[i] = out[i]
                                  /\ i \in DOMAIN Append(out, piece) /\ i < last
          /\ last \in DOMAIN Append(out, piece)
      BY <1>2
    <3>4. InOrder(Append(out, piece), conn[Peer(h)].nread)
      BY <1>3, <2>1, <2>4
    <3>5. piece.pos >= 1 /\ piece.pos + piece.len <= conn[Peer(h)].nread + 1
      BY <3>3, <3>4 DEF InOrder, End
    <3>6. \A i \in DOMAIN out : out[i].pos + out[i].len <= piece.pos
      BY <3>3, <3>4 DEF InOrder, End
    <3>7. (~conn[h].tainted)' = ~conn[h].tainted
      BY <2>4, <3>1
    <3> HIDE DEF last, out
    <3>8. StreamPrints(h)
      BY <2>1, <3>2, <3>3, <3>5, <3>6, <3>7 DEF StreamPrints, last
    <3> QED  BY <3>8 DEF StreamStep
  <2> QED  BY <2>1, <2>2, <2>3, <2>4 DEF ReadsOrPrints
<1> QED  BY <1>1, <1>4, <1>5, <1>6

LEMMA NextIsStreamStep ==
  StreamInv /\ StreamInv' /\ [Next]_vars => StreamStep(Client) /\ StreamStep(Server)
<1> SUFFICES ASSUME StreamInv, StreamInv', [Next]_vars
             PROVE  StreamStep(Client) /\ StreamStep(Server)
  OBVIOUS
<1>1. (\E p \in Host : StepOf(p)) \/ UNCHANGED conn
  BY NextIsStep DEF vars
<1>2. Client \in Host /\ Server \in Host
  BY DEF Host
<1> QED  BY <1>1, <1>2, StepIsStreamStep

LEMMA Peers == Peer(Client) = Server /\ Peer(Server) = Client
  BY HostAssumption DEF Peer

(* Initially nothing is read, printed or undefined.                         *)
LEMMA InitIsStreamInit == Init => ToClient!Init /\ ToServer!Init
<1>1. ASSUME Init, NEW h \in Host
      PROVE  conn[h].nread = 0 /\ conn[h].out = <<>> /\ ~conn[h].tainted
  BY <1>1 DEF Init, ConnInit
<1>2. Client \in Host /\ Server \in Host
  BY DEF Host
<1> QED  BY <1>1, <1>2 DEF ToClient!Init, ToServer!Init, Printed

(* What a handler of ctcp.c does is, in each direction, to read input, to   *)
(* print the next piece of it, or neither: for all sizes, timeouts and      *)
(* faults the connection implements an ordered stream.                      *)
THEOREM StreamRefinement == Spec => ImplementsStream
<1>1. StreamStep(Client) => [ToClient!Next]_(ToClient!vars)
  BY Peers DEF StreamStep, StreamReads, StreamPrints, StreamUndefined, StreamStutters,
               ToClient!Next, ToClient!Read, ToClient!Output, ToClient!IsNext,
               ToClient!Undefine, ToClient!vars
<1>2. StreamStep(Server) => [ToServer!Next]_(ToServer!vars)
  BY Peers DEF StreamStep, StreamReads, StreamPrints, StreamUndefined, StreamStutters,
               ToServer!Next, ToServer!Read, ToServer!Output, ToServer!IsNext,
               ToServer!Undefine, ToServer!vars
<1> QED  BY <1>1, <1>2, InitIsStreamInit, NextIsStreamStep, StreamInvariant, PTL
         DEF Spec, ImplementsStream, ToClient!Spec, ToServer!Spec

-----------------------------------------------------------------------------
(* The queue of a connection *)

(* A connection object that may be returned with.                           *)
Fits(c) == c \in Conn /\ Total(c.out_queue) <= BufSpace

LEMMA ReturnFits ==
  ASSUME StreamInv, QueueFits, NEW h \in Host, NEW s, NEW c, NEW n,
         Return(h, s, c, n), Fits(c)
  PROVE  QueueFits'
<1>1. conn \in [Host -> Conn]
  BY DEF StreamInv, TypeOK
<1>2. conn'[h] = c /\ \A p \in Host \ {h} : conn'[p] = conn[p]
  BY <1>1 DEF Return
<1> QED  BY <1>2 DEF QueueFits, Fits

(* What becomes of the process does not touch the queue.                    *)
LEMMA StatusFits ==
  ASSUME NEW c, Fits(c), NEW status \in Status
  PROVE  Fits([c EXCEPT !.status = status])
<1> DEFINE d == [c EXCEPT !.status = status]
<1>1. d \in Conn /\ d.out_queue = c.out_queue
  BY DEF Fits, Conn
<1> HIDE DEF d
<1>2. Fits(d)
  BY <1>1 DEF Fits
<1> QED  BY <1>2 DEF d

LEMMA GoneFits ==
  ASSUME StreamInv, QueueFits, NEW h \in Host, NEW s, NEW c, NEW n,
         NEW status \in Status, Gone(h, s, c, n, status), Fits(c)
  PROVE  QueueFits'
BY StatusFits, ReturnFits DEF Gone

LEMMA DestroyFits ==
  ASSUME StreamInv, QueueFits, NEW h \in Host, NEW s, NEW c, NEW n,
         ctcp_destroy(h, s, c, n), Fits(c)
  PROVE  QueueFits'
<1>1. "exited" \in Status /\ "removed" \in Status
  BY DEF Status
<1>2. CASE h = Client
  BY <1>1, <1>2, GoneFits DEF ctcp_destroy
<1>3. CASE h # Client
  <2>1. Return(h, s, [c EXCEPT !.status = "removed"], n)
    BY <1>3 DEF ctcp_destroy
  <2> QED  BY <1>1, <2>1, StatusFits, ReturnFits
<1> QED  BY <1>2, <1>3

(* conn_output() of a piece for which conn_bufspace() has reported room.    *)
LEMMA OutputFits ==
  ASSUME NEW c, Fits(c), NEW piece \in Piece, conn_bufspace(c) >= piece.len,
         NEW w \in conn_output(c, piece)
  PROVE  Fits(w.c)
<1> DEFINE q == c.out_queue
<1>1. piece.len \in Nat /\ c \in Conn /\ q \in Seq(Nat) /\ BufSpace \in Nat
  BY SizeAssumption DEF Fits, Conn, Piece, Chunks
<1>2. Total(q) \in Nat /\ Total(q) <= BufSpace
  BY <1>1, TotalIsNat DEF Fits
<1>3. Total(q) + piece.len <= BufSpace
  <2>1. conn_bufspace(c) = BufSpace - Total(q)
    BY <1>1, <1>2 DEF conn_bufspace
  <2> HIDE DEF q
  <2> QED  BY <1>1, <1>2, <2>1
<1>4. w.c \in Conn
  BY <1>1, ConnOutputFacts
<1>5. CASE w.c.out_queue = q
  BY <1>2, <1>4, <1>5 DEF Fits
<1>6. ASSUME NEW k \in 0..piece.len, w.c.out_queue = Append(q, piece.len - k)
      PROVE  Fits(w.c)
  <2>1. piece.len - k \in Nat /\ piece.len - k <= piece.len
    BY <1>1
  <2>2. Total(w.c.out_queue) = Total(q) + (piece.len - k)
    BY <1>1, <1>6, <2>1, TotalOfAppend
  <2> HIDE DEF q
  <2>3. Total(w.c.out_queue) <= BufSpace
    BY <1>1, <1>2, <1>3, <2>1, <2>2
  <2> QED  BY <1>4, <2>3 DEF Fits
<1>7. \A k \in (IF c.out_queue = <<>> THEN Written(piece.len) ELSE {0}) : k \in 0..piece.len
  BY <1>1 DEF Written
<1>8. \/ w = [rc |-> 0, c |-> c] \/ w = [rc |-> -1, c |-> c]
      \/ w = [rc |-> -1, c |-> [c EXCEPT !.wrote_err = TRUE]]
      \/ \E k \in 0..piece.len :
           w = [rc |-> piece.len, c |->
                   [c EXCEPT !.out = Append(@, piece),
                             !.out_queue = IF k < piece.len
                                           THEN Append(@, piece.len - k) ELSE @,
                             !.pollout = @ \/ c.out_queue # <<>> \/ k < piece.len]]
  BY <1>7 DEF conn_output, When
<1>9. w.c.out_queue = q \/ \E k \in 0..piece.len : w.c.out_queue = Append(q, piece.len - k)
  <2>1. CASE \/ w = [rc |-> 0, c |-> c] \/ w = [rc |-> -1, c |-> c]
             \/ w = [rc |-> -1, c |-> [c EXCEPT !.wrote_err = TRUE]]
    BY <1>1, <2>1 DEF Conn
  <2>2. ASSUME NEW k \in 0..piece.len,
               w = [rc |-> piece.len, c |->
                   [c EXCEPT !.out = Append(@, piece),
                             !.out_queue = IF k < piece.len
                                           THEN Append(@, piece.len - k) ELSE @,
                             !.pollout = @ \/ c.out_queue # <<>> \/ k < piece.len]]
        PROVE  w.c.out_queue = q \/ w.c.out_queue = Append(q, piece.len - k)
    BY <1>1, <2>2 DEF Conn
  <2> QED  BY <1>8, <2>1, <2>2
<1> QED  BY <1>5, <1>6, <1>9

(* conn_drain() only shortens the queue.                                    *)
LEMMA DrainFits ==
  ASSUME NEW c, Fits(c), NEW d \in conn_drain(c)
  PROVE  Fits(d.c)
<1> DEFINE q == c.out_queue
<1>1. c \in Conn /\ q \in Seq(Nat) /\ Len(q) \in Nat /\ Total(q) \in Nat
      /\ Total(q) <= BufSpace /\ BufSpace \in Nat /\ q \in Chunks
  BY TotalIsNat, SizeAssumption DEF Fits, Conn, Chunks
<1>2. d.c \in Conn /\ Shortened(q, d.c.out_queue)
  BY <1>1, ConnDrainFacts
<1>3. ASSUME NEW k \in 0..Len(q)
      PROVE  /\ Total(Rest(q, k)) <= BufSpace
             /\ Rest(q, k) \in Seq(Nat) /\ Len(Rest(q, k)) = Len(q) - k
             /\ k < Len(q) => Rest(q, k)[1] = q[k+1]
             /\ Total(Rest(q, k)) \in Nat
  <2>1. Total(Rest(q, k)) <= Total(q)
    BY <1>1, TotalOfRest DEF Rest
  <2>2. /\ Rest(q, k) \in Seq(Nat) /\ Len(Rest(q, k)) = Len(q) - k
        /\ k < Len(q) => Rest(q, k)[1] = q[k+1]
    BY <1>1, RestFacts DEF Chunks
  <2>3. Total(Rest(q, k)) \in Nat
    BY <2>2, TotalIsNat
  <2> HIDE DEF q
  <2> QED  BY <1>1, <2>1, <2>2, <2>3
<1> HIDE DEF q
<1>4. ASSUME NEW k \in 0..(Len(q) - 1), NEW w \in 1..(q[k+1] - 1)
      PROVE  Total([Rest(q, k) EXCEPT ![1] = @ - w]) <= BufSpace
  <2> DEFINE r == Rest(q, k)
  <2>1. k \in 0..Len(q) /\ k < Len(q) /\ Len(q) - k > 0 /\ k + 1 \in 1..Len(q)
    BY <1>1
  <2>2. /\ r \in Seq(Nat) /\ Len(r) = Len(q) - k /\ r[1] = q[k+1]
        /\ Total(r) <= BufSpace /\ Total(r) \in Nat
    BY <1>3, <2>1
  <2> HIDE DEF r
  <2>3. q[k+1] \in Nat
    BY <1>1, <2>1
  <2>4. w \in Nat /\ w <= r[1] /\ Len(r) > 0
    BY <2>1, <2>2, <2>3
  <2>5. Total([r EXCEPT ![1] = @ - w]) = Total(r) - w
    BY <2>2, <2>4, TotalOfPart
  <2>6. Total([r EXCEPT ![1] = @ - w]) <= BufSpace
    BY <1>1, <2>2, <2>4, <2>5
  <2> QED  BY <2>6 DEF r
<1>5. Total(d.c.out_queue) <= BufSpace
  BY <1>1, <1>2, <1>3, <1>4 DEF Shortened
<1> QED  BY <1>2, <1>5 DEF Fits

(* ctcp_output() asks conn_bufspace() before it outputs.                    *)
LEMMA OutputStepFits ==
  ASSUME StreamInv, QueueFits, NEW h \in Host, NEW s, NEW c, NEW n, Fits(c),
         s.received_segment \in Segment, ctcp_output(h, s, c, n)
  PROVE  QueueFits'
<1> DEFINE piece == DataOf(s.received_segment)
<1>1. piece \in Piece /\ piece.len = s.received_segment.len
  BY DEF DataOf, Piece, Segment
<1> HIDE DEF piece
<1>2. CASE OutputWaits(h, s, c, n)
  BY <1>2, ReturnFits DEF OutputWaits
<1>3. CASE OutputData(h, s, c, n)
  <2>1. PICK w \in conn_output(c, piece) :
          \/ ctcp_destroy(h, s, w.c, n)
          \/ \E t, m : Return(h, t, w.c, m)
    BY <1>3 DEF OutputData, piece
  <2>2. conn_bufspace(c) >= piece.len
    BY <1>1, <1>3 DEF OutputData
  <2>3. Fits(w.c)
    BY <1>1, <2>2, OutputFits
  <2> QED  BY <2>1, <2>3, DestroyFits, ReturnFits
<1> QED  BY <1>2, <1>3 DEF ctcp_output

LEMMA ReceiveFits ==
  ASSUME StreamInv, QueueFits, NEW h \in Host, Receive(h)
  PROVE  QueueFits'
<1> DEFINE s == state[h]  g == Head(net.wire[h])  c == conn[h]
<1>1. /\ c \in Conn /\ s \in CtcpState /\ net.wire[h] \in Seq(Segment)
      /\ net.wire[h] # <<>>
  BY HostParts DEF Receive
<1>2. g \in Segment
  BY <1>1
<1>3. PICK n : ctcp_receive(h, s, g, n)
  BY DEF Receive
<1>4. Fits(c) /\ Fits(output_eof(c))
  <2>1. output_eof(c) \in Conn /\ output_eof(c).out_queue = c.out_queue
    BY <1>1 DEF output_eof, Conn
  <2> QED  BY <1>1, <2>1 DEF Fits, QueueFits
<1>5. \/ \E t, m : Return(h, t, c, m)
      \/ \E t, m : Return(h, t, output_eof(c), m)
      \/ \E t, m : ctcp_destroy(h, t, c, m)
      \/ ctcp_output(h, [s EXCEPT !.received_segment = g], c, n)
  BY <1>3, Zenon DEF ctcp_receive, InDataTransfer, TakesAck, InTearDown, InWaitLastFin,
                       InWaitLastAck
<1>6. [s EXCEPT !.received_segment = g].received_segment = g
  BY <1>1 DEF CtcpState
<1> HIDE DEF s, g, c
<1> QED  BY <1>2, <1>4, <1>5, <1>6, ReturnFits, DestroyFits, OutputStepFits

LEMMA DrainStepFits ==
  ASSUME StreamInv, QueueFits, NEW h \in Host, Drain(h)
  PROVE  QueueFits'
<1> DEFINE s == state[h]
<1>1. PICK d \in conn_drain(conn[h]) :
        \/ Return(h, s, d.c, net)
        \/ s.received_segment # NULL /\ ctcp_output(h, s, d.c, net)
        \/ UseAfterFree(h, s, d.c, net)
  BY DEF Drain
<1>2. Fits(conn[h]) /\ s \in CtcpState
  BY HostParts DEF Fits, QueueFits
<1>3. Fits(d.c)
  BY <1>2, DrainFits
<1>4. CASE Return(h, s, d.c, net)
  BY <1>3, <1>4, ReturnFits
<1>5. CASE s.received_segment # NULL /\ ctcp_output(h, s, d.c, net)
  <2>1. s.received_segment \in Segment
    BY <1>2, <1>5 DEF CtcpState, MaybeSegment
  <2> QED  BY <1>3, <1>5, <2>1, OutputStepFits
<1>6. CASE UseAfterFree(h, s, d.c, net)
  <2> DEFINE c == [d.c EXCEPT !.tainted = TRUE]  piece == [pos |-> 0, len |-> 1]
  <2>1. c \in Conn /\ c.out_queue = d.c.out_queue
    BY <1>3 DEF Fits, Conn
  <2>2. Fits(c)
    BY <1>3, <2>1 DEF Fits
  <2>3. \/ \E t, m : Return(h, t, c, m)
        \/ Gone(h, s, c, net, "crashed")
        \/ /\ conn_bufspace(c) > 0
           /\ \E w \in conn_output(c, piece) :
                ctcp_destroy(h, s, w.c, net) \/ \E t, m : Return(h, t, w.c, m)
    BY <1>6, Zenon DEF UseAfterFree
  <2>4. piece \in Piece /\ piece.len = 1 /\ "crashed" \in Status
    BY DEF Piece, Status
  <2> HIDE DEF c, piece
  <2>5. conn_bufspace(c) > 0 => conn_bufspace(c) >= piece.len
    <3>1. c.out_queue \in Seq(Nat)
      BY <2>2 DEF Fits, Conn, Chunks
    <3>2. Total(c.out_queue) \in Nat
      BY <3>1, TotalIsNat
    <3>3. conn_bufspace(c) \in Int
      BY <3>2, SizeAssumption DEF conn_bufspace
    <3> QED  BY <2>4, <3>3
  <2>6. ASSUME conn_bufspace(c) > 0, NEW w \in conn_output(c, piece)
        PROVE  Fits(w.c)
    BY <2>2, <2>4, <2>5, <2>6, OutputFits
  <2> QED  BY <2>2, <2>3, <2>4, <2>6, ReturnFits, GoneFits, DestroyFits
<1> QED  BY <1>1, <1>4, <1>5, <1>6

(* No other handler touches the queue.                                      *)
LEMMA OthersFit ==
  ASSUME StreamInv, QueueFits, NEW h \in Host,
         ReadData(h) \/ ReadEof(h) \/ Discard(h) \/ ctcp_timer(h)
  PROVE  QueueFits'
<1>1. conn[h] \in Conn /\ Fits(conn[h]) /\ conn[h].nread \in Nat /\ Input[h] \in Nat
  BY HostParts, InputAssumption DEF Fits, QueueFits, Conn
<1>2. CASE ReadData(h) \/ ReadEof(h)
  <2>1. PICK i \in conn_input(h) : \E t, m : Return(h, t, i.c, m)
    BY <1>2 DEF ReadData, ReadEof
  <2>2. \/ i = [rc |-> -1, c |-> [conn[h] EXCEPT !.read_eof = TRUE]]
        \/ \E len \in Nat : i = [rc |-> len, c |-> [conn[h] EXCEPT !.nread = @ + len]]
    BY <1>1, SizeAssumption DEF conn_input
  <2>3. i.c \in Conn /\ i.c.out_queue = conn[h].out_queue
    <3>1. CASE i = [rc |-> -1, c |-> [conn[h] EXCEPT !.read_eof = TRUE]]
      BY <1>1, <3>1 DEF Conn
    <3>2. ASSUME NEW len \in Nat,
                 i = [rc |-> len, c |-> [conn[h] EXCEPT !.nread = @ + len]]
          PROVE  i.c \in Conn /\ i.c.out_queue = conn[h].out_queue
      BY <1>1, <3>2 DEF Conn
    <3> QED  BY <2>2, <3>1, <3>2
  <2>4. Fits(i.c)
    BY <1>1, <2>3 DEF Fits
  <2> QED  BY <2>1, <2>4, ReturnFits
<1>3. CASE Discard(h)
  BY <1>1, <1>3, ReturnFits DEF Discard
<1>4. CASE ctcp_timer(h)
  <2>1. \/ \E t, m : Return(h, t, conn[h], m)
        \/ \E t, m : \E status \in Status : Gone(h, t, conn[h], m, status)
    BY <1>4 DEF ctcp_timer, TimerDestroys, TimerTicks, Retransmit, Status
  <2> QED  BY <1>1, <2>1, ReturnFits, GoneFits
<1> QED  BY <1>2, <1>3, <1>4

(* The output queue never holds more than MAX_BUF_SPACE bytes: ctcp_output()*)
(* asks conn_bufspace() before every conn_output(), on what it has kept and *)
(* even on freed memory, and nothing is queued in between.                  *)
THEOREM QueueNeverOverflows == Spec => []QueueFits
<1>1. Init => QueueFits
  <2> SUFFICES ASSUME Init, NEW h \in Host PROVE Total(conn[h].out_queue) <= BufSpace
    BY DEF QueueFits
  <2>1. conn[h].out_queue = <<>>
    BY DEF Init, ConnInit
  <2>2. <<>> \in Seq(Nat)
    OBVIOUS
  <2>3. Total(<<>>) = 0
    BY <2>2, TotalIsNat
  <2> QED  BY <2>1, <2>3, SizeAssumption
<1>2. StreamInv /\ QueueFits /\ [Next]_vars => QueueFits'
  <2> SUFFICES ASSUME StreamInv, QueueFits, [Next]_vars PROVE QueueFits'
    OBVIOUS
  <2>1. CASE UNCHANGED vars \/ \E f \in net.forked : ForkedSend(f)
    BY <2>1 DEF vars, ForkedSend, QueueFits
  <2>2. ASSUME NEW h \in Host, Receive(h)  PROVE QueueFits'
    BY <2>2, ReceiveFits
  <2>3. ASSUME NEW h \in Host, Drain(h)  PROVE QueueFits'
    BY <2>3, DrainStepFits
  <2>4. ASSUME NEW h \in Host, ReadData(h) \/ ReadEof(h) \/ Discard(h) \/ ctcp_timer(h)
        PROVE  QueueFits'
    BY <2>4, OthersFit
  <2> QED  BY <2>1, <2>2, <2>3, <2>4 DEF Next
<1> QED  BY <1>1, <1>2, StreamInvariant, PTL DEF Spec
=============================================================================
