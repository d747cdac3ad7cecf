--------------------------- MODULE CtcpFifoProofs ---------------------------
(* Proofs that nothing is missing from what a host (Ctcp) prints when no    *)
(* segment is lost, that the traffic never grows, whatever is lost, and     *)
(* that therefore sockets which are large enough lose nothing.              *)
EXTENDS CtcpProofs, FiniteSetTheorems

-----------------------------------------------------------------------------
(* Sequence numbers under way *)

LEMMA PastFacts ==
  ASSUME NEW g \in Segment
  PROVE  /\ g.seqno \in Nat /\ g.len \in Nat /\ g.pos \in Nat
         /\ Past(g) \in Nat /\ g.seqno <= Past(g)
         /\ IsFin(g) => Past(g) = g.seqno + 1
         /\ ~IsFin(g) => Past(g) = g.seqno + g.len
BY DEF Segment, Past

LEMMA RangeOfAppend ==
  ASSUME NEW w \in Seq(Segment), NEW g \in Segment
  PROVE  /\ Append(w, g) \in Seq(Segment)
         /\ Range(Append(w, g)) = Range(w) \cup {g}
         /\ DOMAIN Append(w, g) = 1..(Len(w) + 1) /\ DOMAIN w = 1..Len(w) /\ Len(w) \in Nat
         /\ \A i \in DOMAIN w : Append(w, g)[i] = w[i]
         /\ Append(w, g)[Len(w) + 1] = g
<1>1. /\ DOMAIN Append(w, g) = 1..(Len(w) + 1) /\ DOMAIN w = 1..Len(w) /\ Len(w) \in Nat
      /\ \A i \in DOMAIN w : Append(w, g)[i] = w[i]
      /\ Append(w, g)[Len(w) + 1] = g
  OBVIOUS
<1>2. \A i : i \in 1..(Len(w) + 1) <=> i \in 1..Len(w) \/ i = Len(w) + 1
  BY <1>1
<1>3. Range(Append(w, g)) = Range(w) \cup {g}
  BY <1>1, <1>2 DEF Range
<1> QED  BY <1>1, <1>3

(* A segment not sent before goes out under the next sequence number.       *)
LEMMA GapFreeSend ==
  ASSUME NEW w \in Seq(Segment), NEW kept \in SUBSET Segment,
         NEW ackno \in Nat, NEW seqno \in Nat, GapFree(w, kept, ackno, seqno),
         NEW g \in Segment, g.ok, g.seqno = seqno,
         NEW next \in SUBSET Segment, next \subseteq kept \cup {g}
  PROVE  GapFree(Append(w, g), next, ackno, Past(g))
<1> DEFINE v == Append(w, g)
<1>1. /\ v \in Seq(Segment) /\ Range(v) = Range(w) \cup {g}
      /\ DOMAIN v = 1..(Len(w) + 1) /\ DOMAIN w = 1..Len(w) /\ Len(w) \in Nat
      /\ \A i \in DOMAIN w : v[i] = w[i]
      /\ v[Len(w) + 1] = g
  BY RangeOfAppend
<1> HIDE DEF v
<1>2. Range(w) \subseteq Segment
  BY DEF Range
<1>3. Past(g) \in Nat /\ seqno <= Past(g)
  BY PastFacts
<1>4. \A x \in Range(w) \cup kept : x \in Segment /\ x.ok /\ Past(x) <= seqno
                                   /\ (x.seqno < ackno => Past(x) <= ackno)
  BY <1>2 DEF GapFree
<1>5. \A x \in Segment : x.seqno \in Nat /\ Past(x) \in Nat /\ x.seqno <= Past(x)
  BY PastFacts
<1>6. ackno <= seqno
  BY DEF GapFree
<1>7. ackno <= Past(g)
  BY <1>3, <1>6
<1>8. \A x \in Range(v) \cup next : x = g \/ x \in Range(w) \cup kept
  BY <1>1
<1>9. ASSUME NEW x \in Range(v) \cup next
      PROVE  x.ok /\ Past(x) <= Past(g) /\ (x.seqno < ackno => Past(x) <= ackno)
  <2>1. CASE x = g
    BY <1>3, <1>6, <2>1
  <2>2. CASE x \in Range(w) \cup kept
    BY <1>3, <1>4, <1>5, <2>2
  <2> QED  BY <1>8, <2>1, <2>2
<1>10. ASSUME NEW x \in Range(v) \cup next, NEW y \in Range(v) \cup next,
              x.seqno <= y.seqno, y.seqno < Past(x)
       PROVE  Past(y) <= Past(x)
  <2>1. CASE x = g
    BY <1>9, <2>1
  <2>2. CASE x # g
    <3>1. x \in Range(w) \cup kept
      BY <1>8, <2>2
    <3>2. y # g
      BY <1>3, <1>4, <1>5, <1>10, <3>1
    <3>3. y \in Range(w) \cup kept
      BY <1>8, <3>2
    <3> QED  BY <1>10, <3>1, <3>3 DEF GapFree
  <2> QED  BY <2>1, <2>2
<1>11. ASSUME NEW i \in DOMAIN v
       PROVE  v[i].seqno <= ackno \/ \E j \in 1..(i-1) : v[i].seqno <= Past(v[j])
  <2>1. CASE i = Len(w) + 1
    <3>1. v[i].seqno = seqno
      BY <1>1, <2>1
    <3>2. seqno <= ackno \/ \E j \in DOMAIN w : seqno <= Past(w[j])
      BY DEF GapFree
    <3>3. \A j \in DOMAIN w : j \in 1..(i-1) /\ v[j] = w[j]
      BY <1>1, <2>1
    <3> QED  BY <3>1, <3>2, <3>3
  <2>2. CASE i # Len(w) + 1
    <3>1. i \in DOMAIN w /\ v[i] = w[i]
      BY <1>1, <2>2
    <3>2. \A j \in 1..(i-1) : v[j] = w[j]
      BY <1>1, <3>1
    <3> QED  BY <3>1, <3>2 DEF GapFree
  <2> QED  BY <2>1, <2>2
<1>12. \E j \in DOMAIN v : Past(g) <= Past(v[j])
  <2>1. Len(w) + 1 \in DOMAIN v
    BY <1>1
  <2> QED  BY <1>1, <1>3, <2>1
<1>13. GapFree(v, next, ackno, Past(g))
  BY <1>7, <1>9, <1>10, <1>11, <1>12 DEF GapFree
<1> QED  BY <1>13 DEF v

(* A segment that is kept goes out again.                                   *)
LEMMA GapFreeResend ==
  ASSUME NEW w \in Seq(Segment), NEW kept \in SUBSET Segment,
         NEW ackno \in Nat, NEW seqno \in Nat, GapFree(w, kept, ackno, seqno),
         NEW g \in kept, NEW next \in SUBSET kept
  PROVE  GapFree(Append(w, g), next, ackno, seqno)
<1> DEFINE v == Append(w, g)
<1>1. /\ v \in Seq(Segment) /\ Range(v) = Range(w) \cup {g}
      /\ DOMAIN v = 1..(Len(w) + 1) /\ DOMAIN w = 1..Len(w) /\ Len(w) \in Nat
      /\ \A i \in DOMAIN w : v[i] = w[i]
      /\ v[Len(w) + 1] = g
  BY RangeOfAppend
<1> HIDE DEF v
<1>2. Range(v) \cup next \subseteq Range(w) \cup kept
  BY <1>1
<1>3. g.seqno \in Nat /\ Past(g) \in Nat /\ g.seqno <= Past(g) /\ Past(g) <= seqno
  BY PastFacts DEF GapFree
<1>4. g.seqno <= seqno
  BY <1>3
<1>5. \A i \in DOMAIN w : w[i] \in Segment /\ Past(w[i]) \in Nat
  BY PastFacts
<1>6. ASSUME NEW i \in DOMAIN v
      PROVE  v[i].seqno <= ackno \/ \E j \in 1..(i-1) : v[i].seqno <= Past(v[j])
  <2>1. CASE i = Len(w) + 1
    <3>1. v[i] = g
      BY <1>1, <2>1
    <3>2. seqno <= ackno \/ \E j \in DOMAIN w : seqno <= Past(w[j])
      BY DEF GapFree
    <3>3. g.seqno <= ackno \/ \E j \in DOMAIN w : g.seqno <= Past(w[j])
      BY <1>3, <1>4, <1>5, <3>2
    <3>4. \A j \in DOMAIN w : j \in 1..(i-1) /\ v[j] = w[j]
      BY <1>1, <2>1
    <3> QED  BY <3>1, <3>3, <3>4
  <2>2. CASE i # Len(w) + 1
    <3>1. i \in DOMAIN w /\ v[i] = w[i]
      BY <1>1, <2>2
    <3>2. \A j \in 1..(i-1) : v[j] = w[j]
      BY <1>1, <3>1
    <3> QED  BY <3>1, <3>2 DEF GapFree
  <2> QED  BY <2>1, <2>2
<1>7. seqno <= ackno \/ \E j \in DOMAIN v : seqno <= Past(v[j])
  <2>1. \A j \in DOMAIN w : j \in DOMAIN v /\ v[j] = w[j]
    BY <1>1
  <2> QED  BY <2>1 DEF GapFree
<1>8. GapFree(v, next, ackno, seqno)
  BY <1>2, <1>6, <1>7 DEF GapFree
<1> QED  BY <1>8 DEF v

(* The oldest segment is at or below ackno.                                 *)
LEMMA HeadIsDue ==
  ASSUME NEW w \in Seq(Segment), w # <<>>, NEW kept, NEW ackno \in Nat,
         NEW seqno \in Nat, GapFree(w, kept, ackno, seqno)
  PROVE  Head(w) \in Segment /\ Head(w) \in Range(w) /\ Head(w).seqno <= ackno
<1>1. 1 \in DOMAIN w /\ Head(w) = w[1] /\ w[1] \in Segment
  OBVIOUS
<1>2. ~ \E j \in 1..(1 - 1) : TRUE
  OBVIOUS
<1> QED  BY <1>1, <1>2 DEF GapFree, Range

(* It is taken, and ackno is moved past it.                                 *)
LEMMA GapFreeTake ==
  ASSUME NEW w \in Seq(Segment), w # <<>>, NEW kept \in SUBSET Segment,
         NEW ackno \in Nat, NEW seqno \in Nat, GapFree(w, kept, ackno, seqno),
         NEW next \in Nat, ackno <= next, Past(Head(w)) <= next,
         next = ackno \/ (Head(w).seqno = ackno /\ next = Past(Head(w)))
  PROVE  GapFree(Tail(w), kept, next, seqno)
<1> DEFINE v == Tail(w)  g == Head(w)
<1>1. /\ v \in Seq(Segment) /\ Len(v) = Len(w) - 1 /\ DOMAIN v = 1..Len(v)
      /\ DOMAIN w = 1..Len(w) /\ Len(w) \in Nat /\ Len(w) >= 1
      /\ \A i \in DOMAIN v : v[i] = w[i+1]
      /\ g = w[1] /\ g \in Segment
  OBVIOUS
<1>2. \A i \in DOMAIN v : i + 1 \in DOMAIN w /\ v[i] = w[i+1] /\ v[i] \in Segment
  BY <1>1
<1>3. Range(v) \subseteq Range(w) /\ g \in Range(w)
  BY <1>1, <1>2 DEF Range
<1> HIDE DEF v, g
<1>4. Range(w) \subseteq Segment
  BY DEF Range
<1>5. \A x \in Segment : x.seqno \in Nat /\ Past(x) \in Nat /\ x.seqno <= Past(x)
  BY PastFacts
<1>6. next <= seqno
  <2>1. ackno <= seqno /\ Past(g) <= seqno
    BY <1>3 DEF GapFree
  <2> QED  BY <2>1 DEF g
<1>7. ASSUME NEW x \in Range(v) \cup kept
      PROVE  x.ok /\ Past(x) <= seqno /\ (x.seqno < next => Past(x) <= next)
  <2>1. x \in Range(w) \cup kept /\ x \in Segment
    BY <1>3, <1>4
  <2>2. x.ok /\ Past(x) <= seqno /\ (x.seqno < ackno => Past(x) <= ackno)
    BY <2>1 DEF GapFree
  <2>3. ASSUME x.seqno < next  PROVE Past(x) <= next
    <3>1. CASE x.seqno < ackno
      <4>1. Past(x) <= ackno
        BY <2>2, <3>1
      <4> QED  BY <1>5, <2>1, <4>1
    <3>2. CASE ~(x.seqno < ackno)
      <4>1. g.seqno = ackno /\ next = Past(g)
        BY <2>3, <3>2 DEF g
      <4>2. g.seqno <= x.seqno /\ x.seqno < Past(g)
        BY <1>5, <2>1, <2>3, <3>2, <4>1
      <4> QED  BY <1>3, <2>1, <4>1, <4>2 DEF GapFree
    <3> QED  BY <3>1, <3>2
  <2> QED  BY <2>2, <2>3
<1>8. ASSUME NEW x \in Range(v) \cup kept, NEW y \in Range(v) \cup kept,
             x.seqno <= y.seqno, y.seqno < Past(x)
      PROVE  Past(y) <= Past(x)
  BY <1>3, <1>8 DEF GapFree
<1>9. ASSUME NEW x \in Nat, NEW i \in 1..Len(w),
             x <= ackno \/ \E j \in 1..(i-1) : x <= Past(w[j])
      PROVE  x <= next \/ \E j \in 1..(i-2) : j \in DOMAIN v /\ x <= Past(v[j])
  <2>1. CASE x <= ackno
    BY <2>1
  <2>2. ASSUME NEW j \in 1..(i-1), x <= Past(w[j])
        PROVE  x <= next \/ \E k \in 1..(i-2) : k \in DOMAIN v /\ x <= Past(v[k])
    <3>1. CASE j = 1
      <4>1. x <= Past(g) /\ Past(g) \in Nat /\ Past(g) <= next
        BY <1>1, <1>5, <2>2, <3>1 DEF g
      <4> QED  BY <4>1
    <3>2. CASE j # 1
      <4>1. j - 1 \in 1..(i-2) /\ j - 1 \in DOMAIN v /\ (j - 1) + 1 = j
        BY <1>1, <3>2
      <4>2. v[j-1] = w[j]
        BY <1>2, <4>1
      <4> QED  BY <2>2, <4>1, <4>2
    <3> QED  BY <3>1, <3>2
  <2> QED  BY <1>9, <2>1, <2>2
<1>10. ASSUME NEW i \in DOMAIN v
       PROVE  v[i].seqno <= next \/ \E j \in 1..(i-1) : v[i].seqno <= Past(v[j])
  <2>0. v[i] = w[i+1] /\ v[i] \in Segment /\ i + 1 \in DOMAIN w
    BY <1>2
  <2>1. i + 1 \in 1..Len(w) /\ v[i] = w[i+1] /\ v[i].seqno \in Nat /\ (i + 1) - 2 = i - 1
    <3>1. i \in Nat
      BY <1>1
    <3>2. (i + 1) - 2 = i - 1
      BY <3>1
    <3>3. v[i].seqno \in Nat
      BY <1>5, <2>0
    <3> QED  BY <1>1, <2>0, <3>2, <3>3
  <2>2. w[i+1].seqno <= ackno \/ \E j \in 1..((i+1)-1) : w[i+1].seqno <= Past(w[j])
    BY <1>1, <2>1 DEF GapFree
  <2>3. v[i].seqno <= next \/ \E j \in 1..((i+1)-2) : j \in DOMAIN v /\ v[i].seqno <= Past(v[j])
    BY <1>9, <2>1, <2>2
  <2> QED  BY <2>1, <2>3
<1>11. seqno <= next \/ \E j \in DOMAIN v : seqno <= Past(v[j])
  <2>1. CASE seqno <= ackno
    BY <2>1
  <2>2. ASSUME NEW j \in DOMAIN w, seqno <= Past(w[j])
        PROVE  seqno <= next \/ \E k \in DOMAIN v : seqno <= Past(v[k])
    <3>1. CASE j = 1
      <4>1. seqno <= Past(g) /\ Past(g) \in Nat /\ Past(g) <= next
        BY <1>1, <1>5, <2>2, <3>1 DEF g
      <4> QED  BY <4>1
    <3>2. CASE j # 1
      <4>1. j - 1 \in DOMAIN v /\ (j - 1) + 1 = j
        BY <1>1, <3>2
      <4>2. v[j-1] = w[j]
        BY <1>2, <4>1
      <4> QED  BY <2>2, <4>1, <4>2
    <3> QED  BY <3>1, <3>2
  <2> QED  BY <2>1, <2>2 DEF GapFree
<1>12. GapFree(v, kept, next, seqno)
  BY <1>6, <1>7, <1>8, <1>10, <1>11 DEF GapFree
<1> QED  BY <1>12 DEF v

-----------------------------------------------------------------------------
(* Sending without a fault *)

(* Each injected fault is counted, and a sent segment adds none.            *)
LEMMA FaultsCounted ==
  ASSUME NEW n \in Net, NEW h \in Host, NEW g \in Segment
  PROVE  /\ Spend(n).faults > 0
         /\ \A c \in Corruption(h, n, g) : c = [n |-> n, segment |-> g] \/ c.n.faults > 0
         /\ \A p \in Host : send_pkt(p, n, g).n.faults = n.faults
         /\ \A m \in Fork(h, n, g) : m.faults > 0
<1>1. n.faults \in Nat /\ Spend(n) \in Net /\ Spend(n).faults > 0
  BY SpendFacts DEF Spend, Net
<1>2. ASSUME NEW k \in Net, NEW c \in Corruption(h, k, g)
      PROVE  c = [n |-> k, segment |-> g] \/ c.n = Spend(k)
  BY <1>2 DEF Corruption, When
<1>3. \A c \in Corruption(h, n, g) : c = [n |-> n, segment |-> g] \/ c.n.faults > 0
  BY <1>1, <1>2
<1>4. \A p \in Host : send_pkt(p, n, g).n.faults = n.faults
  BY DEF send_pkt, Net
<1>5. ASSUME NEW m \in Fork(h, n, g)
      PROVE  m.faults > 0
  <2>1. PICK c \in Corruption(h, Spend(n), g) :
          m = [c.n EXCEPT !.forked = @ \cup
                 {[pid |-> n.faults, to |-> Peer(h), segment |-> c.segment]}]
    BY DEF Fork
  <2>2. c.n = Spend(n) \/ c.n = Spend(Spend(n))
    BY <1>1, <1>2
  <2>3. c.n \in Net /\ c.n.faults > 0
    <3>1. \A k \in Net : Spend(k) \in Net /\ Spend(k).faults > 0
      BY SpendFacts DEF Spend, Net
    <3> QED  BY <1>1, <2>2, <3>1
  <2> QED  BY <2>1, <2>3 DEF Net
<1> QED  BY <1>1, <1>3, <1>4, <1>5

(* conn_send() with no fault so far and none after it is send_pkt().        *)
LEMMA CleanSend ==
  ASSUME NEW n \in Net, NEW h \in Host, NEW g \in Segment,
         NEW o \in conn_send(h, n, g), o.n.faults = 0
  PROVE  o = send_pkt(Peer(h), n, g)
<1>0. Peer(h) \in Host
  BY PeerFacts
<1>1. o # [rc |-> 0, n |-> Spend(n)]
  BY FaultsCounted
<1>2. PICK m \in Duplication(h, n, g) : o \in DelayOrSend(h, m, g)
  BY <1>1 DEF conn_send, When
<1>3. m \in Net /\ (m = n \/ m.faults > 0)
  BY FaultsCounted, ForkFacts DEF Duplication, When, After
<1>4. ASSUME NEW k \in Fork(h, m, g), o = [rc |-> 0, n |-> k]
      PROVE  FALSE
  BY <1>3, <1>4, FaultsCounted
<1>5. PICK c \in Corruption(h, m, g) : o = send_pkt(Peer(h), c.n, c.segment)
  BY <1>2, <1>4 DEF DelayOrSend, When
<1>6. c.n \in Net /\ c.segment \in Segment
  BY <1>3, CorruptionFacts
<1>7. c.n.faults = 0
  BY <1>0, <1>5, <1>6, FaultsCounted
<1>8. c = [n |-> m, segment |-> g]
  BY <1>3, <1>7, FaultsCounted
<1>9. m.faults = 0
  BY <1>7, <1>8
<1>10. m = n
  BY <1>3, <1>9
<1> QED  BY <1>5, <1>8, <1>10

(* n with g appended to the queue of host p.                                *)
Queued(m, n, p, g) == /\ m \in Net /\ m.wire = [n.wire EXCEPT ![p] = Append(@, g)]
                      /\ m.forked = n.forked

(* It reaches the peer's queue unless the peer is gone.                     *)
LEMMA CleanSendFacts ==
  ASSUME NEW n \in Net, NEW h \in Host, NEW g \in Segment, n.forked = {},
         NEW o \in conn_send(h, n, g), o.n.faults = 0,
         Len(o.n.wire[Peer(h)]) < QueueLen
  PROVE  /\ o.n.forked = {} /\ o.n.wire[h] = n.wire[h] /\ n.faults = 0
         /\ IF Running(Peer(h)) THEN o.rc = 0 /\ Queued(o.n, n, Peer(h), g)
            ELSE o.rc = -1 /\ o.n = n
<1> DEFINE p == Peer(h)
<1>0. p \in Host /\ p # h
  BY PeerFacts
<1>1. o = send_pkt(p, n, g)
  BY CleanSend
<1>2. n.faults = 0
  BY <1>0, <1>1, FaultsCounted
<1>3. SocketOpen(p, n) <=> Running(p)
  BY DEF SocketOpen
<1> HIDE DEF p
<1>4. CASE Running(p)
  <2>1. Len(n.wire[p]) < QueueLen
    <3>1. SUFFICES ASSUME ~(Len(n.wire[p]) < QueueLen) PROVE FALSE
      OBVIOUS
    <3>2. o.n = n
      BY <1>1, <3>1 DEF send_pkt
    <3> QED  BY <3>1, <3>2 DEF p
  <2>2. o = [rc |-> 0, n |-> [n EXCEPT !.wire[p] = Append(@, g)]]
    BY <1>1, <1>3, <1>4, <2>1 DEF send_pkt
  <2>3. o.n \in Net
    BY <1>0, <1>1, SendPktFacts
  <2>4. /\ o.rc = 0 /\ o.n.wire = [n.wire EXCEPT ![p] = Append(@, g)]
        /\ o.n.forked = n.forked
    <3> DEFINE m == [n EXCEPT !.wire[p] = Append(@, g)]
    <3>1. m.wire = [n.wire EXCEPT ![p] = Append(@, g)] /\ m.forked = n.forked
      BY DEF Net
    <3>2. o.rc = 0 /\ o.n = m
      BY <2>2
    <3> HIDE DEF m
    <3> QED  BY <3>1, <3>2
  <2>5. o.n.wire[h] = n.wire[h]
    BY <1>0, <2>4 DEF Net, Wires
  <2> QED  BY <1>2, <1>4, <2>3, <2>4, <2>5 DEF Queued, p
<1>5. CASE ~Running(p)
  <2>1. o = [rc |-> -1, n |-> n]
    BY <1>1, <1>3, <1>5 DEF send_pkt
  <2> QED  BY <1>2, <1>5, <2>1 DEF p
<1> QED  BY <1>4, <1>5

(* _segment_send() then records what it sent, and nothing otherwise.        *)
LEMMA CleanSegmentSend ==
  ASSUME NEW n \in Net, NEW h \in Host, NEW s \in CtcpState, n.forked = {},
         NEW flags \in Flags, NEW pos \in Nat, NEW len \in Nat,
         NEW o \in segment_send(h, s, n, flags, pos, len), o.n.faults = 0,
         Len(o.n.wire[Peer(h)]) < QueueLen
  PROVE  LET g == Built(s, flags, pos, len) IN
         /\ o.n \in Net /\ o.n.forked = {} /\ o.n.wire[h] = n.wire[h] /\ n.faults = 0
         /\ IF Running(Peer(h))
            THEN /\ o.rc = 0 /\ Queued(o.n, n, Peer(h), g) /\ o.s.seqno = Past(g)
                 /\ Kept(o.s) \subseteq Kept(s) \cup {g}
            ELSE o.rc = -1 /\ o.n = n /\ o.s = s
<1> DEFINE g == Built(s, flags, pos, len)
           sent == [s EXCEPT !.seqno = @ + IF "FIN" \in flags THEN 1 ELSE len]
           kept == save_sent_segment(sent, g)
<1>1. g \in Segment
  BY DEF Built, Segment, CtcpState
<1>2. PICK p \in conn_send(h, n, g) :
        o = [rc |-> p.rc, n |-> p.n,
             s |-> IF p.rc < 0 THEN s
                   ELSE IF len > 0 \/ "FIN" \in flags THEN kept ELSE sent]
  BY DEF segment_send, Built
<1>3. Past(g) = s.seqno + IF "FIN" \in flags THEN 1 ELSE len
  BY DEF Past, IsFin, Built
<1>4. sent.seqno = Past(g) /\ kept.seqno = Past(g)
  BY <1>3 DEF save_sent_segment, CtcpState
<1>5. Kept(o.s) \subseteq Kept(s) \cup {g} /\ o.n \in Net
  BY SegmentSendFacts DEF After
<1>6. o.rc = p.rc /\ o.n = p.n
  BY <1>2
<1> HIDE DEF g, sent, kept
<1>7. /\ o.n.forked = {} /\ o.n.wire[h] = n.wire[h] /\ n.faults = 0
      /\ IF Running(Peer(h)) THEN o.rc = 0 /\ Queued(o.n, n, Peer(h), g)
         ELSE o.rc = -1 /\ o.n = n
  BY <1>1, <1>6, CleanSendFacts
<1>8. CASE Running(Peer(h))
  <2>1. o.s = sent \/ o.s = kept
    BY <1>2, <1>6, <1>7, <1>8
  <2> QED  BY <1>4, <1>5, <1>7, <1>8, <2>1 DEF g
<1>9. CASE ~Running(Peer(h))
  <2>1. o.s = s
    BY <1>2, <1>6, <1>7, <1>9
  <2> QED  BY <1>5, <1>7, <1>9, <2>1 DEF g
<1> QED  BY <1>8, <1>9

-----------------------------------------------------------------------------
(* One handler of host x, with the record s, the connection object c and    *)
(* the network n as they are so far                                         *)

FInv == StreamInv /\ FifoInv /\ OutputIsPrefix /\ CompleteAtEof

ReceivedOf(out) == IF out = <<>> THEN 0 ELSE End(out[Len(out)]) - 1

NoFins(x, s, n) == \A g \in Range(n.wire[Peer(x)]) \cup Kept(s) : ~IsFin(g)

(* Towards the peer the stream is complete.                                 *)
SenderOK(x, s, c, n) ==
  Open(Peer(x)) =>
    /\ GapFree(n.wire[Peer(x)], Kept(s), state[Peer(x)].ackno, s.seqno)
    /\ CountsInput(Range(n.wire[Peer(x)]) \cup Kept(s), c, s.seqno)

(* From the peer it is.                                                     *)
ReceiverOK(x, s, c, n) ==
  /\ Range(n.wire[x]) \subseteq Range(net.wire[x])
  /\ (c.status = "up" /\ s.conn_state = "DATA_TRANSFER") =>
       /\ Open(x)
       /\ GapFree(n.wire[x], Kept(state[Peer(x)]), s.ackno, state[Peer(x)].seqno)
       /\ ReceivedOf(c.out) = s.ackno - 1
       /\ NoFins(x, s, n)

(* What is printed has no gap, also at the end of file.                     *)
OutputOK(x, s, c) ==
  /\ c.out_queue = <<>> /\ ~c.pollout /\ ~c.tainted
  /\ c.wrote_eof => /\ s.conn_state # "DATA_TRANSFER"
                    /\ conn[Peer(x)].read_eof
                    /\ ReceivedOf(c.out) = conn[Peer(x)].nread
  /\ NoGap(c.out)
  /\ conn[x].read_eof => c.read_eof /\ c.nread = conn[x].nread

LEMMA FifoReturn ==
  ASSUME FInv, StreamInv', NEW x \in Host, NEW s, NEW c, NEW n,
         Return(x, s, c, n), n.forked = {},
         SenderOK(x, s, c, n), ReceiverOK(x, s, c, n), OutputOK(x, s, c)
  PROVE  FInv'
<1> DEFINE p == Peer(x)
<1>1. p \in Host /\ p # x /\ Peer(p) = x /\ Host = {x, p}
  BY HostAssumption DEF Peer, Host
<1>2. state \in [Host -> CtcpState] /\ conn \in [Host -> Conn]
  BY DEF FInv, StreamInv, TypeOK
<1>3. /\ state'[x] = s /\ conn'[x] = c /\ net' = n
      /\ state'[p] = state[p] /\ conn'[p] = conn[p]
  BY <1>1, <1>2 DEF Return
<1> HIDE DEF p
<1>4. /\ Toward(x)' = Range(n.wire[x]) \cup Kept(state[p])
      /\ Toward(p)' = Range(n.wire[p]) \cup Kept(s)
      /\ Open(p)' = Open(p)
      /\ Open(x)' = (c.status = "up" /\ s.conn_state = "DATA_TRANSFER")
      /\ Received(x)' = ReceivedOf(c.out) /\ Received(p)' = Received(p)
  BY <1>1, <1>3 DEF Toward, Open, Received, ReceivedOf, p
<1>5. Toward(x)' \subseteq Toward(x)
  BY <1>4 DEF ReceiverOK, Toward, p
<1>6. ASSUME Open(x)'
      PROVE  /\ GapFree(net.wire[x], Kept(state[p]), state[x].ackno, state[p].seqno)'
             /\ CountsInput(Toward(x), conn[p], state[p].seqno)'
             /\ (Received(x) = state[x].ackno - 1)'
             /\ (\A g \in Toward(p) : ~IsFin(g))'
  <2>1. /\ Open(x) /\ ReceivedOf(c.out) = s.ackno - 1
        /\ GapFree(n.wire[x], Kept(state[p]), s.ackno, state[p].seqno)
        /\ \A g \in Range(n.wire[p]) \cup Kept(s) : ~IsFin(g)
    BY <1>4, <1>6 DEF ReceiverOK, NoFins, p
  <2>2. CountsInput(Toward(x), conn[p], state[p].seqno)
    BY <2>1 DEF FInv, FifoInv, p
  <2>3. CountsInput(Toward(x)', conn[p], state[p].seqno)
    BY <1>5, <2>2 DEF CountsInput
  <2> QED  BY <1>3, <1>4, <2>1, <2>3
<1>7. ASSUME Open(p)'
      PROVE  /\ GapFree(net.wire[p], Kept(state[x]), state[p].ackno, state[x].seqno)'
             /\ CountsInput(Toward(p), conn[x], state[x].seqno)'
             /\ (Received(p) = state[p].ackno - 1)'
             /\ (\A g \in Toward(x) : ~IsFin(g))'
  <2>1. Open(p)
    BY <1>4, <1>7
  <2>2. Received(p) = state[p].ackno - 1 /\ \A g \in Toward(x) : ~IsFin(g)
    BY <1>1, <2>1 DEF FInv, FifoInv
  <2>3. /\ GapFree(n.wire[p], Kept(s), state[p].ackno, s.seqno)
        /\ CountsInput(Range(n.wire[p]) \cup Kept(s), c, s.seqno)
    BY <2>1 DEF SenderOK, p
  <2> QED  BY <1>3, <1>4, <1>5, <2>2, <2>3
<1>8. FifoInv'
  <2>1. net'.forked = {}
    BY <1>3
  <2>2. ASSUME NEW h \in Host
        PROVE  /\ conn'[h].out_queue = <<>> /\ ~conn'[h].pollout /\ ~conn'[h].tainted
               /\ conn'[h].wrote_eof => state'[h].conn_state # "DATA_TRANSFER"
    <3>1. CASE h = x
      BY <1>3, <3>1 DEF OutputOK
    <3>2. CASE h = p
      BY <1>1, <1>3, <3>2 DEF FInv, FifoInv
    <3> QED  BY <1>1, <3>1, <3>2
  <2>3. ASSUME NEW h \in Host, Open(h)'
        PROVE  /\ GapFree(net.wire[h], Kept(state[Peer(h)]), state[h].ackno,
                          state[Peer(h)].seqno)'
               /\ CountsInput(Toward(h), conn[Peer(h)], state[Peer(h)].seqno)'
               /\ (Received(h) = state[h].ackno - 1)'
               /\ (\A g \in Toward(Peer(h)) : ~IsFin(g))'
    <3>1. CASE h = x
      BY <1>6, <2>3, <3>1 DEF p
    <3>2. CASE h = p
      BY <1>1, <1>7, <2>3, <3>2
    <3> QED  BY <1>1, <3>1, <3>2
  <2> QED  BY <2>1, <2>2, <2>3 DEF FifoInv
<1>9. OutputIsPrefix'
  <2>1. NoGap(c.out) /\ NoGap(conn[p].out)
    BY <1>1 DEF OutputOK, FInv, OutputIsPrefix
  <2> QED  BY <1>1, <1>3, <2>1 DEF OutputIsPrefix
<1>10. CompleteAtEof'
  <2>1. conn[p].wrote_eof => conn[x].read_eof /\ Received(p) = conn[x].nread
    BY <1>1 DEF FInv, CompleteAtEof
  <2>2. conn[p].wrote_eof => c.read_eof /\ Received(p) = c.nread
    BY <2>1 DEF OutputOK
  <2>3. c.wrote_eof => conn[p].read_eof /\ ReceivedOf(c.out) = conn[p].nread
    BY DEF OutputOK, p
  <2> QED  BY <1>1, <1>3, <1>4, <2>2, <2>3 DEF CompleteAtEof, p
<1> QED  BY <1>8, <1>9, <1>10 DEF FInv

(* Where a handler of a host starts.                                        *)
LEMMA FifoStarts ==
  ASSUME FInv, NEW x \in Host
  PROVE  /\ SenderOK(x, state[x], conn[x], net)
         /\ ReceiverOK(x, state[x], conn[x], net)
         /\ OutputOK(x, state[x], conn[x]) /\ net.forked = {}
         /\ state[x] \in CtcpState /\ conn[x] \in Conn /\ net \in Net
         /\ net.wire[x] \in Seq(Segment) /\ net.wire[Peer(x)] \in Seq(Segment)
<1> DEFINE p == Peer(x)
<1>1. p \in Host /\ p # x /\ Peer(p) = x
  BY PeerFacts
<1>2. /\ state[x] \in CtcpState /\ conn[x] \in Conn /\ net \in Net
      /\ net.wire[x] \in Seq(Segment) /\ net.wire[p] \in Seq(Segment)
  BY <1>1, HostParts DEF FInv
<1> HIDE DEF p
<1>3. SenderOK(x, state[x], conn[x], net)
  BY <1>1 DEF SenderOK, FInv, FifoInv, Toward, p
<1>4. ReceiverOK(x, state[x], conn[x], net)
  <2>1. SUFFICES ASSUME Open(x)
                 PROVE  /\ GapFree(net.wire[x], Kept(state[p]), state[x].ackno, state[p].seqno)
                        /\ Received(x) = state[x].ackno - 1
                        /\ \A g \in Range(net.wire[p]) \cup Kept(state[x]) : ~IsFin(g)
    BY DEF ReceiverOK, Open, NoFins, Received, ReceivedOf, p
  <2> QED  BY <1>1, <2>1 DEF FInv, FifoInv, Toward, p
<1>5. OutputOK(x, state[x], conn[x])
  <2>1. NoGap(conn[x].out)
    BY DEF FInv, OutputIsPrefix
  <2>2. conn[x].wrote_eof => /\ conn[p].read_eof
                             /\ ReceivedOf(conn[x].out) = conn[p].nread
    BY DEF FInv, CompleteAtEof, Received, ReceivedOf, p
  <2> QED  BY <2>1, <2>2 DEF OutputOK, FInv, FifoInv, p
<1> QED  BY <1>2, <1>3, <1>4, <1>5 DEF p, FInv, FifoInv

(* An assignment that keeps seqno and keeps no segment it did not keep.     *)
LEMMA SenderForgets ==
  ASSUME NEW x \in Host, NEW s, NEW c, NEW n, NEW t, NEW d, NEW m, SenderOK(x, s, c, n),
         t.seqno = s.seqno, Kept(t) \subseteq Kept(s),
         d.nread = c.nread, d.read_eof = c.read_eof, m.wire[Peer(x)] = n.wire[Peer(x)]
  PROVE  SenderOK(x, t, d, m) /\ (NoFins(x, s, n) => NoFins(x, t, m))
<1>1. NoFins(x, s, n) => NoFins(x, t, m)
  BY DEF NoFins
<1>2. ASSUME Open(Peer(x))
      PROVE  /\ GapFree(m.wire[Peer(x)], Kept(t), state[Peer(x)].ackno, t.seqno)
             /\ CountsInput(Range(m.wire[Peer(x)]) \cup Kept(t), d, t.seqno)
  <2> DEFINE w == n.wire[Peer(x)]
  <2>1. /\ GapFree(w, Kept(s), state[Peer(x)].ackno, s.seqno)
        /\ CountsInput(Range(w) \cup Kept(s), c, s.seqno)
    BY <1>2 DEF SenderOK
  <2> HIDE DEF w
  <2>2. GapFree(w, Kept(t), state[Peer(x)].ackno, s.seqno)
    BY <2>1 DEF GapFree
  <2>3. CountsInput(Range(w) \cup Kept(t), d, s.seqno)
    BY <2>1 DEF CountsInput
  <2> QED  BY <2>2, <2>3 DEF w
<1> QED  BY <1>1, <1>2 DEF SenderOK

(* Nothing was lost on the way to n.                                        *)
Lossless(x, n) == n.faults = 0 /\ Len(n.wire[Peer(x)]) < QueueLen

(* g, sent under seqno, continues what c counts to what d counts.           *)
Continues(c, seqno, d, g) ==
  \A segments : CountsInput(segments, c, seqno) =>
    CountsInput(segments \cup {g}, d, Past(g))

(* What a send of h may rely on and what it leaves behind.                  *)
MaySend(x, s, n, c) == /\ s \in CtcpState /\ n \in Net /\ n.forked = {}
                       /\ SenderOK(x, s, c, n)
Sends(x, s, n, d, flags, o) ==
  /\ SenderOK(x, o.s, d, o.n)
  /\ o.n \in Net /\ o.n.forked = {} /\ o.n.wire[x] = n.wire[x]
  /\ o.rc < 0 => o.s = s /\ o.n = n
  /\ "FIN" \notin flags /\ NoFins(x, s, n) => NoFins(x, o.s, o.n)

(* _segment_send() continues the stream towards the peer.                   *)
LEMMA FifoSend ==
  ASSUME FInv, NEW x \in Host, NEW s, NEW n, NEW c, NEW d, MaySend(x, s, n, c),
         NEW flags \in Flags, NEW pos \in Nat, NEW len \in Nat,
         NEW o \in segment_send(x, s, n, flags, pos, len), Lossless(x, o.n),
         Continues(c, s.seqno, d, Built(s, flags, pos, len))
  PROVE  Sends(x, s, n, d, flags, o)
<1> USE DEF Sends, MaySend
<1> DEFINE p == Peer(x)
           g == Built(s, flags, pos, len)
           w == n.wire[p]
<1>1. /\ p \in Host /\ g \in Segment /\ g.ok /\ g.seqno = s.seqno /\ s.seqno \in Nat
      /\ IsFin(g) <=> "FIN" \in flags
  BY PeerFacts DEF Built, Segment, CtcpState, IsFin
<1>2. w \in Seq(Segment) /\ n.wire \in [Host -> Seq(Segment)]
  BY <1>1 DEF Net, Wires
<1>3. /\ o.n \in Net /\ o.n.forked = {} /\ o.n.wire[x] = n.wire[x] /\ n.faults = 0
      /\ IF Running(p)
         THEN /\ o.rc = 0 /\ Queued(o.n, n, p, g) /\ o.s.seqno = Past(g)
              /\ Kept(o.s) \subseteq Kept(s) \cup {g}
         ELSE o.rc = -1 /\ o.n = n /\ o.s = s
  BY CleanSegmentSend DEF Lossless
<1>4. Kept(s) \subseteq Segment
  BY SegmentsAreTyped
<1> HIDE DEF g, p
<1>5. CASE Running(p)
  <2>1. o.n.wire[p] = Append(w, g)
    BY <1>1, <1>2, <1>3, <1>5 DEF Queued
  <2>2. Range(o.n.wire[p]) = Range(w) \cup {g}
    BY <1>1, <1>2, <2>1, RangeOfAppend
  <2>3. ASSUME Open(p)
        PROVE  /\ GapFree(o.n.wire[p], Kept(o.s), state[p].ackno, o.s.seqno)
               /\ CountsInput(Range(o.n.wire[p]) \cup Kept(o.s), d, o.s.seqno)
    <3>1. /\ GapFree(w, Kept(s), state[p].ackno, s.seqno)
          /\ CountsInput(Range(w) \cup Kept(s), c, s.seqno)
      BY <2>3 DEF SenderOK, p
    <3>2. state[p].ackno \in Nat
      BY <1>1, HostParts DEF FInv, CtcpState
    <3> DEFINE k == Kept(o.s)
    <3>3. k \in SUBSET Segment /\ k \subseteq Kept(s) \cup {g}
      BY <1>1, <1>3, <1>4, <1>5
    <3> HIDE DEF k, w
    <3>4. GapFree(Append(w, g), k, state[p].ackno, Past(g))
      BY <1>1, <1>2, <1>4, <3>1, <3>2, <3>3, GapFreeSend
    <3>5. CountsInput((Range(w) \cup Kept(s)) \cup {g}, d, Past(g))
      BY <3>1 DEF g, Continues
    <3>6. CountsInput(Range(o.n.wire[p]) \cup k, d, Past(g))
      BY <2>2, <3>3, <3>5 DEF CountsInput
    <3> QED  BY <1>3, <1>5, <2>1, <3>4, <3>6 DEF k
  <2>4. SenderOK(x, o.s, d, o.n)
    BY <2>3 DEF SenderOK, p
  <2>5. "FIN" \notin flags /\ NoFins(x, s, n) => NoFins(x, o.s, o.n)
    BY <1>1, <1>3, <1>5, <2>2 DEF NoFins, p
  <2> QED  BY <1>3, <1>5, <2>4, <2>5
<1>6. CASE ~Running(p)
  <2>1. ~Open(p)
    BY <1>6 DEF Running, Open
  <2>2. SenderOK(x, o.s, d, o.n)
    BY <2>1 DEF SenderOK, p
  <2> QED  BY <1>3, <1>6, <2>2
<1> QED  BY <1>5, <1>6

(* An ACK without data counts as nothing.                                   *)
LEMMA FifoAck ==
  ASSUME FInv, NEW x \in Host, NEW s \in CtcpState, NEW n \in Net, n.forked = {},
         NEW c, SenderOK(x, s, c, n), NEW o \in send_ack(x, s, n), Lossless(x, o.n)
  PROVE  /\ SenderOK(x, o.s, c, o.n)
         /\ o.n \in Net /\ o.n.forked = {} /\ o.n.wire[x] = n.wire[x]
         /\ NoFins(x, s, n) => NoFins(x, o.s, o.n)
         /\ o.s \in CtcpState /\ o.s.ackno = s.ackno /\ o.s.conn_state = s.conn_state
<1> DEFINE g == Built(s, {"ACK"}, 0, 0)
<1>1. {"ACK"} \in Flags /\ "FIN" \notin {"ACK"}
  BY DEF Flags
<1>2. o \in segment_send(x, s, n, {"ACK"}, 0, 0)
  BY DEF send_ack
<1>3. ~IsFin(g) /\ g.len = 0 /\ Past(g) = s.seqno
  BY DEF Built, IsFin, Past, CtcpState
<1>4. Continues(c, s.seqno, c, g)
  <2> HIDE DEF g
  <2> QED  BY <1>3 DEF CountsInput, Continues
<1>5. o.s \in CtcpState /\ o.s.ackno = s.ackno /\ o.s.conn_state = s.conn_state
  BY <1>1, <1>2, SegmentSendFacts
<1>6. Sends(x, s, n, c, {"ACK"}, o)
  <2>1. MaySend(x, s, n, c) /\ 0 \in Nat
    BY DEF MaySend
  <2> QED  BY <1>1, <1>2, <1>4, <2>1, FifoSend
<1> QED  BY <1>1, <1>5, <1>6 DEF Sends

-----------------------------------------------------------------------------
(* One lemma per action *)

(* ctcp_read() of data.                                                     *)
LEMMA FifoReadData ==
  ASSUME FInv, StreamInv', NoLoss', NEW x \in Host, ReadData(x)
  PROVE  FInv'
<1>1. PICK i \in conn_input(x) :
        /\ i.rc >= 0
        /\ \E o \in segment_send(x, state[x], net, {"ACK"}, conn[x].nread + 1, i.rc) :
             Return(x, o.s, i.c, o.n)
  BY DEF ReadData
<1>2. PICK o \in segment_send(x, state[x], net, {"ACK"}, conn[x].nread + 1, i.rc) :
        Return(x, o.s, i.c, o.n)
  BY <1>1
<1>3. /\ SenderOK(x, state[x], conn[x], net) /\ ReceiverOK(x, state[x], conn[x], net)
      /\ OutputOK(x, state[x], conn[x]) /\ net.forked = {}
      /\ state[x] \in CtcpState /\ conn[x] \in Conn /\ net \in Net
  BY FifoStarts
<1>4. /\ conn[x].nread \in Nat /\ state[x].seqno \in Nat /\ Input[x] \in Nat
      /\ MSS \in Nat /\ conn[x].nread + 1 \in Nat
  BY <1>3, InputAssumption, SizeAssumption DEF Conn, CtcpState
<1>5. PICK len \in Nat :
        /\ i = [rc |-> len, c |-> [conn[x] EXCEPT !.nread = @ + len]]
        /\ len <= MSS /\ len > 0 /\ ~conn[x].read_eof
  BY <1>1, <1>4 DEF conn_input
<1> DEFINE c == [conn[x] EXCEPT !.nread = @ + len]
<1>6. /\ c.nread = conn[x].nread + len /\ c.read_eof = conn[x].read_eof
      /\ c.out = conn[x].out /\ c.out_queue = conn[x].out_queue /\ c.pollout = conn[x].pollout
      /\ c.tainted = conn[x].tainted /\ c.wrote_eof = conn[x].wrote_eof
      /\ c.status = conn[x].status
  BY <1>3 DEF Conn
<1>7. i.c = c /\ i.rc = len
  BY <1>5
<1> DEFINE g == Built(state[x], {"ACK"}, conn[x].nread + 1, len)
<1>8. /\ ~IsFin(g) /\ g.len = len /\ g.seqno = state[x].seqno
      /\ g.pos = conn[x].nread + 1 /\ Past(g) = state[x].seqno + len
  BY DEF Built, IsFin, Past
<1> HIDE DEF c, g
<1>9. Continues(conn[x], state[x].seqno, c, g)
  <2> SUFFICES ASSUME NEW segments, CountsInput(segments, conn[x], state[x].seqno)
               PROVE  CountsInput(segments \cup {g}, c, Past(g))
    BY DEF Continues
  <2>1. state[x].seqno = conn[x].nread + 1
    BY <1>5 DEF CountsInput
  <2>2. Past(g) = c.nread + 1 /\ c.nread + 1 \in Nat
    BY <1>4, <1>6, <1>8, <2>1
  <2>3. \A y \in segments : ~IsFin(y)
    BY <1>5 DEF CountsInput
  <2>4. g.pos = g.seqno /\ g.len <= MSS
    BY <1>5, <1>8, <2>1
  <2> QED  BY <1>8, <2>2, <2>3, <2>4 DEF CountsInput
<1>10. net' = o.n /\ Lossless(x, o.n)
  BY <1>2, PeerFacts DEF Return, NoLoss, Lossless
<1>11. {"ACK"} \in Flags /\ "FIN" \notin {"ACK"}
  BY DEF Flags
<1>12. o \in segment_send(x, state[x], net, {"ACK"}, conn[x].nread + 1, len)
  BY <1>7
<1>13. /\ SenderOK(x, o.s, c, o.n)
       /\ o.n \in Net /\ o.n.forked = {} /\ o.n.wire[x] = net.wire[x]
       /\ NoFins(x, state[x], net) => NoFins(x, o.s, o.n)
  <2>1. Sends(x, state[x], net, c, {"ACK"}, o)
    <3>1. Continues(conn[x], state[x].seqno, c,
                    Built(state[x], {"ACK"}, conn[x].nread + 1, len))
      BY <1>9 DEF g
    <3>2. MaySend(x, state[x], net, conn[x])
      BY <1>3 DEF MaySend
    <3> QED  BY <1>4, <1>10, <1>11, <1>12, <3>1, <3>2, FifoSend
  <2> QED  BY <1>11, <2>1 DEF Sends
<1>14. o.s.ackno = state[x].ackno /\ o.s.conn_state = state[x].conn_state
  BY <1>3, <1>4, <1>11, <1>12, SegmentSendFacts
<1>15. ReceiverOK(x, o.s, c, o.n)
  BY <1>3, <1>6, <1>13, <1>14 DEF ReceiverOK
<1>16. OutputOK(x, o.s, c)
  BY <1>3, <1>5, <1>6, <1>14 DEF OutputOK
<1> QED  BY <1>2, <1>7, <1>13, <1>15, <1>16, FifoReturn

(* ctcp_read() of the end of file.                                          *)
LEMMA FifoReadEof ==
  ASSUME FInv, StreamInv', NoLoss', NEW x \in Host, ReadEof(x)
  PROVE  FInv'
<1>1. PICK i \in conn_input(x) :
        /\ i.rc < 0
        /\ \E o \in send_fin(x, state[x], net) :
             Return(x, IF o.rc < 0 THEN o.s
                       ELSE [o.s EXCEPT !.conn_state = "TEAR_DOWN"], i.c, o.n)
  BY DEF ReadEof
<1>2. PICK o \in send_fin(x, state[x], net) :
        Return(x, IF o.rc < 0 THEN o.s
                  ELSE [o.s EXCEPT !.conn_state = "TEAR_DOWN"], i.c, o.n)
  BY <1>1
<1>3. /\ SenderOK(x, state[x], conn[x], net) /\ ReceiverOK(x, state[x], conn[x], net)
      /\ OutputOK(x, state[x], conn[x]) /\ net.forked = {}
      /\ state[x] \in CtcpState /\ conn[x] \in Conn /\ net \in Net
  BY FifoStarts
<1>4. conn[x].nread \in Nat /\ state[x].seqno \in Nat /\ Input[x] \in Nat
  BY <1>3, InputAssumption DEF Conn, CtcpState
<1>5. i = [rc |-> -1, c |-> [conn[x] EXCEPT !.read_eof = TRUE]]
  BY <1>1, <1>4, SizeAssumption DEF conn_input
<1> DEFINE c == [conn[x] EXCEPT !.read_eof = TRUE]
<1>6. /\ c.nread = conn[x].nread /\ c.read_eof
      /\ c.out = conn[x].out /\ c.out_queue = conn[x].out_queue /\ c.pollout = conn[x].pollout
      /\ c.tainted = conn[x].tainted /\ c.wrote_eof = conn[x].wrote_eof
      /\ c.status = conn[x].status
  BY <1>3 DEF Conn
<1>7. i.c = c
  BY <1>5
<1> DEFINE g == Built(state[x], {"FIN"}, 0, 0)
<1>8. IsFin(g) /\ g.seqno = state[x].seqno /\ Past(g) = state[x].seqno + 1
  BY DEF Built, IsFin, Past
<1> HIDE DEF c, g
<1>9. Continues(conn[x], state[x].seqno, c, g)
  <2> SUFFICES ASSUME NEW segments, CountsInput(segments, conn[x], state[x].seqno)
               PROVE  CountsInput(segments \cup {g}, c, Past(g))
    BY DEF Continues
  <2>1. state[x].seqno >= c.nread + 1
    BY <1>6 DEF CountsInput
  <2>2. Past(g) >= c.nread + 1
    BY <1>4, <1>6, <1>8, <2>1
  <2>3. \A y \in segments :
          IF IsFin(y) THEN c.read_eof /\ y.seqno >= c.nread + 1
          ELSE y.len > 0 => y.pos = y.seqno /\ y.len <= MSS
    BY <1>6 DEF CountsInput
  <2> QED  BY <1>6, <1>8, <2>1, <2>2, <2>3 DEF CountsInput
<1>10. net' = o.n /\ Lossless(x, o.n)
  BY <1>2, PeerFacts DEF Return, NoLoss, Lossless
<1>11. {"FIN"} \in Flags /\ 0 \in Nat
  BY DEF Flags
<1>12. o \in segment_send(x, state[x], net, {"FIN"}, 0, 0)
  BY DEF send_fin
<1>13. /\ SenderOK(x, o.s, c, o.n)
       /\ o.n \in Net /\ o.n.forked = {} /\ o.n.wire[x] = net.wire[x]
       /\ o.rc < 0 => o.s = state[x] /\ o.n = net
  <2>1. Continues(conn[x], state[x].seqno, c, Built(state[x], {"FIN"}, 0, 0))
    BY <1>9 DEF g
  <2>2. MaySend(x, state[x], net, conn[x])
    BY <1>3 DEF MaySend
  <2>3. Sends(x, state[x], net, c, {"FIN"}, o)
    BY <1>10, <1>11, <1>12, <2>1, <2>2, FifoSend
  <2> QED  BY <2>3 DEF Sends
<1>14. o.s \in CtcpState
  BY <1>3, <1>11, <1>12, SegmentSendFacts
<1>15. CASE o.rc < 0
  <2>1. o.s = state[x] /\ o.n = net /\ Return(x, state[x], c, net)
    BY <1>2, <1>7, <1>13, <1>15
  <2>2. SenderOK(x, state[x], c, net) /\ net.forked = {}
    BY <1>13, <2>1
  <2>3. ReceiverOK(x, state[x], c, net)
    BY <1>3, <1>6 DEF ReceiverOK
  <2>4. OutputOK(x, state[x], c)
    BY <1>3, <1>6 DEF OutputOK
  <2> QED  BY <2>1, <2>2, <2>3, <2>4, FifoReturn
<1>16. CASE ~(o.rc < 0)
  <2> DEFINE t == [o.s EXCEPT !.conn_state = "TEAR_DOWN"]
  <2>1. t.seqno = o.s.seqno /\ Kept(t) = Kept(o.s) /\ t.conn_state = "TEAR_DOWN"
    BY <1>14 DEF CtcpState, Kept
  <2>2. Return(x, t, c, o.n)
    BY <1>2, <1>7, <1>16
  <2> HIDE DEF t
  <2>3. SenderOK(x, t, c, o.n)
    BY <1>13, <2>1, SenderForgets
  <2>4. ReceiverOK(x, t, c, o.n)
    BY <1>13, <2>1 DEF ReceiverOK
  <2>5. OutputOK(x, t, c)
    BY <1>3, <1>6, <2>1 DEF OutputOK
  <2> QED  BY <1>13, <2>2, <2>3, <2>4, <2>5, FifoReturn
<1> QED  BY <1>15, <1>16

(* The network n with the segments q in the socket of x.                    *)
OnlyWire(m, n, x, q) ==
  /\ m \in Net /\ m.wire[x] = q /\ m.wire[Peer(x)] = n.wire[Peer(x)]
  /\ m.forked = n.forked /\ m.faults = n.faults

LEMMA WithoutWire ==
  ASSUME NEW x \in Host, NEW n \in Net, NEW q \in Seq(Segment)
  PROVE  OnlyWire([n EXCEPT !.wire[x] = q], n, x, q)
<1> DEFINE m == [n EXCEPT !.wire[x] = q]
<1>1. Peer(x) \in Host /\ Peer(x) # x
  BY PeerFacts
<1>2. [n.wire EXCEPT ![x] = q] \in Wires
  BY DEF Net, Wires
<1>3. m \in Net /\ m.wire = [n.wire EXCEPT ![x] = q] /\ m.forked = n.forked /\ m.faults = n.faults
  BY <1>2 DEF Net
<1> HIDE DEF m
<1>4. m.wire[x] = q /\ m.wire[Peer(x)] = n.wire[Peer(x)]
  BY <1>1, <1>3 DEF Net, Wires
<1>5. OnlyWire(m, n, x, q)
  BY <1>3, <1>4 DEF OnlyWire
<1> QED  BY <1>5 DEF m

(* A handler after which the host is not up any more.                       *)
LEMMA FifoDown ==
  ASSUME FInv, StreamInv', NEW x \in Host, NEW s, NEW c \in Conn, NEW n \in Net,
         Return(x, s, c, n), n.forked = {}, c.status # "up",
         SenderOK(x, s, c, n), OutputOK(x, s, c),
         Range(n.wire[x]) \subseteq Range(net.wire[x])
  PROVE  FInv'
<1>1. ReceiverOK(x, s, c, n)
  BY DEF ReceiverOK
<1> QED  BY <1>1, FifoReturn

(* The status concerns neither output nor what was sent.                    *)
LEMMA StatusIsApart ==
  ASSUME NEW x \in Host, NEW s, NEW c \in Conn, NEW n, NEW status \in Status,
         SenderOK(x, s, c, n), OutputOK(x, s, c)
  PROVE  LET d == [c EXCEPT !.status = status] IN
         /\ SenderOK(x, s, d, n) /\ OutputOK(x, s, d) /\ d \in Conn /\ d.status = status
<1> DEFINE d == [c EXCEPT !.status = status]
<1>1. /\ d \in Conn /\ d.status = status /\ d.nread = c.nread /\ d.read_eof = c.read_eof
      /\ d.out = c.out /\ d.out_queue = c.out_queue /\ d.pollout = c.pollout
      /\ d.tainted = c.tainted /\ d.wrote_eof = c.wrote_eof
  BY DEF Conn
<1> HIDE DEF d
<1>2. SenderOK(x, s, d, n)
  BY <1>1 DEF SenderOK, CountsInput
<1>3. OutputOK(x, s, d)
  BY <1>1 DEF OutputOK
<1> QED  BY <1>1, <1>2, <1>3 DEF d

LEMMA FifoGone ==
  ASSUME FInv, StreamInv', NEW x \in Host, NEW s, NEW c \in Conn, NEW n \in Net,
         NEW status \in Status \ {"up"}, Gone(x, s, c, n, status), n.forked = {},
         SenderOK(x, s, c, n), OutputOK(x, s, c)
  PROVE  FInv'
<1> DEFINE d == [c EXCEPT !.status = status]
           m == [n EXCEPT !.wire[x] = <<>>]
<1>1. <<>> \in Seq(Segment) /\ Range(<<>>) = {}
  BY DEF Range
<1>2. /\ m \in Net /\ m.wire[x] = <<>> /\ m.wire[Peer(x)] = n.wire[Peer(x)]
      /\ m.forked = n.forked
  <2>1. OnlyWire(m, n, x, <<>>)
    BY <1>1, WithoutWire
  <2> HIDE DEF m
  <2> QED  BY <2>1 DEF OnlyWire
<1>3. /\ SenderOK(x, s, d, n) /\ OutputOK(x, s, d) /\ d \in Conn /\ d.status = status
  BY StatusIsApart
<1>4. Return(x, s, d, m)
  BY DEF Gone
<1> HIDE DEF d, m
<1>5. SenderOK(x, s, d, m)
  BY <1>2, <1>3, SenderForgets
<1>6. Range(m.wire[x]) \subseteq Range(net.wire[x])
  BY <1>1, <1>2
<1> QED  BY <1>2, <1>3, <1>4, <1>5, <1>6, FifoDown

LEMMA FifoDestroy ==
  ASSUME FInv, StreamInv', NEW x \in Host, NEW s, NEW c \in Conn, NEW n \in Net,
         ctcp_destroy(x, s, c, n), n.forked = {},
         Range(n.wire[x]) \subseteq Range(net.wire[x]),
         SenderOK(x, s, c, n), OutputOK(x, s, c)
  PROVE  FInv'
<1>1. {"exited", "removed"} \subseteq Status \ {"up"}
  BY DEF Status
<1>2. CASE x = Client
  BY <1>1, <1>2, FifoGone DEF ctcp_destroy
<1>3. CASE x # Client
  <2> DEFINE d == [c EXCEPT !.status = "removed"]
  <2>1. Return(x, s, d, n)
    BY <1>3 DEF ctcp_destroy
  <2>2. /\ SenderOK(x, s, d, n) /\ OutputOK(x, s, d) /\ d \in Conn /\ d.status # "up"
    BY <1>1, StatusIsApart
  <2> HIDE DEF d
  <2> QED  BY <2>1, <2>2, FifoDown
<1> QED  BY <1>2, <1>3

(* recv_filter() on a removed connection.                                   *)
LEMMA FifoDiscard ==
  ASSUME FInv, StreamInv', NEW x \in Host, Discard(x)
  PROVE  FInv'
<1>1. /\ SenderOK(x, state[x], conn[x], net)
      /\ OutputOK(x, state[x], conn[x]) /\ net.forked = {}
      /\ state[x] \in CtcpState /\ conn[x] \in Conn /\ net \in Net
      /\ net.wire[x] \in Seq(Segment)
  BY FifoStarts
<1> DEFINE n == [net EXCEPT !.wire[x] = Tail(@)]
<1>2. net.wire[x] # <<>> /\ conn[x].status # "up" /\ Return(x, state[x], conn[x], n)
  BY DEF Discard
<1>3. /\ Tail(net.wire[x]) \in Seq(Segment)
      /\ Range(Tail(net.wire[x])) \subseteq Range(net.wire[x])
  BY <1>1, <1>2 DEF Range
<1>4. /\ n \in Net /\ n.wire[x] = Tail(net.wire[x]) /\ n.forked = net.forked
      /\ n.wire[Peer(x)] = net.wire[Peer(x)]
  <2>1. OnlyWire(n, net, x, Tail(net.wire[x]))
    BY <1>1, <1>3, WithoutWire
  <2> HIDE DEF n
  <2> QED  BY <2>1 DEF OnlyWire
<1> HIDE DEF n
<1>5. SenderOK(x, state[x], conn[x], n)
  BY <1>1, <1>4, SenderForgets
<1> QED  BY <1>1, <1>2, <1>3, <1>4, <1>5, FifoDown

(* A segment that is kept goes out again.                                   *)
LEMMA FifoResend ==
  ASSUME FInv, NEW x \in Host, NEW g \in Kept(state[x]),
         NEW o \in conn_send(x, net, g), Lossless(x, o.n)
  PROVE  /\ SenderOK(x, state[x], conn[x], o.n)
         /\ o.n.forked = {} /\ o.n.wire[x] = net.wire[x]
         /\ NoFins(x, state[x], net) => NoFins(x, state[x], o.n)
<1> DEFINE p == Peer(x)
           w == net.wire[p]
           s == state[x]
<1>1. /\ SenderOK(x, s, conn[x], net) /\ net.forked = {} /\ s \in CtcpState
      /\ net \in Net /\ w \in Seq(Segment) /\ p \in Host
  BY FifoStarts, PeerFacts
<1>2. /\ Kept(s) \in SUBSET Segment /\ g \in Segment /\ s.seqno \in Nat
      /\ state[p].ackno \in Nat
  BY <1>1, SegmentsAreTyped, HostParts DEF FInv, CtcpState
<1>3. /\ o.n.forked = {} /\ o.n.wire[x] = net.wire[x]
      /\ IF Running(p) THEN o.rc = 0 /\ Queued(o.n, net, p, g)
         ELSE o.rc = -1 /\ o.n = net
  BY <1>1, <1>2, CleanSendFacts DEF Lossless
<1> HIDE DEF p, w, s
<1>4. CASE Running(p)
  <2>1. o.n.wire[p] = Append(w, g)
    BY <1>1, <1>3, <1>4 DEF Queued, Net, Wires, w
  <2>2. Range(o.n.wire[p]) = Range(w) \cup {g}
    BY <1>1, <1>2, <2>1, RangeOfAppend
  <2>3. Range(o.n.wire[p]) \cup Kept(s) = Range(w) \cup Kept(s)
    BY <2>2 DEF s
  <2>4. ASSUME Open(p)
        PROVE  /\ GapFree(o.n.wire[p], Kept(s), state[p].ackno, s.seqno)
               /\ CountsInput(Range(o.n.wire[p]) \cup Kept(s), conn[x], s.seqno)
    <3>1. /\ GapFree(w, Kept(s), state[p].ackno, s.seqno)
          /\ CountsInput(Range(w) \cup Kept(s), conn[x], s.seqno)
      BY <1>1, <2>4 DEF SenderOK, p, w
    <3>2. GapFree(Append(w, g), Kept(s), state[p].ackno, s.seqno)
      BY <1>1, <1>2, <3>1, GapFreeResend DEF s
    <3> QED  BY <2>1, <2>3, <3>1, <3>2
  <2>5. SenderOK(x, s, conn[x], o.n)
    BY <2>4 DEF SenderOK, p
  <2>6. NoFins(x, s, net) => NoFins(x, s, o.n)
    BY <2>3 DEF NoFins, p, w
  <2> QED  BY <1>3, <2>5, <2>6 DEF s
<1>5. CASE ~Running(p)
  BY <1>1, <1>3, <1>5 DEF s
<1> QED  BY <1>4, <1>5

(* A handler that at most sends and forgets what it kept.                   *)
LEMMA FifoSame ==
  ASSUME FInv, StreamInv', NEW x \in Host, NEW t, NEW m,
         Return(x, t, conn[x], m), m.forked = {}, m.wire[x] = net.wire[x],
         SenderOK(x, state[x], conn[x], m),
         NoFins(x, state[x], net) => NoFins(x, state[x], m),
         t.seqno = state[x].seqno, t.ackno = state[x].ackno,
         t.conn_state = state[x].conn_state, Kept(t) \subseteq Kept(state[x])
  PROVE  FInv'
<1>1. /\ ReceiverOK(x, state[x], conn[x], net) /\ OutputOK(x, state[x], conn[x])
  BY FifoStarts
<1>2. SenderOK(x, t, conn[x], m) /\ (NoFins(x, state[x], m) => NoFins(x, t, m))
  BY SenderForgets
<1>3. ReceiverOK(x, t, conn[x], m)
  BY <1>1, <1>2 DEF ReceiverOK
<1>4. OutputOK(x, t, conn[x])
  BY <1>1 DEF OutputOK
<1> QED  BY <1>2, <1>3, <1>4, FifoReturn

(* ctcp_timer() and retransmission_handler().                               *)
LEMMA FifoTimer ==
  ASSUME FInv, StreamInv', NoLoss', NEW x \in Host, ctcp_timer(x)
  PROVE  FInv'
<1>1. /\ SenderOK(x, state[x], conn[x], net)
      /\ OutputOK(x, state[x], conn[x]) /\ net.forked = {}
      /\ state[x] \in CtcpState /\ conn[x] \in Conn /\ net \in Net
  BY FifoStarts
<1>2. CASE TimerDestroys(x)
  <2>1. {"exited", "crashed"} \subseteq Status \ {"up"}
    BY DEF Status
  <2> QED  BY <1>1, <1>2, <2>1, FifoGone DEF TimerDestroys
<1>3. CASE TimerTicks(x)
  <2> DEFINE s == [state[x] EXCEPT !.tim = tim_advance(state[x])]
             attr == [s.sent_segment_attr EXCEPT !.time = @ + Timer]
  <2>1. /\ s.seqno = state[x].seqno /\ s.ackno = state[x].ackno
        /\ s.conn_state = state[x].conn_state
        /\ s.sent_segment_attr = state[x].sent_segment_attr
        /\ \A y : LET t == [s EXCEPT !.sent_segment_attr = y] IN
             /\ t.seqno = s.seqno /\ t.ackno = s.ackno
             /\ t.conn_state = s.conn_state /\ t.sent_segment_attr = y
    BY <1>1 DEF CtcpState
  <2>2. Kept(s) = Kept(state[x])
    BY <2>1 DEF Kept
  <2>3. \/ Return(x, s, conn[x], net)
        \/ s.sent_segment_attr # NULL /\ Return(x, [s EXCEPT !.sent_segment_attr = attr], conn[x], net)
        \/ s.sent_segment_attr # NULL /\ Retransmit(x, s, attr)
    BY <1>3 DEF TimerTicks, Aged
  <2> HIDE DEF s
  <2>4. ASSUME s.sent_segment_attr # NULL
        PROVE  /\ attr \in SegmentAttr /\ attr.segment = s.sent_segment_attr.segment
               /\ attr.segment \in Segment /\ attr.no_of_times \in Nat
               /\ attr.segment \in Kept(state[x])
    <3>1. s.sent_segment_attr \in SegmentAttr
      BY <1>1, <2>1, <2>4 DEF CtcpState, MaybeAttr
    <3>2. /\ attr \in SegmentAttr /\ attr.segment = s.sent_segment_attr.segment
          /\ attr.segment \in Segment /\ attr.no_of_times \in Nat
      BY <3>1, TimerAssumption DEF SegmentAttr
    <3> QED  BY <2>1, <2>4, <3>2 DEF Kept
  <2> HIDE DEF attr
  <2>5. ASSUME NEW y,
               y = NULL \/ (s.sent_segment_attr # NULL /\ y.segment = s.sent_segment_attr.segment),
               NEW m, m.forked = {}, m.wire[x] = net.wire[x],
               SenderOK(x, state[x], conn[x], m),
               NoFins(x, state[x], net) => NoFins(x, state[x], m),
               Return(x, [s EXCEPT !.sent_segment_attr = y], conn[x], m)
        PROVE  FInv'
    <3> DEFINE t == [s EXCEPT !.sent_segment_attr = y]
    <3>1. /\ t.seqno = state[x].seqno /\ t.ackno = state[x].ackno
          /\ t.conn_state = state[x].conn_state /\ t.sent_segment_attr = y
      BY <2>1
    <3>2. Return(x, t, conn[x], m)
      BY <2>5
    <3> HIDE DEF t
    <3>3. Kept(t) \subseteq Kept(s)
      BY <2>5, <3>1 DEF Kept
    <3> QED  BY <2>2, <2>5, <3>1, <3>2, <3>3, FifoSame
  <2>6. CASE Return(x, s, conn[x], net)
    BY <1>1, <2>1, <2>2, <2>6, FifoSame
  <2>7. CASE s.sent_segment_attr # NULL /\ Return(x, [s EXCEPT !.sent_segment_attr = attr], conn[x], net)
    BY <1>1, <2>4, <2>5, <2>7
  <2>8. CASE s.sent_segment_attr # NULL /\ Retransmit(x, s, attr)
    <3>1. PICK o \in conn_send(x, net, attr.segment) :
            \/ Return(x, destroy_acked_segment(s), conn[x], o.n)
            \/ Return(x, [s EXCEPT !.sent_segment_attr =
                            [attr EXCEPT !.no_of_times = @ + 1]], conn[x], o.n)
      BY <2>8 DEF Retransmit
    <3>2. Lossless(x, o.n)
      BY <3>1, PeerFacts DEF Return, NoLoss, Lossless
    <3>3. /\ SenderOK(x, state[x], conn[x], o.n)
          /\ o.n.forked = {} /\ o.n.wire[x] = net.wire[x]
          /\ NoFins(x, state[x], net) => NoFins(x, state[x], o.n)
      BY <2>4, <2>8, <3>2, FifoResend
    <3>4. [attr EXCEPT !.no_of_times = @ + 1].segment = s.sent_segment_attr.segment
      BY <2>4, <2>8 DEF SegmentAttr
    <3>5. CASE Return(x, destroy_acked_segment(s), conn[x], o.n)
      BY <2>5, <3>3, <3>5 DEF destroy_acked_segment
    <3>6. CASE Return(x, [s EXCEPT !.sent_segment_attr =
                            [attr EXCEPT !.no_of_times = @ + 1]], conn[x], o.n)
      <4> DEFINE y == [attr EXCEPT !.no_of_times = @ + 1]
      <4>1. /\ y.segment = s.sent_segment_attr.segment
            /\ Return(x, [s EXCEPT !.sent_segment_attr = y], conn[x], o.n)
        BY <3>4, <3>6
      <4> HIDE DEF y
      <4> QED  BY <2>5, <2>8, <3>3, <4>1
    <3> QED  BY <3>1, <3>5, <3>6
  <2> QED  BY <2>3, <2>6, <2>7, <2>8
<1> QED  BY <1>2, <1>3 DEF ctcp_timer

-----------------------------------------------------------------------------
(* ctcp_receive() *)

(* A send without a fault touches neither the forked senders nor the        *)
(* socket of the sending host, whether the datagram is queued or not.       *)
Clean(m, n, x) == /\ m \in Net /\ m.forked = n.forked /\ m.wire[x] = n.wire[x]
                  /\ n.faults = 0

LEMMA AnyCleanSend ==
  ASSUME NEW n \in Net, NEW x \in Host, NEW s \in CtcpState,
         NEW flags \in Flags, NEW pos \in Nat, NEW len \in Nat,
         NEW o \in segment_send(x, s, n, flags, pos, len), o.n.faults = 0
  PROVE  Clean(o.n, n, x)
<1> DEFINE g == Built(s, flags, pos, len)
<1>0. Peer(x) \in Host /\ Peer(x) # x
  BY PeerFacts
<1>1. g \in Segment
  BY DEF Built, Segment, CtcpState
<1> DEFINE sent == [s EXCEPT !.seqno = @ + IF "FIN" \in flags THEN 1 ELSE len]
           kept == save_sent_segment(sent, g)
<1>2. PICK r \in conn_send(x, n, g) :
        o = [rc |-> r.rc, n |-> r.n,
             s |-> IF r.rc < 0 THEN s
                   ELSE IF len > 0 \/ "FIN" \in flags THEN kept ELSE sent]
  BY DEF segment_send, Built
<1>3. o.n = r.n
  BY <1>2
<1> HIDE DEF g
<1>4. r = send_pkt(Peer(x), n, g)
  BY <1>1, <1>3, CleanSend
<1>5. o.n \in Net /\ n.faults = 0
  BY <1>0, <1>1, <1>3, <1>4, SendPktFacts, FaultsCounted
<1>6. r.n = n \/ r.n = [n EXCEPT !.wire[Peer(x)] = Append(@, g)]
  BY <1>4 DEF send_pkt
<1>7. r.n.forked = n.forked /\ r.n.wire[x] = n.wire[x]
  BY <1>0, <1>6 DEF Net, Wires
<1> QED  BY <1>3, <1>5, <1>7 DEF Clean

(* conn_output() on a stdout that takes all it is given.                    *)
LEMMA FastOutput ==
  ASSUME ~SlowStdout, NEW c \in Conn, NEW piece \in Piece, piece.len > 0,
         c.out_queue = <<>>, ~c.pollout, ~c.wrote_eof,
         NEW w \in conn_output(c, piece)
  PROVE  /\ w.c \in Conn /\ w.c.nread = c.nread /\ w.c.tainted = c.tainted
         /\ w.c.read_eof = c.read_eof /\ w.c.wrote_eof = c.wrote_eof
         /\ w.c.out_queue = <<>> /\ ~w.c.pollout /\ w.c.status = c.status
         /\ w.c.out = IF w.rc < 0 THEN c.out ELSE Append(c.out, piece)
         /\ w.rc \in Int
<1>1. piece.len \in Nat /\ c.out \in Seq(Piece)
  BY DEF Conn, Piece, Pieces
<1>2. CASE w = [rc |-> -1, c |-> c]
  BY <1>2
<1>3. CASE w = [rc |-> -1, c |-> [c EXCEPT !.wrote_err = TRUE]]
  <2>1. w.rc < 0 /\ w.rc \in Int /\ w.c = [c EXCEPT !.wrote_err = TRUE]
    BY <1>3
  <2> QED  BY <2>1 DEF Conn
<1>4. CASE w = [rc |-> piece.len, c |->
                  [c EXCEPT !.out = Append(@, piece),
                            !.out_queue = IF piece.len < piece.len
                                          THEN Append(@, piece.len - piece.len) ELSE @,
                            !.pollout = @ \/ c.out_queue # <<>> \/ piece.len < piece.len]]
  <2>1. ~(piece.len < piece.len)
    BY <1>1
  <2>2. Append(c.out, piece) \in Pieces
    BY <1>1 DEF Pieces
  <2> DEFINE q == IF piece.len < piece.len THEN Append(c.out_queue, piece.len - piece.len)
                  ELSE c.out_queue
             armed == c.pollout \/ c.out_queue # <<>> \/ piece.len < piece.len
  <2>3. q = c.out_queue /\ armed = FALSE
    BY <2>1
  <2>4. w = [rc |-> piece.len,
             c |-> [c EXCEPT !.out = Append(c.out, piece), !.out_queue = q, !.pollout = armed]]
    BY <1>4
  <2> HIDE DEF q, armed
  <2>5. w.c = [c EXCEPT !.out = Append(c.out, piece), !.out_queue = c.out_queue,
                        !.pollout = FALSE]
    BY <2>3, <2>4
  <2>6. ~(w.rc < 0) /\ w.rc \in Int
    BY <1>1, <2>4
  <2> QED  BY <2>2, <2>5, <2>6 DEF Conn
<1>5. \/ w = [rc |-> -1, c |-> c]
      \/ w = [rc |-> -1, c |-> [c EXCEPT !.wrote_err = TRUE]]
      \/ w = [rc |-> piece.len, c |->
                  [c EXCEPT !.out = Append(@, piece),
                            !.out_queue = IF piece.len < piece.len
                                          THEN Append(@, piece.len - piece.len) ELSE @,
                            !.pollout = @ \/ c.out_queue # <<>> \/ piece.len < piece.len]]
  BY DEF conn_output, When, Written
<1> QED  BY <1>2, <1>3, <1>4, <1>5

(* The next piece of the input leaves no gap.                               *)
LEMMA PrefixAppend ==
  ASSUME NEW out \in Seq(Piece), NoGap(out), NEW piece \in Piece,
         piece.pos = ReceivedOf(out) + 1
  PROVE  NoGap(Append(out, piece)) /\ ReceivedOf(Append(out, piece)) = End(piece) - 1
<1> DEFINE v == Append(out, piece)
           k == Len(out)
<1>1. /\ k \in Nat /\ DOMAIN out = 1..k /\ DOMAIN v = 1..(k+1) /\ Len(v) = k + 1
      /\ v[k+1] = piece /\ \A i \in 1..k : v[i] = out[i]
      /\ \A i \in 1..k : out[i] \in Piece
      /\ v # <<>> /\ (out = <<>> <=> k = 0)
  OBVIOUS
<1>2. \A i \in 1..k : End(out[i]) \in Nat
  BY <1>1 DEF End, Piece
<1> HIDE DEF v, k
<1>3. ReceivedOf(v) = End(piece) - 1
  BY <1>1 DEF ReceivedOf
<1>4. ASSUME NEW i \in 1..(k+1)
      PROVE  v[i].pos = IF i = 1 THEN 1 ELSE End(v[i-1])
  <2>1. CASE i = k + 1
    <3>1. CASE k = 0
      BY <1>1, <2>1, <3>1 DEF ReceivedOf
    <3>2. CASE k # 0
      <4>1. k \in 1..k /\ i - 1 = k /\ i # 1
        BY <1>1, <2>1, <3>2
      <4>2. ReceivedOf(out) = End(out[k]) - 1
        BY <1>1, <3>2 DEF ReceivedOf, k
      <4>3. piece.pos = End(out[k])
        BY <1>2, <4>1, <4>2
      <4> QED  BY <1>1, <2>1, <4>1, <4>3
    <3> QED  BY <3>1, <3>2
  <2>2. CASE i # k + 1
    <3>1. i \in 1..k /\ (i # 1 => i - 1 \in 1..k)
      BY <1>1, <2>2
    <3>2. v[i] = out[i] /\ (i # 1 => v[i-1] = out[i-1])
      BY <1>1, <3>1
    <3> QED  BY <1>1, <3>1, <3>2 DEF NoGap
  <2> QED  BY <2>1, <2>2
<1>5. NoGap(v)
  BY <1>1, <1>4 DEF NoGap
<1> QED  BY <1>3, <1>5 DEF v

(* An empty queue leaves all of BufSpace.                                   *)
LEMMA EmptyHasRoom ==
  ASSUME NEW c, c.out_queue = <<>>
  PROVE  conn_bufspace(c) = BufSpace
<1>1. c.out_queue \in Seq(Nat)
  OBVIOUS
<1>2. Total(c.out_queue) = 0
  BY <1>1, TotalIsNat
<1> QED  BY <1>2, SizeAssumption DEF conn_bufspace

(* A handler that leaves DATA_TRANSFER behind.                              *)
LEMMA FifoQuiet ==
  ASSUME FInv, StreamInv', NEW x \in Host, NEW t, NEW m,
         Return(x, t, conn[x], m), m.forked = {}, SenderOK(x, t, conn[x], m),
         Range(m.wire[x]) \subseteq Range(net.wire[x]), t.conn_state # "DATA_TRANSFER"
  PROVE  FInv'
<1>1. OutputOK(x, state[x], conn[x])
  BY FifoStarts
<1>2. OutputOK(x, t, conn[x])
  BY <1>1 DEF OutputOK
<1>3. ReceiverOK(x, t, conn[x], m)
  BY DEF ReceiverOK
<1> QED  BY <1>2, <1>3, FifoReturn

(* The oldest datagram is taken from the socket of x.                       *)
Taken(x, n) == net.wire[x] # <<>> /\ OnlyWire(n, net, x, Tail(net.wire[x]))

LEMMA FifoTaken ==
  ASSUME FInv, NEW x \in Host, NEW n, Taken(x, n)
  PROVE  /\ SenderOK(x, state[x], conn[x], n) /\ n.forked = {} /\ n \in Net
         /\ n.wire[x] = Tail(net.wire[x]) /\ n.wire[Peer(x)] = net.wire[Peer(x)]
         /\ Range(n.wire[x]) \subseteq Range(net.wire[x])
         /\ Head(net.wire[x]) \in Segment /\ Head(net.wire[x]) \in Toward(x)
<1>1. /\ SenderOK(x, state[x], conn[x], net) /\ net.forked = {}
      /\ net.wire[x] \in Seq(Segment) /\ net.wire[x] # <<>>
  BY FifoStarts DEF Taken
<1>2. /\ Range(Tail(net.wire[x])) \subseteq Range(net.wire[x])
      /\ Head(net.wire[x]) \in Segment /\ Head(net.wire[x]) \in Range(net.wire[x])
  BY <1>1 DEF Range
<1>3. /\ n \in Net /\ n.wire[x] = Tail(net.wire[x]) /\ n.forked = {}
      /\ n.wire[Peer(x)] = net.wire[Peer(x)]
  BY <1>1 DEF OnlyWire, Taken
<1>4. SenderOK(x, state[x], conn[x], n)
  BY <1>1, <1>3, SenderForgets
<1> QED  BY <1>2, <1>3, <1>4 DEF Toward

(* While x is open that segment is due.                                     *)
LEMMA FifoHead ==
  ASSUME FInv, NEW x \in Host, Open(x), NEW n, Taken(x, n)
  PROVE  LET g == Head(net.wire[x])
             ackno == state[x].ackno
         IN
         /\ g \in Segment /\ g.ok /\ g.seqno <= ackno /\ ackno \in Nat
         /\ g.seqno < ackno => Past(g) <= ackno
         /\ ReceivedOf(conn[x].out) = ackno - 1
         /\ NoFins(x, state[x], n) /\ ~conn[x].wrote_eof
         /\ CountsInput({g}, conn[Peer(x)], state[Peer(x)].seqno)
         /\ \A next \in Nat :
              /\ ackno <= next /\ Past(g) <= next
              /\ next = ackno \/ (g.seqno = ackno /\ next = Past(g))
              => GapFree(n.wire[x], Kept(state[Peer(x)]), next, state[Peer(x)].seqno)
<1> DEFINE p == Peer(x)
           w == net.wire[x]
           g == Head(w)
           ackno == state[x].ackno
           k == Kept(state[p])
           seqno == state[p].seqno
<1>1. /\ w \in Seq(Segment) /\ w # <<>> /\ ackno \in Nat /\ p \in Host
      /\ OutputOK(x, state[x], conn[x]) /\ ReceiverOK(x, state[x], conn[x], net)
      /\ state[x].conn_state = "DATA_TRANSFER" /\ conn[x].status = "up"
  BY FifoStarts, PeerFacts DEF CtcpState, Taken, Open
<1>2. /\ g \in Segment /\ g \in Toward(x) /\ n.wire[x] = Tail(w)
      /\ n.wire[p] = net.wire[p]
  BY FifoTaken
<1>3. k \in SUBSET Segment /\ seqno \in Nat
  BY <1>1, SegmentsAreTyped, HostParts DEF FInv, CtcpState
<1>4. /\ GapFree(w, k, ackno, seqno) /\ CountsInput(Toward(x), conn[p], seqno)
      /\ ReceivedOf(conn[x].out) = ackno - 1 /\ NoFins(x, state[x], net)
  BY <1>1 DEF FInv, FifoInv, ReceiverOK
<1>5. ~conn[x].wrote_eof
  BY <1>1 DEF OutputOK
<1> HIDE DEF p, w, ackno, k, seqno
<1>6. g.seqno <= ackno /\ g \in Range(w)
  BY <1>1, <1>3, <1>4, HeadIsDue
<1> HIDE DEF g
<1>7. g.ok /\ (g.seqno < ackno => Past(g) <= ackno)
  BY <1>4, <1>6 DEF GapFree
<1>8. CountsInput({g}, conn[p], seqno)
  BY <1>2, <1>4 DEF CountsInput
<1>9. NoFins(x, state[x], n)
  BY <1>2, <1>4 DEF NoFins, p
<1>10. ASSUME NEW next \in Nat, ackno <= next, Past(g) <= next,
              next = ackno \/ (g.seqno = ackno /\ next = Past(g))
       PROVE  GapFree(n.wire[x], k, next, seqno)
  <2>1. GapFree(Tail(w), k, next, seqno)
    BY <1>1, <1>3, <1>4, <1>10, GapFreeTake DEF g
  <2> QED  BY <1>2, <2>1
<1> QED  BY <1>1, <1>2, <1>4, <1>5, <1>6, <1>7, <1>8, <1>9, <1>10
         DEF p, w, g, ackno, k, seqno

(* A segment that brings nothing new: an old one, or an ACK without data.   *)
LEMMA FifoNothingNew ==
  ASSUME FInv, StreamInv', NEW x \in Host, Open(x), NEW n, Taken(x, n), NEW t,
         Return(x, t, conn[x], n), Past(Head(net.wire[x])) <= state[x].ackno,
         t.seqno = state[x].seqno, t.ackno = state[x].ackno,
         t.conn_state = state[x].conn_state, Kept(t) \subseteq Kept(state[x])
  PROVE  FInv'
<1>1. /\ SenderOK(x, state[x], conn[x], n) /\ n.forked = {}
      /\ Range(n.wire[x]) \subseteq Range(net.wire[x]) /\ OutputOK(x, state[x], conn[x])
  BY FifoTaken, FifoStarts
<1>2. /\ state[x].ackno \in Nat /\ NoFins(x, state[x], n)
      /\ ReceivedOf(conn[x].out) = state[x].ackno - 1
      /\ GapFree(n.wire[x], Kept(state[Peer(x)]), state[x].ackno, state[Peer(x)].seqno)
  <2>1. /\ state[x].ackno \in Nat /\ NoFins(x, state[x], n)
        /\ ReceivedOf(conn[x].out) = state[x].ackno - 1
        /\ \A next \in Nat :
             /\ state[x].ackno <= next /\ Past(Head(net.wire[x])) <= next
             /\ next = state[x].ackno \/ (/\ Head(net.wire[x]).seqno = state[x].ackno
                                          /\ next = Past(Head(net.wire[x])))
             => GapFree(n.wire[x], Kept(state[Peer(x)]), next, state[Peer(x)].seqno)
    BY FifoHead
  <2>2. state[x].ackno <= state[x].ackno
    BY <2>1
  <2> QED  BY <2>1, <2>2
<1>3. SenderOK(x, t, conn[x], n) /\ NoFins(x, t, n)
  BY <1>1, <1>2, SenderForgets
<1>4. ReceiverOK(x, t, conn[x], n)
  BY <1>1, <1>2, <1>3 DEF ReceiverOK
<1>5. OutputOK(x, t, conn[x])
  BY <1>1 DEF OutputOK
<1> QED  BY <1>1, <1>3, <1>4, <1>5, FifoReturn

(* A FIN: all of the peer's input is printed.                               *)
LEMMA FifoFin ==
  ASSUME FInv, StreamInv', NoLoss', NEW x \in Host, Open(x), NEW n, Taken(x, n),
         IsFin(Head(net.wire[x])), Head(net.wire[x]).seqno >= state[x].ackno,
         NEW a \in send_ack(x, [state[x] EXCEPT !.ackno = Head(net.wire[x]).seqno + 1], n),
         NEW f \in send_fin(x, a.s, a.n),
         Return(x, [f.s EXCEPT !.conn_state = "WAIT_LAST_ACK"], output_eof(conn[x]), f.n)
  PROVE  FInv'
<1> DEFINE g == Head(net.wire[x])
           p == Peer(x)
           s == [state[x] EXCEPT !.ackno = g.seqno + 1]
           t == [f.s EXCEPT !.conn_state = "WAIT_LAST_ACK"]
           c == conn[x]
           e == output_eof(c)
           ackno == state[x].ackno
<1>1. /\ n.forked = {} /\ n \in Net /\ Range(n.wire[x]) \subseteq Range(net.wire[x])
      /\ g \in Segment /\ g \in Toward(x) /\ p \in Host /\ Peer(p) = x
      /\ OutputOK(x, state[x], c) /\ state[x] \in CtcpState /\ c \in Conn
      /\ conn[p] \in Conn
  BY FifoTaken, FifoStarts, PeerFacts
<1>2. /\ g.seqno <= ackno /\ ackno \in Nat /\ g.seqno \in Nat
      /\ ReceivedOf(c.out) = ackno - 1
      /\ CountsInput({g}, conn[p], state[p].seqno)
  BY <1>1, FifoHead, PastFacts
<1>3. ~Open(p)
  BY <1>1 DEF FInv, FifoInv
<1>4. s \in CtcpState
  BY <1>1, <1>2 DEF CtcpState
<1>5. {"ACK"} \in Flags /\ {"FIN"} \in Flags /\ 0 \in Nat
  BY DEF Flags
<1>6. f.n.faults = 0
  BY DEF Return, NoLoss
<1> HIDE DEF s
<1>7. a \in segment_send(x, s, n, {"ACK"}, 0, 0) /\ f \in segment_send(x, a.s, a.n, {"FIN"}, 0, 0)
  BY DEF send_ack, send_fin, s
<1>8. a.s \in CtcpState /\ a.n \in Net
  BY <1>1, <1>4, <1>5, <1>7, SegmentSendFacts DEF After
<1>9. f.n.forked = a.n.forked /\ f.n.wire[x] = a.n.wire[x] /\ a.n.faults = 0
  <2>1. Clean(f.n, a.n, x)
    BY <1>5, <1>6, <1>7, <1>8, AnyCleanSend
  <2> QED  BY <2>1 DEF Clean
<1>10. a.n.forked = n.forked /\ a.n.wire[x] = n.wire[x]
  <2>1. Clean(a.n, n, x)
    BY <1>1, <1>4, <1>5, <1>7, <1>9, AnyCleanSend
  <2> QED  BY <2>1 DEF Clean
<1>11. f.s \in CtcpState
  BY <1>5, <1>7, <1>8, SegmentSendFacts
<1>12. t.conn_state = "WAIT_LAST_ACK"
  BY <1>11 DEF CtcpState
<1>13. /\ e.wrote_eof /\ e.out = c.out /\ e.out_queue = c.out_queue
       /\ e.pollout = c.pollout /\ e.tainted = c.tainted
       /\ e.nread = c.nread /\ e.read_eof = c.read_eof
  BY <1>1 DEF output_eof, Conn
<1>14. conn[p].read_eof /\ g.seqno >= conn[p].nread + 1
  BY <1>2 DEF CountsInput
<1>15. ReceivedOf(c.out) <= conn[p].nread
  <2>1. c.out \in Seq(Piece) /\ conn[p].nread \in Nat
    BY <1>1 DEF Conn, Pieces
  <2>2. InOrder(c.out, conn[p].nread)
    BY <1>1 DEF FInv, StreamInv, InOrderOnce, OutputOK
  <2>3. CASE c.out = <<>>
    BY <2>1, <2>3 DEF ReceivedOf
  <2>4. CASE c.out # <<>>
    <3> DEFINE k == Len(c.out)
               z == c.out[k]
    <3>1. k \in DOMAIN c.out /\ z \in Piece
      BY <2>1, <2>4
    <3>2. End(z) <= conn[p].nread + 1 /\ End(z) \in Nat
      BY <2>2, <3>1 DEF InOrder, End, Piece
    <3>3. ReceivedOf(c.out) = End(z) - 1
      BY <2>4 DEF ReceivedOf
    <3> QED  BY <2>1, <3>2, <3>3
  <2> QED  BY <2>3, <2>4
<1>16. ReceivedOf(c.out) = conn[p].nread
  <2>1. conn[p].nread \in Nat /\ g.seqno = ackno
    BY <1>1, <1>2 DEF Conn
  <2> QED  BY <1>2, <1>14, <1>15, <2>1
<1>17. OutputOK(x, t, e)
  BY <1>1, <1>12, <1>13, <1>14, <1>16 DEF OutputOK
<1>18. SenderOK(x, t, e, f.n)
  BY <1>3 DEF SenderOK
<1>19. ReceiverOK(x, t, e, f.n)
  BY <1>1, <1>9, <1>10, <1>12 DEF ReceiverOK
<1>20. f.n.forked = {} /\ Return(x, t, e, f.n)
  BY <1>1, <1>9, <1>10
<1> HIDE DEF t, e
<1> QED  BY <1>17, <1>18, <1>19, <1>20, FifoReturn

(* ctcp_destroy() keeps the faults counted and the peer's socket.           *)
LEMMA DestroyLossless ==
  ASSUME NEW x \in Host, NEW s, NEW c, NEW n \in Net, ctcp_destroy(x, s, c, n), NoLoss'
  PROVE  Lossless(x, n)
<1>1. Peer(x) \in Host
  BY PeerFacts
<1>2. CASE x = Client
  <2> DEFINE m == [n EXCEPT !.wire[x] = <<>>]
  <2>1. net' = m
    BY <1>2 DEF ctcp_destroy, Gone, Return
  <2>2. OnlyWire(m, n, x, <<>>)
    <3>1. <<>> \in Seq(Segment)
      OBVIOUS
    <3> QED  BY <3>1, WithoutWire
  <2> HIDE DEF m
  <2> QED  BY <1>1, <2>1, <2>2 DEF OnlyWire, NoLoss, Lossless
<1>3. CASE x # Client
  BY <1>1, <1>3 DEF ctcp_destroy, Return, NoLoss, Lossless
<1> QED  BY <1>2, <1>3

(* Data: printed at once and acknowledged, or stdout is broken.             *)
LEMMA FifoData ==
  ASSUME ~SlowStdout, MSS <= BufSpace,
         FInv, StreamInv', NoLoss', NEW x \in Host, Open(x), NEW n, Taken(x, n),
         NEW g, g = Head(net.wire[x]), ~IsFin(g), g.len > 0, g.seqno >= state[x].ackno,
         ctcp_output(x, [state[x] EXCEPT !.received_segment = g], conn[x], n)
  PROVE  FInv'
<1> DEFINE p == Peer(x)
           s == [state[x] EXCEPT !.received_segment = g]
           c == conn[x]
           ackno == state[x].ackno
           piece == DataOf(g)
           next == AfterData(g)
<1>1. /\ SenderOK(x, state[x], c, n) /\ n.forked = {} /\ n \in Net
      /\ Range(n.wire[x]) \subseteq Range(net.wire[x])
      /\ OutputOK(x, state[x], c) /\ state[x] \in CtcpState /\ c \in Conn
      /\ state[x].conn_state = "DATA_TRANSFER"
  BY FifoTaken, FifoStarts DEF Open
<1>2. /\ g \in Segment /\ g.seqno <= ackno /\ ackno \in Nat
      /\ ReceivedOf(c.out) = ackno - 1 /\ NoFins(x, state[x], n) /\ ~c.wrote_eof
      /\ CountsInput({g}, conn[p], state[p].seqno)
      /\ \A m \in Nat :
           /\ ackno <= m /\ Past(g) <= m
           /\ m = ackno \/ (g.seqno = ackno /\ m = Past(g))
           => GapFree(n.wire[x], Kept(state[p]), m, state[p].seqno)
  BY FifoHead
<1>3. g.seqno \in Nat /\ g.len \in Nat /\ g.pos \in Nat /\ Past(g) = g.seqno + g.len
  BY <1>2, PastFacts
<1>4. g.seqno = ackno /\ g.pos = ackno /\ g.len <= MSS
  BY <1>2, <1>3 DEF CountsInput
<1>5. piece \in Piece /\ piece.len = g.len /\ piece.pos = ackno /\ End(piece) = ackno + g.len
  BY <1>3, <1>4 DEF DataOf, Piece, End
<1>6. next = Past(g) /\ next \in Nat /\ ackno <= next /\ next = ackno + g.len
  BY <1>2, <1>3, <1>4 DEF AfterData
<1>7. GapFree(n.wire[x], Kept(state[p]), next, state[p].seqno)
  BY <1>2, <1>4, <1>6
<1>8. conn_bufspace(c) >= g.len
  <2>1. conn_bufspace(c) = BufSpace
    BY <1>1, EmptyHasRoom DEF OutputOK
  <2> QED  BY <1>3, <1>4, <2>1, SizeAssumption
<1>9. s.received_segment = g /\ s \in CtcpState
  BY <1>1, <1>2 DEF CtcpState, MaybeSegment
<1>10. OutputData(x, s, c, n)
  <2>1. conn_bufspace(c) \in Nat
    BY <1>1, EmptyHasRoom, SizeAssumption DEF OutputOK
  <2>2. ~(conn_bufspace(c) < s.received_segment.len)
    BY <1>3, <1>8, <1>9, <2>1
  <2> QED  BY <2>2 DEF ctcp_output, OutputWaits
<1> HIDE DEF s, piece, next
<1>11. PICK w \in conn_output(c, piece) :
         \/ w.rc < 0 /\ ctcp_destroy(x, s, w.c, n)
         \/ /\ w.rc >= 0
            /\ \E o \in send_ack(x, [s EXCEPT !.ackno = next], n) :
                 Return(x, [destroy_acked_segment(o.s) EXCEPT
                              !.received_segment = NULL], w.c, o.n)
  BY <1>9, <1>10 DEF OutputData, piece, next
<1>12. /\ w.c \in Conn /\ w.c.nread = c.nread /\ w.c.tainted = c.tainted
       /\ w.c.read_eof = c.read_eof /\ w.c.wrote_eof = c.wrote_eof
       /\ w.c.out_queue = <<>> /\ ~w.c.pollout /\ w.c.status = c.status
       /\ w.c.out = IF w.rc < 0 THEN c.out ELSE Append(c.out, piece)
       /\ w.rc \in Int
  BY <1>1, <1>2, <1>5, FastOutput DEF OutputOK
<1> DEFINE t == [s EXCEPT !.ackno = next]
<1>13. /\ s.seqno = state[x].seqno /\ Kept(s) = Kept(state[x])
       /\ s.conn_state = "DATA_TRANSFER"
       /\ t \in CtcpState /\ t.seqno = state[x].seqno /\ Kept(t) = Kept(state[x])
       /\ t.conn_state = "DATA_TRANSFER" /\ t.ackno = next
  BY <1>1, <1>6, <1>9 DEF CtcpState, Kept, s
<1>14. CASE w.rc < 0 /\ ctcp_destroy(x, s, w.c, n)
  <2>1. SenderOK(x, s, w.c, n)
    BY <1>1, <1>12, <1>13, SenderForgets
  <2>2. OutputOK(x, s, w.c)
    BY <1>1, <1>2, <1>12, <1>14 DEF OutputOK
  <2> QED  BY <1>1, <1>12, <1>14, <2>1, <2>2, FifoDestroy
<1>15. ASSUME NEW o \in send_ack(x, t, n), ~(w.rc < 0),
              Return(x, [destroy_acked_segment(o.s) EXCEPT !.received_segment = NULL], w.c, o.n)
       PROVE  FInv'
  <2> HIDE DEF t
  <2>1. SenderOK(x, t, c, n) /\ NoFins(x, t, n)
    BY <1>1, <1>2, <1>13, SenderForgets
  <2>2. Lossless(x, o.n)
    BY <1>15, PeerFacts DEF Return, NoLoss, Lossless
  <2>3. /\ SenderOK(x, o.s, c, o.n)
        /\ o.n \in Net /\ o.n.forked = {} /\ o.n.wire[x] = n.wire[x]
        /\ NoFins(x, o.s, o.n)
        /\ o.s \in CtcpState /\ o.s.ackno = next /\ o.s.conn_state = "DATA_TRANSFER"
    BY <1>1, <1>13, <1>15, <2>1, <2>2, FifoAck
  <2> DEFINE u == [destroy_acked_segment(o.s) EXCEPT !.received_segment = NULL]
  <2>4. u.seqno = o.s.seqno /\ Kept(u) = {} /\ u.ackno = next /\ u.conn_state = "DATA_TRANSFER"
    BY <2>3 DEF destroy_acked_segment, CtcpState, Kept
  <2>5. Return(x, u, w.c, o.n)
    BY <1>15
  <2> HIDE DEF u
  <2>6. SenderOK(x, u, w.c, o.n) /\ NoFins(x, u, o.n)
    BY <1>12, <2>3, <2>4, SenderForgets
  <2>7. w.c.out = Append(c.out, piece)
    BY <1>12, <1>15
  <2>8. c.out \in Seq(Piece) /\ NoGap(c.out) /\ piece.pos = ReceivedOf(c.out) + 1
    BY <1>1, <1>2, <1>5 DEF Conn, Pieces, OutputOK
  <2>9. NoGap(w.c.out) /\ ReceivedOf(w.c.out) = next - 1
    <3>1. NoGap(Append(c.out, piece)) /\ ReceivedOf(Append(c.out, piece)) = End(piece) - 1
      BY <1>5, <2>8, PrefixAppend
    <3> QED  BY <1>5, <1>6, <2>7, <3>1
  <2>10. ReceiverOK(x, u, w.c, o.n)
    BY <1>1, <1>7, <2>3, <2>4, <2>6, <2>9 DEF ReceiverOK
  <2>11. OutputOK(x, u, w.c)
    BY <1>1, <1>2, <1>12, <2>9 DEF OutputOK
  <2> QED  BY <2>3, <2>5, <2>6, <2>10, <2>11, FifoReturn
<1>16. w.rc >= 0 => ~(w.rc < 0)
  BY <1>12
<1> QED  BY <1>11, <1>14, <1>15, <1>16

(* ctcp_receive() of a host that takes data.                                *)
LEMMA FifoTakesData ==
  ASSUME ~SlowStdout, MSS <= BufSpace,
         FInv, StreamInv', NoLoss', NEW x \in Host, Open(x), NEW n, Taken(x, n),
         InDataTransfer(x, state[x], Head(net.wire[x]), n)
  PROVE  FInv'
<1> DEFINE s == state[x]
           g == Head(net.wire[x])
<1>1. /\ g \in Segment /\ g.seqno <= s.ackno /\ s.ackno \in Nat
      /\ g.seqno < s.ackno => Past(g) <= s.ackno
  BY FifoHead
<1>2. /\ g.seqno \in Nat /\ g.len \in Nat /\ s \in CtcpState
      /\ ~IsFin(g) => Past(g) = g.seqno + g.len
  BY <1>1, PastFacts, FifoStarts
<1>3. ~IsOld(s, g) => g.seqno >= s.ackno /\ g.seqno = s.ackno
  BY <1>1, <1>2 DEF IsOld
<1>4. CASE IsOld(s, g) /\ Return(x, s, conn[x], n)
  BY <1>1, <1>4, FifoNothingNew DEF IsOld
<1>5. CASE /\ ~IsOld(s, g) /\ "FIN" \in g.flags
           /\ \E a \in send_ack(x, [s EXCEPT !.ackno = g.seqno + 1], n) :
                \E f \in send_fin(x, a.s, a.n) :
                  Return(x, [f.s EXCEPT !.conn_state = "WAIT_LAST_ACK"],
                         output_eof(conn[x]), f.n)
  BY <1>3, <1>5, FifoFin DEF IsFin
<1>6. CASE /\ ~IsOld(s, g) /\ g.flags = {"ACK"} /\ g.len = 0
           /\ Return(x, destroy_acked_segment([s EXCEPT !.ackno = g.seqno]), conn[x], n)
  <2> DEFINE t == destroy_acked_segment([s EXCEPT !.ackno = g.seqno])
  <2>1. /\ t.seqno = s.seqno /\ t.ackno = s.ackno /\ t.conn_state = s.conn_state
        /\ Kept(t) = {}
    BY <1>2, <1>3, <1>6 DEF destroy_acked_segment, CtcpState, Kept
  <2>2. Past(g) <= s.ackno
    BY <1>1, <1>2, <1>6 DEF IsFin
  <2>3. Return(x, t, conn[x], n)
    BY <1>6
  <2> HIDE DEF t
  <2> QED  BY <2>1, <2>2, <2>3, FifoNothingNew
<1>7. CASE /\ ~IsOld(s, g) /\ g.flags = {"ACK"} /\ g.len > 0
           /\ ctcp_output(x, [s EXCEPT !.received_segment = g], conn[x], n)
  <2>1. ~IsFin(g)
    BY <1>7 DEF IsFin
  <2> QED  BY <1>3, <1>7, <2>1, FifoData
<1> QED  BY <1>4, <1>5, <1>6, <1>7 DEF InDataTransfer, TakesAck

(* An acknowledgement of a FIN.                                             *)
LEMMA FifoAckFin ==
  ASSUME FInv, NEW x \in Host, NEW n, Taken(x, n), NEW next \in Nat,
         NEW a \in send_ack(x, [state[x] EXCEPT !.ackno = next], n), Lossless(x, a.n)
  PROVE  /\ SenderOK(x, a.s, conn[x], a.n) /\ a.n \in Net /\ a.n.forked = {}
         /\ Range(a.n.wire[x]) \subseteq Range(net.wire[x])
         /\ a.s \in CtcpState /\ a.s.conn_state = state[x].conn_state
<1> DEFINE t == [state[x] EXCEPT !.ackno = next]
<1>1. /\ SenderOK(x, state[x], conn[x], n) /\ n.forked = {} /\ n \in Net
      /\ Range(n.wire[x]) \subseteq Range(net.wire[x]) /\ state[x] \in CtcpState
  BY FifoTaken, FifoStarts
<1>2. /\ t \in CtcpState /\ t.seqno = state[x].seqno /\ Kept(t) = Kept(state[x])
      /\ t.conn_state = state[x].conn_state
  BY <1>1 DEF CtcpState, Kept
<1> HIDE DEF t
<1>3. SenderOK(x, t, conn[x], n)
  BY <1>1, <1>2, SenderForgets
<1>4. a \in send_ack(x, t, n)
  BY DEF t
<1>5. /\ SenderOK(x, a.s, conn[x], a.n) /\ a.n \in Net /\ a.n.forked = {}
      /\ a.n.wire[x] = n.wire[x] /\ a.s \in CtcpState
      /\ a.s.conn_state = t.conn_state
  BY <1>1, <1>2, <1>3, <1>4, FifoAck
<1> QED  BY <1>1, <1>2, <1>5

LEMMA FifoReceive ==
  ASSUME ~SlowStdout, MSS <= BufSpace,
         FInv, StreamInv', NoLoss', NEW x \in Host, Receive(x)
  PROVE  FInv'
<1> DEFINE s == state[x]
           c == conn[x]
           g == Head(net.wire[x])
           n == [net EXCEPT !.wire[x] = Tail(@)]
<1>1. /\ s \in CtcpState /\ c \in Conn /\ OutputOK(x, s, c) /\ c.status = "up"
      /\ net \in Net /\ net.wire[x] \in Seq(Segment) /\ net.wire[x] # <<>>
  BY FifoStarts DEF Receive
<1>2. Taken(x, n)
  <2>1. Tail(net.wire[x]) \in Seq(Segment)
    BY <1>1
  <2>2. OnlyWire(n, net, x, Tail(net.wire[x]))
    BY <1>1, <2>1, WithoutWire
  <2> HIDE DEF n
  <2> QED  BY <1>1, <2>2 DEF Taken
<1>3. ctcp_receive(x, s, g, n)
  BY DEF Receive
<1> HIDE DEF n
<1>4. /\ SenderOK(x, s, c, n) /\ n.forked = {} /\ n \in Net
      /\ Range(n.wire[x]) \subseteq Range(net.wire[x]) /\ g \in Segment
      /\ g.seqno + 1 \in Nat
  BY <1>2, FifoTaken DEF Segment
<1> HIDE DEF g
<1>5. Open(x) <=> s.conn_state = "DATA_TRANSFER"
  BY <1>1 DEF Open
<1>6. CASE s.conn_state = "DATA_TRANSFER"
  <2>1. is_segment_valid(g)
    BY <1>2, <1>5, <1>6, FifoHead DEF is_segment_valid, g
  <2>2. InDataTransfer(x, s, g, n)
    BY <1>3, <1>6, <2>1 DEF ctcp_receive, InTearDown, InWaitLastFin, InWaitLastAck
  <2> QED  BY <1>2, <1>5, <1>6, <2>2, FifoTakesData DEF g
<1>7. CASE s.conn_state # "DATA_TRANSFER"
  <2>1. CASE Return(x, s, c, n)
    BY <1>4, <1>7, <2>1, FifoQuiet
  <2>2. CASE InTearDown(x, s, g, n)
    <3>1. ASSUME NEW cs \in ConnState, cs # "DATA_TRANSFER",
                 Return(x, [s EXCEPT !.conn_state = cs], c, n)
          PROVE  FInv'
      <4> DEFINE t == [s EXCEPT !.conn_state = cs]
      <4>1. t.seqno = s.seqno /\ Kept(t) = Kept(s) /\ t.conn_state = cs
        BY <1>1 DEF CtcpState, Kept
      <4>2. Return(x, t, c, n)
        BY <3>1
      <4> HIDE DEF t
      <4>3. SenderOK(x, t, c, n)
        BY <1>4, <4>1, SenderForgets
      <4> QED  BY <1>4, <3>1, <4>1, <4>2, <4>3, FifoQuiet
    <3>2. ASSUME NEW a \in send_ack(x, [s EXCEPT !.ackno = g.seqno + 1], n),
                 ctcp_destroy(x, a.s, c, a.n)
          PROVE  FInv'
      <4>1. a.n \in Net
        <5> DEFINE t == [s EXCEPT !.ackno = g.seqno + 1]
        <5>1. t \in CtcpState /\ {"ACK"} \in Flags /\ 0 \in Nat
          BY <1>1, <1>4 DEF CtcpState, Flags
        <5>2. a \in segment_send(x, t, n, {"ACK"}, 0, 0)
          BY DEF send_ack
        <5> HIDE DEF t
        <5> QED  BY <1>4, <5>1, <5>2, SegmentSendFacts DEF After
      <4>2. Lossless(x, a.n)
        BY <3>2, <4>1, DestroyLossless
      <4>3. /\ SenderOK(x, a.s, c, a.n) /\ a.n.forked = {}
            /\ Range(a.n.wire[x]) \subseteq Range(net.wire[x])
            /\ a.s.conn_state = s.conn_state
        BY <1>2, <1>4, <4>2, FifoAckFin
      <4>4. OutputOK(x, a.s, c)
        BY <1>1, <4>3 DEF OutputOK
      <4> QED  BY <1>1, <3>2, <4>1, <4>3, <4>4, FifoDestroy
    <3> QED  BY <2>2, <3>1, <3>2 DEF InTearDown, ConnState
  <2>3. CASE InWaitLastFin(x, s, g, n)
    <3>1. ASSUME NEW a \in send_ack(x, [s EXCEPT !.ackno = g.seqno + 1], n),
                 Return(x, [a.s EXCEPT !.tim = 0, !.td_state = "WAIT_DESTROY"], c, a.n)
          PROVE  FInv'
      <4>1. Lossless(x, a.n)
        BY <3>1, PeerFacts DEF Return, NoLoss, Lossless
      <4>2. /\ SenderOK(x, a.s, c, a.n) /\ a.n.forked = {} /\ a.s \in CtcpState
            /\ Range(a.n.wire[x]) \subseteq Range(net.wire[x])
            /\ a.s.conn_state = s.conn_state
        BY <1>2, <1>4, <4>1, FifoAckFin
      <4> DEFINE t == [a.s EXCEPT !.tim = 0, !.td_state = "WAIT_DESTROY"]
      <4>3. t.seqno = a.s.seqno /\ Kept(t) = Kept(a.s) /\ t.conn_state = a.s.conn_state
        BY <4>2 DEF CtcpState, Kept
      <4>4. Return(x, t, c, a.n)
        BY <3>1
      <4> HIDE DEF t
      <4>5. SenderOK(x, t, c, a.n)
        BY <4>2, <4>3, SenderForgets
      <4> QED  BY <1>7, <4>2, <4>3, <4>4, <4>5, FifoQuiet
    <3> QED  BY <2>1, <2>3, <3>1 DEF InWaitLastFin
  <2>4. CASE InWaitLastAck(x, s, g, n)
    <3>1. CASE ctcp_destroy(x, s, c, n)
      BY <1>1, <1>4, <3>1, FifoDestroy
    <3> QED  BY <2>1, <2>4, <3>1 DEF InWaitLastAck
  <2> QED  BY <1>3, <1>7, <2>1, <2>2, <2>3, <2>4 DEF ctcp_receive, InDataTransfer
<1> QED  BY <1>6, <1>7

-----------------------------------------------------------------------------
(* Theorems *)

(* The connection starts with nothing sent.                                 *)
LEMMA InitFifo == Init => FInv
<1> SUFFICES ASSUME Init PROVE FInv
  OBVIOUS
<1>1. StreamInv
  BY InitStreamInv
<1>2. ASSUME NEW h \in Host
      PROVE  /\ state[h].ackno = 1 /\ state[h].seqno = 1 /\ state[h].sent_segment_attr = NULL
             /\ conn[h] = ConnInit /\ net.wire[h] = <<>> /\ net.forked = {}
             /\ Peer(h) \in Host
  BY PeerFacts DEF Init, ctcp_init, NetInit
<1>3. ASSUME NEW h \in Host
      PROVE  /\ Kept(state[h]) = {} /\ Range(net.wire[h]) = {} /\ DOMAIN net.wire[h] = {}
             /\ conn[h].out_queue = <<>> /\ ~conn[h].pollout /\ ~conn[h].tainted
             /\ ~conn[h].wrote_eof /\ conn[h].nread = 0 /\ conn[h].out = <<>>
  BY <1>2 DEF Kept, Range, ConnInit
<1>4. ASSUME NEW h \in Host
      PROVE  /\ GapFree(net.wire[h], Kept(state[Peer(h)]), state[h].ackno,
                        state[Peer(h)].seqno)
             /\ CountsInput(Toward(h), conn[Peer(h)], state[Peer(h)].seqno)
             /\ Received(h) = state[h].ackno - 1
             /\ \A g \in Toward(Peer(h)) : ~IsFin(g)
  <2>1. Toward(h) = {}
    BY <1>2, <1>3 DEF Toward
  <2>2. Toward(Peer(h)) = {}
    BY <1>2, <1>3, PeerFacts DEF Toward
  <2>3. GapFree(net.wire[h], Kept(state[Peer(h)]), state[h].ackno, state[Peer(h)].seqno)
    <3>1. /\ Range(net.wire[h]) \cup Kept(state[Peer(h)]) = {} /\ DOMAIN net.wire[h] = {}
          /\ state[h].ackno = 1 /\ state[Peer(h)].seqno = 1
      BY <1>2, <1>3
    <3>2. 1 <= 1
      OBVIOUS
    <3> QED  BY <3>1, <3>2, ZenonT(30) DEF GapFree
  <2>4. CountsInput(Toward(h), conn[Peer(h)], state[Peer(h)].seqno)
    BY <1>2, <1>3, <2>1 DEF CountsInput
  <2>5. Received(h) = state[h].ackno - 1
    BY <1>2, <1>3 DEF Received
  <2> QED  BY <2>2, <2>3, <2>4, <2>5
<1>5. FifoInv
  BY <1>2, <1>3, <1>4, HostAssumption DEF FifoInv, Host
<1>6. OutputIsPrefix /\ CompleteAtEof
  BY <1>3 DEF OutputIsPrefix, NoGap, CompleteAtEof
<1> QED  BY <1>1, <1>5, <1>6 DEF FInv

(* conn_drain() of an empty queue, on an error of stdout.                   *)
LEMMA EmptyDrains ==
  ASSUME NEW c \in Conn, c.out_queue = <<>>, ~c.pollout, NEW d \in conn_drain(c)
  PROVE  /\ d.c \in Conn /\ ~d.outputted /\ d.c.out_queue = <<>> /\ ~d.c.pollout
         /\ d.c.nread = c.nread /\ d.c.read_eof = c.read_eof /\ d.c.out = c.out
         /\ d.c.tainted = c.tainted /\ d.c.wrote_eof = c.wrote_eof
         /\ d.c.status = c.status
<1>1. CASE c.wrote_err
  <2>1. d = [outputted |-> FALSE, c |-> [c EXCEPT !.pollout = FALSE]]
    BY <1>1 DEF conn_drain
  <2> QED  BY <2>1 DEF Conn
<1>2. CASE ~c.wrote_err
  <2> DEFINE e == Left(c, 0, FALSE, FALSE)
  <2>1. PICK x \in DrainWrites(c) :
          d = [x EXCEPT !.c.wrote_err = @ \/ (x.c.wrote_eof /\ x.c.out_queue = <<>>)]
    BY <1>2 DEF conn_drain
  <2>2. Len(c.out_queue) = 0 /\ 1..(0 - 1) = {} /\ 0..(0 - 1) = {}
    OBVIOUS
  <2>3. x = [outputted |-> FALSE, c |-> e]
    BY <2>1, <2>2 DEF DrainWrites, AllWritten, Blocked, PartlyWritten, WriteFails, When
  <2>4. Rest(c.out_queue, 0) = <<>>
    BY <2>2 DEF Rest
  <2>5. /\ e \in Conn /\ e.out_queue = <<>> /\ ~e.pollout
        /\ e.nread = c.nread /\ e.read_eof = c.read_eof /\ e.out = c.out
        /\ e.tainted = c.tainted /\ e.wrote_eof = c.wrote_eof /\ e.status = c.status
    BY <2>4 DEF Left, Conn
  <2> HIDE DEF e
  <2>6. d = [outputted |-> FALSE, c |-> [e EXCEPT !.wrote_err = @ \/ e.wrote_eof]]
    BY <2>1, <2>3, <2>5
  <2> QED  BY <2>5, <2>6 DEF Conn
<1> QED  BY <1>1, <1>2

LEMMA FifoDrain ==
  ASSUME FInv, StreamInv', NEW x \in Host, Drain(x)
  PROVE  FInv'
<1>1. /\ SenderOK(x, state[x], conn[x], net) /\ ReceiverOK(x, state[x], conn[x], net)
      /\ OutputOK(x, state[x], conn[x]) /\ net.forked = {} /\ conn[x] \in Conn
  BY FifoStarts
<1>2. PICK d \in conn_drain(conn[x]) : d.outputted \/ Return(x, state[x], d.c, net)
  BY DEF Drain
<1> DEFINE c == d.c
<1>3. /\ c.out_queue = <<>> /\ ~c.pollout /\ c.nread = conn[x].nread
      /\ c.read_eof = conn[x].read_eof /\ c.out = conn[x].out
      /\ c.tainted = conn[x].tainted /\ c.wrote_eof = conn[x].wrote_eof
      /\ c.status = conn[x].status /\ Return(x, state[x], c, net)
  BY <1>1, <1>2, EmptyDrains DEF OutputOK
<1> HIDE DEF c
<1>4. SenderOK(x, state[x], c, net)
  BY <1>1, <1>3 DEF SenderOK, CountsInput
<1>5. ReceiverOK(x, state[x], c, net) /\ OutputOK(x, state[x], c)
  BY <1>1, <1>3 DEF ReceiverOK, OutputOK
<1> QED  BY <1>1, <1>3, <1>4, <1>5, FifoReturn

LEMMA NextFifo ==
  ASSUME ~SlowStdout, MSS <= BufSpace
  PROVE  FInv /\ [Next]_vars /\ NoLoss' => FInv'
<1> SUFFICES ASSUME FInv, [Next]_vars, NoLoss' PROVE FInv'
  OBVIOUS
<1>1. StreamInv'
  BY NextStreamInv DEF FInv
<1>2. CASE UNCHANGED vars
  BY <1>2 DEF vars, FInv, StreamInv, TypeOK, DataWasRead, SeqnoOrdersData, AcknoGuards,
     WaitingIsNew, InOrderOnce, Data, FifoInv, Open, Toward, Received, OutputIsPrefix, NoGap,
     CompleteAtEof
<1>4. ASSUME NEW f \in net.forked
      PROVE  FALSE
  BY DEF FInv, FifoInv
<1> QED  BY <1>1, <1>2, <1>4, FifoReadData, FifoReadEof, FifoReceive, FifoDiscard,
            FifoDrain, FifoTimer DEF Next

(* With no fault, no full socket and a stdout that takes all it is given,   *)
(* the invariant of the whole stream holds.                                 *)
THEOREM FifoInvariant ==
  ASSUME ~SlowStdout, MSS <= BufSpace
  PROVE  Spec /\ []NoLoss => []FifoInv
<1>1. FInv => FifoInv
  BY DEF FInv
<1> QED  BY <1>1, InitFifo, NextFifo, PTL DEF Spec

(* ... and ctcp_output() prints the peer's input without a gap ...          *)
THEOREM NothingIsMissing ==
  ASSUME ~SlowStdout, MSS <= BufSpace
  PROVE  Spec /\ []NoLoss => []OutputIsPrefix
<1>1. FInv => OutputIsPrefix
  BY DEF FInv
<1> QED  BY <1>1, InitFifo, NextFifo, PTL DEF Spec

(* ... and ctcp_receive() reports the end of file on stdout only when all   *)
(* of the peer's input has been printed.                                    *)
THEOREM EofMeansComplete ==
  ASSUME ~SlowStdout, MSS <= BufSpace
  PROVE  Spec /\ []NoLoss => []CompleteAtEof
<1>1. FInv => CompleteAtEof
  BY DEF FInv
<1> QED  BY <1>1, InitFifo, NextFifo, PTL DEF Spec

-----------------------------------------------------------------------------
(* How much is sent, with any faults *)

(* Counting forked senders, and one more or one less of them.               *)
LEMMA OneMore ==
  ASSUME NEW S, IsFiniteSet(S), NEW x
  PROVE  /\ IsFiniteSet(S \cup {x}) /\ Cardinality(S) \in Nat
         /\ Cardinality(S \cup {x}) \in Nat
         /\ Cardinality(S \cup {x}) <= Cardinality(S) + 1
<1>1. Cardinality(S) \in Nat /\ IsFiniteSet(S \cup {x})
  BY FS_CardinalityType, FS_AddElement
<1>2. Cardinality(S \cup {x}) = Cardinality(S) \/ Cardinality(S \cup {x}) = Cardinality(S) + 1
  BY FS_AddElement
<1> QED  BY <1>1, <1>2

LEMMA OneLess ==
  ASSUME NEW S, IsFiniteSet(S), NEW x \in S
  PROVE  /\ IsFiniteSet(S \ {x}) /\ Cardinality(S) \in Nat
         /\ Cardinality(S \ {x}) = Cardinality(S) - 1
  BY FS_CardinalityType, FS_RemoveElement

(* The price of one segment, and of a queue with one more or one less.      *)
PriceOf(g) == IF Asks(g) THEN 3 ELSE 1

LEMMA PriceFacts ==
  ASSUME NEW w \in Seq(Segment)
  PROVE  /\ IsFiniteSet(Asking(w)) /\ Cardinality(Asking(w)) \in Nat
         /\ Asking(w) \subseteq 1..Len(w) /\ Price(w) \in Nat /\ Len(w) <= Price(w)
         /\ w = <<>> => Price(w) = 0
<1>1. Asking(w) \subseteq 1..Len(w) /\ Len(w) \in Nat
  BY DEF Asking
<1>2. IsFiniteSet(Asking(w)) /\ Cardinality(Asking(w)) \in Nat
  <2>1. IsFiniteSet(1..Len(w))
    BY <1>1, FS_Interval
  <2>2. IsFiniteSet(Asking(w))
    BY <1>1, <2>1, FS_Subset
  <2> QED  BY <2>2, FS_CardinalityType
<1> DEFINE k == Cardinality(Asking(w))
           l == Len(w)
<1>3. Price(w) = l + 2 * k /\ l \in Nat /\ k \in Nat
  BY <1>1, <1>2 DEF Price
<1>4. w = <<>> => l = 0 /\ k = 0
  <2>1. w = <<>> => Asking(w) = {}
    BY DEF Asking
  <2> QED  BY <2>1, FS_EmptySet
<1>5. Price(w) \in Nat /\ l <= Price(w) /\ (w = <<>> => Price(w) = 0)
  <2> HIDE DEF k, l
  <2> QED  BY <1>3, <1>4
<1> QED  BY <1>1, <1>2, <1>5

LEMMA PriceAppend ==
  ASSUME NEW w \in Seq(Segment), NEW g \in Segment
  PROVE  Price(Append(w, g)) = Price(w) + PriceOf(g)
<1> DEFINE v == Append(w, g)
           i == Len(w) + 1
<1>1. /\ v \in Seq(Segment) /\ Len(v) = i /\ i \in Nat /\ Len(w) \in Nat /\ v[i] = g
      /\ \A j \in 1..Len(w) : v[j] = w[j]
      /\ DOMAIN v = 1..i /\ DOMAIN w = 1..Len(w)
  OBVIOUS
<1>2. /\ IsFiniteSet(Asking(w)) /\ Cardinality(Asking(w)) \in Nat
      /\ Asking(w) \subseteq 1..Len(w)
  BY PriceFacts
<1> HIDE DEF v, i
<1>3. Asking(v) = IF Asks(g) THEN Asking(w) \cup {i} ELSE Asking(w)
  <2>1. ASSUME NEW j  PROVE j \in Asking(v) <=> j \in Asking(w) \/ (j = i /\ Asks(g))
    <3>1. j \in 1..i <=> j \in 1..Len(w) \/ j = i
      BY <1>1 DEF i
    <3> QED  BY <1>1, <3>1 DEF Asking
  <2> QED  BY <2>1
<1>4. i \notin Asking(w)
  BY <1>1, <1>2 DEF i
<1> DEFINE k == Cardinality(Asking(w))
           l == Cardinality(Asking(v))
           m == Len(w)
<1>5. l = IF Asks(g) THEN k + 1 ELSE k
  BY <1>2, <1>3, <1>4, FS_AddElement
<1>6. Price(w) = m + 2 * k /\ Price(v) = (m + 1) + 2 * l /\ k \in Nat /\ m \in Nat
  BY <1>1, <1>2 DEF Price, i
<1> HIDE DEF k, l, m
<1>7. Price(v) = Price(w) + PriceOf(g)
  BY <1>5, <1>6 DEF PriceOf
<1> QED  BY <1>7 DEF v

LEMMA PriceTail ==
  ASSUME NEW w \in Seq(Segment), w # <<>>
  PROVE  Price(Tail(w)) + PriceOf(Head(w)) <= Price(w)
<1> DEFINE v == Tail(w)
           g == Head(w)
           rest == Asking(w) \ {1}
           f == [j \in Asking(v) |-> j + 1]
<1>1. /\ v \in Seq(Segment) /\ Len(v) = Len(w) - 1 /\ Len(w) \in Nat /\ Len(w) >= 1
      /\ g = w[1] /\ \A j \in 1..Len(v) : v[j] = w[j + 1]
      /\ DOMAIN v = 1..Len(v) /\ DOMAIN w = 1..Len(w)
  OBVIOUS
<1>2. /\ IsFiniteSet(Asking(w)) /\ Cardinality(Asking(w)) \in Nat
      /\ IsFiniteSet(Asking(v)) /\ Cardinality(Asking(v)) \in Nat
      /\ Asking(v) \subseteq 1..Len(v)
  BY <1>1, PriceFacts
<1> HIDE DEF v, g
<1>3. f \in Injection(Asking(v), rest)
  <2>1. ASSUME NEW j \in Asking(v)  PROVE j + 1 \in rest /\ j \in Int
    <3>1. j \in 1..Len(v) /\ Asks(v[j]) /\ v[j] = w[j + 1]
      BY <1>1, <1>2 DEF Asking
    <3>2. j \in Int /\ j + 1 \in 1..Len(w) /\ j + 1 # 1
      BY <1>1, <3>1
    <3> QED  BY <1>1, <3>1, <3>2 DEF Asking
  <2>2. \A a, b \in Asking(v) : a + 1 = b + 1 => a = b
    BY <2>1
  <2> HIDE DEF rest
  <2> QED  BY <2>1, <2>2 DEF Injection, IsInjective
<1>4. IsFiniteSet(rest) /\ Cardinality(rest) = IF Asks(g) THEN Cardinality(Asking(w)) - 1
                                               ELSE Cardinality(Asking(w))
  <2>1. 1 \in Asking(w) <=> Asks(g)
    BY <1>1 DEF Asking
  <2> QED  BY <1>2, <2>1, FS_RemoveElement
<1>5. Cardinality(Asking(v)) <= Cardinality(rest)
  <2> HIDE DEF rest, f
  <2> QED  BY <1>3, <1>4, FS_Injection
<1> DEFINE k == Cardinality(Asking(w))
           l == Cardinality(Asking(v))
           m == Len(w)
<1>6. Price(w) = m + 2 * k /\ Price(v) = (m - 1) + 2 * l
  BY <1>1 DEF Price
<1>7. k \in Nat /\ l \in Nat /\ m \in Nat /\ l <= IF Asks(g) THEN k - 1 ELSE k
  BY <1>1, <1>2, <1>4, <1>5
<1> HIDE DEF k, l, m
<1>8. Price(v) + PriceOf(g) <= Price(w)
  BY <1>6, <1>7 DEF PriceOf
<1> QED  BY <1>8 DEF v, g

(* What UnderWay counts is counted.                                         *)
NetCounts(n) == /\ n \in Net /\ n.faults <= MaxFaults /\ IsFiniteSet(n.forked)

LEMMA UnderWayFacts ==
  ASSUME NEW n, NetCounts(n)
  PROVE  /\ Price(n.wire[Client]) \in Nat /\ Price(n.wire[Server]) \in Nat
         /\ Cardinality(n.forked) \in Nat /\ n.faults \in Nat /\ MaxFaults \in Nat
         /\ UnderWay(n) \in Nat
<1>1. n.wire[Client] \in Seq(Segment) /\ n.wire[Server] \in Seq(Segment)
  BY DEF NetCounts, Net, Wires, Host
<1>2. Price(n.wire[Client]) \in Nat /\ Price(n.wire[Server]) \in Nat
  BY <1>1, PriceFacts
<1>3. Cardinality(n.forked) \in Nat
  BY FS_CardinalityType DEF NetCounts
<1>4. n.faults \in Nat /\ MaxFaults \in Nat /\ n.faults <= MaxFaults
  BY FaultAssumption DEF NetCounts, Net
<1> DEFINE a == Price(n.wire[Client])
           b == Price(n.wire[Server])
           c == Cardinality(n.forked)
           f == n.faults
<1>5. UnderWay(n) = a + b + 4 * c + 4 * (MaxFaults - f)
  BY DEF UnderWay
<1>6. a \in Nat /\ b \in Nat /\ c \in Nat /\ f \in Nat /\ MaxFaults \in Nat /\ f <= MaxFaults
  BY <1>2, <1>3, <1>4
<1> HIDE DEF a, b, c, f
<1>7. UnderWay(n) \in Nat
  BY <1>5, <1>6
<1> QED  BY <1>2, <1>3, <1>4, <1>7

(* A fault pays for one segment.                                            *)
LEMMA SpendCounts ==
  ASSUME NEW n, NetCounts(n), n.faults < MaxFaults
  PROVE  /\ NetCounts(Spend(n)) /\ UnderWay(Spend(n)) = UnderWay(n) - 4
         /\ Spend(n).wire = n.wire /\ Spend(n).forked = n.forked
<1>1. /\ Spend(n) \in Net /\ Spend(n).forked = n.forked /\ Spend(n).wire = n.wire
  BY SpendFacts DEF NetCounts
<1>2. Spend(n).faults = n.faults + 1
  BY DEF Spend, NetCounts, Net
<1>3. NetCounts(Spend(n))
  BY <1>1, <1>2, UnderWayFacts DEF NetCounts
<1> DEFINE a == Price(n.wire[Client])
           b == Price(n.wire[Server])
           c == Cardinality(n.forked)
<1>4. UnderWay(Spend(n)) = a + b + 4 * c + 4 * (MaxFaults - (n.faults + 1))
  BY <1>1, <1>2 DEF UnderWay
<1>5. UnderWay(n) = a + b + 4 * c + 4 * (MaxFaults - n.faults)
  BY DEF UnderWay
<1>6. a \in Nat /\ b \in Nat /\ c \in Nat /\ n.faults \in Nat /\ MaxFaults \in Nat
  BY UnderWayFacts
<1> HIDE DEF a, b, c
<1>7. UnderWay(Spend(n)) = UnderWay(n) - 4
  BY <1>4, <1>5, <1>6
<1> QED  BY <1>1, <1>3, <1>7

LEMMA CorruptionCounts ==
  ASSUME NEW n, NetCounts(n), NEW h \in Host, NEW g \in Segment,
         NEW c \in Corruption(h, n, g)
  PROVE  /\ NetCounts(c.n) /\ UnderWay(c.n) <= UnderWay(n)
         /\ c.n.wire = n.wire /\ c.n.forked = n.forked
         /\ c.segment \in Segment /\ PriceOf(c.segment) = PriceOf(g)
<1>1. CASE c = [n |-> n, segment |-> g]
  BY <1>1, UnderWayFacts
<1>2. CASE n.faults < MaxFaults /\ c = [n |-> Spend(n), segment |-> flipbit(g)]
  <2>1. /\ flipbit(g) \in Segment /\ flipbit(g).len = g.len /\ flipbit(g).flags = g.flags
    BY DEF flipbit, Segment
  <2>2. PriceOf(flipbit(g)) = PriceOf(g)
    BY <2>1 DEF PriceOf, Asks
  <2>3. /\ NetCounts(Spend(n)) /\ UnderWay(Spend(n)) = UnderWay(n) - 4
        /\ Spend(n).wire = n.wire /\ Spend(n).forked = n.forked
        /\ UnderWay(n) \in Nat
    BY <1>2, SpendCounts, UnderWayFacts
  <2>4. c.n = Spend(n) /\ c.segment = flipbit(g)
    BY <1>2
  <2> QED  BY <2>1, <2>2, <2>3, <2>4
<1> QED  BY <1>1, <1>2 DEF Corruption, When, CanInject

(* fork() is a fault, so that the child is paid for.                        *)
LEMMA ForkCounts ==
  ASSUME NEW n, NetCounts(n), n.faults < MaxFaults, NEW h \in Host, NEW g \in Segment,
         NEW m \in Fork(h, n, g)
  PROVE  NetCounts(m) /\ UnderWay(m) <= UnderWay(n)
<1>1. PICK c \in Corruption(h, Spend(n), g) :
        m = [c.n EXCEPT !.forked = @ \cup
               {[pid |-> n.faults, to |-> Peer(h), segment |-> c.segment]}]
  BY DEF Fork
<1> DEFINE child == [pid |-> n.faults, to |-> Peer(h), segment |-> c.segment]
<1>2. NetCounts(c.n) /\ UnderWay(c.n) <= UnderWay(n) - 4
  <2>1. NetCounts(Spend(n)) /\ UnderWay(Spend(n)) = UnderWay(n) - 4
    BY SpendCounts
  <2>2. NetCounts(c.n) /\ UnderWay(c.n) <= UnderWay(Spend(n))
    BY <2>1, CorruptionCounts
  <2> QED  BY <2>1, <2>2
<1>3. m \in Net
  BY ForkFacts DEF After, NetCounts
<1> HIDE DEF child
<1>4. m.wire = c.n.wire /\ m.forked = c.n.forked \cup {child} /\ m.faults = c.n.faults
  BY <1>1, <1>2 DEF NetCounts, Net, child
<1>5. /\ IsFiniteSet(m.forked) /\ Cardinality(m.forked) \in Nat
      /\ Cardinality(m.forked) <= Cardinality(c.n.forked) + 1
  <2>1. IsFiniteSet(c.n.forked)
    BY <1>2 DEF NetCounts
  <2>2. /\ IsFiniteSet(c.n.forked \cup {child})
        /\ Cardinality(c.n.forked \cup {child}) \in Nat
        /\ Cardinality(c.n.forked \cup {child}) <= Cardinality(c.n.forked) + 1
    BY <2>1, OneMore
  <2>3. m.forked = c.n.forked \cup {child}
    BY <1>4
  <2> QED  BY <2>2, <2>3
<1>6. NetCounts(m)
  BY <1>2, <1>3, <1>4, <1>5 DEF NetCounts
<1>7. UnderWay(m) <= UnderWay(c.n) + 4
  <2> DEFINE a == Price(c.n.wire[Client])
             b == Price(c.n.wire[Server])
             k == Cardinality(c.n.forked)
             j == Cardinality(m.forked)
             f == c.n.faults
  <2>1. /\ UnderWay(m) = a + b + 4 * j + 4 * (MaxFaults - f)
        /\ UnderWay(c.n) = a + b + 4 * k + 4 * (MaxFaults - f)
    BY <1>4 DEF UnderWay
  <2>2. a \in Nat /\ b \in Nat /\ k \in Nat /\ f \in Nat /\ MaxFaults \in Nat
    BY <1>2, UnderWayFacts
  <2>3. j \in Nat /\ j <= k + 1
    BY <1>5
  <2> HIDE DEF a, b, k, j, f
  <2> QED  BY <2>1, <2>2, <2>3
<1>8. UnderWay(m) \in Nat /\ UnderWay(n) \in Nat /\ UnderWay(c.n) \in Nat
  BY <1>2, <1>6, UnderWayFacts
<1> QED  BY <1>2, <1>6, <1>7, <1>8

(* The queue of host x is q, and nothing else has changed.                  *)
LEMMA WireCounts ==
  ASSUME NEW n, NetCounts(n), NEW x \in Host, NEW q \in Seq(Segment),
         NEW m, m = [n EXCEPT !.wire[x] = q]
  PROVE  /\ NetCounts(m) /\ UnderWay(m) = UnderWay(n) - Price(n.wire[x]) + Price(q)
         /\ q = n.wire[x] => m = n
<1>1. m.faults = n.faults /\ m.forked = n.forked /\ m.wire = [n.wire EXCEPT ![x] = q]
  BY DEF NetCounts, Net
<1>2. m \in Net
  <2>1. [n.wire EXCEPT ![x] = q] \in Wires
    BY DEF NetCounts, Net, Wires
  <2> QED  BY <2>1 DEF NetCounts, Net
<1>3. n.wire \in [Host -> Seq(Segment)] /\ Client \in Host /\ Server \in Host
  BY DEF NetCounts, Net, Wires, Host
<1>4. NetCounts(m)
  BY <1>1, <1>2 DEF NetCounts
<1>9. ASSUME q = n.wire[x]  PROVE m = n
  <2>1. m.wire = n.wire
    BY <1>1, <1>3, <1>9
  <2>2. n \in Net
    BY DEF NetCounts
  <2> QED  BY <1>1, <1>2, <2>1, <2>2 DEF Net
<1> DEFINE a == Price(n.wire[Client])
           b == Price(n.wire[Server])
           k == Cardinality(n.forked)
           f == n.faults
           l == Price(q)
<1>7. UnderWay(n) = a + b + 4 * k + 4 * (MaxFaults - f)
  BY DEF UnderWay
<1>8. /\ a \in Nat /\ b \in Nat /\ k \in Nat /\ f \in Nat /\ MaxFaults \in Nat
      /\ l \in Nat
  BY UnderWayFacts, PriceFacts
<1> HIDE DEF k, f, a, b, l
<1>5. CASE x = Client
  <2>1. m.wire[Client] = q /\ m.wire[Server] = n.wire[Server]
    BY <1>1, <1>3, <1>5, HostAssumption
  <2>2. UnderWay(m) = l + b + 4 * k + 4 * (MaxFaults - f)
    BY <1>1, <2>1 DEF UnderWay, b, k, f, l
  <2>3. UnderWay(m) = UnderWay(n) - a + l
    BY <1>7, <1>8, <2>2
  <2>4. a = Price(n.wire[x]) /\ l = Price(q)
    BY <1>5 DEF a, l
  <2> QED  BY <1>4, <1>9, <2>3, <2>4
<1>6. CASE x = Server
  <2>1. m.wire[Server] = q /\ m.wire[Client] = n.wire[Client]
    BY <1>1, <1>3, <1>6, HostAssumption
  <2>2. UnderWay(m) = a + l + 4 * k + 4 * (MaxFaults - f)
    BY <1>1, <2>1 DEF UnderWay, a, k, f, l
  <2>3. UnderWay(m) = UnderWay(n) - b + l
    BY <1>7, <1>8, <2>2
  <2>4. b = Price(n.wire[x]) /\ l = Price(q)
    BY <1>6 DEF b, l
  <2> QED  BY <1>4, <1>9, <2>3, <2>4
<1> QED  BY <1>5, <1>6 DEF Host

LEMMA SendPktCounts ==
  ASSUME NEW n, NetCounts(n), NEW x \in Host, NEW g \in Segment
  PROVE  /\ NetCounts(send_pkt(x, n, g).n)
         /\ UnderWay(send_pkt(x, n, g).n) <= UnderWay(n) + PriceOf(g)
<1> DEFINE q == Append(n.wire[x], g)
           m == send_pkt(x, n, g).n
<1>1. n.wire[x] \in Seq(Segment)
  BY DEF NetCounts, Net, Wires
<1>2. /\ q \in Seq(Segment) /\ Price(q) = Price(n.wire[x]) + PriceOf(g)
      /\ Price(n.wire[x]) \in Nat /\ PriceOf(g) \in Nat /\ UnderWay(n) \in Nat
  BY <1>1, PriceAppend, PriceFacts, UnderWayFacts DEF PriceOf
<1> HIDE DEF q, m
<1>3. CASE m = n
  BY <1>2, <1>3 DEF m
<1>4. CASE m = [n EXCEPT !.wire[x] = q]
  <2>1. NetCounts(m) /\ UnderWay(m) = UnderWay(n) - Price(n.wire[x]) + Price(q)
    BY <1>2, <1>4, WireCounts
  <2> QED  BY <1>2, <2>1 DEF m
<1>5. m = n \/ m = [n EXCEPT !.wire[x] = q]
  BY DEF send_pkt, m, q
<1> QED  BY <1>3, <1>4, <1>5

(* conn_send() adds one segment at most that no fault pays for.             *)
LEMMA ConnSendCounts ==
  ASSUME NEW n, NetCounts(n), NEW h \in Host, NEW g \in Segment,
         NEW o \in conn_send(h, n, g)
  PROVE  NetCounts(o.n) /\ UnderWay(o.n) <= UnderWay(n) + PriceOf(g)
<1>0. Peer(h) \in Host /\ UnderWay(n) \in Nat /\ PriceOf(g) \in Nat
  BY PeerFacts, UnderWayFacts DEF PriceOf
<1>1. CASE n.faults < MaxFaults /\ o = [rc |-> 0, n |-> Spend(n)]
  BY <1>0, <1>1, SpendCounts
<1>2. ASSUME NEW m \in Duplication(h, n, g), o \in DelayOrSend(h, m, g)
      PROVE  NetCounts(o.n) /\ UnderWay(o.n) <= UnderWay(n) + PriceOf(g)
  <2>1. NetCounts(m) /\ UnderWay(m) <= UnderWay(n) /\ UnderWay(m) \in Nat
    <3>1. m = n \/ (n.faults < MaxFaults /\ m \in Fork(h, n, g))
      BY DEF Duplication, When, CanInject
    <3>2. NetCounts(m) /\ UnderWay(m) <= UnderWay(n)
      BY <1>0, <3>1, ForkCounts
    <3> QED  BY <3>2, UnderWayFacts
  <2>2. ASSUME m.faults < MaxFaults, NEW k \in Fork(h, m, g), o = [rc |-> 0, n |-> k]
        PROVE  NetCounts(o.n) /\ UnderWay(o.n) <= UnderWay(n) + PriceOf(g)
    <3>1. NetCounts(k) /\ UnderWay(k) <= UnderWay(m) /\ UnderWay(k) \in Nat
      BY <2>1, <2>2, ForkCounts, UnderWayFacts
    <3> QED  BY <1>0, <2>1, <2>2, <3>1
  <2>3. ASSUME NEW c \in Corruption(h, m, g), o = send_pkt(Peer(h), c.n, c.segment)
        PROVE  NetCounts(o.n) /\ UnderWay(o.n) <= UnderWay(n) + PriceOf(g)
    <3>1. /\ NetCounts(c.n) /\ UnderWay(c.n) <= UnderWay(m) /\ c.segment \in Segment
          /\ UnderWay(c.n) \in Nat /\ PriceOf(c.segment) = PriceOf(g)
      BY <2>1, CorruptionCounts, UnderWayFacts
    <3>2. /\ NetCounts(o.n) /\ UnderWay(o.n) <= UnderWay(c.n) + PriceOf(g)
          /\ UnderWay(o.n) \in Nat
      BY <1>0, <2>3, <3>1, SendPktCounts, UnderWayFacts
    <3> QED  BY <1>0, <2>1, <3>1, <3>2
  <2> QED  BY <1>2, <2>2, <2>3 DEF DelayOrSend, When, CanInject
<1>3. \/ n.faults < MaxFaults /\ o = [rc |-> 0, n |-> Spend(n)]
      \/ \E m \in Duplication(h, n, g) : o \in DelayOrSend(h, m, g)
  BY DEF conn_send, When, CanInject
<1> QED  BY <1>1, <1>2, <1>3

-----------------------------------------------------------------------------
(* What a host may still send, with the record s and the connection c       *)

HostCounts(h, s, c) ==
  /\ s \in CtcpState /\ c \in Conn /\ c.nread <= Input[h]
  /\ c.read_eof => c.nread = Input[h]
  /\ Paced(s.sent_segment_attr)

LEMMA WaitingCounts ==
  ASSUME NEW s
  PROVE  Cardinality(Waiting(s)) = IF s.received_segment = NULL THEN 0 ELSE 1
<1>1. CASE s.received_segment = NULL
  <2>1. Waiting(s) = {}
    BY <1>1 DEF Waiting
  <2>2. Cardinality(Waiting(s)) = 0
    BY <2>1, FS_EmptySet
  <2> QED  BY <1>1, <2>2
<1>2. CASE s.received_segment # NULL
  <2>1. Waiting(s) = {s.received_segment}
    BY <1>2 DEF Waiting
  <2>2. Cardinality({s.received_segment}) = 1
    BY FS_Singleton
  <2>3. Cardinality(Waiting(s)) = 1
    BY <2>1, <2>2, Zenon
  <2> QED  BY <1>2, <2>3
<1> QED  BY <1>1, <1>2

(* Retries of the unacknowledged segment, and the answer to a waiting one.  *)
LEMMA ExtraFacts ==
  ASSUME NEW s \in CtcpState, Paced(s.sent_segment_attr)
  PROVE  /\ RetriesLeft(s.sent_segment_attr) \in 0..Retries
         /\ Cardinality(Waiting(s)) \in 0..1
         /\ Extra(s) \in Nat /\ Retries \in Nat
<1>1. Cardinality(Waiting(s)) \in 0..1
  BY WaitingCounts
<1>2. RetriesLeft(s.sent_segment_attr) \in 0..Retries /\ Retries \in Nat
  <2>1. Retries \in Nat
    BY TimerAssumption
  <2>2. s.sent_segment_attr = NULL \/ s.sent_segment_attr.no_of_times \in Nat
    BY DEF CtcpState, MaybeAttr, SegmentAttr
  <2> QED  BY <2>1, <2>2 DEF RetriesLeft, Paced
<1> DEFINE a == RetriesLeft(s.sent_segment_attr)
           b == Cardinality(Waiting(s))
<1>3. Extra(s) = 4 * a + 2 * b
  BY DEF Extra
<1> HIDE DEF a, b
<1>4. Extra(s) \in Nat
  BY <1>1, <1>2, <1>3 DEF a, b
<1> QED  BY <1>1, <1>2, <1>4

(* A new segment to be kept means a new set of retries.                     *)
LEMMA ExtraBound ==
  ASSUME NEW s \in CtcpState, NEW t \in CtcpState, Paced(s.sent_segment_attr),
         Paced(t.sent_segment_attr), t.received_segment = s.received_segment
  PROVE  Extra(t) <= Extra(s) + 4 * Retries
<1> DEFINE a == RetriesLeft(s.sent_segment_attr)
           b == RetriesLeft(t.sent_segment_attr)
           w == Cardinality(Waiting(s))
<1>1. Waiting(t) = Waiting(s)
  BY DEF Waiting
<1>2. Extra(s) = 4 * a + 2 * w /\ Extra(t) = 4 * b + 2 * w
  BY <1>1 DEF Extra
<1>3. a \in 0..Retries /\ b \in 0..Retries /\ w \in 0..1 /\ Retries \in Nat
  BY ExtraFacts
<1> HIDE DEF a, b, w
<1> QED  BY <1>2, <1>3

LEMMA UnsentIsNat ==
  ASSUME NEW h \in Host, NEW s, NEW c, HostCounts(h, s, c)
  PROVE  Unsent(h, s, c) \in Nat /\ MaySendYet(h, s, c) \in Nat
<1>1. Input[h] \in Nat /\ c.nread \in Nat /\ c.nread <= Input[h]
  BY InputAssumption DEF HostCounts, Conn
<1>2. Unsent(h, s, c) \in Nat
  <2> DEFINE a == IF Eof[h] = "once" /\ ~c.read_eof THEN 1 ELSE 0
             b == IF s.conn_state = "DATA_TRANSFER" THEN 1 ELSE 0
  <2>1. a \in Nat /\ b \in Nat
    OBVIOUS
  <2>2. Unsent(h, s, c) = (Input[h] - c.nread) + a + b
    BY DEF Unsent
  <2> HIDE DEF a, b
  <2> QED  BY <1>1, <2>1, <2>2
<1>3. Extra(s) \in Nat /\ Retries \in Nat
  BY ExtraFacts DEF HostCounts
<1>4. \A u \in Nat, e \in Nat : 4 * (Retries + 1) * u + e \in Nat
  BY <1>3
<1> QED  BY <1>2, <1>3, <1>4 DEF MaySendYet

LEMMA Products ==
  ASSUME NEW r \in Nat, NEW u \in Nat, NEW v \in Nat, v + 1 <= u
  PROVE  (r + 1) * v + (r + 1) <= (r + 1) * u
<1>1. PICK d \in Nat : u = v + 1 + d
  <2>1. u - (v + 1) \in Nat /\ u = v + 1 + (u - (v + 1))
    OBVIOUS
  <2> QED  BY <2>1
<1>2. (r + 1) * u = (r + 1) * v + (r + 1) + (r + 1) * d
  BY <1>1
<1>3. (r + 1) * d \in Nat /\ (r + 1) * v \in Nat
  OBVIOUS
<1> QED  BY <1>2, <1>3

(* k: what has been sent or is to be sent.                                  *)
LEMMA MayOrder ==
  ASSUME NEW h \in Host, NEW s, NEW c, NEW t, NEW d, HostCounts(h, s, c), HostCounts(h, t, d),
         NEW k \in Int,
         \/ Unsent(h, t, d) = Unsent(h, s, c) /\ Extra(t) + k <= Extra(s)
         \/ /\ Unsent(h, t, d) + 1 <= Unsent(h, s, c) /\ k <= 4
            /\ Extra(t) <= Extra(s) + 4 * Retries
  PROVE  MaySendYet(h, t, d) + k <= MaySendYet(h, s, c)
<1> DEFINE u == Unsent(h, s, c)
           v == Unsent(h, t, d)
           x == Extra(s)
           y == Extra(t)
           r == 4 * Retries + 3
<1>1. u \in Nat /\ v \in Nat
  BY UnsentIsNat
<1>2. x \in Nat /\ y \in Nat /\ Retries \in Nat
  BY ExtraFacts DEF HostCounts
<1>3. MaySendYet(h, s, c) = (r + 1) * u + x /\ MaySendYet(h, t, d) = (r + 1) * v + y
  <2>1. /\ MaySendYet(h, s, c) = 4 * (Retries + 1) * u + x
        /\ MaySendYet(h, t, d) = 4 * (Retries + 1) * v + y
    BY DEF MaySendYet
  <2>2. 4 * (Retries + 1) = r + 1
    BY <1>2
  <2> HIDE DEF u, v, x, y, r
  <2> QED  BY <2>1, <2>2
<1>7. r \in Nat
  BY <1>2
<1>4. (r + 1) * u \in Nat /\ (r + 1) * v \in Nat
  <2> HIDE DEF u, v, r
  <2> QED  BY <1>1, <1>7
<1> DEFINE p == (r + 1) * u
           q == (r + 1) * v
<1>8. /\ MaySendYet(h, s, c) = p + x /\ MaySendYet(h, t, d) = q + y
      /\ p \in Nat /\ q \in Nat
  BY <1>3, <1>4
<1>5. CASE v = u /\ y + k <= x
  <2> HIDE DEF u, v, x, y, r
  <2>1. p = q
    BY <1>5
  <2> HIDE DEF p, q
  <2> QED  BY <1>2, <1>5, <1>8, <2>1
<1>6. CASE v + 1 <= u /\ k <= 4 /\ y <= x + 4 * Retries
  <2>1. q + (r + 1) <= p
    <3> HIDE DEF u, v, r
    <3> QED  BY <1>1, <1>6, <1>7, Products
  <2>2. q + (4 * Retries + 4) <= p
    <3> HIDE DEF p, q
    <3> QED  BY <1>2, <1>8, <2>1
  <2> HIDE DEF u, v, x, y, p, q
  <2> QED  BY <1>2, <1>6, <1>8, <2>2
<1> QED  BY <1>5, <1>6

-----------------------------------------------------------------------------
(* One handler of host h, with s, c and n as they are so far *)

CountsInv == /\ StreamInv /\ NetCounts(net)
             /\ \A h \in Host : HostCounts(h, state[h], conn[h])

(* k more was paid than what was sent costs.                                *)
Spare(h, s, c, n, k) ==
  /\ HostCounts(h, s, c) /\ NetCounts(n) /\ k \in Int
  /\ UnderWay(n) + MaySendYet(h, s, c) + k <= UnderWay(net) + MaySendYet(h, state[h], conn[h])

(* What was sent, if anything, has cost more than it is worth.              *)
Balanced(h, s, c, n) == Spare(h, s, c, n, 1) \/ (n = net /\ Spare(h, s, c, n, 0))

(* A step that keeps the counts and, if it sends or receives anything,      *)
(* makes the traffic less.                                                  *)
Shrinks == CountsInv' /\ Traffic' <= Traffic /\ (net' = net \/ Traffic' < Traffic)

(* Traffic in terms of one host and its peer.                               *)
LEMMA TrafficIs ==
  ASSUME CountsInv, NEW h \in Host, NEW p, p = Peer(h)
  PROVE  Traffic = UnderWay(net) + MaySendYet(h, state[h], conn[h]) + MaySendYet(p, state[p], conn[p])
<1>1. \A x \in Host : MaySendYet(x, state[x], conn[x]) \in Nat
  BY UnsentIsNat DEF CountsInv
<1>2. UnderWay(net) \in Nat
  BY UnderWayFacts DEF CountsInv
<1>3. Client \in Host /\ Server \in Host
  BY DEF Host
<1>4. Traffic = UnderWay(net) + MaySendYet(Client, state[Client], conn[Client])
                              + MaySendYet(Server, state[Server], conn[Server])
  BY DEF Traffic
<1>5. (h = Client /\ p = Server) \/ (h = Server /\ p = Client)
  BY HostAssumption DEF Host, Peer
<1>6. CASE h = Client /\ p = Server
  BY <1>1, <1>3, <1>4, <1>6
<1>7. CASE h = Server /\ p = Client
  <2> DEFINE x == MaySendYet(h, state[h], conn[h])
             y == MaySendYet(p, state[p], conn[p])
  <2>1. x \in Nat /\ y \in Nat /\ Traffic = UnderWay(net) + y + x
    BY <1>1, <1>3, <1>4, <1>7
  <2> HIDE DEF x, y
  <2>2. Traffic = UnderWay(net) + x + y
    BY <1>2, <2>1
  <2> QED  BY <2>2 DEF x, y
<1> QED  BY <1>5, <1>6, <1>7

LEMMA CountsReturn ==
  ASSUME CountsInv, StreamInv', NEW h \in Host, NEW s, NEW c, NEW n, Return(h, s, c, n),
         HostCounts(h, s, c), NetCounts(n)
  PROVE  /\ CountsInv' /\ state'[h] = s /\ conn'[h] = c /\ net' = n
         /\ state'[Peer(h)] = state[Peer(h)] /\ conn'[Peer(h)] = conn[Peer(h)]
<1> DEFINE p == Peer(h)
<1>1. p \in Host /\ p # h /\ Host = {h, p}
  BY HostAssumption DEF Peer, Host
<1>2. state \in [Host -> CtcpState] /\ conn \in [Host -> Conn]
  BY DEF CountsInv, StreamInv, TypeOK
<1>3. /\ state'[h] = s /\ conn'[h] = c /\ net' = n
      /\ state'[p] = state[p] /\ conn'[p] = conn[p]
  BY <1>1, <1>2 DEF Return
<1> HIDE DEF p
<1>4. HostCounts(p, state[p], conn[p])
  BY <1>1 DEF CountsInv
<1>5. CountsInv'
  BY <1>1, <1>3, <1>4 DEF CountsInv
<1> QED  BY <1>3, <1>5 DEF p

LEMMA BalancedReturn ==
  ASSUME CountsInv, StreamInv', NEW h \in Host, NEW s, NEW c, NEW n, Return(h, s, c, n),
         Balanced(h, s, c, n)
  PROVE  Shrinks
<1> DEFINE p == Peer(h)
           x == MaySendYet(h, state[h], conn[h])
           y == MaySendYet(p, state[p], conn[p])
           z == MaySendYet(h, s, c)
<1>1. p \in Host
  BY PeerFacts
<1>0. HostCounts(h, s, c) /\ NetCounts(n)
  BY DEF Balanced, Spare
<1>2. /\ CountsInv' /\ state'[h] = s /\ conn'[h] = c /\ net' = n
      /\ state'[p] = state[p] /\ conn'[p] = conn[p]
  BY <1>0, CountsReturn
<1>3. x \in Nat /\ y \in Nat /\ z \in Nat
  BY <1>0, <1>1, UnsentIsNat DEF CountsInv
<1>4. UnderWay(net) \in Nat /\ UnderWay(n) \in Nat
  BY <1>0, UnderWayFacts DEF CountsInv
<1>5. Traffic = UnderWay(net) + x + y
  BY TrafficIs
<1>6. Traffic' = UnderWay(n) + z + y
  <2>1. (h = Client /\ p = Server) \/ (h = Server /\ p = Client)
    BY HostAssumption DEF Host, Peer
  <2>2. /\ h = Client /\ p = Server => Traffic' = UnderWay(n) + z + y
        /\ h = Server /\ p = Client => Traffic' = UnderWay(n) + y + z
    BY <1>2 DEF Traffic
  <2> HIDE DEF p, x, y, z
  <2>3. UnderWay(n) + y + z = UnderWay(n) + z + y
    BY <1>3, <1>4
  <2> QED  BY <2>1, <2>2, <2>3
<1>7. \/ UnderWay(n) + z + 1 <= UnderWay(net) + x
      \/ n = net /\ UnderWay(n) + z + 0 <= UnderWay(net) + x
  BY DEF Balanced, Spare
<1> HIDE DEF x, y, z
<1>8. Traffic' <= Traffic /\ (n = net \/ Traffic' < Traffic)
  BY <1>3, <1>4, <1>5, <1>6, <1>7
<1> QED  BY <1>2, <1>8 DEF Shrinks

(* A network from which the segments of h's socket are gone has less to     *)
(* carry.                                                                   *)
LEMMA EmptiedCounts ==
  ASSUME NEW n, NetCounts(n), NEW h \in Host, NEW m, m = [n EXCEPT !.wire[h] = <<>>]
  PROVE  /\ NetCounts(m) /\ UnderWay(m) <= UnderWay(n)
         /\ m = n \/ UnderWay(m) + 1 <= UnderWay(n)
<1> DEFINE w == n.wire[h]
<1>1. <<>> \in Seq(Segment)
  OBVIOUS
<1>2. w \in Seq(Segment)
  BY DEF NetCounts, Net, Wires
<1>3. /\ Price(w) \in Nat /\ Price(<<>>) = 0 /\ (w # <<>> => Price(w) >= 1)
  <2>1. Len(w) \in Nat /\ (w # <<>> => Len(w) >= 1)
    BY <1>2
  <2>2. Price(w) \in Nat /\ Len(w) <= Price(w) /\ Price(<<>>) = 0
    BY <1>1, <1>2, PriceFacts
  <2> QED  BY <2>1, <2>2
<1>4. /\ NetCounts(m) /\ UnderWay(m) = UnderWay(n) - Price(w) + Price(<<>>)
      /\ w = <<>> => m = n
  <2>1. PICK q \in Seq(Segment) : q = <<>>
    BY <1>1
  <2>2. m = [n EXCEPT !.wire[h] = q]
    BY <2>1
  <2>3. /\ NetCounts(m) /\ UnderWay(m) = UnderWay(n) - Price(n.wire[h]) + Price(q)
        /\ q = n.wire[h] => m = n
    BY <2>2, WireCounts
  <2> QED  BY <2>1, <2>3
<1>5. UnderWay(n) \in Nat
  BY UnderWayFacts
<1> HIDE DEF w
<1> QED  BY <1>3, <1>4, <1>5

(* The status of the process counts for nothing.                            *)
LEMMA StatusCounts ==
  ASSUME NEW h \in Host, NEW s, NEW c, HostCounts(h, s, c), NEW status \in Status,
         NEW d, d = [c EXCEPT !.status = status]
  PROVE  HostCounts(h, s, d) /\ MaySendYet(h, s, d) = MaySendYet(h, s, c)
<1>1. d \in Conn /\ d.nread = c.nread /\ d.read_eof = c.read_eof
  BY DEF HostCounts, Conn
<1>2. HostCounts(h, s, d)
  BY <1>1 DEF HostCounts
<1>3. Unsent(h, s, d) = Unsent(h, s, c)
  BY <1>1 DEF Unsent
<1> QED  BY <1>2, <1>3 DEF MaySendYet

LEMMA GoneCounts ==
  ASSUME CountsInv, StreamInv', NEW h \in Host, NEW s, NEW c, NEW n, NEW status \in Status,
         HostCounts(h, s, c), NetCounts(n), Gone(h, s, c, n, status)
  PROVE  CountsInv' /\ (Balanced(h, s, c, n) => Shrinks)
<1> DEFINE d == [c EXCEPT !.status = status]
           m == [n EXCEPT !.wire[h] = <<>>]
<1>1. Return(h, s, d, m)
  BY DEF Gone
<1>2. HostCounts(h, s, d) /\ MaySendYet(h, s, d) = MaySendYet(h, s, c)
  BY StatusCounts
<1>3. /\ NetCounts(m) /\ UnderWay(m) <= UnderWay(n)
      /\ m = n \/ UnderWay(m) + 1 <= UnderWay(n)
  BY EmptiedCounts
<1> HIDE DEF d, m
<1>4. CountsInv'
  BY <1>1, <1>2, <1>3, CountsReturn
<1>5. ASSUME Balanced(h, s, c, n)  PROVE Shrinks
  <2> DEFINE x == MaySendYet(h, state[h], conn[h])
             y == MaySendYet(h, s, c)
  <2>1. x \in Nat /\ y \in Nat
    BY UnsentIsNat DEF CountsInv
  <2>2. UnderWay(net) \in Nat /\ UnderWay(n) \in Nat /\ UnderWay(m) \in Nat
    BY <1>3, UnderWayFacts DEF CountsInv
  <2>3. \/ UnderWay(n) + y + 1 <= UnderWay(net) + x
        \/ n = net /\ UnderWay(n) + y + 0 <= UnderWay(net) + x
    BY <1>5 DEF Balanced, Spare
  <2>4. MaySendYet(h, s, d) = y
    BY <1>2
  <2> HIDE DEF x, y
  <2>5. \/ UnderWay(m) + MaySendYet(h, s, d) + 1 <= UnderWay(net) + x
        \/ m = net /\ UnderWay(m) + MaySendYet(h, s, d) + 0 <= UnderWay(net) + x
    <3>1. CASE UnderWay(n) + y + 1 <= UnderWay(net) + x
      BY <1>3, <2>1, <2>2, <2>4, <3>1
    <3>2. CASE n = net /\ UnderWay(n) + y + 0 <= UnderWay(net) + x /\ m = n
      BY <2>4, <3>2
    <3>3. CASE UnderWay(n) + y + 0 <= UnderWay(net) + x /\ UnderWay(m) + 1 <= UnderWay(n)
      BY <2>1, <2>2, <2>4, <3>3
    <3> QED  BY <1>3, <2>3, <3>1, <3>2, <3>3
  <2>6. Balanced(h, s, d, m)
    BY <1>2, <1>3, <2>5 DEF Balanced, Spare, x
  <2> QED  BY <1>1, <2>6, BalancedReturn
<1> QED  BY <1>4, <1>5

LEMMA DestroyCounts ==
  ASSUME CountsInv, StreamInv', NEW h \in Host, NEW s, NEW c, NEW n,
         HostCounts(h, s, c), NetCounts(n), ctcp_destroy(h, s, c, n)
  PROVE  CountsInv' /\ (Balanced(h, s, c, n) => Shrinks)
<1>1. "exited" \in Status /\ "removed" \in Status
  BY DEF Status
<1>2. CASE h = Client
  BY <1>1, <1>2, GoneCounts DEF ctcp_destroy
<1>3. CASE h # Client
  <2> DEFINE d == [c EXCEPT !.status = "removed"]
  <2>1. Return(h, s, d, n)
    BY <1>3 DEF ctcp_destroy
  <2>2. HostCounts(h, s, d) /\ MaySendYet(h, s, d) = MaySendYet(h, s, c)
    BY <1>1, StatusCounts
  <2> HIDE DEF d
  <2>3. CountsInv'
    BY <2>1, <2>2, CountsReturn
  <2>4. Balanced(h, s, c, n) => Balanced(h, s, d, n)
    BY <2>2 DEF Balanced, Spare
  <2> QED  BY <2>1, <2>3, <2>4, BalancedReturn
<1> QED  BY <1>2, <1>3

(* _segment_send(): one segment more under way, of the given price, and a   *)
(* fresh set of retries for data and FINs only.                             *)
SentOne(h, s, n, o, price) ==
  /\ o.s \in CtcpState /\ NetCounts(o.n) /\ UnderWay(o.n) <= UnderWay(n) + price
  /\ o.s.conn_state = s.conn_state /\ o.s.received_segment = s.received_segment
  /\ Paced(s.sent_segment_attr) => Paced(o.s.sent_segment_attr)

LEMMA SegmentSendCounts ==
  ASSUME NEW n, NetCounts(n), NEW h \in Host, NEW s \in CtcpState,
         NEW flags \in Flags, NEW pos \in Nat, NEW len \in Nat,
         NEW o \in segment_send(h, s, n, flags, pos, len)
  PROVE  /\ SentOne(h, s, n, o, 3) /\ o.rc \in {0, -1}
         /\ len = 0 /\ "FIN" \notin flags => /\ SentOne(h, s, n, o, 1)
                                           /\ o.s.sent_segment_attr = s.sent_segment_attr
<1> DEFINE g == Built(s, flags, pos, len)
           sent == [s EXCEPT !.seqno = @ + IF "FIN" \in flags THEN 1 ELSE len]
           attr == [segment |-> g, time |-> 0, no_of_times |-> 0]
           kept == [sent EXCEPT !.sent_segment_attr = attr]
<1>0. n \in Net
  BY DEF NetCounts
<1>1. /\ o.s \in CtcpState /\ o.rc \in {0, -1} /\ o.s.conn_state = s.conn_state
      /\ o.s.received_segment = s.received_segment
  BY <1>0, SegmentSendFacts
<1>2. g \in Segment
  BY DEF Built, Segment, CtcpState
<1>3. PICK p \in conn_send(h, n, g) :
        o = [rc |-> p.rc, n |-> p.n,
             s |-> IF p.rc < 0 THEN s
                   ELSE IF len > 0 \/ "FIN" \in flags THEN kept ELSE sent]
  BY DEF segment_send, Built, save_sent_segment
<1>4. sent.sent_segment_attr = s.sent_segment_attr /\ kept.sent_segment_attr = attr
  BY DEF CtcpState
<1>5. Paced(attr)
  <2>1. attr.time = 0 /\ attr.no_of_times = 0
    OBVIOUS
  <2> HIDE DEF attr
  <2>2. 0 < Retries /\ 0 < RtTimeout + 0 * Timer /\ ~(0 > 0)
    BY TimerAssumption
  <2> QED  BY <2>1, <2>2 DEF Paced
<1>9. g.flags = flags /\ g.len = len
  BY DEF Built
<1> HIDE DEF g, sent, attr, kept
<1>6. o.n = p.n
  BY <1>3
<1>7. /\ NetCounts(o.n) /\ UnderWay(o.n) <= UnderWay(n) + 3
      /\ len = 0 /\ "FIN" \notin flags => UnderWay(o.n) <= UnderWay(n) + 1
  <2>1. NetCounts(o.n) /\ UnderWay(o.n) <= UnderWay(n) + PriceOf(g)
    BY <1>2, <1>6, ConnSendCounts
  <2>2. UnderWay(n) \in Nat /\ UnderWay(o.n) \in Nat
    BY <2>1, UnderWayFacts
  <2>3. PriceOf(g) \in {1, 3} /\ (len = 0 /\ "FIN" \notin flags => PriceOf(g) = 1)
    BY <1>9 DEF PriceOf, Asks
  <2> QED  BY <2>1, <2>2, <2>3
<1>8. /\ Paced(s.sent_segment_attr) => Paced(o.s.sent_segment_attr)
      /\ len = 0 /\ "FIN" \notin flags => o.s.sent_segment_attr = s.sent_segment_attr
  <2>1. \/ o.s.sent_segment_attr = s.sent_segment_attr
        \/ o.s.sent_segment_attr = attr /\ (len > 0 \/ "FIN" \in flags)
    BY <1>3, <1>4
  <2>2. len > 0 => len # 0
    OBVIOUS
  <2> QED  BY <1>5, <2>1, <2>2
<1> QED  BY <1>1, <1>7, <1>8 DEF SentOne

LEMMA SpareFacts ==
  ASSUME CountsInv, NEW h \in Host
  PROVE  /\ Spare(h, state[h], conn[h], net, 0)
         /\ \A s, c, n, k : Spare(h, s, c, n, k) /\ (k >= 1 \/ (k >= 0 /\ n = net))
                              => Balanced(h, s, c, n)
<1> DEFINE x == MaySendYet(h, state[h], conn[h])
<1>1. x \in Nat /\ HostCounts(h, state[h], conn[h])
  BY UnsentIsNat DEF CountsInv
<1>2. UnderWay(net) \in Nat /\ NetCounts(net)
  BY UnderWayFacts DEF CountsInv
<1>3. Spare(h, state[h], conn[h], net, 0)
  BY <1>1, <1>2 DEF Spare
<1>4. ASSUME NEW s, NEW c, NEW n, NEW k, Spare(h, s, c, n, k), NEW j \in Int, j <= k
      PROVE  Spare(h, s, c, n, j)
  <2> DEFINE y == MaySendYet(h, s, c)
  <2>1. y \in Nat /\ UnderWay(n) \in Nat /\ k \in Int
    BY <1>4, UnsentIsNat, UnderWayFacts DEF Spare
  <2>2. UnderWay(n) + y + k <= UnderWay(net) + x
    BY <1>4 DEF Spare
  <2> HIDE DEF x, y
  <2>3. UnderWay(n) + y + j <= UnderWay(net) + x
    BY <1>1, <1>2, <1>4, <2>1, <2>2
  <2> QED  BY <1>4, <2>3 DEF Spare, x, y
<1>5. ASSUME NEW s, NEW c, NEW n, NEW k, Spare(h, s, c, n, k), k >= 1 \/ (k >= 0 /\ n = net)
      PROVE  Balanced(h, s, c, n)
  <2>1. k \in Int
    BY <1>5 DEF Spare
  <2>2. k >= 1 => Spare(h, s, c, n, 1)
    BY <1>4, <1>5, <2>1
  <2>3. k >= 0 => Spare(h, s, c, n, 0)
    BY <1>4, <1>5, <2>1
  <2> QED  BY <1>5, <2>2, <2>3 DEF Balanced
<1> QED  BY <1>3, <1>5

(* i more is under way, and j less is still to come.                        *)
LEMMA SpareSend ==
  ASSUME CountsInv, NEW h \in Host, NEW s, NEW c, NEW n, NEW k, Spare(h, s, c, n, k),
         NEW t, NEW d, NEW m, HostCounts(h, t, d), NetCounts(m), NEW i \in Int, NEW j \in Int,
         UnderWay(m) <= UnderWay(n) + i, MaySendYet(h, t, d) + j <= MaySendYet(h, s, c)
  PROVE  Spare(h, t, d, m, k + j - i)
<1> DEFINE x == MaySendYet(h, state[h], conn[h])
           y == MaySendYet(h, s, c)
           z == MaySendYet(h, t, d)
<1>1. x \in Nat /\ y \in Nat /\ z \in Nat
  BY UnsentIsNat DEF CountsInv, Spare
<1>2. UnderWay(net) \in Nat /\ UnderWay(n) \in Nat /\ UnderWay(m) \in Nat /\ k \in Int
  BY UnderWayFacts DEF CountsInv, Spare
<1>3. UnderWay(n) + y + k <= UnderWay(net) + x /\ z + j <= y
  BY DEF Spare
<1> HIDE DEF x, y, z
<1>4. UnderWay(m) + z + (k + j - i) <= UnderWay(net) + x /\ k + j - i \in Int
  BY <1>1, <1>2, <1>3
<1> QED  BY <1>4 DEF Spare, x, z

(* The handler only forgets segments, or closes.                            *)
LighterState(s, t) ==
  /\ t \in CtcpState
  /\ t.sent_segment_attr = NULL \/ t.sent_segment_attr = s.sent_segment_attr
  /\ t.received_segment = NULL \/ t.received_segment = s.received_segment
  /\ t.conn_state = s.conn_state \/ t.conn_state # "DATA_TRANSFER"
SameInput(c, d) == d \in Conn /\ d.nread = c.nread /\ d.read_eof = c.read_eof

LEMMA Lighter ==
  ASSUME NEW h \in Host, NEW s, NEW c, NEW t, NEW d, HostCounts(h, s, c),
         LighterState(s, t), SameInput(c, d)
  PROVE  /\ HostCounts(h, t, d) /\ MaySendYet(h, t, d) + 0 <= MaySendYet(h, s, c)
         /\ Extra(t) <= Extra(s)
<1>1. HostCounts(h, t, d)
  BY DEF HostCounts, LighterState, SameInput, Paced
<1>2. Extra(t) <= Extra(s)
  <2> DEFINE a == RetriesLeft(s.sent_segment_attr)
             b == RetriesLeft(t.sent_segment_attr)
             v == Cardinality(Waiting(s))
             w == Cardinality(Waiting(t))
  <2>1. a \in 0..Retries /\ b \in 0..Retries /\ v \in 0..1 /\ w \in 0..1 /\ Retries \in Nat
    BY <1>1, ExtraFacts DEF HostCounts
  <2>2. b <= a
    <3>1. b = 0 \/ b = a
      BY DEF LighterState, RetriesLeft
    <3> HIDE DEF a, b
    <3> QED  BY <2>1, <3>1
  <2>3. w <= v
    <3>1. w = 0 \/ w = v
      BY WaitingCounts DEF LighterState
    <3> HIDE DEF v, w
    <3> QED  BY <2>1, <3>1
  <2>4. Extra(s) = 4 * a + 2 * v /\ Extra(t) = 4 * b + 2 * w
    BY DEF Extra
  <2> HIDE DEF a, b, v, w
  <2> QED  BY <2>1, <2>2, <2>3, <2>4
<1>3. Extra(s) \in Nat /\ Extra(t) \in Nat /\ Retries \in Nat
  BY <1>1, ExtraFacts DEF HostCounts
<1>4. Extra(t) + 0 <= Extra(s) /\ Extra(t) <= Extra(s) + 4 * Retries
  BY <1>2, <1>3
<1>5. Unsent(h, t, d) = Unsent(h, s, c) \/ Unsent(h, t, d) + 1 <= Unsent(h, s, c)
  <2> DEFINE a == (Input[h] - c.nread) + (IF Eof[h] = "once" /\ ~c.read_eof THEN 1 ELSE 0)
             p == IF s.conn_state = "DATA_TRANSFER" THEN 1 ELSE 0
             q == IF t.conn_state = "DATA_TRANSFER" THEN 1 ELSE 0
  <2>1. Unsent(h, s, c) = a + p /\ Unsent(h, t, d) = a + q
    BY DEF Unsent, SameInput
  <2>2. p \in 0..1 /\ q \in 0..1 /\ (q = p \/ (q = 0 /\ p = 1))
    BY DEF LighterState
  <2>3. a \in Int
    BY InputAssumption DEF HostCounts, Conn
  <2> HIDE DEF a, p, q
  <2> QED  BY <2>1, <2>2, <2>3
<1>6. MaySendYet(h, t, d) + 0 <= MaySendYet(h, s, c)
  BY <1>1, <1>4, <1>5, MayOrder
<1> QED  BY <1>1, <1>2, <1>6

(* send_ack(): one segment.                                                 *)
LEMMA AckCounts ==
  ASSUME CountsInv, NEW h \in Host, NEW s, NEW c, NEW n, NEW k, Spare(h, s, c, n, k),
         NEW o \in send_ack(h, s, n)
  PROVE  /\ Spare(h, o.s, c, o.n, k - 1) /\ NetCounts(o.n) /\ HostCounts(h, o.s, c)
         /\ UnderWay(o.n) <= UnderWay(n) + 1
         /\ o.s \in CtcpState /\ o.s.conn_state = s.conn_state
         /\ o.s.received_segment = s.received_segment
         /\ o.s.sent_segment_attr = s.sent_segment_attr
<1>1. {"ACK"} \in Flags /\ "FIN" \notin {"ACK"} /\ 0 \in Nat
  BY DEF Flags
<1>2. o \in segment_send(h, s, n, {"ACK"}, 0, 0)
  BY DEF send_ack
<1>3. s \in CtcpState /\ c \in Conn /\ NetCounts(n) /\ HostCounts(h, s, c) /\ k \in Int
  BY DEF Spare, HostCounts
<1>4. SentOne(h, s, n, o, 1) /\ o.s.sent_segment_attr = s.sent_segment_attr
  BY <1>1, <1>2, <1>3, SegmentSendCounts
<1>5. LighterState(s, o.s) /\ SameInput(c, c)
  BY <1>3, <1>4 DEF SentOne, LighterState, SameInput
<1>6. HostCounts(h, o.s, c) /\ MaySendYet(h, o.s, c) + 0 <= MaySendYet(h, s, c)
  BY <1>3, <1>5, Lighter
<1>7. Spare(h, o.s, c, o.n, k + 0 - 1)
  BY <1>4, <1>6, SpareSend DEF SentOne
<1>8. k + 0 - 1 = k - 1
  BY <1>3
<1> QED  BY <1>4, <1>6, <1>7, <1>8 DEF SentOne

(* Nothing counted changes, or less is left to send: the handler returns.   *)
LEMMA LighterReturn ==
  ASSUME CountsInv, StreamInv', NEW h \in Host, NEW s, NEW c, NEW n, NEW k,
         Spare(h, s, c, n, k), k >= 1 \/ (k >= 0 /\ n = net),
         NEW t, NEW d, LighterState(s, t), SameInput(c, d), Return(h, t, d, n)
  PROVE  Shrinks
<1>1. HostCounts(h, s, c) /\ NetCounts(n) /\ UnderWay(n) \in Nat /\ k \in Int
  BY UnderWayFacts DEF Spare
<1>2. HostCounts(h, t, d) /\ MaySendYet(h, t, d) + 0 <= MaySendYet(h, s, c)
  BY <1>1, Lighter
<1>3. UnderWay(n) <= UnderWay(n) + 0
  BY <1>1
<1>4. Spare(h, t, d, n, k + 0 - 0)
  BY <1>1, <1>2, <1>3, SpareSend
<1>5. k + 0 - 0 = k
  BY <1>1
<1>6. Balanced(h, t, d, n)
  BY <1>4, <1>5, SpareFacts
<1> QED  BY <1>6, BalancedReturn

(* ctcp_output(): the segment that is printed and acknowledged waits no     *)
(* longer.                                                                  *)
LEMMA OutputCounts ==
  ASSUME CountsInv, StreamInv', NEW h \in Host, NEW s, NEW c, NEW n, NEW k \in Nat,
         Spare(h, s, c, n, k), k >= 1 \/ n = net, s.received_segment # NULL, ctcp_output(h, s, c, n)
  PROVE  Shrinks
<1> DEFINE g == s.received_segment
           piece == DataOf(g)
           next == AfterData(g)
<1>1. /\ HostCounts(h, s, c) /\ NetCounts(n) /\ s \in CtcpState /\ c \in Conn
      /\ g \in Segment
  BY DEF Spare, HostCounts, CtcpState, MaybeSegment
<1>2. piece \in Piece /\ next \in Nat /\ SameInput(c, c)
  BY <1>1 DEF DataOf, Piece, AfterData, Segment, SameInput
<1>3. CASE OutputWaits(h, s, c, n)
  <2> DEFINE t == [s EXCEPT !.received_segment = NULL]
  <2>1. LighterState(s, s) /\ LighterState(s, t)
    BY <1>1 DEF LighterState, CtcpState, MaybeSegment
  <2>2. Return(h, s, c, n) \/ Return(h, t, c, n)
    BY <1>3 DEF OutputWaits
  <2> HIDE DEF t
  <2>3. k >= 1 \/ (k >= 0 /\ n = net)
    OBVIOUS
  <2> QED  BY <1>2, <2>1, <2>2, <2>3, LighterReturn
<1>4. CASE OutputData(h, s, c, n)
  <2>1. PICK w \in conn_output(c, piece) :
          \/ w.rc < 0 /\ ctcp_destroy(h, s, w.c, n)
          \/ /\ w.rc >= 0
             /\ \E o \in send_ack(h, [s EXCEPT !.ackno = next], n) :
                  Return(h, [destroy_acked_segment(o.s) EXCEPT
                               !.received_segment = NULL], w.c, o.n)
    BY <1>4 DEF OutputData
  <2>2. SameInput(c, w.c)
    BY <1>1, <1>2, ConnOutputFacts DEF SameInput
  <2> HIDE DEF piece, next
  <2> DEFINE u == [s EXCEPT !.ackno = next]
  <2>3. LighterState(s, s) /\ LighterState(s, u) /\ u.received_segment # NULL
    BY <1>1, <1>2 DEF LighterState, CtcpState
  <2>4. ASSUME NEW t, LighterState(s, t)
        PROVE  HostCounts(h, t, w.c) /\ Spare(h, t, w.c, n, k)
    <3>1. HostCounts(h, t, w.c) /\ MaySendYet(h, t, w.c) + 0 <= MaySendYet(h, s, c)
      BY <1>1, <2>2, <2>4, Lighter
    <3>2. UnderWay(n) <= UnderWay(n) + 0
      BY <1>1, UnderWayFacts
    <3>3. Spare(h, t, w.c, n, k + 0 - 0)
      BY <1>1, <3>1, <3>2, SpareSend
    <3>4. k + 0 - 0 = k
      OBVIOUS
    <3> QED  BY <3>1, <3>3, <3>4
  <2>5. CASE ctcp_destroy(h, s, w.c, n)
    <3>1. HostCounts(h, s, w.c) /\ Spare(h, s, w.c, n, k)
      BY <2>3, <2>4
    <3>2. Balanced(h, s, w.c, n)
      BY <3>1, SpareFacts
    <3> QED  BY <1>1, <2>5, <3>1, <3>2, DestroyCounts
  <2>6. ASSUME NEW o \in send_ack(h, u, n),
               Return(h, [destroy_acked_segment(o.s) EXCEPT !.received_segment = NULL], w.c, o.n)
        PROVE  Shrinks
    <3>1. Spare(h, u, w.c, n, k)
      BY <2>3, <2>4
    <3> HIDE DEF u
    <3>2. /\ NetCounts(o.n) /\ HostCounts(h, o.s, w.c) /\ UnderWay(o.n) <= UnderWay(n) + 1
          /\ o.s \in CtcpState /\ o.s.conn_state = u.conn_state
          /\ o.s.received_segment = u.received_segment
      BY <2>6, <3>1, AckCounts
    <3> DEFINE t == [destroy_acked_segment(o.s) EXCEPT !.received_segment = NULL]
    <3>3. /\ t \in CtcpState /\ t.conn_state = u.conn_state
          /\ t.received_segment = NULL /\ t.sent_segment_attr = NULL
      BY <3>2 DEF CtcpState, destroy_acked_segment, MaybeSegment, MaybeAttr
    <3>4. Return(h, t, w.c, o.n)
      BY <2>6
    <3> HIDE DEF t
    <3>5. HostCounts(h, t, w.c)
      BY <3>2, <3>3 DEF HostCounts, Paced
    <3>6. Unsent(h, t, w.c) = Unsent(h, u, w.c)
      BY <3>3 DEF Unsent
    <3>7. Extra(t) + 2 <= Extra(u)
      <4>1. Extra(t) = 0
        BY <3>3, WaitingCounts DEF Extra, RetriesLeft
      <4>2. Cardinality(Waiting(u)) = 1 /\ RetriesLeft(u.sent_segment_attr) \in 0..Retries
        BY <2>3, <3>1, WaitingCounts, ExtraFacts DEF Spare, HostCounts
      <4> DEFINE a == RetriesLeft(u.sent_segment_attr)
      <4>3. Extra(u) = 4 * a + 2 /\ a \in Nat
        BY <4>2, TimerAssumption DEF Extra
      <4> HIDE DEF a
      <4> QED  BY <4>1, <4>3
    <3>8. HostCounts(h, u, w.c)
      BY <3>1 DEF Spare
    <3>9. MaySendYet(h, t, w.c) + 2 <= MaySendYet(h, u, w.c)
      BY <3>5, <3>6, <3>7, <3>8, MayOrder
    <3>10. Spare(h, t, w.c, o.n, k + 2 - 1)
      BY <3>1, <3>2, <3>5, <3>9, SpareSend
    <3>11. k + 2 - 1 >= 1
      OBVIOUS
    <3>12. Balanced(h, t, w.c, o.n)
      BY <3>10, <3>11, SpareFacts
    <3> QED  BY <3>4, <3>12, BalancedReturn
  <2> QED  BY <2>1, <2>5, <2>6
<1> QED  BY <1>3, <1>4 DEF ctcp_output

-----------------------------------------------------------------------------
(* One lemma per action *)

(* A data segment or a FIN sent first is paid for by what was not sent yet. *)
LEMMA NewSendCounts ==
  ASSUME CountsInv, StreamInv', NEW h \in Host, NEW s, NEW c, NEW n, NEW k \in Nat,
         Spare(h, s, c, n, k), NEW o, SentOne(h, s, n, o, 3), NEW t, NEW d, HostCounts(h, t, d),
         t.sent_segment_attr = o.s.sent_segment_attr,
         t.received_segment = s.received_segment,
         Unsent(h, t, d) + 1 <= Unsent(h, s, c), Return(h, t, d, o.n)
  PROVE  Shrinks
<1>1. /\ HostCounts(h, s, c) /\ s \in CtcpState /\ t \in CtcpState
      /\ Paced(s.sent_segment_attr) /\ Paced(t.sent_segment_attr)
  BY DEF Spare, HostCounts
<1>2. Extra(t) <= Extra(s) + 4 * Retries
  BY <1>1, ExtraBound
<1>3. MaySendYet(h, t, d) + 4 <= MaySendYet(h, s, c)
  <2>1. 4 \in Int /\ 4 <= 4
    OBVIOUS
  <2> QED  BY <1>1, <1>2, <2>1, MayOrder
<1>4. Spare(h, t, d, o.n, k + 4 - 3)
  <2>1. 3 \in Int /\ 4 \in Int
    OBVIOUS
  <2> QED  BY <1>3, <2>1, SpareSend DEF SentOne
<1>5. k + 4 - 3 >= 1
  OBVIOUS
<1>6. Balanced(h, t, d, o.n)
  BY <1>4, <1>5, SpareFacts
<1> QED  BY <1>6, BalancedReturn

(* ctcp_read() of data.                                                     *)
LEMMA ReadDataCounts ==
  ASSUME CountsInv, StreamInv', NEW h \in Host, ReadData(h)
  PROVE  Shrinks
<1>1. PICK i \in conn_input(h) :
        /\ i.rc >= 0
        /\ \E o \in segment_send(h, state[h], net, {"ACK"}, conn[h].nread + 1, i.rc) :
             Return(h, o.s, i.c, o.n)
  BY DEF ReadData
<1>2. PICK o \in segment_send(h, state[h], net, {"ACK"}, conn[h].nread + 1, i.rc) :
        Return(h, o.s, i.c, o.n)
  BY <1>1
<1>3. /\ HostCounts(h, state[h], conn[h]) /\ state[h] \in CtcpState /\ conn[h] \in Conn
      /\ NetCounts(net) /\ conn[h].nread \in Nat /\ conn[h].nread + 1 \in Nat
      /\ Input[h] \in Nat /\ MSS \in Nat
  BY InputAssumption, SizeAssumption DEF CountsInv, HostCounts, Conn
<1>4. PICK len \in Nat :
        /\ i = [rc |-> len, c |-> [conn[h] EXCEPT !.nread = @ + len]]
        /\ len >= 1 /\ len <= Input[h] - conn[h].nread /\ ~conn[h].read_eof
  <2>1. conn[h].nread < Input[h] /\ ~conn[h].read_eof
    BY <1>1 DEF conn_input
  <2>2. PICK len \in 1..(IF MSS < Input[h] - conn[h].nread
                         THEN MSS ELSE Input[h] - conn[h].nread) :
          i = [rc |-> len, c |-> [conn[h] EXCEPT !.nread = @ + len]]
    BY <1>1, <2>1 DEF conn_input
  <2>3. len \in Nat /\ len >= 1 /\ len <= Input[h] - conn[h].nread
    BY <1>3
  <2> QED  BY <2>1, <2>2, <2>3
<1> DEFINE d == [conn[h] EXCEPT !.nread = @ + len]
<1>5. /\ i.c = d /\ i.rc = len /\ d \in Conn
      /\ d.nread = conn[h].nread + len /\ d.read_eof = conn[h].read_eof
  BY <1>3, <1>4 DEF Conn
<1> HIDE DEF d
<1>6. {"ACK"} \in Flags
  BY DEF Flags
<1>7. SentOne(h, state[h], net, o, 3)
  BY <1>2, <1>3, <1>5, <1>6, SegmentSendCounts
<1>8. HostCounts(h, o.s, d)
  <2>1. d.nread <= Input[h]
    BY <1>3, <1>4, <1>5
  <2> QED  BY <1>3, <1>4, <1>5, <1>7, <2>1 DEF HostCounts, SentOne
<1>9. Unsent(h, o.s, d) + 1 <= Unsent(h, state[h], conn[h])
  <2> DEFINE e == IF Eof[h] = "once" /\ ~conn[h].read_eof THEN 1 ELSE 0
             b == IF state[h].conn_state = "DATA_TRANSFER" THEN 1 ELSE 0
  <2>1. /\ Unsent(h, o.s, d) = (Input[h] - (conn[h].nread + len)) + e + b
        /\ Unsent(h, state[h], conn[h]) = (Input[h] - conn[h].nread) + e + b
    BY <1>5, <1>7 DEF Unsent, SentOne
  <2>2. e \in Nat /\ b \in Nat
    OBVIOUS
  <2> HIDE DEF e, b
  <2> QED  BY <1>3, <1>4, <2>1, <2>2
<1>10. Spare(h, state[h], conn[h], net, 0) /\ 0 \in Nat /\ o.s.received_segment = state[h].received_segment
  BY <1>7, SpareFacts DEF SentOne
<1>11. Return(h, o.s, d, o.n)
  BY <1>2, <1>5
<1> QED  BY <1>7, <1>8, <1>9, <1>10, <1>11, NewSendCounts

(* ctcp_read() of the end of file, which comes once unless it is sticky.    *)
LEMMA ReadEofCounts ==
  ASSUME CountsInv, StreamInv', NEW h \in Host, ReadEof(h)
  PROVE  CountsInv' /\ (Eof[h] # "sticky" => Shrinks)
<1>1. PICK i \in conn_input(h) :
        /\ i.rc < 0
        /\ \E o \in send_fin(h, state[h], net) :
             Return(h, IF o.rc < 0 THEN o.s
                       ELSE [o.s EXCEPT !.conn_state = "TEAR_DOWN"], i.c, o.n)
  BY DEF ReadEof
<1>2. PICK o \in send_fin(h, state[h], net) :
        Return(h, IF o.rc < 0 THEN o.s
                  ELSE [o.s EXCEPT !.conn_state = "TEAR_DOWN"], i.c, o.n)
  BY <1>1
<1>3. /\ HostCounts(h, state[h], conn[h]) /\ state[h] \in CtcpState /\ conn[h] \in Conn
      /\ NetCounts(net) /\ conn[h].nread \in Nat /\ conn[h].nread <= Input[h]
      /\ Input[h] \in Nat /\ MSS \in Nat /\ (conn[h].read_eof => conn[h].nread = Input[h])
  BY InputAssumption, SizeAssumption DEF CountsInv, HostCounts, Conn
<1> DEFINE d == [conn[h] EXCEPT !.read_eof = TRUE]
<1>4. /\ ~(conn[h].nread < Input[h] /\ ~conn[h].read_eof)
      /\ i = [rc |-> -1, c |-> d]
  <2>1. ASSUME conn[h].nread < Input[h], ~conn[h].read_eof  PROVE FALSE
    <3>1. PICK len \in 1..(IF MSS < Input[h] - conn[h].nread
                           THEN MSS ELSE Input[h] - conn[h].nread) :
            i = [rc |-> len, c |-> [conn[h] EXCEPT !.nread = @ + len]]
      BY <2>1 DEF conn_input
    <3>2. len \in Int /\ len >= 1
      BY <1>3
    <3>3. i.rc = len
      BY <3>1
    <3> QED  BY <1>1, <3>2, <3>3
  <2> QED  BY <2>1 DEF conn_input
<1>5. conn[h].nread = Input[h]
  BY <1>3, <1>4
<1>7. i.c = d /\ d \in Conn /\ d.nread = conn[h].nread /\ d.read_eof
  BY <1>3, <1>4 DEF Conn
<1> HIDE DEF d
<1>8. SentOne(h, state[h], net, o, 3)
  <2>1. {"FIN"} \in Flags /\ 0 \in Nat
    BY DEF Flags
  <2>2. o \in segment_send(h, state[h], net, {"FIN"}, 0, 0)
    BY DEF send_fin
  <2> QED  BY <1>3, <2>1, <2>2, SegmentSendCounts
<1> DEFINE t == IF o.rc < 0 THEN o.s ELSE [o.s EXCEPT !.conn_state = "TEAR_DOWN"]
<1>9. /\ t \in CtcpState /\ t.sent_segment_attr = o.s.sent_segment_attr
      /\ t.received_segment = state[h].received_segment
      /\ t.conn_state = state[h].conn_state \/ t.conn_state = "TEAR_DOWN"
  BY <1>8 DEF SentOne, CtcpState, ConnState
<1>10. Return(h, t, d, o.n)
  BY <1>2, <1>7
<1> HIDE DEF t
<1>11. HostCounts(h, t, d)
  BY <1>3, <1>5, <1>7, <1>8, <1>9 DEF HostCounts, SentOne
<1>12. CountsInv'
  BY <1>8, <1>10, <1>11, CountsReturn DEF SentOne
<1>13. ASSUME Eof[h] # "sticky"  PROVE Shrinks
  <2>1. Eof[h] = "once" /\ ~conn[h].read_eof
    <3>1. StdinReady(h)
      BY DEF ReadEof, MayRead
    <3>2. ~(conn[h].nread < Input[h])
      BY <1>3, <1>5
    <3> QED  BY <1>13, <3>1, <3>2 DEF StdinReady
  <2>2. Unsent(h, t, d) + 1 <= Unsent(h, state[h], conn[h])
    <3> DEFINE a == IF state[h].conn_state = "DATA_TRANSFER" THEN 1 ELSE 0
               b == IF t.conn_state = "DATA_TRANSFER" THEN 1 ELSE 0
               x == Input[h] - conn[h].nread
    <3>1. /\ Unsent(h, t, d) = x + 0 + b
          /\ Unsent(h, state[h], conn[h]) = x + 1 + a
      BY <1>7, <2>1 DEF Unsent
    <3>2. a \in Nat /\ b \in Nat /\ b <= a /\ x \in Int
      BY <1>3, <1>9
    <3> HIDE DEF a, b, x
    <3> QED  BY <3>1, <3>2
  <2>3. Spare(h, state[h], conn[h], net, 0) /\ 0 \in Nat
    BY SpareFacts
  <2> QED  BY <1>8, <1>9, <1>10, <1>11, <2>2, <2>3, NewSendCounts
<1> QED  BY <1>12, <1>13

(* The oldest segment leaves the socket.                                    *)
LEMMA ShorterCounts ==
  ASSUME NEW n, NetCounts(n), NEW x \in Host, n.wire[x] # <<>>,
         NEW q, q = Tail(n.wire[x]), NEW m, m = [n EXCEPT !.wire[x] = q],
         NEW g, g = Head(n.wire[x])
  PROVE  NetCounts(m) /\ UnderWay(m) + PriceOf(g) <= UnderWay(n) /\ g \in Segment
<1>1. n.wire[x] \in Seq(Segment)
  BY DEF NetCounts, Net, Wires
<1>2. q \in Seq(Segment) /\ g \in Segment
  BY <1>1
<1>3. /\ Price(q) + PriceOf(g) <= Price(n.wire[x]) /\ Price(q) \in Nat
      /\ Price(n.wire[x]) \in Nat /\ PriceOf(g) \in Nat
  BY <1>1, <1>2, PriceTail, PriceFacts DEF PriceOf
<1>4. UnderWay(n) \in Nat
  BY UnderWayFacts
<1>5. NetCounts(m) /\ UnderWay(m) = UnderWay(n) - Price(n.wire[x]) + Price(q)
  <2>1. PICK r \in Seq(Segment) : r = q
    BY <1>2
  <2>2. m = [n EXCEPT !.wire[x] = r]
    BY <2>1
  <2>3. NetCounts(m) /\ UnderWay(m) = UnderWay(n) - Price(n.wire[x]) + Price(r)
    BY <2>2, WireCounts
  <2> QED  BY <2>1, <2>3
<1>6. UnderWay(m) + PriceOf(g) <= UnderWay(n)
  BY <1>3, <1>4, <1>5
<1> QED  BY <1>2, <1>5, <1>6

(* What has left the socket pays, if it may be answered, for the answer.    *)
LEMMA TakenCounts ==
  ASSUME CountsInv, NEW h \in Host, net.wire[h] # <<>>,
         NEW n, n = [net EXCEPT !.wire[h] = Tail(@)], NEW g, g = Head(net.wire[h])
  PROVE  /\ g \in Segment /\ Spare(h, state[h], conn[h], n, 1)
         /\ Asks(g) => Spare(h, state[h], conn[h], n, 3)
<1> DEFINE x == MaySendYet(h, state[h], conn[h])
<1>1. NetCounts(net) /\ HostCounts(h, state[h], conn[h])
  BY DEF CountsInv
<1>2. n = [net EXCEPT !.wire[h] = Tail(net.wire[h])]
  OBVIOUS
<1>3. NetCounts(n) /\ UnderWay(n) + PriceOf(g) <= UnderWay(net) /\ g \in Segment
  BY <1>1, <1>2, ShorterCounts
<1>4. UnderWay(net) \in Nat /\ UnderWay(n) \in Nat /\ x \in Nat
  BY <1>1, <1>3, UnderWayFacts, UnsentIsNat
<1>5. PriceOf(g) >= 1 /\ PriceOf(g) \in Nat /\ (Asks(g) => PriceOf(g) = 3)
  BY DEF PriceOf
<1> HIDE DEF x
<1>6. UnderWay(n) + x + 1 <= UnderWay(net) + x
  BY <1>3, <1>4, <1>5
<1>7. Asks(g) => UnderWay(n) + x + 3 <= UnderWay(net) + x
  BY <1>3, <1>4, <1>5
<1> QED  BY <1>1, <1>3, <1>6, <1>7 DEF Spare, x

LEMMA DiscardCounts ==
  ASSUME CountsInv, StreamInv', NEW h \in Host, Discard(h)
  PROVE  Shrinks
<1> DEFINE n == [net EXCEPT !.wire[h] = Tail(@)]
<1>1. net.wire[h] # <<>> /\ Return(h, state[h], conn[h], n)
  BY DEF Discard
<1>2. Spare(h, state[h], conn[h], n, 1)
  BY <1>1, TakenCounts
<1> HIDE DEF n
<1>3. Balanced(h, state[h], conn[h], n)
  BY <1>2, SpareFacts
<1> QED  BY <1>1, <1>3, BalancedReturn

(* A forked sender was counted already.                                     *)
LEMMA ForkedSendCounts ==
  ASSUME CountsInv, StreamInv', NEW f \in net.forked, ForkedSend(f)
  PROVE  Shrinks
<1>1. net \in Net /\ NetCounts(net) /\ f.to \in Host /\ f.segment \in Segment
  BY DEF CountsInv, NetCounts, Net, Forks, ForkedSender
<1> DEFINE m == [net EXCEPT !.forked = @ \ {f}]
<1>2. m.wire = net.wire /\ m.forked = net.forked \ {f} /\ m.faults = net.faults
  BY <1>1 DEF Net
<1>3. m \in Net
  <2>1. net.forked \ {f} \in Forks
    BY <1>1 DEF Net, Forks
  <2> QED  BY <1>1, <2>1 DEF Net
<1>4. /\ net' = send_pkt(f.to, m, f.segment).n /\ state' = state /\ conn' = conn
  BY DEF ForkedSend
<1> HIDE DEF m
<1>5. /\ IsFiniteSet(net.forked \ {f})
      /\ Cardinality(net.forked \ {f}) = Cardinality(net.forked) - 1
      /\ Cardinality(net.forked) \in Nat
  BY <1>1, OneLess DEF NetCounts
<1>6. NetCounts(m)
  BY <1>1, <1>2, <1>3, <1>5 DEF NetCounts
<1>7. UnderWay(m) + 4 = UnderWay(net)
  <2> DEFINE a == Price(net.wire[Client])
             b == Price(net.wire[Server])
             c == Cardinality(net.forked)
             j == Cardinality(m.forked)
             k == net.faults
  <2>1. /\ UnderWay(net) = a + b + 4 * c + 4 * (MaxFaults - k)
        /\ UnderWay(m) = a + b + 4 * j + 4 * (MaxFaults - k)
    BY <1>2 DEF UnderWay
  <2>2. j = c - 1
    BY <1>2, <1>5
  <2>3. a \in Nat /\ b \in Nat /\ c \in Nat /\ k \in Nat /\ MaxFaults \in Nat
    BY <1>1, UnderWayFacts
  <2> HIDE DEF a, b, c, j, k
  <2> QED  BY <2>1, <2>2, <2>3
<1> DEFINE n == send_pkt(f.to, m, f.segment).n
           h == f.to
           x == MaySendYet(h, state[h], conn[h])
<1>8. NetCounts(n) /\ UnderWay(n) <= UnderWay(m) + PriceOf(f.segment)
  BY <1>1, <1>6, SendPktCounts
<1>13. PriceOf(f.segment) \in {1, 3}
  BY DEF PriceOf
<1> HIDE DEF n
<1>9. /\ UnderWay(n) \in Nat /\ UnderWay(m) \in Nat /\ UnderWay(net) \in Nat /\ x \in Nat
      /\ HostCounts(h, state[h], conn[h])
  BY <1>1, <1>6, <1>8, UnderWayFacts, UnsentIsNat DEF CountsInv
<1> HIDE DEF x
<1>10. UnderWay(n) + x + 1 <= UnderWay(net) + x
  BY <1>7, <1>8, <1>9, <1>13
<1>11. Balanced(h, state[h], conn[h], n)
  BY <1>8, <1>9, <1>10 DEF Balanced, Spare, x
<1>12. Return(h, state[h], conn[h], n)
  <2>1. state \in [Host -> CtcpState] /\ conn \in [Host -> Conn]
    BY DEF CountsInv, StreamInv, TypeOK
  <2>2. state = [state EXCEPT ![h] = state[h]] /\ conn = [conn EXCEPT ![h] = conn[h]]
    BY <2>1
  <2> QED  BY <1>4, <2>2 DEF Return, n
<1> QED  BY <1>1, <1>11, <1>12, BalancedReturn

(* ctcp_timer(): each transmission costs a retry.                           *)
LEMMA TimerCounts ==
  ASSUME CountsInv, StreamInv', NEW h \in Host, ctcp_timer(h)
  PROVE  Shrinks
<1>1. /\ HostCounts(h, state[h], conn[h]) /\ NetCounts(net) /\ state[h] \in CtcpState
      /\ conn[h] \in Conn /\ Paced(state[h].sent_segment_attr) /\ SameInput(conn[h], conn[h])
      /\ state[h].tim \in Uint16
  BY DEF CountsInv, HostCounts, SameInput, CtcpState
<1>2. Spare(h, state[h], conn[h], net, 0) /\ Balanced(h, state[h], conn[h], net)
  BY SpareFacts
<1>3. CASE TimerDestroys(h)
  <2>1. {"exited", "crashed"} \subseteq Status
    BY DEF Status
  <2> QED  BY <1>1, <1>2, <1>3, <2>1, GoneCounts DEF TimerDestroys
<1>4. CASE TimerTicks(h)
  <2> DEFINE s == [state[h] EXCEPT !.tim = tim_advance(state[h])]
             old == state[h].sent_segment_attr
             attr == [old EXCEPT !.time = @ + Timer]
             more == [attr EXCEPT !.no_of_times = @ + 1]
  <2>1. tim_advance(state[h]) \in Uint16
    BY <1>1, TimIsUint16, SMT DEF tim_advance
  <2>2. /\ s \in CtcpState /\ s.conn_state = state[h].conn_state
        /\ s.received_segment = state[h].received_segment /\ s.sent_segment_attr = old
    BY <1>1, <2>1 DEF CtcpState
  <2>3. \/ Return(h, s, conn[h], net)
        \/ /\ s.sent_segment_attr # NULL /\ attr.time < RtTimeout
           /\ Return(h, [s EXCEPT !.sent_segment_attr = attr], conn[h], net)
        \/ /\ s.sent_segment_attr # NULL /\ attr.time >= RtTimeout
           /\ Retransmit(h, s, attr)
    BY <1>4, <2>2 DEF TimerTicks, Aged
  <2> HIDE DEF s
  <2>4. CASE Return(h, s, conn[h], net)
    <3>1. LighterState(state[h], s)
      BY <2>2 DEF LighterState
    <3> QED  BY <1>1, <1>2, <2>4, <3>1, LighterReturn
  <2>5. ASSUME s.sent_segment_attr # NULL
        PROVE  /\ old \in SegmentAttr /\ old # NULL /\ attr \in SegmentAttr
               /\ attr.time = old.time + Timer /\ attr.no_of_times = old.no_of_times
               /\ attr.segment \in Segment
               /\ more \in SegmentAttr /\ more.time = attr.time
               /\ more.no_of_times = old.no_of_times + 1
               /\ old.time \in Nat /\ old.no_of_times \in Nat
               /\ old.no_of_times < Retries
               /\ old.time < RtTimeout + old.no_of_times * Timer
               /\ old.no_of_times > 0 => old.time >= RtTimeout + (old.no_of_times - 1) * Timer
    <3>1. old \in SegmentAttr /\ old # NULL
      BY <1>1, <2>2, <2>5 DEF CtcpState, MaybeAttr
    <3>2. /\ attr \in SegmentAttr /\ attr.time = old.time + Timer
          /\ attr.no_of_times = old.no_of_times
      BY <3>1, TimerAssumption DEF SegmentAttr
    <3>3. /\ more \in SegmentAttr /\ more.time = attr.time
          /\ more.no_of_times = attr.no_of_times + 1
      <4> HIDE DEF attr
      <4> QED  BY <3>2 DEF SegmentAttr
    <3>4. attr.segment \in Segment /\ old.time \in Nat /\ old.no_of_times \in Nat
      <4> HIDE DEF attr
      <4> QED  BY <3>1, <3>2 DEF SegmentAttr
    <3> HIDE DEF attr, more
    <3> QED  BY <1>1, <3>1, <3>2, <3>3, <3>4 DEF Paced
  <2> HIDE DEF attr, more, old
  <2>6. Timer \in Nat /\ Timer > 0 /\ RtTimeout \in Nat /\ Retries \in Nat
    BY TimerAssumption
  <2>7. ASSUME NEW a \in MaybeAttr, Paced(a), NEW n, NetCounts(n), NEW k \in 0..1,
               s.sent_segment_attr # NULL,
               UnderWay(n) <= UnderWay(net) + 3 * k, k = 0 => n = net,
               RetriesLeft(a) + k <= RetriesLeft(old),
               Return(h, [s EXCEPT !.sent_segment_attr = a], conn[h], n)
        PROVE  Shrinks
    <3> DEFINE t == [s EXCEPT !.sent_segment_attr = a]
    <3>1. /\ t \in CtcpState /\ t.conn_state = state[h].conn_state
          /\ t.received_segment = state[h].received_segment /\ t.sent_segment_attr = a
      BY <2>2 DEF CtcpState
    <3>2. Return(h, t, conn[h], n)
      BY <2>7
    <3> HIDE DEF t
    <3>3. HostCounts(h, t, conn[h])
      BY <1>1, <2>7, <3>1 DEF HostCounts
    <3>4. Unsent(h, t, conn[h]) = Unsent(h, state[h], conn[h])
      BY <3>1 DEF Unsent
    <3>5. Extra(t) + 4 * k <= Extra(state[h])
      <4> DEFINE x == RetriesLeft(a)
                 y == RetriesLeft(old)
                 w == Cardinality(Waiting(t))
      <4>1. Waiting(t) = Waiting(state[h])
        BY <3>1 DEF Waiting
      <4>2. Extra(t) = 4 * x + 2 * w /\ Extra(state[h]) = 4 * y + 2 * w
        BY <3>1, <4>1 DEF Extra, old
      <4>3. x \in 0..Retries /\ w \in 0..1 /\ y \in 0..Retries
        BY <1>1, <3>1, <3>3, ExtraFacts DEF HostCounts, old
      <4>4. x + k <= y
        BY <2>7
      <4> HIDE DEF x, y, w
      <4> QED  BY <2>6, <4>2, <4>3, <4>4
    <3>6. k \in Int /\ 3 * k \in Int /\ 4 * k \in Int
      OBVIOUS
    <3>7. MaySendYet(h, t, conn[h]) + 4 * k <= MaySendYet(h, state[h], conn[h])
      BY <1>1, <3>3, <3>4, <3>5, <3>6, MayOrder
    <3>8. Spare(h, t, conn[h], n, 0 + 4 * k - 3 * k)
      BY <1>2, <2>7, <3>3, <3>6, <3>7, SpareSend
    <3>9. /\ 0 + 4 * k - 3 * k = k
          /\ k >= 1 \/ (k >= 0 /\ n = net)
      BY <2>7
    <3>10. Balanced(h, t, conn[h], n)
      BY <3>8, <3>9, SpareFacts
    <3> QED  BY <3>2, <3>10, BalancedReturn
  <2>8. CASE /\ s.sent_segment_attr # NULL /\ attr.time < RtTimeout
             /\ Return(h, [s EXCEPT !.sent_segment_attr = attr], conn[h], net)
    <3>1. old.no_of_times = 0
      <4>1. ASSUME old.no_of_times > 0  PROVE FALSE
        <5>1. old.time >= RtTimeout + (old.no_of_times - 1) * Timer
          BY <2>5, <2>8, <4>1
        <5>2. (old.no_of_times - 1) * Timer \in Nat
          <6>1. \A u \in Nat, v \in Nat : u * v \in Nat
            OBVIOUS
          <6>2. old.no_of_times - 1 \in Nat
            BY <2>5, <2>8, <4>1
          <6> QED  BY <2>6, <6>1, <6>2
        <5> DEFINE p == (old.no_of_times - 1) * Timer
        <5>3. old.time >= RtTimeout + p /\ p \in Nat
          BY <5>1, <5>2
        <5>4. old.time + Timer < RtTimeout /\ old.time \in Nat
          BY <2>5, <2>8
        <5> HIDE DEF p
        <5> QED  BY <2>6, <5>3, <5>4
      <4> QED  BY <2>5, <2>8, <4>1
    <3>2. /\ attr.no_of_times = 0 /\ attr.time < RtTimeout + 0 * Timer /\ 0 < Retries
          /\ attr \in MaybeAttr /\ attr # NULL /\ ~(0 > 0)
      BY <2>5, <2>6, <2>8, <3>1, NullAssumption DEF MaybeAttr
    <3>3. Paced(attr)
      BY <3>2 DEF Paced
    <3>4. RetriesLeft(attr) + 0 <= RetriesLeft(old)
      BY <2>5, <2>6, <2>8, <3>2 DEF RetriesLeft
    <3>5. UnderWay(net) <= UnderWay(net) + 3 * 0 /\ 0 \in 0..1
      BY <1>1, UnderWayFacts
    <3> QED  BY <1>1, <2>7, <2>8, <3>2, <3>3, <3>4, <3>5
  <2>9. CASE s.sent_segment_attr # NULL /\ attr.time >= RtTimeout /\ Retransmit(h, s, attr)
    <3>1. PICK o \in conn_send(h, net, attr.segment) :
            Return(h, IF GivesUp(attr) THEN destroy_acked_segment(s)
                      ELSE [s EXCEPT !.sent_segment_attr = more], conn[h], o.n)
      BY <2>9 DEF Retransmit, more
    <3>2. NetCounts(o.n) /\ UnderWay(o.n) <= UnderWay(net) + 3 * 1
      <4>1. NetCounts(o.n) /\ UnderWay(o.n) <= UnderWay(net) + PriceOf(attr.segment)
        BY <1>1, <2>5, <2>9, ConnSendCounts
      <4>2. UnderWay(o.n) \in Nat /\ UnderWay(net) \in Nat /\ PriceOf(attr.segment) \in {1, 3}
        BY <1>1, <4>1, UnderWayFacts DEF PriceOf
      <4> QED  BY <4>1, <4>2
    <3>3. 1 \in 0..1 /\ 1 # 0
      OBVIOUS
    <3>4. CASE GivesUp(attr)
      <4>1. Return(h, [s EXCEPT !.sent_segment_attr = NULL], conn[h], o.n)
        BY <3>1, <3>4 DEF destroy_acked_segment
      <4>2. NULL \in MaybeAttr /\ Paced(NULL)
        BY DEF MaybeAttr, Paced
      <4>3. RetriesLeft(NULL) + 1 <= RetriesLeft(old)
        BY <2>5, <2>6, <2>9 DEF RetriesLeft
      <4> QED  BY <2>7, <2>9, <3>2, <3>3, <4>1, <4>2, <4>3
    <3>5. CASE ~GivesUp(attr)
      <4>1. Return(h, [s EXCEPT !.sent_segment_attr = more], conn[h], o.n)
        BY <3>1, <3>5
      <4>2. more \in MaybeAttr /\ more # NULL
        BY <2>5, <2>9, NullAssumption DEF MaybeAttr
      <4>3. more.no_of_times < Retries
        BY <2>5, <2>6, <2>9, <3>5 DEF GivesUp
      <4>4. RetriesLeft(more) + 1 <= RetriesLeft(old)
        BY <2>5, <2>6, <2>9, <4>2 DEF RetriesLeft
      <4>5. /\ more.time < RtTimeout + more.no_of_times * Timer
            /\ more.time >= RtTimeout + (more.no_of_times - 1) * Timer
        <5> DEFINE k == old.no_of_times
                   p == k * Timer
        <5>1. k \in Nat /\ more.no_of_times = k + 1 /\ more.time = old.time + Timer
          BY <2>5, <2>9
        <5>2. old.time < RtTimeout + p /\ old.time \in Nat
          BY <2>5, <2>9
        <5>3. (k > 0 => old.time >= RtTimeout + (k - 1) * Timer) /\ more.time >= RtTimeout
          BY <2>5, <2>9
        <5> HIDE DEF k
        <5>4. p \in Nat /\ (k + 1) * Timer = p + Timer /\ (k - 1) * Timer = p - Timer
              /\ (k + 1) - 1 = k
          BY <2>6, <5>1
        <5>5. k = 0 => p = 0
          BY <2>6
        <5>6. more.time < RtTimeout + (p + Timer)
          <6> HIDE DEF p
          <6> QED  BY <2>6, <5>1, <5>2, <5>4
        <5>7. more.time >= RtTimeout + p
          <6>1. CASE k = 0
            <7> HIDE DEF p
            <7> QED  BY <2>6, <5>3, <5>5, <6>1
          <6>2. CASE k > 0
            <7>1. old.time >= RtTimeout + (p - Timer)
              BY <5>3, <5>4, <6>2
            <7> HIDE DEF p
            <7> QED  BY <2>6, <5>1, <5>2, <5>4, <7>1
          <6> QED  BY <5>1, <6>1, <6>2
        <5> QED  BY <5>1, <5>4, <5>6, <5>7
      <4>6. Paced(more)
        BY <4>3, <4>5 DEF Paced
      <4> QED  BY <2>7, <2>9, <3>2, <3>3, <4>1, <4>2, <4>4, <4>6
    <3> QED  BY <3>4, <3>5
  <2> QED  BY <2>3, <2>4, <2>8, <2>9
<1> QED  BY <1>3, <1>4 DEF ctcp_timer

(* The counts allow what they allowed, in a lighter state.                  *)
LEMMA LighterSpare ==
  ASSUME CountsInv, NEW h \in Host, NEW s, NEW c, NEW n, NEW k, Spare(h, s, c, n, k),
         NEW t, NEW d, LighterState(s, t), SameInput(c, d)
  PROVE  Spare(h, t, d, n, k)
<1>1. HostCounts(h, s, c) /\ NetCounts(n) /\ UnderWay(n) \in Nat /\ k \in Int
  BY UnderWayFacts DEF Spare
<1>2. HostCounts(h, t, d) /\ MaySendYet(h, t, d) + 0 <= MaySendYet(h, s, c)
  BY <1>1, Lighter
<1>3. UnderWay(n) <= UnderWay(n) + 0
  BY <1>1
<1>4. Spare(h, t, d, n, k + 0 - 0)
  BY <1>1, <1>2, <1>3, SpareSend
<1>5. k + 0 - 0 = k
  BY <1>1
<1> QED  BY <1>4, <1>5

(* send_ack() answers a segment that has left the wire.                     *)
LEMMA AnswerCounts ==
  ASSUME CountsInv, NEW h \in Host, NEW s, NEW c, NEW n, Spare(h, s, c, n, 3),
         NEW ackno \in Nat, NEW a \in send_ack(h, [s EXCEPT !.ackno = ackno], n)
  PROVE  /\ Spare(h, a.s, c, a.n, 2) /\ HostCounts(h, a.s, c) /\ NetCounts(a.n)
         /\ a.s \in CtcpState /\ a.s.conn_state = s.conn_state
         /\ Balanced(h, a.s, c, a.n)
<1> DEFINE u == [s EXCEPT !.ackno = ackno]
<1>1. s \in CtcpState /\ c \in Conn
  BY DEF Spare, HostCounts
<1>2. LighterState(s, u) /\ SameInput(c, c) /\ u.conn_state = s.conn_state
  BY <1>1 DEF LighterState, SameInput, CtcpState
<1>3. a \in send_ack(h, u, n)
  OBVIOUS
<1> HIDE DEF u
<1>4. Spare(h, u, c, n, 3)
  BY <1>2, LighterSpare
<1>5. /\ Spare(h, a.s, c, a.n, 3 - 1) /\ HostCounts(h, a.s, c) /\ NetCounts(a.n)
      /\ a.s \in CtcpState /\ a.s.conn_state = u.conn_state
  BY <1>3, <1>4, AckCounts
<1>6. 3 - 1 = 2 /\ 2 >= 1
  OBVIOUS
<1>7. Spare(h, a.s, c, a.n, 2)
  BY <1>5, <1>6
<1>8. Balanced(h, a.s, c, a.n)
  BY <1>6, <1>7, SpareFacts
<1> QED  BY <1>2, <1>5, <1>7, <1>8

(* A FIN is answered by an ACK and, for the first one, by a FIN.            *)
LEMMA FinCounts ==
  ASSUME CountsInv, StreamInv', NEW h \in Host, NEW s, NEW n, Spare(h, s, conn[h], n, 3),
         s.conn_state = "DATA_TRANSFER", NEW ackno \in Nat,
         NEW a \in send_ack(h, [s EXCEPT !.ackno = ackno], n), NEW f \in send_fin(h, a.s, a.n),
         Return(h, [f.s EXCEPT !.conn_state = "WAIT_LAST_ACK"], output_eof(conn[h]), f.n)
  PROVE  Shrinks
<1> DEFINE c == conn[h]
           d == output_eof(c)
           t == [f.s EXCEPT !.conn_state = "WAIT_LAST_ACK"]
<1>1. /\ Spare(h, a.s, c, a.n, 2) /\ HostCounts(h, a.s, c) /\ NetCounts(a.n) /\ 2 \in Nat
      /\ a.s \in CtcpState /\ a.s.conn_state = "DATA_TRANSFER"
  BY AnswerCounts
<1>2. SentOne(h, a.s, a.n, f, 3)
  <2>1. {"FIN"} \in Flags /\ 0 \in Nat
    BY DEF Flags
  <2>2. f \in segment_send(h, a.s, a.n, {"FIN"}, 0, 0)
    BY DEF send_fin
  <2> QED  BY <1>1, <2>1, <2>2, SegmentSendCounts
<1>3. /\ t \in CtcpState /\ t.sent_segment_attr = f.s.sent_segment_attr
      /\ t.received_segment = a.s.received_segment /\ t.conn_state = "WAIT_LAST_ACK"
  BY <1>2 DEF SentOne, CtcpState, ConnState
<1>4. c \in Conn
  BY <1>1 DEF HostCounts
<1>5. d \in Conn /\ d.nread = c.nread /\ d.read_eof = c.read_eof
  BY <1>4 DEF output_eof, Conn
<1>6. Return(h, t, d, f.n)
  OBVIOUS
<1> HIDE DEF t, d, c
<1>7. HostCounts(h, t, d)
  BY <1>1, <1>2, <1>3, <1>5 DEF HostCounts, SentOne
<1>8. Unsent(h, t, d) + 1 <= Unsent(h, a.s, c)
  <2> DEFINE e == IF Eof[h] = "once" /\ ~c.read_eof THEN 1 ELSE 0
             x == Input[h] - c.nread
  <2>1. Unsent(h, t, d) = x + e + 0 /\ Unsent(h, a.s, c) = x + e + 1
    BY <1>1, <1>3, <1>5 DEF Unsent
  <2>2. x \in Int /\ e \in Int
    BY <1>4, InputAssumption DEF Conn
  <2> HIDE DEF e, x
  <2> QED  BY <2>1, <2>2
<1> QED  BY <1>1, <1>2, <1>3, <1>6, <1>7, <1>8, NewSendCounts

(* Data wait for ctcp_output(): they have left the wire.                    *)
LEMMA DataCounts ==
  ASSUME CountsInv, StreamInv', NEW h \in Host, NEW s, NEW n, Spare(h, s, conn[h], n, 3),
         NEW g \in Segment, ctcp_output(h, [s EXCEPT !.received_segment = g], conn[h], n)
  PROVE  Shrinks
<1> DEFINE c == conn[h]
           t == [s EXCEPT !.received_segment = g]
<1>1. HostCounts(h, s, c) /\ NetCounts(n) /\ s \in CtcpState /\ UnderWay(n) \in Nat
  BY UnderWayFacts DEF Spare, HostCounts
<1>2. /\ t \in CtcpState /\ t.sent_segment_attr = s.sent_segment_attr
      /\ t.received_segment # NULL /\ t.conn_state = s.conn_state
  BY <1>1, NullAssumption DEF CtcpState, MaybeSegment
<1>3. ctcp_output(h, t, c, n)
  OBVIOUS
<1> HIDE DEF t
<1>4. HostCounts(h, t, c)
  BY <1>1, <1>2 DEF HostCounts
<1>5. Unsent(h, t, c) = Unsent(h, s, c)
  BY <1>2 DEF Unsent
<1>6. Extra(t) + (-2) <= Extra(s)
  <2> DEFINE a == RetriesLeft(s.sent_segment_attr)
             v == Cardinality(Waiting(s))
             w == Cardinality(Waiting(t))
  <2>1. Extra(s) = 4 * a + 2 * v /\ Extra(t) = 4 * a + 2 * w
    BY <1>2 DEF Extra
  <2>2. a \in 0..Retries /\ v \in 0..1 /\ w \in 0..1 /\ Retries \in Nat
    BY <1>1, <1>4, ExtraFacts DEF HostCounts
  <2> HIDE DEF a, v, w
  <2> QED  BY <2>1, <2>2
<1>7. -2 \in Int /\ 0 \in Int /\ UnderWay(n) <= UnderWay(n) + 0 /\ 3 + (-2) - 0 = 1
  BY <1>1
<1>8. MaySendYet(h, t, c) + (-2) <= MaySendYet(h, s, c)
  BY <1>1, <1>4, <1>5, <1>6, <1>7, MayOrder
<1>9. Spare(h, t, c, n, 3 + (-2) - 0)
  BY <1>1, <1>4, <1>7, <1>8, SpareSend
<1>10. Spare(h, t, c, n, 1) /\ 1 \in Nat /\ 1 >= 1
  BY <1>7, <1>9
<1> QED  BY <1>2, <1>3, <1>10, OutputCounts

(* ctcp_receive(): the segment taken from the wire pays for the answer.     *)
LEMMA ReceiveCounts ==
  ASSUME CountsInv, StreamInv', NEW h \in Host, Receive(h)
  PROVE  Shrinks
<1> DEFINE s == state[h]
           c == conn[h]
           g == Head(net.wire[h])
           n == [net EXCEPT !.wire[h] = Tail(@)]
<1>1. net.wire[h] # <<>> /\ ctcp_receive(h, s, g, n)
  BY DEF Receive
<1>2. Spare(h, s, c, n, 1) /\ g \in Segment /\ (Asks(g) => Spare(h, s, c, n, 3))
  BY <1>1, TakenCounts
<1> HIDE DEF g, n
<1>3. s \in CtcpState /\ c \in Conn /\ SameInput(c, c) /\ g.seqno \in Nat /\ g.seqno + 1 \in Nat
  BY <1>2 DEF Spare, HostCounts, SameInput, Segment
<1>4. 1 >= 1 /\ 2 >= 1
  OBVIOUS
<1>5. ASSUME NEW t, LighterState(s, t), Return(h, t, c, n)  PROVE Shrinks
  BY <1>2, <1>3, <1>4, <1>5, LighterReturn
<1>6. CASE Return(h, s, c, n)
  <2>1. LighterState(s, s)
    BY <1>3 DEF LighterState
  <2> QED  BY <1>5, <1>6, <2>1
<1>7. CASE InDataTransfer(h, s, g, n)
  <2>1. s.conn_state = "DATA_TRANSFER"
    BY <1>7 DEF InDataTransfer
  <2>2. CASE /\ "FIN" \in g.flags
             /\ \E a \in send_ack(h, [s EXCEPT !.ackno = g.seqno + 1], n) :
               \E f \in send_fin(h, a.s, a.n) :
                 Return(h, [f.s EXCEPT !.conn_state = "WAIT_LAST_ACK"],
                        output_eof(conn[h]), f.n)
    <3>1. PICK a \in send_ack(h, [s EXCEPT !.ackno = g.seqno + 1], n) :
                 \E f \in send_fin(h, a.s, a.n) :
                   Return(h, [f.s EXCEPT !.conn_state = "WAIT_LAST_ACK"],
                          output_eof(conn[h]), f.n)
      BY <2>2
    <3>2. PICK f \in send_fin(h, a.s, a.n) :
                   Return(h, [f.s EXCEPT !.conn_state = "WAIT_LAST_ACK"],
                          output_eof(conn[h]), f.n)
      BY <3>1
    <3>3. Spare(h, s, c, n, 3)
      BY <1>2, <2>2 DEF Asks
    <3> QED  BY <1>2, <1>3, <2>1, <3>2, <3>3, FinCounts
  <2>3. CASE Return(h, destroy_acked_segment([s EXCEPT !.ackno = g.seqno]), c, n)
    <3> DEFINE t == destroy_acked_segment([s EXCEPT !.ackno = g.seqno])
    <3>1. LighterState(s, t)
      BY <1>3 DEF LighterState, destroy_acked_segment, CtcpState, MaybeAttr
    <3>2. Return(h, t, c, n)
      BY <2>3
    <3> HIDE DEF t
    <3> QED  BY <1>5, <3>1, <3>2
  <2>4. CASE g.len > 0 /\ ctcp_output(h, [s EXCEPT !.received_segment = g], c, n)
    <3>1. Spare(h, s, c, n, 3)
      BY <1>2, <2>4 DEF Asks
    <3> QED  BY <1>2, <2>4, <3>1, DataCounts
  <2> QED  BY <1>6, <1>7, <2>2, <2>3, <2>4 DEF InDataTransfer, TakesAck
<1>8. CASE InTearDown(h, s, g, n)
  <2>1. CASE Return(h, [s EXCEPT !.conn_state = IF "FIN" \in g.flags
                          THEN "WAIT_LAST_ACK" ELSE "WAIT_LAST_FIN"], c, n)
    <3> DEFINE t == [s EXCEPT !.conn_state = IF "FIN" \in g.flags
                       THEN "WAIT_LAST_ACK" ELSE "WAIT_LAST_FIN"]
    <3>1. LighterState(s, t)
      BY <1>3 DEF LighterState, CtcpState, ConnState
    <3>2. Return(h, t, c, n)
      BY <2>1
    <3> HIDE DEF t
    <3> QED  BY <1>5, <3>1, <3>2
  <2>2. CASE /\ g.flags = {"FIN"}
             /\ \E a \in send_ack(h, [s EXCEPT !.ackno = g.seqno + 1], n) :
                  ctcp_destroy(h, a.s, c, a.n)
    <3>1. PICK a \in send_ack(h, [s EXCEPT !.ackno = g.seqno + 1], n) :
                 ctcp_destroy(h, a.s, c, a.n)
      BY <2>2
    <3>3. Spare(h, s, c, n, 3)
      BY <1>2, <2>2 DEF Asks
    <3>2. HostCounts(h, a.s, c) /\ NetCounts(a.n) /\ Balanced(h, a.s, c, a.n)
      BY <1>3, <3>3, AnswerCounts
    <3> QED  BY <3>1, <3>2, DestroyCounts
  <2> QED  BY <1>8, <2>1, <2>2 DEF InTearDown
<1>9. CASE InWaitLastFin(h, s, g, n)
  <2>1. CASE /\ "FIN" \in g.flags
             /\ \E a \in send_ack(h, [s EXCEPT !.ackno = g.seqno + 1], n) :
                  Return(h, [a.s EXCEPT !.tim = 0, !.td_state = "WAIT_DESTROY"], c, a.n)
    <3>1. PICK a \in send_ack(h, [s EXCEPT !.ackno = g.seqno + 1], n) :
                 Return(h, [a.s EXCEPT !.tim = 0, !.td_state = "WAIT_DESTROY"], c, a.n)
      BY <2>1
    <3>5. Spare(h, s, c, n, 3)
      BY <1>2, <2>1 DEF Asks
    <3>2. Spare(h, a.s, c, a.n, 2) /\ a.s \in CtcpState
      BY <1>3, <3>5, AnswerCounts
    <3> DEFINE t == [a.s EXCEPT !.tim = 0, !.td_state = "WAIT_DESTROY"]
    <3>3. LighterState(a.s, t)
      <4>1. 0 \in Uint16 /\ "WAIT_DESTROY" \in TdState
        BY SMT DEF Uint16, TdState
      <4> QED  BY <3>2, <4>1 DEF LighterState, CtcpState
    <3>4. Return(h, t, c, a.n)
      BY <3>1
    <3> HIDE DEF t
    <3> QED  BY <1>3, <1>4, <3>2, <3>3, <3>4, LighterReturn
  <2> QED  BY <1>6, <1>9, <2>1 DEF InWaitLastFin
<1>10. CASE InWaitLastAck(h, s, g, n)
  <2>1. CASE ctcp_destroy(h, s, c, n)
    <3>1. HostCounts(h, s, c) /\ NetCounts(n) /\ Balanced(h, s, c, n)
      BY <1>2, <1>4, SpareFacts DEF Spare
    <3> QED  BY <2>1, <3>1, DestroyCounts
  <2> QED  BY <1>6, <1>10, <2>1 DEF InWaitLastAck
<1> QED  BY <1>1, <1>6, <1>7, <1>8, <1>9, <1>10 DEF ctcp_receive

(* conn_drain(): unless ctcp_output() then uses a segment it has freed.     *)
LEMMA DrainCounts ==
  ASSUME CountsInv, StreamInv', NEW h \in Host, Drain(h)
  PROVE  CountsInv' /\ (conn'[h].tainted \/ Shrinks)
<1> DEFINE s == state[h]
           Used == CountsInv' /\ conn'[h].tainted
<1>1. PICK d \in conn_drain(conn[h]) :
        \/ Return(h, s, d.c, net)
        \/ s.received_segment # NULL /\ ctcp_output(h, s, d.c, net)
        \/ UseAfterFree(h, s, d.c, net)
  BY DEF Drain
<1>2. /\ HostCounts(h, s, conn[h]) /\ NetCounts(net) /\ s \in CtcpState /\ conn[h] \in Conn
      /\ Paced(s.sent_segment_attr) /\ Spare(h, s, conn[h], net, 0)
  BY SpareFacts DEF CountsInv, HostCounts
<1>3. SameInput(conn[h], d.c) /\ LighterState(s, s) /\ 0 >= 0 /\ 0 \in Nat
  BY <1>2, ConnDrainFacts DEF SameInput, LighterState
<1>4. CASE Return(h, s, d.c, net)
  <2>1. Shrinks
    BY <1>2, <1>3, <1>4, LighterReturn
  <2> QED  BY <2>1 DEF Shrinks
<1>5. CASE s.received_segment # NULL /\ ctcp_output(h, s, d.c, net)
  <2>1. Spare(h, s, d.c, net, 0)
    BY <1>2, <1>3, LighterSpare
  <2>2. Shrinks
    BY <1>3, <1>5, <2>1, OutputCounts
  <2> QED  BY <2>2 DEF Shrinks
<1>6. CASE UseAfterFree(h, s, d.c, net)
  <2> DEFINE c == [d.c EXCEPT !.tainted = TRUE]
             Garbage == {[s EXCEPT !.ackno = ackno] : ackno \in {0, MaxSeqno}}
             Freed(e) == SameInput(conn[h], e) /\ e.tainted
  <2>1. Freed(c)
    BY <1>3 DEF SameInput, Conn
  <2>2. ASSUME NEW t \in CtcpState, Paced(t.sent_segment_attr), NEW e, Freed(e)
        PROVE  HostCounts(h, t, e)
    BY <1>2, <2>2 DEF HostCounts, SameInput
  <2>3. ASSUME NEW t \in CtcpState, Paced(t.sent_segment_attr), NEW e, Freed(e),
               NEW m, NetCounts(m), Return(h, t, e, m)
        PROVE  Used
    <3>1. HostCounts(h, t, e) /\ e.tainted
      BY <2>2, <2>3
    <3>2. CountsInv' /\ conn'[h] = e
      BY <2>3, <3>1, CountsReturn
    <3> QED  BY <3>1, <3>2
  <2>4. ASSUME NEW e, Freed(e), NEW status \in Status
        PROVE  Freed([e EXCEPT !.status = status])
    BY <2>4 DEF SameInput, Conn
  <2>5. ASSUME NEW e, Freed(e), NEW status \in Status, Gone(h, s, e, net, status)
        PROVE  Used
    <3> DEFINE m == [net EXCEPT !.wire[h] = <<>>]
               f == [e EXCEPT !.status = status]
    <3>1. NetCounts(m)
      BY <1>2, EmptiedCounts
    <3>2. Freed(f)
      BY <2>4, <2>5
    <3>3. Return(h, s, f, m)
      BY <2>5 DEF Gone
    <3> HIDE DEF m, f, Freed, Used
    <3> QED  BY <1>2, <2>3, <3>1, <3>2, <3>3
  <2>6. ASSUME NEW e, Freed(e), ctcp_destroy(h, s, e, net)  PROVE Used
    <3>1. "exited" \in Status /\ "removed" \in Status
      BY DEF Status
    <3> DEFINE f == [e EXCEPT !.status = "removed"]
    <3>2. Gone(h, s, e, net, "exited") \/ Return(h, s, f, net)
      BY <2>6 DEF ctcp_destroy
    <3>3. Freed(f)
      BY <2>4, <2>6, <3>1
    <3> HIDE DEF f, Freed, Used
    <3> QED  BY <1>2, <2>3, <2>5, <2>6, <3>1, <3>2, <3>3
  <2>7. ASSUME NEW t \in Garbage
        PROVE  t \in CtcpState /\ t.sent_segment_attr = s.sent_segment_attr
    <3>1. PICK ackno \in Nat : t = [s EXCEPT !.ackno = ackno]
      BY BoundAssumption
    <3> QED  BY <1>2, <3>1 DEF CtcpState
  <2> SUFFICES Used
    OBVIOUS
  <2> HIDE DEF Garbage
  <2>8. ASSUME NEW t \in CtcpState, NEW e, Freed(e), NEW m, NetCounts(m),
               Return(h, destroy_acked_segment(t), e, m)
        PROVE  Used
    <3> DEFINE u == destroy_acked_segment(t)
    <3>1. u \in CtcpState /\ u.sent_segment_attr = NULL
      BY DEF destroy_acked_segment, CtcpState, MaybeAttr
    <3>2. Paced(u.sent_segment_attr)
      BY <3>1 DEF Paced
    <3>3. Return(h, u, e, m)
      BY <2>8
    <3> HIDE DEF u, Freed, Used
    <3> QED  BY <2>3, <2>8, <3>1, <3>2, <3>3
  <2>9. ASSUME NEW w \in conn_output(c, [pos |-> 0, len |-> 1])  PROVE Freed(w.c)
    <3>1. [pos |-> 0, len |-> 1] \in Piece /\ c \in Conn
      BY <2>1 DEF Piece, SameInput
    <3> HIDE DEF c
    <3> QED  BY <2>1, <3>1, ConnOutputFacts DEF SameInput
  <2>10. ASSUME NEW t \in Garbage, NEW o \in send_ack(h, t, net)
         PROVE  o.s \in CtcpState /\ NetCounts(o.n)
    <3>1. {"ACK"} \in Flags /\ 0 \in Nat
      BY DEF Flags
    <3>2. o \in segment_send(h, t, net, {"ACK"}, 0, 0)
      BY DEF send_ack
    <3>3. SentOne(h, t, net, o, 3)
      BY <1>2, <2>7, <3>1, <3>2, SegmentSendCounts
    <3> QED  BY <3>3 DEF SentOne
  <2>11. CASE Return(h, s, c, net)
    <3> HIDE DEF c, Freed, Used
    <3> QED  BY <1>2, <2>1, <2>3, <2>11
  <2>12. CASE \E t \in Garbage : Return(h, destroy_acked_segment(t), c, net)
    <3> HIDE DEF c, Freed, Used
    <3> QED  BY <1>2, <2>1, <2>7, <2>8, <2>12
  <2>13. CASE \E w \in conn_output(c, [pos |-> 0, len |-> 1]) :
                \/ ctcp_destroy(h, s, w.c, net)
                \/ \E t \in Garbage : \E o \in send_ack(h, t, net) :
                     Return(h, destroy_acked_segment(o.s), w.c, o.n)
    <3> HIDE DEF c, Freed, Used
    <3> QED  BY <2>6, <2>8, <2>9, <2>10, <2>13
  <2>14. CASE Gone(h, s, c, net, "crashed")
    <3>1. "crashed" \in Status
      BY DEF Status
    <3> HIDE DEF c, Freed, Used
    <3> QED  BY <2>1, <2>5, <2>14, <3>1
  <2> HIDE DEF Used
  <2> QED  BY <1>6, <2>11, <2>12, <2>13, <2>14 DEF UseAfterFree, Garbage
<1> QED  BY <1>1, <1>4, <1>5, <1>6

LEMMA TrafficIsNat ==
  ASSUME CountsInv
  PROVE  Traffic \in Nat
<1>1. \A x \in Host : MaySendYet(x, state[x], conn[x]) \in Nat
  BY UnsentIsNat DEF CountsInv
<1>2. UnderWay(net) \in Nat
  BY UnderWayFacts DEF CountsInv
<1> DEFINE u == UnderWay(net)
           x == MaySendYet(Client, state[Client], conn[Client])
           y == MaySendYet(Server, state[Server], conn[Server])
<1>3. u \in Nat /\ x \in Nat /\ y \in Nat /\ Traffic = u + x + y
  BY <1>1, <1>2 DEF Host, Traffic
<1> HIDE DEF u, x, y
<1> QED  BY <1>3

(* Nothing has been read or sent yet.                                       *)
LEMMA InitCounts == Init => CountsInv
<1> SUFFICES ASSUME Init PROVE CountsInv
  OBVIOUS
<1>1. StreamInv
  BY InitStreamInv
<1>2. state \in [Host -> CtcpState] /\ conn \in [Host -> Conn] /\ net \in Net
  BY <1>1 DEF StreamInv, TypeOK
<1>3. net.forked = {} /\ net.faults = 0
  BY DEF Init, NetInit
<1>4. NetCounts(net)
  <2>1. IsFiniteSet(net.forked)
    BY <1>3, FS_EmptySet
  <2> QED  BY <1>2, <1>3, <2>1, FaultAssumption DEF NetCounts
<1>5. ASSUME NEW h \in Host  PROVE HostCounts(h, state[h], conn[h])
  <2>1. state[h].sent_segment_attr = NULL /\ conn[h].nread = 0 /\ ~conn[h].read_eof
    BY DEF Init, ctcp_init, ConnInit
  <2>2. Input[h] \in Nat /\ 0 <= Input[h]
    BY InputAssumption
  <2> QED  BY <1>2, <2>1, <2>2 DEF HostCounts, Paced
<1> QED  BY <1>1, <1>4, <1>5 DEF CountsInv

(* Every step keeps the counts and makes the traffic less if it sends or    *)
(* receives, except at an end of file that comes again and by the use of    *)
(* freed memory.                                                            *)
LEMMA NextCounts ==
  CountsInv /\ [Next]_vars =>
    /\ CountsInv'
    /\ \/ Traffic' <= Traffic /\ (net' = net \/ Traffic' < Traffic)
       \/ \E h \in Host : Eof[h] = "sticky"
       \/ \E h \in Host : Drain(h) /\ conn'[h].tainted
<1> SUFFICES ASSUME CountsInv, [Next]_vars
             PROVE  /\ CountsInv'
                    /\ \/ Traffic' <= Traffic /\ (net' = net \/ Traffic' < Traffic)
                       \/ \E h \in Host : Eof[h] = "sticky"
                       \/ \E h \in Host : Drain(h) /\ conn'[h].tainted
  OBVIOUS
<1>1. StreamInv'
  BY NextStreamInv DEF CountsInv
<1>2. CASE UNCHANGED vars
  <2>1. CountsInv'
    BY <1>1, <1>2 DEF vars, CountsInv
  <2>2. Traffic' = Traffic /\ net' = net
    BY <1>2 DEF vars, Traffic
  <2>3. Traffic \in Nat
    BY TrafficIsNat
  <2> QED  BY <2>1, <2>2, <2>3
<1>3. ASSUME NEW h \in Host, ReadData(h)  PROVE Shrinks
  BY <1>1, <1>3, ReadDataCounts
<1>4. ASSUME NEW h \in Host, ReadEof(h)  PROVE CountsInv' /\ (Eof[h] # "sticky" => Shrinks)
  BY <1>1, <1>4, ReadEofCounts
<1>5. ASSUME NEW h \in Host, Receive(h)  PROVE Shrinks
  BY <1>1, <1>5, ReceiveCounts
<1>6. ASSUME NEW h \in Host, Discard(h)  PROVE Shrinks
  BY <1>1, <1>6, DiscardCounts
<1>7. ASSUME NEW h \in Host, Drain(h)  PROVE CountsInv' /\ (conn'[h].tainted \/ Shrinks)
  BY <1>1, <1>7, DrainCounts
<1>8. ASSUME NEW h \in Host, ctcp_timer(h)  PROVE Shrinks
  BY <1>1, <1>8, TimerCounts
<1>9. ASSUME NEW f \in net.forked, ForkedSend(f)  PROVE Shrinks
  BY <1>1, <1>9, ForkedSendCounts
<1>10. \/ UNCHANGED vars \/ Shrinks
       \/ \E h \in Host : CountsInv' /\ (Eof[h] # "sticky" => Shrinks)
       \/ \E h \in Host : Drain(h) /\ CountsInv' /\ (conn'[h].tainted \/ Shrinks)
  BY <1>3, <1>4, <1>5, <1>6, <1>7, <1>8, <1>9 DEF Next
<1> QED  BY <1>2, <1>10 DEF Shrinks

-----------------------------------------------------------------------------
(* Theorems about the traffic *)

(* retransmission_handler() keeps an unacknowledged segment for no longer   *)
(* than a timeout for each transmission, whatever is lost: time, a uint16_t *)
(* that it never resets, stays below (Retries + 1) * RtTimeout, if the      *)
(* timer fires at least once per timeout.                                   *)
THEOREM SegmentsGivenUpInTime ==
  ASSUME Timer <= RtTimeout
  PROVE  Spec => []GivenUpInTime
<1>1. CountsInv => GivenUpInTime
  <2> SUFFICES ASSUME CountsInv, NEW h \in Host, state[h].sent_segment_attr # NULL
               PROVE  state[h].sent_segment_attr.time < (Retries + 1) * RtTimeout
    BY DEF GivenUpInTime
  <2> DEFINE attr == state[h].sent_segment_attr
             k == attr.no_of_times
             time == attr.time
  <2>1. state[h] \in CtcpState /\ Paced(attr)
    BY DEF CountsInv, HostCounts
  <2>2. time \in Nat /\ k \in Nat
    BY <2>1 DEF CtcpState, MaybeAttr, SegmentAttr
  <2>3. k < Retries /\ time < RtTimeout + k * Timer
    BY <2>1 DEF Paced
  <2>4. Timer \in Nat /\ RtTimeout \in Nat /\ Retries \in Nat
    BY TimerAssumption
  <2> HIDE DEF k, time
  <2>5. PICK d \in Nat : Retries = k + d
    <3>1. Retries - k \in Nat /\ Retries = k + (Retries - k)
      BY <2>2, <2>3, <2>4
    <3> QED  BY <3>1
  <2>6. PICK e \in Nat : RtTimeout = Timer + e
    <3>1. RtTimeout - Timer \in Nat /\ RtTimeout = Timer + (RtTimeout - Timer)
      BY <2>4
    <3> QED  BY <3>1
  <2> DEFINE p == k * Timer
             q == k * e
             r == d * RtTimeout
             v == k * RtTimeout
             w == Retries * RtTimeout
  <2>7. p \in Nat /\ q \in Nat /\ r \in Nat /\ v \in Nat /\ w \in Nat
    BY <2>2, <2>4, <2>5, <2>6
  <2>8. v = p + q
    BY <2>2, <2>4, <2>6
  <2>9. w = v + r
    BY <2>2, <2>4, <2>5
  <2>10. (Retries + 1) * RtTimeout = w + RtTimeout
    BY <2>4
  <2>11. time < RtTimeout + p
    BY <2>3
  <2> HIDE DEF p, q, r, v, w
  <2>12. time < w + RtTimeout
    BY <2>2, <2>4, <2>7, <2>8, <2>9, <2>11
  <2> QED  BY <2>10, <2>12 DEF time
<1> QED  BY <1>1, InitCounts, NextCounts, PTL DEF Spec

(* Every segment that ctcp_read(), ctcp_receive(), ctcp_output() and        *)
(* ctcp_timer() send or take is paid for by more input, ends of file,       *)
(* retries, faults or segments than it leaves behind, whatever conn_send()  *)
(* injects, if stdin reports its end once: the traffic dies down, and no    *)
(* answer is answered for ever.                                             *)
THEOREM TrafficAlwaysDiesDown ==
  ASSUME \A h \in Host : Eof[h] # "sticky"
  PROVE  Spec => TrafficDiesDown
<1>1. CountsInv /\ [Next]_vars =>
        [(\A h \in Host : ~conn'[h].tainted) =>
           IF net' = net THEN Traffic' <= Traffic ELSE Traffic' < Traffic]_vars
  BY NextCounts
<1> QED  BY <1>1, InitCounts, NextCounts, PTL DEF Spec, TrafficDiesDown
=============================================================================
