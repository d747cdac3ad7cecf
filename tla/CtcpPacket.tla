----------------------------- MODULE CtcpPacket -----------------------------
(***************************************************************************)
(* The way of one segment from ctcp.c of one host to ctcp.c of the other:  *)
(* _segment_send() fills it in and sums it up, conn_send() may flip a bit  *)
(* and makes a TCP/IP packet of it, do_loop() of the receiver makes it a   *)
(* segment again, and _is_segment_valid() judges it.  A segment is its     *)
(* bytes in memory; a machine word is little-endian, as on every machine   *)
(* the program is built for.                                               *)
(***************************************************************************)
EXTENDS Integers, Sequences, Sums

CONSTANTS
  B,               \* values of a byte: 256 in the code
  Seqno, Ackno,    \* relative numbers a segment may carry
  InitSeqno,       \* initial numbers that conn_setup() may draw
  Address,         \* IP addresses
  Data             \* payloads, sequences of bytes

Word == B * B        \* values of a uint16_t
Long == Word * Word  \* of a uint32_t
Byte == 0..(B - 1)

TH_FIN == 1
TH_ACK == 16
IPPROTO_TCP == 6
MAX_SEG_DATA_SIZE == 1440
IP_HDR_SIZE == 20
TCP_HDR_SIZE == 20
FULL_HDR_SIZE == IP_HDR_SIZE + TCP_HDR_SIZE
SEGMENT_HDR_SIZE == 20  \* sizeof(ctcp_segment_t), with two bytes of padding

(* TLC's integers hold a uint32_t of bytes of seven bits only.              *)
ASSUME ByteAssumption == B \in {128, 256}
ASSUME NumberAssumption == /\ Seqno \subseteq 0..(Long - 1)
                           /\ Ackno \subseteq 0..(Long - 1)
                           /\ InitSeqno \subseteq 0..(Long \div 2 - 1)
                           /\ Address \subseteq 0..(Long - 1)
ASSUME DataAssumption == \A d \in Data : d \in Seq(Byte) /\ Len(d) <= MAX_SEG_DATA_SIZE

VARIABLES
  pc,        \* who has the segment
  web,       \* !run_program && !unix_socket at the sender
  conn,      \* conn_t of the sender; the receiver's has the numbers the other way round
  segment,   \* what ctcp.c has sent
  flipped,   \* has conn_send() corrupted it?
  datagram,  \* the packet
  received   \* what do_loop() passes to ctcp_receive()

vars == <<pc, web, conn, segment, flipped, datagram, received>>
-----------------------------------------------------------------------------
(* Bytes and checksums *)

htons(x) == (x % B) * B + (x \div B)

(* A uint16_t and a uint32_t as bytes in network order, and back.           *)
Short(x) == <<x \div B, x % B>>
Four(x) == Short(x \div Word) \o Short(x % Word)
ShortAt(s, i) == s[i] * B + s[i + 1]
FourAt(s, i) == ShortAt(s, i) * Word + ShortAt(s, i + 2)

(* The big-endian words of b; the last one of an odd number of bytes is     *)
(* filled up with zero.                                                     *)
Words(b) == [i \in 1..((Len(b) + 1) \div 2) |->
               b[2 * i - 1] * B + (IF 2 * i <= Len(b) THEN b[2 * i] ELSE 0)]
Words_EvenOnly(b) == [i \in 1..(Len(b) \div 2) |-> b[2 * i - 1] * B + b[2 * i]]

(* One round of the while loop; fewer than Word words need no third one.    *)
Carry_Lost(sum) == sum % Word
Carry(sum) == IF sum >= Word THEN (sum \div Word) + (sum % Word) ELSE sum

Complement(sum) == LET s == htons(Word - 1 - Carry(Carry(sum)))
                   IN  IF s # 0 THEN s ELSE Word - 1
cksum_EvenOnly(b) == Complement(Total(Words_EvenOnly(b)))
cksum(b) == Complement(Total(Words(b)))

(* ctcp_segment_t in memory: the numbers in network order, flags in the     *)
(* first byte of their word, the checksum as the machine stores it.         *)
MakeSegment(seqno, ackno, flags, window, sum, data) ==
  Four(seqno) \o Four(ackno) \o Short(SEGMENT_HDR_SIZE + Len(data))
  \o <<0, 0>> \o <<flags, 0, 0, 0>> \o Short(window) \o Short(htons(sum)) \o data

SeqnoOf(s) == FourAt(s, 1)
AcknoOf(s) == FourAt(s, 5)
LenOf(s) == ShortAt(s, 9)
FlagsOf(s) == s[13]
WindowOf(s) == ShortAt(s, 17)
CksumOf(s) == htons(ShortAt(s, 19))
DataOf(s) == SubSeq(s, SEGMENT_HDR_SIZE + 1, Len(s))
Unsummed(s) == [s EXCEPT ![19] = 0, ![20] = 0]

(* The checksum with the pseudoheader; the header's own field counts zero.  *)
cksum_tcp(d) ==
  cksum(Four(d.saddr) \o Four(d.daddr) \o <<0, IPPROTO_TCP>>
        \o Short(TCP_HDR_SIZE + Len(d.data))
        \o Short(d.th_sport) \o Short(d.th_dport)
        \o Four(d.th_seq) \o Four(d.th_ack)
        \o <<(TCP_HDR_SIZE \div 4) * (B \div 16), d.th_flags>> \o Short(d.th_win)
        \o <<0, 0>> \o <<0, 0>> \o d.data)

-----------------------------------------------------------------------------
(* Conversion *)

(* TH_ACK is added to what goes to the web.                                 *)
WithAck(flags) == IF web /\ (flags \div TH_ACK) % 2 = 0 THEN flags + TH_ACK ELSE flags

(* The packet before it is summed up.                                       *)
Packet_NoWrap(s) ==
  [saddr |-> conn.saddr, daddr |-> conn.daddr,
   tot_len |-> FULL_HDR_SIZE + Len(DataOf(s)),
   th_sport |-> conn.sport, th_dport |-> conn.dport,
   th_seq |-> SeqnoOf(s) + conn.init_seqno,
   th_ack |-> AcknoOf(s) + conn.their_init_seqno,
   th_flags |-> WithAck(FlagsOf(s)), th_win |-> WindowOf(s), th_sum |-> 0,
   data |-> DataOf(s)]
Packet(s) ==
  [saddr |-> conn.saddr, daddr |-> conn.daddr,
   tot_len |-> FULL_HDR_SIZE + Len(DataOf(s)),
   th_sport |-> conn.sport, th_dport |-> conn.dport,
   th_seq |-> (SeqnoOf(s) + conn.init_seqno) % Long,
   th_ack |-> (AcknoOf(s) + conn.their_init_seqno) % Long,
   th_flags |-> WithAck(FlagsOf(s)), th_win |-> WindowOf(s), th_sum |-> 0,
   data |-> DataOf(s)]

(* The error of the segment's checksum becomes the error of the packet's.   *)
convert_to_datagram_Resums(s) == [Packet(s) EXCEPT !.th_sum = cksum_tcp(Packet(s))]
convert_to_datagram(s) ==
  [Packet(s) EXCEPT !.th_sum =
     (cksum_tcp(Packet(s)) + cksum(Unsummed(s)) - CksumOf(s)) % Word]

(* The receiver's their_init_seqno is the sender's init_seqno.              *)
Rebuilt_OwnInit(d, sum) ==
  MakeSegment((d.th_seq - conn.their_init_seqno) % Long,
              (d.th_ack - conn.init_seqno) % Long,
              d.th_flags, d.th_win, sum, SubSeq(d.data, 1, d.tot_len - FULL_HDR_SIZE))
Rebuilt(d, sum) ==
  MakeSegment((d.th_seq - conn.init_seqno) % Long,
              (d.th_ack - conn.their_init_seqno) % Long,
              d.th_flags, d.th_win, sum, SubSeq(d.data, 1, d.tot_len - FULL_HDR_SIZE))
convert_to_ctcp(d) ==
  Rebuilt(d, (cksum(Rebuilt(d, 0)) + cksum_tcp(d) - d.th_sum) % Word)

is_segment_valid(s) ==
  /\ LenOf(s) <= Len(s)
  /\ cksum(Unsummed(SubSeq(s, 1, LenOf(s)))) = CksumOf(s)

(* bit is the byte it is in and 1 << (bit % 8).                             *)
Mask == {m \in {1, 2, 4, 8, 16, 32, 64, 128} : m < B}
flipbit(s, bit) ==
  [s EXCEPT ![bit.byte] = IF (@ \div bit.mask) % 2 = 0 THEN @ + bit.mask ELSE @ - bit.mask]

(* The bits conn_send() may flip: from the window on, but for the last.     *)
RandBit(s) == [byte : (SEGMENT_HDR_SIZE - 3)..Len(s), mask : Mask]
              \ {[byte |-> Len(s), mask |-> B \div 2]}

-----------------------------------------------------------------------------
(* The steps *)

Init ==
  /\ pc = "_segment_send" /\ web \in BOOLEAN
  /\ conn \in [init_seqno : InitSeqno, their_init_seqno : InitSeqno,
               saddr : Address, daddr : Address, sport : {1}, dport : {2}]
  /\ segment = <<>> /\ flipped = FALSE
  /\ datagram = <<>> /\ received = <<>>

segment_send(seqno, ackno, flags, data) ==
  LET s == MakeSegment(seqno, ackno, flags, MAX_SEG_DATA_SIZE, 0, data) IN
  /\ pc = "_segment_send" /\ pc' = "conn_send"
  /\ segment' = MakeSegment(seqno, ackno, flags, MAX_SEG_DATA_SIZE, cksum(s), data)
  /\ UNCHANGED <<web, conn, flipped, datagram, received>>

conn_send ==
  /\ pc = "conn_send" /\ pc' = "do_loop"
  /\ \/ /\ datagram' = convert_to_datagram(segment)
        /\ UNCHANGED flipped
     \/ \E bit \in RandBit(segment) :
          /\ datagram' = convert_to_datagram(flipbit(segment, bit))
          /\ flipped' = TRUE
  /\ UNCHANGED <<web, conn, segment, received>>

do_loop ==
  /\ pc = "do_loop" /\ pc' = "ctcp_receive"
  /\ received' = convert_to_ctcp(datagram)
  /\ UNCHANGED <<web, conn, segment, flipped, datagram>>

Next == \/ \E seqno \in Seqno, ackno \in Ackno, flags \in {TH_ACK, TH_FIN}, data \in Data :
             segment_send(seqno, ackno, flags, data)
        \/ conn_send
        \/ do_loop

Spec == Init /\ [][Next]_vars
-----------------------------------------------------------------------------
(* Properties *)

(* Every field of a packet keeps its width.                                 *)
TypeOK ==
  /\ segment \in Seq(Byte) /\ received \in Seq(Byte)
  /\ datagram # <<>> => /\ datagram.th_seq \in 0..(Long - 1)
                        /\ datagram.th_ack \in 0..(Long - 1)
                        /\ datagram.th_sum \in 0..(Word - 1)

(* _segment_send() leaves a segment that sums up to all ones, as an         *)
(* Internet checksum does, whatever its length and its carries.             *)
SumsToAllOnes == segment # <<>> => cksum(segment) = Word - 1

(* A segment that nobody has touched arrives as it was sent, also when its  *)
(* absolute numbers wrap around, except for the ACK added for the web, and  *)
(* _is_segment_valid() accepts it.                                          *)
Arrives ==
  pc = "ctcp_receive" /\ ~flipped =>
    /\ is_segment_valid(received)
    /\ IF web THEN /\ SubSeq(received, 1, 12) = SubSeq(segment, 1, 12)
                   /\ FlagsOf(received) = WithAck(FlagsOf(segment))
                   /\ DataOf(received) = DataOf(segment)
       ELSE received = segment

(* One flipped bit, in the window, the checksum or the data, never gets     *)
(* past _is_segment_valid(): this is what module CtcpSys takes for granted. *)
FlipIsDetected == pc = "ctcp_receive" /\ flipped => ~is_segment_valid(received)

(* The packet's TCP checksum is right for any TCP on the way exactly if the *)
(* segment's was.                                                           *)
WireAgrees == datagram # <<>> => (datagram.th_sum = cksum_tcp(datagram) <=> ~flipped)
=============================================================================
