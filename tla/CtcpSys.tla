------------------------------ MODULE CtcpSys ------------------------------
(***************************************************************************)
(* The library side of cTCP (ctcp_sys_internal.c) as ctcp.c sees it: the   *)
(* connection object of each host, its stdin and stdout, and the Unix      *)
(* datagram sockets between the client and the server, with the            *)
(* unreliability that conn_send() injects.  A call that a handler makes    *)
(* and goes on from is an operator whose value is the set of its possible  *)
(* outcomes; the handlers themselves are in module Ctcp.                   *)
(*                                                                         *)
(* Data are abstracted to positions: a piece of data is the interval of    *)
(* the sender's input it was read from.  ackno and window are left out of  *)
(* a segment because no code of ctcp.c reads them.                         *)
(***************************************************************************)
EXTENDS Integers, Sequences, FiniteSets, Functions, Sums

CONSTANTS
  Client, Server,  \* the two hosts of one connection
  NULL,            \* the C null pointer
  Input,           \* bytes that arrive on each host's stdin
  Eof,             \* how each host's stdin ends: "never", "once", "sticky"
  MSS,             \* MAX_BUFF_SIZE: most bytes read into one segment
  BufSpace,        \* MAX_BUF_SPACE: capacity of the output queue
  QueueLen,        \* datagrams a socket's receive queue holds
  Faults,          \* the faults each host's conn_send() injects
  MaxFaults,       \* bound on the injected faults; 1 is the tester's mode
  SlowStdout,      \* may write() to stdout take less than it is given?
  StdoutErr        \* may write() to stdout fail?

Host == {Client, Server}
Peer(h) == IF h = Client THEN Server ELSE Client
FaultKind == {"drop", "duplicate", "delay", "corrupt"}

ASSUME HostAssumption == Client # Server
ASSUME InputAssumption == Input \in [Host -> Nat]
ASSUME EofAssumption == Eof \in [Host -> {"never", "once", "sticky"}]
ASSUME SizeAssumption == /\ MSS \in Nat \ {0}
                         /\ BufSpace \in Nat \ {0}
                         /\ QueueLen \in Nat \ {0}
ASSUME FaultAssumption == /\ Faults \in [Host -> SUBSET FaultKind]
                          /\ MaxFaults \in Nat
ASSUME StdoutAssumption == SlowStdout \in BOOLEAN /\ StdoutErr \in BOOLEAN

(* len counts data bytes only; ok is false once a bit has been flipped, so  *)
(* that the checksum no longer matches.                                     *)
Flags == SUBSET {"ACK", "FIN"}
Segment == [flags : Flags, seqno : Nat, pos : Nat,
            len : Nat, ok : BOOLEAN]
(* sent_segment_attr: the segment kept for retransmission.                  *)
SegmentAttr == [segment : Segment, time : Nat, no_of_times : Nat]

ASSUME NullAssumption == NULL \notin Segment /\ NULL \notin SegmentAttr

VARIABLES
  state,  \* ctcp_state_t of each host (module Ctcp)
  conn,   \* conn_t of each host, and what became of its process
  net     \* sockets' receive queues, forked senders, faults so far

(* A piece of output: len bytes of the peer's input from position pos on.   *)
(* Position 0 stands for bytes that are nobody's input.                     *)
Piece == [pos : Nat, len : Nat]

Status == {"up", "removed", "exited", "crashed"}
Pieces == Seq(Piece)
Chunks == Seq(Nat)

(* conn_t.  nread: bytes read from stdin.  out: every piece conn_output()   *)
(* accepted; out_queue: sizes of the chunks not written to stdout yet;      *)
(* pollout: POLLOUT is requested for stdout.  tainted: ctcp_output() has    *)
(* used a segment it freed before.                                          *)
Conn == [nread : Nat, read_eof : BOOLEAN, wrote_eof : BOOLEAN,
         wrote_err : BOOLEAN, out : Pieces, out_queue : Chunks,
         pollout : BOOLEAN, tainted : BOOLEAN,
         status : Status]

ForkedSender == [pid : Nat, to : Host, segment : Segment]
Wires == [Host -> Seq(Segment)]
Forks == SUBSET ForkedSender
Net == [wire : Wires, forked : Forks, faults : Nat]

(* do_loop() has run once: stdout was writable and its POLLOUT is cleared.  *)
ConnInit == [nread |-> 0, read_eof |-> FALSE, wrote_eof |-> FALSE,
             wrote_err |-> FALSE, out |-> <<>>, out_queue |-> <<>>,
             pollout |-> FALSE, tainted |-> FALSE, status |-> "up"]
NetInit == [wire |-> [h \in Host |-> <<>>], forked |-> {}, faults |-> 0]

-----------------------------------------------------------------------------
(* Sending *)

Running(h) == conn[h].status \in {"up", "removed"}

(* A forked sender holds its parent's socket open after the parent is gone. *)
SocketOpen(h, n) == Running(h) \/ \E f \in n.forked : f.to = Peer(h)

(* sendto() on a non-blocking datagram socket: it fails when the receiver's *)
(* queue is full or nobody has the address; what is queued for a process    *)
(* that is gone is never read.                                              *)
send_pkt(to, n, segment) ==
  IF SocketOpen(to, n) /\ Len(n.wire[to]) < QueueLen
  THEN [rc |-> 0,
        n |-> IF Running(to)
              THEN [n EXCEPT !.wire[to] = Append(@, segment)] ELSE n]
  ELSE [rc |-> -1, n |-> n]

CanInject(h, n, kind) == kind \in Faults[h] /\ n.faults < MaxFaults
Spend(n) == [n EXCEPT !.faults = @ + 1]
When(condition, outcomes) == IF condition THEN outcomes ELSE {}

(* flipbit() hits the window, the checksum or the data, never the flags.    *)
(* The worst case is kept: the data are no longer the sender's input.       *)
flipbit(segment) == [segment EXCEPT !.ok = FALSE, !.pos = 0]

(* Segment corruption, the last stage: the bytes that leave the process.    *)
Corruption(h, n, segment) ==
  {[n |-> n, segment |-> segment]} \cup
  When(CanInject(h, n, "corrupt"),
       {[n |-> Spend(n), segment |-> flipbit(segment)]})

(* fork(): the child goes through the remaining stages by itself and sends  *)
(* when it is scheduled.  Forking is a fault, so faults numbers the child.  *)
Fork(h, n, segment) ==
  {[c.n EXCEPT !.forked = @ \cup
      {[pid |-> n.faults, to |-> Peer(h), segment |-> c.segment]}] :
     c \in Corruption(h, Spend(n), segment)}

(* Segment duplication: with or without a forked copy.                      *)
Duplication(h, n, segment) ==
  {n} \cup When(CanInject(h, n, "duplicate"), Fork(h, n, segment))

(* Segment delay (a child sends, the parent is done) or the send itself.    *)
DelayOrSend(h, n, segment) ==
  When(CanInject(h, n, "delay"),
       {[rc |-> 0, n |-> m] : m \in Fork(h, n, segment)}) \cup
  {send_pkt(Peer(h), c.n, c.segment) : c \in Corruption(h, n, segment)}

(* conn_send(): drop the segment, or duplicate, delay, corrupt and send it. *)
(* An outcome is the return code and the network.                           *)
conn_send(h, n, segment) ==
  When(CanInject(h, n, "drop"), {[rc |-> 0, n |-> Spend(n)]}) \cup
  UNION {DelayOrSend(h, m, segment) : m \in Duplication(h, n, segment)}

-----------------------------------------------------------------------------
(* Output *)

conn_bufspace_IgnoresQueue(c) == BufSpace
conn_bufspace(c) ==
  LET used == Total(c.out_queue)
  IN  IF used > BufSpace THEN 0 ELSE BufSpace - used

(* Numbers of bytes one write() of len bytes may take; 0 is EAGAIN.         *)
Written(len) == IF SlowStdout THEN 0..len ELSE {len}

(* conn_output() of a piece of data that fits: nothing after EOF, an error  *)
(* after an error, else what write() takes at once and the rest as a chunk. *)
conn_output(c, piece) ==
  IF c.wrote_eof THEN {[rc |-> 0, c |-> c]}
  ELSE IF c.wrote_err THEN {[rc |-> -1, c |-> c]}
  ELSE LET accepted(w) ==
             [c EXCEPT !.out = Append(@, piece),
                       !.out_queue = IF w < piece.len
                                     THEN Append(@, piece.len - w) ELSE @,
                       !.pollout = @ \/ c.out_queue # <<>> \/ w < piece.len]
       IN  {[rc |-> piece.len, c |-> accepted(w)] :
              w \in IF c.out_queue = <<>> THEN Written(piece.len) ELSE {0}}
           \cup When(StdoutErr /\ c.out_queue = <<>>,
                     {[rc |-> -1, c |-> [c EXCEPT !.wrote_err = TRUE]]})

(* conn_output() with length 0.                                             *)
output_eof(c) == [c EXCEPT !.wrote_eof = TRUE]

(* The write loop of conn_drain() has written k chunks whole.  outputted:   *)
(* some write() succeeded.                                                  *)
Rest(queue, k) == SubSeq(queue, k + 1, Len(queue))
Left(c, k, armed, err) == [c EXCEPT !.out_queue = Rest(@, k),
                                    !.pollout = armed, !.wrote_err = err]
LeftPartly(c, k, w) == [Left(c, k, TRUE, FALSE) EXCEPT !.out_queue[1] = @ - w]

(* Then the queue is empty, or write() answers EAGAIN and POLLOUT stays     *)
(* cleared, or it takes w bytes of the next chunk and POLLOUT is requested  *)
(* again, or it fails.                                                      *)
AllWritten(c) ==
  {[outputted |-> c.out_queue # <<>>, c |-> Left(c, Len(c.out_queue), FALSE, FALSE)]}
Blocked(c) == {[outputted |-> TRUE, c |-> Left(c, k, FALSE, FALSE)] :
                 k \in 1..(Len(c.out_queue) - 1)}
PartlyWritten(c) == UNION {{[outputted |-> TRUE, c |-> LeftPartly(c, k, w)] :
                              w \in 1..(c.out_queue[k+1] - 1)} :
                             k \in 0..(Len(c.out_queue) - 1)}
WriteFails(c) == {[outputted |-> k > 0, c |-> Left(c, k, FALSE, TRUE)] :
                    k \in 0..(Len(c.out_queue) - 1)}
DrainWrites(c) == AllWritten(c) \cup Blocked(c) \cup PartlyWritten(c) \cup
                  When(StdoutErr, WriteFails(c))

(* conn_drain() up to its call of ctcp_output().                            *)
conn_drain(c) ==
  IF c.wrote_err THEN {[outputted |-> FALSE, c |-> [c EXCEPT !.pollout = FALSE]]}
  ELSE {[d EXCEPT !.c.wrote_err = @ \/ (d.c.wrote_eof /\ d.c.out_queue = <<>>)] :
          d \in DrainWrites(c)}

-----------------------------------------------------------------------------
(* Input *)

(* Is stdin readable (POLLIN)?  A sticky end of file stays readable.        *)
StdinReady(h) ==
  \/ conn[h].nread < Input[h]
  \/ Eof[h] = "once" /\ ~conn[h].read_eof
  \/ Eof[h] = "sticky"

(* conn_input(): the next bytes, as many as there are up to MSS, or -1.     *)
conn_input(h) ==
  IF conn[h].nread < Input[h] /\ ~conn[h].read_eof
  THEN {[rc |-> len, c |-> [conn[h] EXCEPT !.nread = @ + len]] :
          len \in 1..(IF MSS < Input[h] - conn[h].nread
                      THEN MSS ELSE Input[h] - conn[h].nread)}
  ELSE {[rc |-> -1, c |-> [conn[h] EXCEPT !.read_eof = TRUE]]}

=============================================================================
