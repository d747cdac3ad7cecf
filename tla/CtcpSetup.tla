----------------------------- MODULE CtcpSetup -----------------------------
(***************************************************************************)
(* How clients and the server start, find each other and tell their        *)
(* packets apart: do_config() with the thread that cleans up after earlier *)
(* connections, tcp_handshake(), tcp_new_connection(), recv_filter() and   *)
(* the part of do_loop() that hands segments to ctcp.c.  A process may be  *)
(* killed and started again on its port.                                   *)
(*                                                                         *)
(* The server always uses Unix sockets (only do_config_server(), at a      *)
(* client, clears unix_socket), so these are modelled: queues that neither *)
(* lose nor reorder, with a blocking sendto() until setup_poll().  ctcp.c  *)
(* is any program that sends segments over its connection.  seqno and      *)
(* ackno of a packet record what ctcp.c has sent, 0 in the packets of the  *)
(* handshake: no code reads them.                                          *)
(***************************************************************************)
EXTENDS Integers, Sequences, Functions

CONSTANTS
  Client, Server,   \* the hosts, which stand for their ports too
  NULL,
  Long,             \* values of a uint32_t
  InitSeqno,        \* initial numbers that conn_setup() of each host may draw
  Numbers,          \* relative seqno and ackno of the segments of ctcp.c
  MaxNumClients,    \* MAX_NUM_CLIENTS
  QueueLen,         \* datagrams a socket's receive queue holds
  MaxSent,          \* bound on the segments of ctcp.c
  MaxStarts         \* bound on the processes started

Host == Client \cup {Server}
Uint32 == 0..(Long - 1)
Flags == {{"SYN"}, {"SYN", "ACK"}, {"ACK"}}
Datagram == [flags : Flags, port : Host, th_seq : Uint32, th_ack : Uint32,
             seqno : Uint32, ackno : Uint32]
(* next_seqno and ackno only serve to build the packets of the handshake.   *)
conn_t == [port : Host, init_seqno : Uint32, their_init_seqno : Uint32]
Segment == [seqno : Uint32, ackno : Uint32]
Handed == [to : Host, conn : conn_t, segment : Segment, pkt : Datagram]

ASSUME HostAssumption == Server \notin Client /\ NULL \notin Host
ASSUME NumberAssumption == /\ Long \in Nat \ {0, 1}
                           /\ InitSeqno \in [Host -> SUBSET Uint32]
                           /\ Numbers \subseteq [seqno : Uint32 \ {0}, ackno : Uint32 \ {0}]
ASSUME BoundAssumption == /\ MaxNumClients \in Nat /\ QueueLen \in Nat \ {0}
                          /\ MaxSent \in Nat /\ MaxStarts \in Nat
ASSUME NullAssumption == /\ NULL \notin Datagram /\ NULL \notin conn_t
                         /\ NULL \notin Handed /\ NULL \notin Seq(Datagram)

VARIABLES
  pc,              \* where each main thread is
  thread,          \* where each reset thread is
  handling_resets, \* of each process
  sock,            \* receive queue of each host's socket; NULL: not bound
  sconn,           \* each client's connection
  connections,     \* the server's connections, newest first
  num_connected,   \* connections the server has ever accepted
  new_connection,  \* port of the client that has just connected, or NULL
  run,             \* how often each host has been started
  sent,            \* segments sent by ctcp.c so far
  handed,          \* what ctcp_receive() has just been given, from which packet
  swallowed        \* the packet that do_loop() has just taken for a handshake's ACK

vars == <<pc, thread, handling_resets, sock, sconn, connections, num_connected,
          new_connection, run, sent, handed, swallowed>>
server == <<connections, num_connected, new_connection>>
resets == <<thread, handling_resets>>

Starting == {"do_config", "join", "tcp_handshake", "recv_filter"}

Init ==
  /\ pc = [h \in Host |-> "down"] /\ thread = [h \in Host |-> "ended"]
  /\ handling_resets = [h \in Host |-> FALSE]
  /\ sock = [h \in Host |-> NULL]
  /\ sconn = [c \in Client |-> NULL]
  /\ connections = <<>> /\ num_connected = 0 /\ new_connection = NULL
  /\ run = [h \in Host |-> 0] /\ sent = 0
  /\ handed = NULL /\ swallowed = NULL

(* Nothing is handed to ctcp.c, nothing swallowed.                          *)
Quiet == handed' = NULL /\ swallowed' = NULL

Goto(h, label) == pc' = [pc EXCEPT ![h] = label]

(* sendto(): a Unix socket takes a packet or, unbound or full, refuses it.  *)
Sent(s, h, pkt) == IF s[h] # NULL /\ Len(s[h]) < QueueLen
                   THEN [s EXCEPT ![h] = Append(@, pkt)] ELSE s
(* A blocking sendto() waits for room; it fails at an unbound address.      *)
MayReturn(s, h) == s[h] # NULL => Len(s[h]) < QueueLen
Received(h) == [sock EXCEPT ![h] = Tail(@)]

(* A packet of the handshake.                                               *)
create_tcp_seg(port, flags, next_seqno, ackno) ==
  [flags |-> flags, port |-> port, th_seq |-> next_seqno % Long, th_ack |-> ackno % Long,
   seqno |-> 0, ackno |-> 0]
send_tcp_conn_seg(s, dst, port, flags, next_seqno, ackno) ==
  Sent(s, dst, create_tcp_seg(port, flags, next_seqno, ackno))

conn_setup_ForgetsTheirs(port, init_seqno, their_init_seqno) ==
  [port |-> port, init_seqno |-> init_seqno, their_init_seqno |-> 0]
conn_setup(port, init_seqno, their_init_seqno) ==
  [port |-> port, init_seqno |-> init_seqno, their_init_seqno |-> their_init_seqno]

-----------------------------------------------------------------------------
(* do_config() and its thread *)

(* A client draws its number before it has a socket.                        *)
do_config_server(c) ==
  \E n \in InitSeqno[c] : sconn' = [sconn EXCEPT ![c] = conn_setup(Server, n, 0)]

MayStart == FoldFunction(+, 0, run) < MaxStarts

(* From main() to pthread_create(): bind() makes a new socket of the name.  *)
Start(h) ==
  /\ pc[h] = "down" /\ Goto(h, "do_config")
  /\ MayStart
  /\ run' = [run EXCEPT ![h] = @ + 1]
  /\ sock' = [sock EXCEPT ![h] = <<>>]
  /\ thread' = [thread EXCEPT ![h] = "recv"]
  /\ handling_resets' = [handling_resets EXCEPT ![h] = FALSE]
  /\ \/ h = Server /\ UNCHANGED sconn
     \/ h \in Client /\ do_config_server(h)
  /\ UNCHANGED <<server, sent>> /\ Quiet

(* sleep(), the loop on handling_resets and pthread_cancel(), which is      *)
(* deferred: the thread ends in its next recv() or sendto(), or goes on     *)
(* with what it had received before.                                        *)
do_config(h) ==
  /\ pc[h] = "do_config" /\ ~handling_resets[h] /\ Goto(h, "join")
  /\ UNCHANGED <<resets, sock, sconn, server, run, sent>> /\ Quiet

Joined(h) == pc[h] = "join" /\ thread[h] = "ended"
Join(h) ==
  /\ Joined(h) /\ Goto(h, IF h = Server THEN "do_loop" ELSE "tcp_handshake")
  /\ UNCHANGED <<resets, sock, sconn, server, run, sent>> /\ Quiet

(* send_resets().  The RST goes to an Internet address, which a Unix socket *)
(* refuses: the thread gives up after one packet.  It is cancelled long     *)
(* before its recv() would time out.                                        *)
GivesUp_KeepsFlag(h) ==
  /\ thread[h] = "break" /\ thread' = [thread EXCEPT ![h] = "ended"]
  /\ UNCHANGED <<handling_resets, sock>>
GivesUp(h) ==
  /\ thread[h] = "break" /\ thread' = [thread EXCEPT ![h] = "ended"]
  /\ handling_resets' = [handling_resets EXCEPT ![h] = FALSE]
  /\ UNCHANGED sock
send_resets(h) ==
  /\ \/ /\ thread[h] = "recv" /\ sock[h] # <<>>
        /\ thread' = [thread EXCEPT ![h] = "received"]
        /\ sock' = Received(h)
        /\ UNCHANGED handling_resets
     \/ /\ thread[h] = "received" /\ thread' = [thread EXCEPT ![h] = "sendto"]
        /\ handling_resets' = [handling_resets EXCEPT ![h] = TRUE]
        /\ UNCHANGED sock
     \/ /\ thread[h] = "sendto" /\ thread' = [thread EXCEPT ![h] = "break"]
        /\ UNCHANGED <<handling_resets, sock>>
     \/ GivesUp(h)
     \/ /\ thread[h] \in {"recv", "sendto"} /\ pc[h] = "join"
        /\ thread' = [thread EXCEPT ![h] = "ended"]
        /\ UNCHANGED <<handling_resets, sock>>
  /\ UNCHANGED <<pc, sconn, server, run, sent>> /\ Quiet

(* The process ends; its socket refuses packets, its memory is gone.  One   *)
(* is only killed while another may be started.                             *)
Exits(h) ==
  /\ Goto(h, "down")
  /\ thread' = [thread EXCEPT ![h] = "ended"]
  /\ \/ /\ h = Server
        /\ connections' = <<>> /\ num_connected' = 0 /\ new_connection' = NULL
        /\ UNCHANGED sconn
     \/ /\ h \in Client
        /\ sconn' = [sconn EXCEPT ![h] = NULL]
        /\ UNCHANGED server
  /\ UNCHANGED <<handling_resets, run, sent>> /\ Quiet
Killed(h) == pc[h] # "down" /\ MayStart /\ Exits(h) /\ sock' = [sock EXCEPT ![h] = NULL]

-----------------------------------------------------------------------------
(* The handshake *)

Matches_AnyPort(conn, pkt) == /\ pkt.th_seq >= conn.their_init_seqno
                              /\ pkt.th_ack >= conn.init_seqno
Matches(conn, pkt) == /\ conn.port = pkt.port
                      /\ pkt.th_seq >= conn.their_init_seqno
                      /\ pkt.th_ack >= conn.init_seqno

(* The newest connection that a packet, if no SYN, may belong to, or NULL.  *)
recv_filter(conns, pkt) ==
  LET hits == {i \in DOMAIN conns : Matches(conns[i], pkt)} IN
  IF "SYN" \in pkt.flags \/ hits = {} THEN NULL
  ELSE conns[CHOOSE i \in hits : \A j \in hits : i <= j]

send_syn(c) ==
  /\ pc[c] = "tcp_handshake" /\ MayReturn(sock, Server)
  /\ \/ /\ sock[Server] = NULL
        /\ Exits(c) /\ sock' = [sock EXCEPT ![c] = NULL]
     \/ /\ sock[Server] # NULL
        /\ sock' = send_tcp_conn_seg(sock, Server, c, {"SYN"}, sconn[c].init_seqno, 0)
        /\ Goto(c, "recv_filter")
        /\ UNCHANGED <<resets, sconn, server, run, sent>> /\ Quiet

(* The end of tcp_handshake() and of start_client().                        *)
Connects_TakesAckno(c, pkt) ==
  /\ "SYN" \in pkt.flags /\ MayReturn(sock, Server)
  /\ sconn' = [sconn EXCEPT ![c].their_init_seqno = pkt.th_ack]
  /\ sock' = send_tcp_conn_seg(Received(c), Server, c, {"ACK"},
                               sconn[c].init_seqno + 1, pkt.th_seq + 1)
Connects(c, pkt) ==
  /\ "SYN" \in pkt.flags /\ MayReturn(sock, Server)
  /\ sconn' = [sconn EXCEPT ![c].their_init_seqno = pkt.th_seq]
  /\ sock' = send_tcp_conn_seg(Received(c), Server, c, {"ACK"},
                               sconn[c].init_seqno + 1, pkt.th_seq + 1)

(* A packet of the previous connection: it is continued.                    *)
Continues(c, pkt) ==
  /\ recv_filter(<<sconn[c]>>, pkt) # NULL
  /\ sconn' = [sconn EXCEPT ![c].init_seqno = (pkt.th_ack - 1) % Long,
                            ![c].their_init_seqno = (pkt.th_seq - 1) % Long]
  /\ sock' = Received(c)

tcp_handshake(c) ==
  /\ pc[c] = "recv_filter" /\ sock[c] # <<>>
  /\ LET pkt == Head(sock[c]) IN
     \/ /\ Connects(c, pkt) \/ Continues(c, pkt)
        /\ Goto(c, "do_loop")
        /\ UNCHANGED <<resets, server, run, sent>> /\ Quiet
     \/ /\ "SYN" \notin pkt.flags /\ recv_filter(<<sconn[c]>>, pkt) = NULL
        /\ Exits(c) /\ sock' = [sock EXCEPT ![c] = NULL]

(* recv() times out after CONN_TIMEOUT.                                     *)
NoAnswer(c) ==
  /\ pc[c] = "recv_filter" /\ sock[c] = <<>>
  /\ Exits(c) /\ sock' = [sock EXCEPT ![c] = NULL]

conn_add(conn) == <<conn>> \o connections

AtLimit_OffByOne == num_connected > MaxNumClients
AtLimit == num_connected >= MaxNumClients
tcp_new_connection(pkt) ==
  \/ /\ AtLimit
     /\ sock' = Received(Server)
     /\ UNCHANGED <<connections, num_connected>>
  \/ /\ ~AtLimit
     /\ num_connected' = num_connected + 1
     /\ \E n \in InitSeqno[Server] :
          /\ connections' = conn_add(conn_setup(pkt.port, n, pkt.th_seq))
          /\ sock' = send_tcp_conn_seg(Received(Server), pkt.port, Server, {"SYN", "ACK"},
                                       n, pkt.th_seq + 1)

-----------------------------------------------------------------------------
(* do_loop() *)

convert_to_ctcp(conn, pkt) ==
  [seqno |-> (pkt.th_seq - conn.their_init_seqno) % Long,
   ackno |-> (pkt.th_ack - conn.init_seqno) % Long]

IsNewAck(conn, pkt) == /\ pkt.port = new_connection /\ "ACK" \in pkt.flags
                       /\ convert_to_ctcp(conn, pkt) = [seqno |-> 1, ackno |-> 1]

Hand(h, conn, pkt) ==
  /\ handed' = [to |-> h, conn |-> conn, segment |-> convert_to_ctcp(conn, pkt), pkt |-> pkt]
  /\ swallowed' = NULL

(* The ACK of the connection that is new; it is new no longer.              *)
Swallow_KeepsNew(pkt) == UNCHANGED new_connection /\ swallowed' = pkt /\ handed' = NULL
Swallow(pkt) == new_connection' = NULL /\ swallowed' = pkt /\ handed' = NULL

ServerReceives ==
  /\ pc[Server] = "do_loop" /\ sock[Server] # <<>>
  /\ LET pkt == Head(sock[Server])
         conn == recv_filter(connections, pkt)
     IN  \/ /\ conn # NULL /\ IsNewAck(conn, pkt) /\ Swallow(pkt)
            /\ sock' = Received(Server)
            /\ UNCHANGED <<connections, num_connected>>
         \/ /\ conn # NULL /\ ~IsNewAck(conn, pkt) /\ Hand(Server, conn, pkt)
            /\ sock' = Received(Server)
            /\ UNCHANGED server
         \/ /\ conn = NULL /\ "SYN" \in pkt.flags
            /\ tcp_new_connection(pkt)
            /\ new_connection' = pkt.port
            /\ Quiet
         \/ /\ conn = NULL /\ "SYN" \notin pkt.flags
            /\ sock' = Received(Server)
            /\ UNCHANGED <<server>> /\ Quiet
  /\ UNCHANGED <<pc, resets, sconn, run, sent>>

(* A SYN at a client fails the assertion of tcp_new_connection().           *)
ClientReceives(c) ==
  /\ pc[c] = "do_loop" /\ sock[c] # <<>>
  /\ LET pkt == Head(sock[c])
         conn == recv_filter(<<sconn[c]>>, pkt)
     IN  \/ /\ "SYN" \in pkt.flags
            /\ Exits(c) /\ sock' = [sock EXCEPT ![c] = NULL]
         \/ /\ "SYN" \notin pkt.flags
            /\ IF conn # NULL THEN Hand(c, conn, pkt) ELSE Quiet
            /\ sock' = Received(c)
            /\ UNCHANGED <<pc, resets, sconn, server, run, sent>>

(* ctcp.c sends a segment over a connection of h.                           *)
Send(h, conn) ==
  /\ pc[h] = "do_loop" /\ sent < MaxSent
  /\ sent' = sent + 1
  /\ \E s \in Numbers :
       sock' = Sent(sock, conn.port,
                    [flags |-> {"ACK"}, port |-> h,
                     th_seq |-> (s.seqno + conn.init_seqno) % Long,
                     th_ack |-> (s.ackno + conn.their_init_seqno) % Long,
                     seqno |-> s.seqno, ackno |-> s.ackno])
  /\ UNCHANGED <<pc, resets, sconn, server, run>> /\ Quiet

Next == \/ ServerReceives
        \/ \E conn \in Range(connections) : Send(Server, conn)
        \/ \E c \in Client : \/ send_syn(c) \/ tcp_handshake(c) \/ NoAnswer(c)
                             \/ ClientReceives(c)
                             \/ sconn[c] # NULL /\ Send(c, sconn[c])
        \/ \E h \in Host : Start(h) \/ do_config(h) \/ Join(h) \/ send_resets(h) \/ Killed(h)

Spec == Init /\ [][Next]_vars

(* Threads that can run do run; nobody has to start, kill or send.          *)
Fairness ==
  /\ WF_vars(ServerReceives)
  /\ \A h \in Host : WF_vars(do_config(h)) /\ WF_vars(Join(h)) /\ WF_vars(send_resets(h))
  /\ \A c \in Client : WF_vars(send_syn(c)) /\ WF_vars(tcp_handshake(c) \/ NoAnswer(c))
FairSpec == Spec /\ Fairness
-----------------------------------------------------------------------------
(* Properties *)

(* The processes keep their types; a socket is bound, and a client has a    *)
(* connection, exactly while the process runs; no socket's queue and no     *)
(* table of connections exceeds its limit.                                  *)
TypeOK ==
  /\ pc \in [Host -> Starting \cup {"down", "do_loop"}]
  /\ thread \in [Host -> {"recv", "received", "sendto", "break", "ended"}]
  /\ handling_resets \in [Host -> BOOLEAN]
  /\ sock \in [Host -> Seq(Datagram) \cup {NULL}]
  /\ \A h \in Host : (sock[h] = NULL) <=> (pc[h] = "down")
  /\ \A h \in Host : sock[h] # NULL => Len(sock[h]) <= QueueLen
  /\ sconn \in [Client -> conn_t \cup {NULL}]
  /\ \A c \in Client : (sconn[c] = NULL) <=> (pc[c] = "down")
  /\ connections \in Seq(conn_t) /\ num_connected \in 0..MaxNumClients
  /\ new_connection \in Client \cup {NULL}
  /\ run \in [Host -> Nat] /\ sent \in Nat
  /\ handed \in Handed \cup {NULL} /\ swallowed \in Datagram \cup {NULL}

(* A client that has connected and the server agree about both initial      *)
(* numbers, although neither checks them, however many clients connect,     *)
(* time out or are refused, as long as neither has been started twice.      *)
Accepted(c, n, theirs) == \E conn \in Range(connections) :
  conn.port = c /\ conn.init_seqno = n /\ conn.their_init_seqno = theirs
Agrees(c) == Accepted(c, sconn[c].their_init_seqno, sconn[c].init_seqno)
SetupAgrees ==
  \A c \in Client : /\ pc[c] = "do_loop" /\ run[c] = 1
                   /\ pc[Server] = "do_loop" /\ run[Server] = 1 => Agrees(c)

(* What ctcp_receive() is given has, for a client that runs the first time, *)
(* the relative numbers it was sent with, on the connection it was sent     *)
(* over, although recv_filter() only compares ports and ranges.             *)
ClientOf(h) == IF h.to = Server THEN h.pkt.port ELSE h.to
AsSent(pkt) == IF pkt.seqno = 0 THEN [seqno |-> 1, ackno |-> 1]
               ELSE [seqno |-> pkt.seqno, ackno |-> pkt.ackno]
HandedAsSent ==
  handed # NULL /\ run[ClientOf(handed)] = 1 =>
    /\ handed.conn.port = handed.pkt.port
    /\ handed.segment = AsSent(handed.pkt)

(* What do_loop() drops as the ACK of a new connection is that ACK, and not *)
(* the first segment, which has the same numbers (same condition).          *)
OnlyAcksAreSwallowed ==
  swallowed # NULL /\ run[swallowed.port] = 1 => swallowed.seqno = 0

(* What makes SetupAgrees inductive.  A thread ends before                  *)
(* do_config() returns; packets come from where their port says; a client   *)
(* that has not sent its SYN is unheard of; and while a client and the      *)
(* server run for the first time, a SYN and its answer carry the numbers    *)
(* of the two connections, and nothing overtakes the answer.                *)
Packets(q) == IF q = NULL THEN {} ELSE Range(q)

Threads == \A h \in Host : pc[h] \in {"do_config", "join"} \/ thread[h] = "ended"

Addressed == /\ \A p \in Packets(sock[Server]) : p.port \in Client
             /\ \A conn \in Range(connections) : conn.port \in Client
             /\ \A c \in Client : sconn[c] # NULL => sconn[c].port = Server

Unheard(c) == /\ \A p \in Packets(sock[Server]) : p.port # c
              /\ \A conn \in Range(connections) : conn.port # c

NotStarted ==
  /\ \A c \in Client : run[c] = 0 => pc[c] = "down" /\ Unheard(c)
  /\ pc[Server] = "down" => connections = <<>>
  /\ run[Server] = 0 => /\ pc[Server] = "down"
                        /\ \A c \in Client : /\ pc[c] \notin {"recv_filter", "do_loop"}
                                              /\ sock[c] \in {NULL, <<>>}

FirstRun(c) == /\ run[c] = 1 /\ pc[c] # "down"
               /\ run[Server] = 1 /\ pc[Server] # "down"

SynsAgree(c) ==
  /\ \A p \in Packets(sock[Server]) :
       p.port = c /\ "SYN" \in p.flags => p.th_seq = sconn[c].init_seqno
  /\ \A p \in Packets(sock[c]) :
       "SYN" \in p.flags => Accepted(c, p.th_seq, sconn[c].init_seqno)

AnswerComesFirst(c) ==
  /\ sock[c] # <<>> => "SYN" \in Head(sock[c]).flags
  /\ sock[c] = <<>> => \A conn \in Range(connections) : conn.port # c

HandshakeOf(c) ==
  /\ pc[c] \in {"do_config", "join", "tcp_handshake"} => Unheard(c) /\ sock[c] = <<>>
  /\ pc[c] \in {"recv_filter", "do_loop"} => SynsAgree(c)
  /\ pc[c] = "recv_filter" => AnswerComesFirst(c)
  /\ pc[c] = "do_loop" => Agrees(c)
FirstHandshake == \A c \in Client : FirstRun(c) => HandshakeOf(c)

SetupInv == TypeOK /\ Threads /\ Addressed /\ NotStarted /\ FirstHandshake

(* What makes HandedAsSent and OnlyAcksAreSwallowed inductive, for a client *)
(* that runs the first time, however often the server is started: its SYN   *)
(* is alone at the server; what is under way in either direction has, seen  *)
(* from the connection there, the numbers it was sent with; and as long as  *)
(* its connection is the new one, the ACK of the handshake comes first at   *)
(* the server, unless the initial numbers wrap around and it is dropped.    *)
Syn(pkt) == "SYN" \in pkt.flags
Queued(h) == IF sock[h] = NULL THEN <<>> ELSE sock[h]
Sees(conn, pkt) == /\ (pkt.th_seq - conn.their_init_seqno) % Long = AsSent(pkt).seqno
                   /\ (pkt.th_ack - conn.init_seqno) % Long = AsSent(pkt).ackno
Wraps(conn) == conn.init_seqno = Long - 1 \/ conn.their_init_seqno = Long - 1
Pairs(conn, n, theirs) == conn.init_seqno = theirs /\ conn.their_init_seqno = n

SynAlone(q, c) == \A i, j \in DOMAIN q :
  q[i].port = c /\ q[j].port = c /\ Syn(q[i]) => i = j
AckFirst(q, c) == \A i \in DOMAIN q :
  q[i].port = c => \E j \in 1..i : q[j].port = c /\ q[j].seqno = 0

(* The packets of c at the server, and its connections.                     *)
Mine(c) == {p \in Packets(sock[Server]) : p.port = c}
Conns(c) == {conn \in Range(connections) : conn.port = c}

NewAckFirst(c) ==
  new_connection = c /\ (\E conn \in Conns(c) : ~Wraps(conn))
    => AckFirst(Queued(Server), c) /\ (pc[c] = "do_loop" => Mine(c) # {})

Answered(c) ==
  LET r == Queued(c)
      n == sconn[c].init_seqno
  IN  /\ \A p \in Mine(c) : Syn(p) /\ p.th_seq = n /\ r = <<>>
      /\ \A conn \in Conns(c) : r # <<>> /\ Pairs(conn, n, Head(r).th_seq)
      /\ r # <<>> => /\ Syn(Head(r))
                     /\ \A p \in Range(Tail(r)) :
                          Sees([init_seqno |-> n, their_init_seqno |-> Head(r).th_seq], p)

Connected(c) ==
  /\ \A p \in Mine(c) : ~Syn(p)
  /\ \A conn \in Conns(c) : Pairs(conn, sconn[c].init_seqno, sconn[c].their_init_seqno)
  /\ \A p \in Range(Queued(c)) : Sees(sconn[c], p)

SessionOf(c) ==
  /\ SynAlone(Queued(Server), c)
  /\ \A p \in Mine(c) : IF Syn(p) THEN Conns(c) = {} ELSE \A conn \in Conns(c) : Sees(conn, p)
  /\ NewAckFirst(c)
  /\ pc[c] \in {"do_config", "join", "tcp_handshake"}
       => Mine(c) = {} /\ Conns(c) = {} /\ Queued(c) = <<>>
  /\ pc[c] = "recv_filter" => Answered(c)
  /\ pc[c] = "do_loop" => Connected(c)
SessionInv == /\ pc[Server] # "do_loop" => connections = <<>>
              /\ \A c \in Client : run[c] = 1 => SessionOf(c)

(* Whatever arrives meanwhile, do_config() and tcp_handshake() come to an   *)
(* end: the main thread does not spin on handling_resets for ever.          *)
SetupEnds == \A h \in Host : (pc[h] \in Starting) ~> (pc[h] \notin Starting)
=============================================================================
