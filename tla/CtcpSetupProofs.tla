-------------------------- MODULE CtcpSetupProofs --------------------------
(* Proofs about CtcpSetup: the reset thread leaves the socket alone once    *)
(* do_config() has returned, and after a first handshake both ends agree    *)
(* about the initial numbers, for any number of clients.                    *)
EXTENDS CtcpSetup, SumProofs, SequenceTheorems

Queue == Seq(Datagram) \cup {NULL}

(* A number modulo 2^32 is a uint32_t, and a uint32_t is its own remainder. *)
LEMMA Remainders ==
  /\ \A x \in Int : x % Long \in Uint32
  /\ \A x \in Uint32 : x % Long = x
<1>1. Long \in Nat /\ Long > 0
  BY NumberAssumption
<1> QED  BY <1>1 DEF Uint32

(* recv_filter() finds no connection or one of those it was given.          *)
LEMMA FilterFinds ==
  ASSUME NEW conns \in Seq(conn_t), NEW pkt
  PROVE  recv_filter(conns, pkt) = NULL \/ recv_filter(conns, pkt) \in Range(conns)
<1> DEFINE hits == {i \in DOMAIN conns : Matches(conns[i], pkt)}
           first == CHOOSE i \in hits : \A j \in hits : i <= j
<1>1. recv_filter(conns, pkt) = IF "SYN" \in pkt.flags \/ hits = {} THEN NULL
                                ELSE conns[first]
  BY DEF recv_filter
<1>2. hits \subseteq Nat /\ hits \subseteq DOMAIN conns
  OBVIOUS
<1>3. ASSUME hits # {} PROVE first \in hits
  <2> HIDE DEF hits
  <2> QED  BY <1>2, <1>3, Least
<1> HIDE DEF hits, first
<1> QED  BY <1>1, <1>2, <1>3 DEF Range

(* sendto() adds at most the packet, at the end, and leaves the queue that  *)
(* it was meant for with something in it.                                   *)
LEMMA SentFacts ==
  ASSUME NEW s \in [Host -> Queue], NEW h \in Host, NEW pkt \in Datagram
  PROVE  /\ Sent(s, h, pkt) \in [Host -> Queue]
         /\ \A g \in Host : g # h => Sent(s, h, pkt)[g] = s[g]
         /\ Sent(s, h, pkt)[h] = NULL <=> s[h] = NULL
         /\ Packets(Sent(s, h, pkt)[h]) \subseteq Packets(s[h]) \cup {pkt}
         /\ s[h] # NULL => Sent(s, h, pkt)[h] # <<>>
         /\ s[h] # NULL /\ s[h] # <<>> => Head(Sent(s, h, pkt)[h]) = Head(s[h])
         /\ s[h] = <<>> => Head(Sent(s, h, pkt)[h]) = pkt
         /\ s[h] # NULL /\ Len(s[h]) <= QueueLen => Len(Sent(s, h, pkt)[h]) <= QueueLen
<1> DEFINE t == Sent(s, h, pkt)
<1>0. QueueLen \in Nat /\ QueueLen > 0 /\ NULL \notin Seq(Datagram)
  BY BoundAssumption, NullAssumption
<1>1. CASE s[h] # NULL /\ Len(s[h]) < QueueLen
  <2>1. s[h] \in Seq(Datagram)
    BY <1>1 DEF Queue
  <2>2. t = [s EXCEPT ![h] = Append(@, pkt)]
    BY <1>1 DEF Sent
  <2>3. /\ t[h] = Append(s[h], pkt) /\ t[h] \in Seq(Datagram)
        /\ \A g \in Host : g # h => t[g] = s[g]
        /\ t \in [Host -> Queue]
    BY <2>1, <2>2 DEF Queue
  <2>4. /\ Len(t[h]) = Len(s[h]) + 1
        /\ \A i \in 1..Len(s[h]) : t[h][i] = s[h][i]
        /\ t[h][Len(s[h]) + 1] = pkt
    BY <2>1, <2>3
  <2>5. Range(t[h]) \subseteq Range(s[h]) \cup {pkt}
    BY <2>1, <2>3, <2>4 DEF Range
  <2>6. t[h] # NULL /\ t[h] # <<>>
    BY <1>0, <2>1, <2>3, <2>4
  <2>7. s[h] # <<>> => Head(t[h]) = Head(s[h])
    BY <2>1, <2>3, <2>4
  <2>8. s[h] = <<>> => Head(t[h]) = pkt
    BY <2>1, <2>3, <2>4
  <2>9. Len(s[h]) \in Nat /\ Len(t[h]) <= QueueLen
    BY <1>0, <1>1, <2>1, <2>4
  <2> HIDE DEF t
  <2>10. Packets(t[h]) \subseteq Packets(s[h]) \cup {pkt}
    BY <1>1, <2>5, <2>6 DEF Packets
  <2> QED  BY <1>1, <2>3, <2>6, <2>7, <2>8, <2>9, <2>10 DEF t
<1>2. CASE ~(s[h] # NULL /\ Len(s[h]) < QueueLen)
  <2>1. t = s
    BY <1>2 DEF Sent
  <2>2. s[h] # NULL => s[h] # <<>>
    BY <1>0, <1>2
  <2>3. <<>> \in Seq(Datagram)
    OBVIOUS
  <2>4. s[h] # <<>>
    BY <1>0, <2>2, <2>3
  <2> QED  BY <2>1, <2>2, <2>4 DEF Queue
<1> QED  BY <1>1, <1>2

(* The queues s as a packet to h leaves them, and as a recv() of h does.    *)
Delivers(s, t, h, pkt) ==
  /\ t \in [Host -> Queue]
  /\ \A g \in Host : /\ g # h => t[g] = s[g]
                     /\ t[g] = NULL <=> s[g] = NULL
                     /\ t[g] # NULL => Len(t[g]) <= QueueLen
  /\ Packets(t[h]) \subseteq Packets(s[h]) \cup {pkt}
  /\ s[h] # NULL => t[h] # <<>>
  /\ s[h] # NULL /\ s[h] # <<>> => Head(t[h]) = Head(s[h])
  /\ s[h] = <<>> => Head(t[h]) = pkt
Takes(s, t, h) ==
  /\ t \in [Host -> Queue]
  /\ \A g \in Host : /\ g # h => t[g] = s[g]
                     /\ t[g] = NULL <=> s[g] = NULL
                     /\ t[g] # NULL => Len(t[g]) <= QueueLen
  /\ Packets(t[h]) \subseteq Packets(s[h])
  /\ Head(s[h]) \in Packets(s[h]) /\ Head(s[h]) \in Datagram

LEMMA SentDelivers ==
  ASSUME NEW s \in [Host -> Queue], NEW h \in Host, NEW pkt \in Datagram,
         \A g \in Host : s[g] # NULL => Len(s[g]) <= QueueLen
  PROVE  Delivers(s, Sent(s, h, pkt), h, pkt)
<1> DEFINE t == Sent(s, h, pkt)
<1>1. /\ t \in [Host -> Queue]
      /\ \A g \in Host : g # h => t[g] = s[g]
      /\ t[h] = NULL <=> s[h] = NULL
      /\ Packets(t[h]) \subseteq Packets(s[h]) \cup {pkt}
      /\ s[h] # NULL => t[h] # <<>>
      /\ s[h] # NULL /\ s[h] # <<>> => Head(t[h]) = Head(s[h])
      /\ s[h] = <<>> => Head(t[h]) = pkt
      /\ s[h] # NULL /\ Len(s[h]) <= QueueLen => Len(t[h]) <= QueueLen
  BY SentFacts, ZenonT(30)
<1> HIDE DEF t
<1>2. \A g \in Host : t[g] = NULL <=> s[g] = NULL
  BY <1>1
<1>3. \A g \in Host : t[g] # NULL => Len(t[g]) <= QueueLen
  BY <1>1
<1>4. Delivers(s, t, h, pkt)
  BY <1>1, <1>2, <1>3, Zenon DEF Delivers
<1> QED  BY <1>4 DEF t

(* recv() takes the first packet of a queue away.                           *)
LEMMA ReceivedFacts ==
  ASSUME sock \in [Host -> Queue], NEW h \in Host, sock[h] # NULL, sock[h] # <<>>,
         \A g \in Host : sock[g] # NULL => Len(sock[g]) <= QueueLen
  PROVE  Takes(sock, Received(h), h)
<1>0. QueueLen \in Nat /\ NULL \notin Seq(Datagram)
  BY BoundAssumption, NullAssumption
<1>1. sock[h] \in Seq(Datagram)
  BY DEF Queue
<1>2. /\ Received(h) = [sock EXCEPT ![h] = Tail(@)]
      /\ Received(h)[h] = Tail(sock[h])
      /\ \A g \in Host : g # h => Received(h)[g] = sock[g]
  BY DEF Received
<1>3. /\ Tail(sock[h]) \in Seq(Datagram) /\ Len(Tail(sock[h])) = Len(sock[h]) - 1
      /\ Len(sock[h]) \in Nat
      /\ \A i \in 1..(Len(sock[h]) - 1) : Tail(sock[h])[i] = sock[h][i + 1]
  BY <1>1
<1>4. Range(Tail(sock[h])) \subseteq Range(sock[h])
  BY <1>1, <1>3 DEF Range
<1>5. Head(sock[h]) \in Range(sock[h]) /\ Head(sock[h]) \in Datagram
  BY <1>1 DEF Range
<1>6. Received(h) \in [Host -> Queue]
  BY <1>2, <1>3 DEF Queue
<1>7. Packets(Tail(sock[h])) \subseteq Packets(sock[h]) /\ Head(sock[h]) \in Packets(sock[h])
  BY <1>0, <1>3, <1>4, <1>5 DEF Packets
<1>8. \A g \in Host : /\ Received(h)[g] = NULL <=> sock[g] = NULL
                      /\ Received(h)[g] # NULL => Len(Received(h)[g]) <= QueueLen
  <2>1. Tail(sock[h]) # NULL /\ Len(Tail(sock[h])) <= QueueLen
    BY <1>0, <1>3
  <2> QED  BY <1>2, <2>1, Zenon
<1> QED  BY <1>2, <1>5, <1>6, <1>7, <1>8 DEF Takes

(* conn_add() adds one connection.                                          *)
LEMMA AddedFacts ==
  ASSUME NEW conn \in conn_t, connections \in Seq(conn_t)
  PROVE  /\ conn_add(conn) \in Seq(conn_t)
         /\ Range(conn_add(conn)) = {conn} \cup Range(connections)
<1> DEFINE t == conn_add(conn)
<1>1. t = <<conn>> \o connections /\ t \in Seq(conn_t)
  BY DEF conn_add
<1>2. /\ Len(t) = Len(connections) + 1 /\ Len(connections) \in Nat
      /\ t[1] = conn /\ \A i \in 1..Len(connections) : t[i + 1] = connections[i]
  BY <1>1
<1>3. DOMAIN t = 1..(Len(connections) + 1) /\ DOMAIN connections = 1..Len(connections)
  BY <1>1, <1>2
<1>4. \A j \in 1..(Len(connections) + 1) : j = 1 \/ (j - 1 \in 1..Len(connections) /\ t[j] = connections[j - 1])
  BY <1>2
<1> HIDE DEF t
<1>5. Range(t) \subseteq {conn} \cup Range(connections)
  BY <1>2, <1>3, <1>4 DEF Range
<1>6. \A i \in 1..Len(connections) : i + 1 \in 1..(Len(connections) + 1)
  BY <1>2
<1>7. conn \in Range(t) /\ Range(connections) \subseteq Range(t)
  BY <1>2, <1>3, <1>6 DEF Range
<1> QED  BY <1>1, <1>5, <1>7 DEF t

LEMMA NullFacts == /\ <<>> \in Seq(Datagram) /\ NULL # <<>>
                   /\ NULL \notin conn_t /\ NULL \notin Datagram
                   /\ NULL \notin Handed /\ NULL \notin Host
<1>1. <<>> \in Seq(Datagram)
  OBVIOUS
<1> QED  BY <1>1, NullAssumption, HostAssumption

LEMMA QueuesBounded ==
  ASSUME TypeOK
  PROVE  /\ sock \in [Host -> Queue]
         /\ \A g \in Host : sock[g] # NULL => Len(sock[g]) <= QueueLen
BY DEF TypeOK, Queue

LEMMA Hosts == /\ Server \in Host /\ Server \notin Client
               /\ \A c \in Client : c \in Host /\ c # Server
BY HostAssumption DEF Host

(* Packets and connections that are made have their types.                  *)
LEMMA Made ==
  /\ \A port \in Host, flags \in Flags, x, y \in Int :
       create_tcp_seg(port, flags, x, y) \in Datagram
  /\ \A port \in Host, x, y \in Uint32 : conn_setup(port, x, y) \in conn_t
<1>1. 0 \in Uint32
  BY NumberAssumption DEF Uint32
<1>2. \A x \in Int : x % Long \in Uint32
  BY Remainders
<1> QED  BY <1>1, <1>2 DEF create_tcp_seg, conn_setup, Datagram, conn_t

(* A step that leaves a client alone, and packets and connections with its  *)
(* port, keeps what is known of its handshake.                              *)
LEMMA SameForClient ==
  ASSUME NEW c \in Client, HandshakeOf(c),
         pc'[c] = pc[c], sock'[c] = sock[c], sconn'[c] = sconn[c],
         \A p \in Packets(sock'[Server]) : p.port = c => p \in Packets(sock[Server]),
         Range(connections) \subseteq Range(connections'),
         \A conn \in Range(connections') : conn.port = c => conn \in Range(connections)
  PROVE  HandshakeOf(c)'
<1>1. Unheard(c) => Unheard(c)'
  BY DEF Unheard
<1>2. SynsAgree(c) => SynsAgree(c)'
  BY DEF SynsAgree, Accepted
<1>3. AnswerComesFirst(c) => AnswerComesFirst(c)'
  BY DEF AnswerComesFirst
<1>4. Agrees(c) => Agrees(c)'
  BY DEF Agrees, Accepted
<1> QED  BY <1>1, <1>2, <1>3, <1>4 DEF HandshakeOf

LEMMA InitSetupInv == Init => SetupInv
<1> SUFFICES ASSUME Init PROVE SetupInv
  OBVIOUS
<1> USE Hosts
<1>1. TypeOK
  BY BoundAssumption DEF Init, TypeOK, Starting
<1>2. Packets(sock[Server]) = {} /\ Range(connections) = {}
  BY DEF Init, Packets, Range
<1>3. Threads /\ Addressed /\ NotStarted /\ FirstHandshake
  BY <1>2 DEF Init, Threads, Addressed, NotStarted, FirstHandshake, FirstRun, Unheard
<1> QED  BY <1>1, <1>3 DEF SetupInv

-----------------------------------------------------------------------------
(* The steps of do_config() and of its thread *)

LEMMA StartStep ==
  ASSUME SetupInv, NEW h \in Host, Start(h)
  PROVE  SetupInv'
<1> USE Hosts
<1>1. /\ TypeOK /\ Threads /\ Addressed /\ NotStarted /\ FirstHandshake
      /\ sock \in [Host -> Queue]
  BY DEF SetupInv, TypeOK, Queue
<1>2. /\ pc[h] = "down" /\ pc' = [pc EXCEPT ![h] = "do_config"]
      /\ run' = [run EXCEPT ![h] = @ + 1] /\ sock' = [sock EXCEPT ![h] = <<>>]
      /\ thread' = [thread EXCEPT ![h] = "recv"]
      /\ handling_resets' = [handling_resets EXCEPT ![h] = FALSE]
      /\ UNCHANGED <<connections, num_connected, new_connection, sent>>
      /\ handed' = NULL /\ swallowed' = NULL
  BY DEF Start, Goto, Quiet, server
<1>3. \/ h = Server /\ sconn' = sconn
      \/ /\ h \in Client
         /\ \E conn \in conn_t : conn.port = Server /\ sconn' = [sconn EXCEPT ![h] = conn]
  <2>1. CASE h = Server /\ UNCHANGED sconn
    BY <2>1
  <2>2. CASE h \in Client /\ do_config_server(h)
    <3>1. PICK n \in InitSeqno[h] : sconn' = [sconn EXCEPT ![h] = conn_setup(Server, n, 0)]
      BY <2>2 DEF do_config_server
    <3>2. n \in Uint32 /\ 0 \in Uint32
      BY NumberAssumption DEF Uint32
    <3>3. conn_setup(Server, n, 0) \in conn_t /\ conn_setup(Server, n, 0).port = Server
      BY <3>2, Made DEF conn_setup
    <3> QED  BY <2>2, <3>1, <3>3
  <2> QED  BY <2>1, <2>2 DEF Start
<1>4. /\ <<>> \in Seq(Datagram) /\ NULL # <<>> /\ NULL \notin conn_t
      /\ Len(<<>>) = 0 /\ QueueLen \in Nat /\ 0 <= QueueLen
  BY NullFacts, BoundAssumption
<1>5. TypeOK'
  <2>1. /\ pc' \in [Host -> Starting \cup {"down", "do_loop"}]
        /\ thread' \in [Host -> {"recv", "received", "sendto", "break", "ended"}]
        /\ handling_resets' \in [Host -> BOOLEAN]
    BY <1>1, <1>2 DEF TypeOK, Starting
  <2>2. sock' \in [Host -> Seq(Datagram) \cup {NULL}]
    BY <1>1, <1>2, <1>4 DEF Queue
  <2>3. \A g \in Host : (sock'[g] = NULL) <=> (pc'[g] = "down")
    BY <1>1, <1>2, <1>4 DEF TypeOK
  <2>4. \A g \in Host : sock'[g] # NULL => Len(sock'[g]) <= QueueLen
    BY <1>1, <1>2, <1>4 DEF TypeOK
  <2>5. sconn' \in [Client -> conn_t \cup {NULL}]
    BY <1>1, <1>3 DEF TypeOK
  <2>6. \A c \in Client : (sconn'[c] = NULL) <=> (pc'[c] = "down")
    BY <1>1, <1>2, <1>3, <1>4 DEF TypeOK
  <2>7. run' \in [Host -> Nat]
    BY <1>1, <1>2 DEF TypeOK
  <2> QED  BY <1>1, <1>2, <2>1, <2>2, <2>3, <2>4, <2>5, <2>6, <2>7 DEF TypeOK
<1>6. Packets(<<>>) = {}
  BY <1>4 DEF Packets, Range
<1>7. Threads'
  BY <1>1, <1>2 DEF Threads, TypeOK
<1>8. Packets(sock[Server])' \subseteq Packets(sock[Server])
  BY <1>1, <1>2, <1>6 DEF Packets, Range, TypeOK
<1>9. Addressed'
  BY <1>1, <1>2, <1>3, <1>8 DEF Addressed, TypeOK
<1>10. NotStarted'
  BY <1>1, <1>2, <1>6, <1>8 DEF NotStarted, Unheard, TypeOK
<1>11. FirstHandshake'
  <2> SUFFICES ASSUME NEW c \in Client, FirstRun(c)'
               PROVE  HandshakeOf(c)'
    BY DEF FirstHandshake
  <2>1. CASE h = c
    <3>1. run[c] = 0 /\ pc'[c] = "do_config" /\ sock'[c] = <<>>
      BY <1>1, <1>2, <2>1 DEF FirstRun, TypeOK
    <3> QED  BY <1>1, <1>2, <1>8, <3>1 DEF NotStarted, Unheard, HandshakeOf
  <2>2. CASE h = Server
    <3>1. run[Server] = 0 /\ pc[c] # "down" /\ pc'[c] = pc[c] /\ sock'[c] = sock[c]
      BY <1>1, <1>2, <2>2 DEF FirstRun, TypeOK
    <3>2. pc[c] \notin {"recv_filter", "do_loop"} /\ sock[c] = <<>>
      BY <1>1, <3>1 DEF NotStarted, TypeOK
    <3>3. Packets(sock'[Server]) = {} /\ Range(connections') = {}
      BY <1>1, <1>2, <1>6, <2>2 DEF NotStarted, Range
    <3> QED  BY <3>1, <3>2, <3>3 DEF Unheard, HandshakeOf
  <2>3. CASE h # c /\ h # Server
    <3>1. /\ FirstRun(c) /\ pc'[c] = pc[c] /\ sock'[c] = sock[c]
          /\ sock'[Server] = sock[Server] /\ sconn'[c] = sconn[c]
      BY <1>1, <1>2, <1>3, <2>3 DEF FirstRun, TypeOK
    <3> QED  BY <1>1, <1>2, <3>1, SameForClient DEF FirstHandshake
  <2> QED  BY <2>1, <2>2, <2>3
<1> QED  BY <1>5, <1>7, <1>9, <1>10, <1>11 DEF SetupInv

LEMMA ExitStep ==
  ASSUME SetupInv, NEW h \in Host, Exits(h), sock' = [sock EXCEPT ![h] = NULL]
  PROVE  SetupInv'
<1> USE Hosts
<1>1. TypeOK /\ Threads /\ Addressed /\ NotStarted /\ FirstHandshake
  BY DEF SetupInv
<1>2. /\ pc' = [pc EXCEPT ![h] = "down"] /\ thread' = [thread EXCEPT ![h] = "ended"]
      /\ UNCHANGED <<handling_resets, run, sent>>
      /\ handed' = NULL /\ swallowed' = NULL
  BY DEF Exits, Goto, Quiet
<1>3. \/ /\ h = Server /\ sconn' = sconn
         /\ connections' = <<>> /\ num_connected' = 0 /\ new_connection' = NULL
      \/ /\ h \in Client /\ sconn' = [sconn EXCEPT ![h] = NULL]
         /\ UNCHANGED <<connections, num_connected, new_connection>>
  BY DEF Exits, server
<1>4. TypeOK'
  <2>1. /\ pc' \in [Host -> Starting \cup {"down", "do_loop"}]
        /\ thread' \in [Host -> {"recv", "received", "sendto", "break", "ended"}]
        /\ sock' \in [Host -> Seq(Datagram) \cup {NULL}]
        /\ \A g \in Host : (sock'[g] = NULL) <=> (pc'[g] = "down")
        /\ \A g \in Host : sock'[g] # NULL => Len(sock'[g]) <= QueueLen
    BY <1>1, <1>2 DEF TypeOK
  <2>2. /\ sconn' \in [Client -> conn_t \cup {NULL}]
        /\ \A c \in Client : (sconn'[c] = NULL) <=> (pc'[c] = "down")
    BY <1>1, <1>2, <1>3 DEF TypeOK
  <2>3. /\ connections' \in Seq(conn_t) /\ num_connected' \in 0..MaxNumClients
        /\ new_connection' \in Client \cup {NULL}
    <3>1. <<>> \in Seq(conn_t) /\ 0 \in 0..MaxNumClients
      BY BoundAssumption
    <3>2. CASE h = Server
      BY <1>3, <3>1, <3>2
    <3>3. CASE h # Server
      BY <1>1, <1>3, <3>3 DEF TypeOK
    <3> QED  BY <3>2, <3>3
  <2> QED  BY <1>1, <1>2, <2>1, <2>2, <2>3 DEF TypeOK
<1>5. /\ Packets(NULL) = {} /\ Range(<<>>) = {}
      /\ Packets(sock'[Server]) \subseteq Packets(sock[Server])
      /\ Range(connections') \subseteq Range(connections)
  <2>1. Packets(NULL) = {} /\ Range(<<>>) = {}
    BY DEF Packets, Range
  <2>2. h = Server => sock'[Server] = NULL
    BY <1>1 DEF TypeOK
  <2>3. h # Server => sock'[Server] = sock[Server]
    BY <1>1 DEF TypeOK
  <2> QED  BY <1>3, <2>1, <2>2, <2>3
<1>6. Threads'
  BY <1>1, <1>2 DEF Threads, TypeOK
<1>7. Addressed'
  BY <1>1, <1>3, <1>5 DEF Addressed, TypeOK
<1>8. NotStarted'
  BY <1>1, <1>2, <1>3, <1>5 DEF NotStarted, Unheard, TypeOK
<1>9. ASSUME NEW c \in Client, FirstRun(c)' PROVE HandshakeOf(c)'
  <2>1. h # c /\ h # Server /\ FirstRun(c)
    BY <1>1, <1>2, <1>9 DEF FirstRun, TypeOK
  <2>2. /\ pc'[c] = pc[c] /\ sock'[c] = sock[c] /\ sconn'[c] = sconn[c]
        /\ connections' = connections
    BY <1>1, <1>2, <1>3, <2>1 DEF TypeOK
  <2> QED  BY <1>1, <1>5, <2>1, <2>2, SameForClient DEF FirstHandshake
<1> QED  BY <1>4, <1>6, <1>7, <1>8, <1>9 DEF SetupInv, FirstHandshake

(* do_config() waits, cancels and joins.                                    *)
LEMMA ConfigStep ==
  ASSUME SetupInv, NEW h \in Host, do_config(h) \/ Join(h)
  PROVE  SetupInv'
<1> USE Hosts
<1>1. TypeOK /\ Threads /\ Addressed /\ NotStarted /\ FirstHandshake
  BY DEF SetupInv
<1>2. /\ UNCHANGED <<thread, handling_resets, sock, sconn, connections, num_connected,
                     new_connection, run, sent>>
      /\ handed' = NULL /\ swallowed' = NULL
  BY DEF do_config, Join, Quiet, server, resets
<1>3. \/ pc[h] = "do_config" /\ pc' = [pc EXCEPT ![h] = "join"]
      \/ /\ pc[h] = "join" /\ thread[h] = "ended"
         /\ pc' = [pc EXCEPT ![h] = IF h = Server THEN "do_loop" ELSE "tcp_handshake"]
  BY DEF do_config, Join, Joined, Goto
<1>4. TypeOK'
  BY <1>1, <1>2, <1>3 DEF TypeOK, Starting
<1>5. Threads'
  BY <1>1, <1>2, <1>3 DEF Threads, TypeOK
<1>6. Addressed'
  BY <1>1, <1>2 DEF Addressed
<1>7. NotStarted'
  BY <1>1, <1>2, <1>3 DEF NotStarted, Unheard, TypeOK
<1>8. ASSUME NEW c \in Client, FirstRun(c)' PROVE HandshakeOf(c)'
  <2>1. FirstRun(c)
    BY <1>1, <1>2, <1>3, <1>8 DEF FirstRun, TypeOK
  <2>2. CASE h = c
    <3>1. Unheard(c) /\ sock[c] = <<>>
      BY <1>1, <1>3, <2>1, <2>2 DEF FirstHandshake, HandshakeOf
    <3>2. pc'[c] \in {"join", "tcp_handshake"}
      BY <1>1, <1>3, <2>2 DEF TypeOK
    <3> QED  BY <1>2, <3>1, <3>2 DEF HandshakeOf, Unheard
  <2>3. CASE h # c
    <3>1. pc'[c] = pc[c]
      BY <1>1, <1>3, <2>3 DEF TypeOK
    <3> QED  BY <1>1, <1>2, <2>1, <3>1, SameForClient DEF FirstHandshake
  <2> QED  BY <2>2, <2>3
<1> QED  BY <1>4, <1>5, <1>6, <1>7, <1>8 DEF SetupInv, FirstHandshake

LEMMA ResetStep ==
  ASSUME SetupInv, NEW h \in Host, send_resets(h)
  PROVE  SetupInv'
<1> USE Hosts
<1>1. /\ TypeOK /\ Threads /\ Addressed /\ NotStarted /\ FirstHandshake
      /\ sock \in [Host -> Queue]
  BY DEF SetupInv, TypeOK, Queue
<1>2. /\ UNCHANGED <<pc, sconn, connections, num_connected, new_connection, run, sent>>
      /\ handed' = NULL /\ swallowed' = NULL
  BY DEF send_resets, Quiet, server
<1>3. /\ thread[h] # "ended"
      /\ \E label \in {"received", "sendto", "break", "ended"} :
           thread' = [thread EXCEPT ![h] = label]
  BY DEF send_resets, GivesUp
<1>4. \/ handling_resets' = handling_resets
      \/ handling_resets' = [handling_resets EXCEPT ![h] = TRUE]
      \/ handling_resets' = [handling_resets EXCEPT ![h] = FALSE]
  BY DEF send_resets, GivesUp
<1>5. pc[h] \in {"do_config", "join"} /\ sock[h] # NULL
  BY <1>1, <1>3 DEF Threads, TypeOK
<1>6. sock' = sock \/ (sock[h] # <<>> /\ sock' = Received(h))
  BY DEF send_resets, GivesUp
<1>7. /\ sock' \in [Host -> Queue]
      /\ \A g \in Host : /\ g # h => sock'[g] = sock[g]
                         /\ sock'[g] = NULL <=> sock[g] = NULL
                         /\ Packets(sock'[g]) \subseteq Packets(sock[g])
                         /\ sock'[g] # NULL => Len(sock'[g]) <= QueueLen
      /\ sock[h] = <<>> => sock'[h] = <<>>
  <2>1. CASE sock' = sock
    BY <1>1, <2>1 DEF TypeOK
  <2>2. CASE sock[h] # <<>> /\ sock' = Received(h)
    <3>1. \A g \in Host : sock[g] # NULL => Len(sock[g]) <= QueueLen
      BY <1>1 DEF TypeOK
    <3>2. Takes(sock, sock', h)
      BY <1>1, <1>5, <2>2, <3>1, ReceivedFacts
    <3> QED  BY <2>2, <3>2 DEF Takes
  <2> QED  BY <1>6, <2>1, <2>2
<1>8. TypeOK'
  <2>1. handling_resets' \in [Host -> BOOLEAN]
    BY <1>1, <1>4 DEF TypeOK
  <2>2. thread' \in [Host -> {"recv", "received", "sendto", "break", "ended"}]
    BY <1>1, <1>3 DEF TypeOK
  <2> QED  BY <1>1, <1>2, <1>7, <2>1, <2>2 DEF TypeOK, Queue
<1>9. Threads'
  BY <1>1, <1>2, <1>3, <1>5 DEF Threads, TypeOK
<1>10. Addressed'
  BY <1>1, <1>2, <1>7 DEF Addressed
<1>11. NotStarted'
  <2>1. \A c \in Client : Unheard(c) => Unheard(c)'
    BY <1>2, <1>7 DEF Unheard
  <2>2. \A c \in Client : sock[c] \in {NULL, <<>>} => sock'[c] \in {NULL, <<>>}
    BY <1>7
  <2> QED  BY <1>1, <1>2, <2>1, <2>2 DEF NotStarted
<1>12. ASSUME NEW c \in Client, FirstRun(c)' PROVE HandshakeOf(c)'
  <2>1. FirstRun(c) /\ HandshakeOf(c)
    BY <1>1, <1>2, <1>12 DEF FirstRun, FirstHandshake
  <2>2. sock'[c] = sock[c]
    BY <1>5, <1>7, <2>1 DEF HandshakeOf
  <2> QED  BY <1>2, <1>7, <2>1, <2>2, SameForClient
<1> QED  BY <1>8, <1>9, <1>10, <1>11, <1>12 DEF SetupInv, FirstHandshake

-----------------------------------------------------------------------------
(* The steps of the handshake *)

LEMMA SynStep ==
  ASSUME SetupInv, NEW c \in Client, send_syn(c), sock[Server] # NULL
  PROVE  SetupInv'
<1> DEFINE syn == create_tcp_seg(c, {"SYN"}, sconn[c].init_seqno, 0)
<1> USE Hosts
<1>1. /\ TypeOK /\ Threads /\ Addressed /\ NotStarted /\ FirstHandshake
      /\ sock \in [Host -> Queue]
  BY DEF SetupInv, TypeOK, Queue
<1>2. /\ pc[c] = "tcp_handshake" /\ pc' = [pc EXCEPT ![c] = "recv_filter"]
      /\ sock' = Sent(sock, Server, syn)
      /\ UNCHANGED <<thread, handling_resets, sconn, connections, num_connected,
                     new_connection, run, sent>>
      /\ handed' = NULL /\ swallowed' = NULL
  BY DEF send_syn, send_tcp_conn_seg, Goto, Quiet, server, resets
<1>3. /\ syn \in Datagram /\ syn.port = c /\ syn.flags = {"SYN"}
      /\ syn.th_seq = sconn[c].init_seqno
  <2>1. sconn[c] \in conn_t /\ sconn[c].init_seqno \in Uint32
    BY <1>1, <1>2 DEF TypeOK, conn_t
  <2>2. sconn[c].init_seqno \in Int /\ sconn[c].init_seqno % Long = sconn[c].init_seqno
    BY <2>1, Remainders, NumberAssumption DEF Uint32
  <2>3. {"SYN"} \in Flags
    BY DEF Flags
  <2>4. syn \in Datagram
    BY <2>2, <2>3, Made
  <2> QED  BY <2>2, <2>4 DEF create_tcp_seg
<1> HIDE DEF syn
<1>4. Delivers(sock, sock', Server, syn)
  <2>1. \A g \in Host : sock[g] # NULL => Len(sock[g]) <= QueueLen
    BY <1>1 DEF TypeOK
  <2>2. Delivers(sock, Sent(sock, Server, syn), Server, syn)
    BY <1>1, <1>3, <2>1, SentDelivers
  <2> QED  BY <1>2, <2>2
<1>5. TypeOK'
  BY <1>1, <1>2, <1>4 DEF TypeOK, Starting, Queue, Delivers
<1>6. Threads'
  BY <1>1, <1>2 DEF Threads, TypeOK
<1>7. Addressed'
  BY <1>1, <1>2, <1>3, <1>4 DEF Addressed, Delivers
<1>8. NotStarted'
  <2>1. \A d \in Client : d # c /\ Unheard(d) => Unheard(d)'
    BY <1>2, <1>3, <1>4 DEF Unheard, Delivers
  <2>2. run[Server] # 0 /\ run[c] # 0
    BY <1>1, <1>2 DEF NotStarted, TypeOK
  <2> QED  BY <1>1, <1>2, <1>4, <2>1, <2>2 DEF NotStarted, TypeOK, Delivers
<1>9. ASSUME NEW d \in Client, FirstRun(d)' PROVE HandshakeOf(d)'
  <2>1. FirstRun(d) /\ HandshakeOf(d)
    BY <1>1, <1>2, <1>9 DEF FirstRun, FirstHandshake, TypeOK
  <2>2. CASE d = c
    <3>1. Unheard(c) /\ sock[c] = <<>> /\ pc'[c] = "recv_filter" /\ sock'[c] = <<>>
      BY <1>1, <1>2, <1>4, <2>1, <2>2 DEF HandshakeOf, TypeOK, Delivers
    <3>2. Packets(sock'[c]) = {}
      BY <3>1, NullFacts DEF Packets, Range
    <3>3. SynsAgree(c)'
      BY <1>2, <1>3, <1>4, <3>1, <3>2 DEF SynsAgree, Unheard, Delivers
    <3>4. AnswerComesFirst(c)'
      BY <1>2, <3>1 DEF AnswerComesFirst, Unheard
    <3> QED  BY <2>2, <3>1, <3>3, <3>4 DEF HandshakeOf
  <2>3. CASE d # c
    <3>1. pc'[d] = pc[d] /\ sock'[d] = sock[d]
      BY <1>1, <1>2, <1>4, <2>3 DEF TypeOK, Delivers
    <3>2. \A p \in Packets(sock'[Server]) : p.port = d => p \in Packets(sock[Server])
      BY <1>3, <1>4, <2>3 DEF Delivers
    <3> QED  BY <1>2, <2>1, <3>1, <3>2, SameForClient
  <2> QED  BY <2>2, <2>3
<1> QED  BY <1>5, <1>6, <1>7, <1>8, <1>9 DEF SetupInv, FirstHandshake

(* The SYN-ACK of a first handshake is the one for this client's SYN.       *)
LEMMA ConnectStep ==
  ASSUME SetupInv, NEW c \in Client, tcp_handshake(c), Connects(c, Head(sock[c])),
         pc' = [pc EXCEPT ![c] = "do_loop"],
         UNCHANGED <<thread, handling_resets, connections, num_connected,
                     new_connection, run, sent>>,
         handed' = NULL, swallowed' = NULL
  PROVE  SetupInv'
<1> DEFINE pkt == Head(sock[c])
           ack == create_tcp_seg(c, {"ACK"}, sconn[c].init_seqno + 1, pkt.th_seq + 1)
<1> USE Hosts
<1>1. /\ TypeOK /\ Threads /\ Addressed /\ NotStarted /\ FirstHandshake
      /\ pc[c] = "recv_filter" /\ sock[c] # <<>> /\ sock[c] # NULL
  BY DEF SetupInv, tcp_handshake, TypeOK
<1>2. Takes(sock, Received(c), c)
  BY <1>1, QueuesBounded, ReceivedFacts
<1>3. /\ pkt \in Datagram /\ pkt \in Packets(sock[c]) /\ "SYN" \in pkt.flags
      /\ pkt.th_seq \in Uint32
  BY <1>2 DEF Takes, Connects, Datagram
<1>4. /\ sconn' = [sconn EXCEPT ![c].their_init_seqno = pkt.th_seq]
      /\ sock' = Sent(Received(c), Server, ack)
  BY DEF Connects, send_tcp_conn_seg
<1>5. ack \in Datagram /\ ack.port = c /\ "SYN" \notin ack.flags
  <2>1. sconn[c] \in conn_t
    BY <1>1 DEF TypeOK
  <2>2. sconn[c].init_seqno + 1 \in Int /\ pkt.th_seq + 1 \in Int
    BY <1>3, <2>1, NumberAssumption DEF conn_t, Uint32
  <2>3. {"ACK"} \in Flags
    BY DEF Flags
  <2>4. ack \in Datagram
    BY <2>2, <2>3, Made
  <2> QED  BY <2>4 DEF create_tcp_seg
<1> HIDE DEF pkt, ack
<1>6. Delivers(Received(c), sock', Server, ack)
  <2>1. /\ Received(c) \in [Host -> Queue]
        /\ \A g \in Host : Received(c)[g] # NULL => Len(Received(c)[g]) <= QueueLen
    BY <1>2 DEF Takes
  <2>2. Delivers(Received(c), Sent(Received(c), Server, ack), Server, ack)
    BY <1>5, <2>1, SentDelivers
  <2> QED  BY <1>4, <2>2
<1>7. /\ sock' \in [Host -> Queue]
      /\ \A g \in Host : /\ g # c /\ g # Server => sock'[g] = sock[g]
                         /\ sock'[g] = NULL <=> sock[g] = NULL
                         /\ sock'[g] # NULL => Len(sock'[g]) <= QueueLen
      /\ Packets(sock'[c]) \subseteq Packets(sock[c])
      /\ Packets(sock'[Server]) \subseteq Packets(sock[Server]) \cup {ack}
  BY <1>2, <1>6 DEF Takes, Delivers
<1>8. /\ sconn' \in [Client -> conn_t \cup {NULL}] /\ sconn'[c] # NULL
      /\ \A d \in Client : d # c => sconn'[d] = sconn[d]
      /\ sconn'[c].port = sconn[c].port /\ sconn'[c].init_seqno = sconn[c].init_seqno
      /\ sconn'[c].their_init_seqno = pkt.th_seq
  <2>1. sconn \in [Client -> conn_t \cup {NULL}] /\ sconn[c] \in conn_t
    BY <1>1 DEF TypeOK
  <2>2. [sconn[c] EXCEPT !.their_init_seqno = pkt.th_seq] \in conn_t
    BY <1>3, <2>1 DEF conn_t
  <2>3. /\ sconn'[c] = [sconn[c] EXCEPT !.their_init_seqno = pkt.th_seq]
        /\ \A d \in Client : d # c => sconn'[d] = sconn[d]
        /\ sconn' \in [Client -> conn_t \cup {NULL}]
    BY <1>4, <2>1, <2>2
  <2> QED  BY <2>1, <2>2, <2>3, NullFacts DEF conn_t
<1>9. TypeOK'
  BY <1>1, <1>7, <1>8 DEF TypeOK, Starting, Queue
<1>10. Threads'
  BY <1>1 DEF Threads, TypeOK
<1>11. Addressed'
  <2>1. sconn[c] # NULL
    BY <1>1 DEF TypeOK
  <2>2. \A d \in Client : sconn'[d] # NULL => sconn'[d].port = Server
    BY <1>1, <1>8, <2>1 DEF Addressed
  <2> QED  BY <1>1, <1>5, <1>7, <2>2 DEF Addressed
<1>12. NotStarted'
  <2>1. \A d \in Client : d # c /\ Unheard(d) => Unheard(d)'
    BY <1>5, <1>7 DEF Unheard
  <2>2. run[Server] # 0 /\ run[c] # 0
    BY <1>1 DEF NotStarted
  <2> QED  BY <1>1, <2>1, <2>2 DEF NotStarted, TypeOK
<1>13. ASSUME NEW d \in Client, FirstRun(d)' PROVE HandshakeOf(d)'
  <2>1. FirstRun(d) /\ HandshakeOf(d)
    BY <1>1, <1>13 DEF FirstRun, FirstHandshake, TypeOK
  <2>2. CASE d = c
    <3>1. SynsAgree(c) /\ pc'[c] = "do_loop"
      BY <1>1, <2>1, <2>2 DEF HandshakeOf, TypeOK
    <3>2. Accepted(c, pkt.th_seq, sconn[c].init_seqno)
      BY <1>3, <3>1 DEF SynsAgree
    <3>3. Agrees(c)'
      BY <1>8, <3>2 DEF Agrees, Accepted
    <3>4. SynsAgree(c)'
      BY <1>5, <1>7, <1>8, <3>1 DEF SynsAgree, Accepted
    <3> QED  BY <2>2, <3>1, <3>3, <3>4 DEF HandshakeOf
  <2>3. CASE d # c
    <3>1. pc'[d] = pc[d] /\ sock'[d] = sock[d] /\ sconn'[d] = sconn[d]
      BY <1>1, <1>7, <1>8, <2>3 DEF TypeOK
    <3>2. \A p \in Packets(sock'[Server]) : p.port = d => p \in Packets(sock[Server])
      BY <1>5, <1>7, <2>3
    <3> QED  BY <2>1, <3>1, <3>2, SameForClient
  <2> QED  BY <2>2, <2>3
<1> QED  BY <1>9, <1>10, <1>11, <1>12, <1>13 DEF SetupInv, FirstHandshake

(* A first handshake never continues an earlier connection.                 *)
LEMMA ContinueStep ==
  ASSUME SetupInv, NEW c \in Client, tcp_handshake(c), Continues(c, Head(sock[c])),
         pc' = [pc EXCEPT ![c] = "do_loop"],
         UNCHANGED <<thread, handling_resets, connections, num_connected,
                     new_connection, run, sent>>,
         handed' = NULL, swallowed' = NULL
  PROVE  SetupInv'
<1> DEFINE pkt == Head(sock[c])
<1> USE Hosts
<1>1. /\ TypeOK /\ Threads /\ Addressed /\ NotStarted /\ FirstHandshake
      /\ pc[c] = "recv_filter" /\ sock[c] # <<>> /\ sock[c] # NULL
  BY DEF SetupInv, tcp_handshake, TypeOK
<1>2. Takes(sock, sock', c)
  <2>1. Takes(sock, Received(c), c)
    BY <1>1, QueuesBounded, ReceivedFacts
  <2> QED  BY <2>1 DEF Continues
<1>3. pkt \in Datagram /\ "SYN" \notin pkt.flags
  <2>1. recv_filter(<<sconn[c]>>, pkt) # NULL
    BY DEF Continues
  <2> QED  BY <1>2, <2>1 DEF Takes, recv_filter
<1>4. ~FirstRun(c)
  BY <1>1, <1>3 DEF FirstHandshake, HandshakeOf, AnswerComesFirst
<1>5. /\ sconn' \in [Client -> conn_t \cup {NULL}] /\ sconn'[c] # NULL
      /\ \A d \in Client : d # c => sconn'[d] = sconn[d]
      /\ sconn'[c].port = sconn[c].port
  <2> DEFINE x == (pkt.th_ack - 1) % Long
             y == (pkt.th_seq - 1) % Long
  <2>1. sconn \in [Client -> conn_t \cup {NULL}] /\ sconn[c] \in conn_t
    BY <1>1 DEF TypeOK
  <2>2. pkt.th_ack - 1 \in Int /\ pkt.th_seq - 1 \in Int
    BY <1>3, NumberAssumption DEF Datagram, Uint32
  <2>3. x \in Uint32 /\ y \in Uint32
    BY <2>2, Remainders
  <2>4. sconn' = [sconn EXCEPT ![c].init_seqno = x, ![c].their_init_seqno = y]
    BY DEF Continues
  <2> HIDE DEF x, y
  <2>5. [sconn[c] EXCEPT !.init_seqno = x, !.their_init_seqno = y] \in conn_t
    BY <2>1, <2>3 DEF conn_t
  <2>6. /\ sconn'[c] = [sconn[c] EXCEPT !.init_seqno = x, !.their_init_seqno = y]
        /\ \A d \in Client : d # c => sconn'[d] = sconn[d]
        /\ sconn' \in [Client -> conn_t \cup {NULL}]
    BY <2>1, <2>4, <2>5
  <2> QED  BY <2>1, <2>5, <2>6, NullFacts DEF conn_t
<1> HIDE DEF pkt
<1>6. TypeOK'
  BY <1>1, <1>2, <1>5 DEF TypeOK, Starting, Queue, Takes
<1>7. Threads'
  BY <1>1 DEF Threads, TypeOK
<1>8. sock'[Server] = sock[Server]
  BY <1>2 DEF Takes
<1>9. Addressed'
  <2>1. sconn[c] # NULL
    BY <1>1 DEF TypeOK
  <2>2. \A d \in Client : sconn'[d] # NULL => sconn'[d].port = Server
    BY <1>1, <1>5, <2>1 DEF Addressed
  <2> QED  BY <1>1, <1>8, <2>2 DEF Addressed
<1>10. NotStarted'
  BY <1>1, <1>8 DEF NotStarted, Unheard, TypeOK
<1>11. ASSUME NEW d \in Client, FirstRun(d)' PROVE HandshakeOf(d)'
  <2>1. FirstRun(d) /\ HandshakeOf(d)
    BY <1>1, <1>11 DEF FirstRun, FirstHandshake, TypeOK
  <2>2. d # c
    BY <1>4, <2>1
  <2>3. pc'[d] = pc[d] /\ sock'[d] = sock[d] /\ sconn'[d] = sconn[d]
    BY <1>1, <1>2, <1>5, <2>2 DEF TypeOK, Takes
  <2> QED  BY <1>8, <2>1, <2>3, SameForClient
<1> QED  BY <1>6, <1>7, <1>9, <1>10, <1>11 DEF SetupInv, FirstHandshake

-----------------------------------------------------------------------------
(* The steps of do_loop() *)

(* What is handed to ctcp.c has its type.                                   *)
LEMMA HandTyped ==
  ASSUME NEW h \in Host, NEW conn \in conn_t, NEW pkt \in Datagram, Hand(h, conn, pkt)
  PROVE  handed' \in Handed /\ swallowed' = NULL
<1>1. convert_to_ctcp(conn, pkt) \in Segment
  <2>1. /\ pkt.th_seq - conn.their_init_seqno \in Int
        /\ pkt.th_ack - conn.init_seqno \in Int
    BY NumberAssumption DEF Datagram, conn_t, Uint32
  <2> QED  BY <2>1, Remainders DEF convert_to_ctcp, Segment
<1> QED  BY <1>1 DEF Hand, Handed

(* recv() at a host that has nothing to do with its handshake any more.     *)
LEMMA TakeStep ==
  ASSUME SetupInv, NEW h \in Host, Takes(sock, sock', h), pc[h] = "do_loop",
         UNCHANGED <<pc, thread, handling_resets, sconn, connections, num_connected,
                     run, sent>>,
         new_connection' \in Client \cup {NULL},
         handed' \in Handed \cup {NULL}, swallowed' \in Datagram \cup {NULL}
  PROVE  SetupInv'
<1> USE Hosts
<1>1. TypeOK /\ Threads /\ Addressed /\ NotStarted /\ FirstHandshake
  BY DEF SetupInv
<1>2. \A g \in Host : Packets(sock'[g]) \subseteq Packets(sock[g])
  BY DEF Takes
<1>3. TypeOK'
  BY <1>1 DEF TypeOK, Takes, Queue
<1>4. Threads'
  BY <1>1 DEF Threads
<1>5. Addressed'
  BY <1>1, <1>2 DEF Addressed
<1>6. NotStarted'
  <2>1. \A c \in Client : Unheard(c) => Unheard(c)'
    BY <1>2 DEF Unheard
  <2>2. run[Server] # 0
    BY <1>1 DEF NotStarted, Host
  <2> QED  BY <1>1, <2>1, <2>2 DEF NotStarted
<1>7. ASSUME NEW c \in Client, FirstRun(c)' PROVE HandshakeOf(c)'
  <2>1. FirstRun(c) /\ HandshakeOf(c)
    BY <1>1, <1>7 DEF FirstRun, FirstHandshake
  <2>2. CASE h = c
    <3>1. SynsAgree(c) /\ Agrees(c)
      BY <2>1, <2>2 DEF HandshakeOf
    <3>2. SynsAgree(c)' /\ Agrees(c)'
      BY <1>2, <3>1 DEF SynsAgree, Agrees, Accepted
    <3> QED  BY <2>2, <3>2 DEF HandshakeOf
  <2>3. CASE h # c
    <3>1. sock'[c] = sock[c]
      BY <2>3 DEF Takes
    <3> QED  BY <1>2, <2>1, <3>1, SameForClient
  <2> QED  BY <2>2, <2>3
<1> QED  BY <1>3, <1>4, <1>5, <1>6, <1>7 DEF SetupInv, FirstHandshake

(* A connection that the server accepts has the numbers of the SYN, and its *)
(* answer is the first thing the client hears.                              *)
LEMMA AcceptStep ==
  ASSUME SetupInv, pc[Server] = "do_loop", sock[Server] # <<>>,
         "SYN" \in Head(sock[Server]).flags, ~AtLimit,
         tcp_new_connection(Head(sock[Server])),
         new_connection' = Head(sock[Server]).port,
         UNCHANGED <<pc, thread, handling_resets, sconn, run, sent>>,
         handed' = NULL, swallowed' = NULL
  PROVE  SetupInv'
<1> DEFINE pkt == Head(sock[Server])
           c == pkt.port
<1> USE Hosts
<1>1. /\ TypeOK /\ Threads /\ Addressed /\ NotStarted /\ FirstHandshake
      /\ sock[Server] # NULL
  BY DEF SetupInv, TypeOK
<1>2. Takes(sock, Received(Server), Server)
  BY <1>1, QueuesBounded, ReceivedFacts
<1>3. /\ pkt \in Datagram /\ pkt \in Packets(sock[Server])
      /\ pkt.th_seq \in Uint32 /\ c \in Client
  BY <1>1, <1>2 DEF Takes, Addressed, Datagram
<1>4. PICK n \in InitSeqno[Server] :
        /\ connections' = conn_add(conn_setup(c, n, pkt.th_seq))
        /\ sock' = Sent(Received(Server), c,
                        create_tcp_seg(Server, {"SYN", "ACK"}, n, pkt.th_seq + 1))
  BY DEF tcp_new_connection, send_tcp_conn_seg
<1> DEFINE conn == conn_setup(c, n, pkt.th_seq)
           synack == create_tcp_seg(Server, {"SYN", "ACK"}, n, pkt.th_seq + 1)
<1>5. n \in Uint32 /\ n \in Int /\ pkt.th_seq + 1 \in Int
  BY <1>3, NumberAssumption DEF Uint32
<1>6. synack \in Datagram /\ synack.th_seq = n /\ "SYN" \in synack.flags
  <2>1. {"SYN", "ACK"} \in Flags
    BY DEF Flags
  <2>2. synack \in Datagram
    BY <1>5, <2>1, Made
  <2>3. n % Long = n
    BY <1>5, Remainders
  <2> QED  BY <2>2, <2>3 DEF create_tcp_seg
<1>7. conn \in conn_t /\ conn.port = c
  BY <1>3, <1>5, Made DEF conn_setup
<1> HIDE DEF synack
<1>8. Delivers(Received(Server), sock', c, synack)
  <2>1. /\ Received(Server) \in [Host -> Queue]
        /\ \A g \in Host : Received(Server)[g] # NULL => Len(Received(Server)[g]) <= QueueLen
    BY <1>2 DEF Takes
  <2>2. Delivers(Received(Server), Sent(Received(Server), c, synack), c, synack)
    BY <1>3, <1>6, <2>1, SentDelivers
  <2> QED  BY <1>4, <2>2 DEF synack
<1>9. connections' \in Seq(conn_t) /\ Range(connections') = {conn} \cup Range(connections)
  <2>1. connections \in Seq(conn_t)
    BY <1>1 DEF TypeOK
  <2> HIDE DEF conn
  <2>2. conn_add(conn) \in Seq(conn_t) /\ Range(conn_add(conn)) = {conn} \cup Range(connections)
    BY <1>7, <2>1, AddedFacts
  <2> QED  BY <1>4, <2>2 DEF conn
<1>10. /\ sock' \in [Host -> Queue]
       /\ \A g \in Host : /\ g # c /\ g # Server => sock'[g] = sock[g]
                          /\ sock'[g] = NULL <=> sock[g] = NULL
                          /\ sock'[g] # NULL => Len(sock'[g]) <= QueueLen
       /\ Packets(sock'[c]) \subseteq Packets(sock[c]) \cup {synack}
       /\ Packets(sock'[Server]) \subseteq Packets(sock[Server])
       /\ sock[c] # NULL => sock'[c] # <<>>
       /\ sock[c] # NULL /\ sock[c] # <<>> => Head(sock'[c]) = Head(sock[c])
       /\ sock[c] = <<>> => Head(sock'[c]) = synack
  BY <1>2, <1>3, <1>8 DEF Takes, Delivers
<1> HIDE DEF conn, pkt
<1>11. num_connected' \in 0..MaxNumClients /\ new_connection' \in Client
  <2>1. num_connected' = num_connected + 1 /\ ~(num_connected >= MaxNumClients)
    BY DEF tcp_new_connection, AtLimit
  <2> QED  BY <1>1, <1>3, <2>1, BoundAssumption DEF TypeOK, pkt
<1>12. TypeOK'
  BY <1>1, <1>9, <1>10, <1>11 DEF TypeOK, Queue
<1>13. Threads'
  BY <1>1 DEF Threads
<1>14. Addressed'
  BY <1>1, <1>3, <1>7, <1>9, <1>10 DEF Addressed
<1>15. NotStarted'
  <2>1. \A d \in Client : Unheard(d) => d # c /\ Unheard(d)'
    BY <1>3, <1>7, <1>9, <1>10 DEF Unheard
  <2>2. run[Server] # 0
    BY <1>1 DEF NotStarted
  <2> QED  BY <1>1, <2>1, <2>2 DEF NotStarted
<1>16. ASSUME NEW d \in Client, FirstRun(d)' PROVE HandshakeOf(d)'
  <2>1. FirstRun(d) /\ HandshakeOf(d)
    BY <1>1, <1>16 DEF FirstRun, FirstHandshake
  <2>2. CASE d = c
    <3>0. /\ pkt.port = d /\ pkt \in Packets(sock[Server]) /\ "SYN" \in pkt.flags
          /\ Packets(sock'[d]) \subseteq Packets(sock[d]) \cup {synack}
          /\ Packets(sock'[Server]) \subseteq Packets(sock[Server])
          /\ sock[d] # NULL => sock'[d] # <<>>
          /\ sock[d] # NULL /\ sock[d] # <<>> => Head(sock'[d]) = Head(sock[d])
          /\ sock[d] = <<>> => Head(sock'[d]) = synack
      BY <1>3, <1>10, <2>2 DEF pkt
    <3>1. pc[d] \in {"recv_filter", "do_loop"} /\ SynsAgree(d) /\ sock[d] # NULL
      BY <1>1, <2>1, <3>0 DEF HandshakeOf, Unheard, FirstRun, TypeOK, Starting
    <3>2. pkt.th_seq = sconn[d].init_seqno
      BY <3>0, <3>1 DEF SynsAgree
    <3>3. \E k \in Range(connections') : /\ k.port = d /\ k.init_seqno = synack.th_seq
                                          /\ k.their_init_seqno = sconn[d].init_seqno
      <4>1. /\ conn.port = d /\ conn.init_seqno = n
            /\ conn.their_init_seqno = pkt.th_seq
        BY <2>2 DEF conn, conn_setup
      <4>2. conn \in Range(connections')
        BY <1>9
      <4> QED  BY <1>6, <3>2, <4>1, <4>2
    <3>4. SynsAgree(d)'
      <4>1. \A p \in Packets(sock'[Server]) :
              p.port = d /\ "SYN" \in p.flags => p.th_seq = sconn'[d].init_seqno
        BY <3>0, <3>1 DEF SynsAgree
      <4>2. \A p \in Packets(sock'[d]) : "SYN" \in p.flags
              => \E k \in Range(connections') :
                   /\ k.port = d /\ k.init_seqno = p.th_seq
                   /\ k.their_init_seqno = sconn'[d].init_seqno
        BY <1>9, <3>0, <3>1, <3>3 DEF SynsAgree, Accepted
      <4> QED  BY <4>1, <4>2 DEF SynsAgree, Accepted
    <3>5. AnswerComesFirst(d) => AnswerComesFirst(d)'
      BY <1>6, <3>0, <3>1 DEF AnswerComesFirst
    <3>6. Agrees(d) => Agrees(d)'
      BY <1>9 DEF Agrees, Accepted
    <3> QED  BY <2>1, <3>1, <3>4, <3>5, <3>6 DEF HandshakeOf
  <2>3. CASE d # c
    <3>1. sock'[d] = sock[d]
      BY <1>10, <2>3
    <3>2. /\ Range(connections) \subseteq Range(connections')
          /\ \A k \in Range(connections') : k.port = d => k \in Range(connections)
      BY <1>7, <1>9, <2>3
    <3> QED  BY <1>10, <2>1, <3>1, <3>2, SameForClient
  <2> QED  BY <2>2, <2>3
<1> QED  BY <1>12, <1>13, <1>14, <1>15, <1>16 DEF SetupInv, FirstHandshake

(* A segment of ctcp.c goes to a host that has been heard of and is no SYN. *)
LEMMA SegmentStep ==
  ASSUME SetupInv, NEW h \in Host, NEW dst \in Host, NEW pkt \in Datagram,
         pkt.port = h, "SYN" \notin pkt.flags, pc[h] = "do_loop",
         \/ h \in Client /\ dst = Server
         \/ /\ h = Server /\ dst \in Client
            /\ \E conn \in Range(connections) : conn.port = dst,
         sock' = Sent(sock, dst, pkt), sent' \in Nat,
         UNCHANGED <<pc, thread, handling_resets, sconn, connections, num_connected,
                     new_connection, run>>,
         handed' = NULL, swallowed' = NULL
  PROVE  SetupInv'
<1> USE Hosts
<1>1. TypeOK /\ Threads /\ Addressed /\ NotStarted /\ FirstHandshake
  BY DEF SetupInv
<1>2. Delivers(sock, sock', dst, pkt)
  <2>1. Delivers(sock, Sent(sock, dst, pkt), dst, pkt)
    BY <1>1, QueuesBounded, SentDelivers
  <2> QED  BY <2>1
<1>3. TypeOK'
  BY <1>1, <1>2 DEF TypeOK, Delivers, Queue
<1>4. Threads'
  BY <1>1 DEF Threads
<1>5. \A p \in Packets(sock'[Server]) : p \in Packets(sock[Server]) \/ (p = pkt /\ h \in Client)
  BY <1>2 DEF Delivers
<1>6. Addressed'
  BY <1>1, <1>5 DEF Addressed
<1>7. NotStarted'
  <2>1. run[Server] # 0 /\ run[h] # 0
    BY <1>1 DEF NotStarted
  <2>2. \A d \in Client : run[d] = 0 => Unheard(d)'
    BY <1>1, <1>5, <2>1 DEF NotStarted, Unheard
  <2> QED  BY <1>1, <2>1, <2>2 DEF NotStarted
<1>8. ASSUME NEW d \in Client, FirstRun(d)' PROVE HandshakeOf(d)'
  <2>1. FirstRun(d) /\ HandshakeOf(d)
    BY <1>1, <1>8 DEF FirstRun, FirstHandshake
  <2>2. CASE d = dst
    <3>1. h = Server /\ \E conn \in Range(connections) : conn.port = d
      BY <2>2
    <3>2. /\ sock'[Server] = sock[Server] /\ sock[d] # NULL
          /\ Packets(sock'[d]) \subseteq Packets(sock[d]) \cup {pkt}
          /\ sock'[d] # <<>>
          /\ sock[d] # <<>> => Head(sock'[d]) = Head(sock[d])
      BY <1>1, <1>2, <2>1, <2>2 DEF Delivers, FirstRun, TypeOK
    <3>3. pc[d] \in {"recv_filter", "do_loop"} /\ SynsAgree(d)
      BY <1>1, <2>1, <3>1 DEF HandshakeOf, Unheard, FirstRun, TypeOK, Starting
    <3>4. SynsAgree(d)'
      BY <3>2, <3>3 DEF SynsAgree, Accepted
    <3>5. AnswerComesFirst(d) => AnswerComesFirst(d)'
      BY <3>1, <3>2 DEF AnswerComesFirst
    <3>6. Agrees(d) => Agrees(d)'
      BY DEF Agrees, Accepted
    <3> QED  BY <2>1, <3>3, <3>4, <3>5, <3>6 DEF HandshakeOf
  <2>3. CASE d = h
    <3>1. /\ sock'[d] = sock[d]
          /\ Packets(sock'[Server]) \subseteq Packets(sock[Server]) \cup {pkt}
      BY <1>2, <2>3 DEF Delivers
    <3>2. pc[d] = "do_loop" /\ SynsAgree(d) /\ Agrees(d)
      BY <2>1, <2>3 DEF HandshakeOf
    <3>3. SynsAgree(d)' /\ Agrees(d)'
      BY <3>1, <3>2 DEF SynsAgree, Agrees, Accepted
    <3> QED  BY <3>2, <3>3 DEF HandshakeOf
  <2>4. CASE d # dst /\ d # h
    <3>1. sock'[d] = sock[d]
      BY <1>2, <2>4 DEF Delivers
    <3>2. \A p \in Packets(sock'[Server]) : p.port = d => p \in Packets(sock[Server])
      BY <1>5, <2>4
    <3> QED  BY <2>1, <3>1, <3>2, SameForClient
  <2> QED  BY <2>2, <2>3, <2>4
<1> QED  BY <1>3, <1>4, <1>6, <1>7, <1>8 DEF SetupInv, FirstHandshake

LEMMA SendStep ==
  ASSUME SetupInv, NEW h \in Host, NEW conn \in conn_t, Send(h, conn),
         \/ h \in Client /\ conn.port = Server
         \/ h = Server /\ conn.port \in Client /\ conn \in Range(connections)
  PROVE  SetupInv'
<1> USE Hosts
<1>1. /\ pc[h] = "do_loop" /\ sent' = sent + 1
      /\ UNCHANGED <<pc, thread, handling_resets, sconn, connections, num_connected,
                     new_connection, run>>
      /\ handed' = NULL /\ swallowed' = NULL
  BY DEF Send, resets, server, Quiet
<1>2. PICK s \in Numbers :
        sock' = Sent(sock, conn.port,
                     [flags |-> {"ACK"}, port |-> h,
                      th_seq |-> (s.seqno + conn.init_seqno) % Long,
                      th_ack |-> (s.ackno + conn.their_init_seqno) % Long,
                      seqno |-> s.seqno, ackno |-> s.ackno])
  BY DEF Send
<1> DEFINE x == (s.seqno + conn.init_seqno) % Long
           y == (s.ackno + conn.their_init_seqno) % Long
           pkt == [flags |-> {"ACK"}, port |-> h, th_seq |-> x, th_ack |-> y,
                   seqno |-> s.seqno, ackno |-> s.ackno]
<1>3. s.seqno \in Uint32 /\ s.ackno \in Uint32
  BY NumberAssumption
<1>4. x \in Uint32 /\ y \in Uint32
  <2>1. s.seqno + conn.init_seqno \in Int /\ s.ackno + conn.their_init_seqno \in Int
    BY <1>3, NumberAssumption DEF conn_t, Uint32
  <2> QED  BY <2>1, Remainders
<1>5. sock' = Sent(sock, conn.port, pkt)
  BY <1>2
<1> HIDE DEF x, y
<1>6. pkt \in Datagram /\ pkt.port = h /\ "SYN" \notin pkt.flags
  BY <1>3, <1>4 DEF Datagram, Flags
<1>7. sent' \in Nat
  BY <1>1 DEF SetupInv, TypeOK
<1>8. conn.port \in Host
  BY DEF conn_t
<1> HIDE DEF pkt
<1> QED  BY <1>1, <1>5, <1>6, <1>7, <1>8, SegmentStep

LEMMA ClientSendStep ==
  ASSUME SetupInv, NEW c \in Client, sconn[c] # NULL, Send(c, sconn[c])
  PROVE  SetupInv'
<1>1. sconn[c] \in conn_t /\ sconn[c].port = Server
  BY DEF SetupInv, TypeOK, Addressed
<1> QED  BY <1>1, SendStep, Hosts

LEMMA ServerSendStep ==
  ASSUME SetupInv, NEW conn \in Range(connections), Send(Server, conn)
  PROVE  SetupInv'
<1>1. conn \in conn_t /\ conn.port \in Client
  BY DEF SetupInv, TypeOK, Addressed, Range
<1> QED  BY <1>1, SendStep, Hosts

(* Each way a packet ends at the server.                                    *)
LEMMA ServerReceivesStep ==
  ASSUME SetupInv, ServerReceives
  PROVE  SetupInv'
<1> DEFINE pkt == Head(sock[Server])
           conn == recv_filter(connections, pkt)
<1> USE Hosts
<1>1. /\ TypeOK /\ pc[Server] = "do_loop" /\ sock[Server] # <<>> /\ sock[Server] # NULL
      /\ UNCHANGED <<pc, thread, handling_resets, sconn, run, sent>>
  BY DEF SetupInv, TypeOK, ServerReceives, resets
<1>2. Takes(sock, Received(Server), Server)
  BY <1>1, QueuesBounded, ReceivedFacts
<1>3. pkt \in Datagram /\ pkt.port \in Client
  BY <1>2 DEF Takes, SetupInv, Addressed
<1>4. conn = NULL \/ conn \in conn_t
  <2>1. connections \in Seq(conn_t)
    BY <1>1 DEF TypeOK
  <2>2. conn = NULL \/ conn \in Range(connections)
    BY <2>1, FilterFinds
  <2> QED  BY <2>1, <2>2 DEF Range
<1>5. CASE conn # NULL /\ Swallow(pkt) /\ sock' = Received(Server)
           /\ UNCHANGED <<connections, num_connected>>
  BY <1>1, <1>2, <1>3, <1>5, TakeStep DEF Swallow
<1>6. CASE conn # NULL /\ Hand(Server, conn, pkt) /\ sock' = Received(Server)
           /\ UNCHANGED server
  <2>1. handed' \in Handed /\ swallowed' = NULL
    BY <1>3, <1>4, <1>6, HandTyped
  <2>2. new_connection' \in Client \cup {NULL}
    BY <1>1, <1>6 DEF TypeOK, server
  <2> QED  BY <1>1, <1>2, <1>6, <2>1, <2>2, TakeStep DEF server
<1>7. CASE "SYN" \in pkt.flags /\ tcp_new_connection(pkt) /\ new_connection' = pkt.port /\ Quiet
  <2>1. CASE AtLimit
    <3>1. sock' = Received(Server) /\ UNCHANGED <<connections, num_connected>>
      BY <1>7, <2>1 DEF tcp_new_connection
    <3> QED  BY <1>1, <1>2, <1>3, <1>7, <3>1, TakeStep DEF Quiet
  <2>2. CASE ~AtLimit
    BY <1>1, <1>7, <2>2, AcceptStep DEF Quiet
  <2> QED  BY <2>1, <2>2
<1>8. CASE sock' = Received(Server) /\ UNCHANGED server /\ Quiet
  <2>1. new_connection' \in Client \cup {NULL}
    BY <1>1, <1>8 DEF TypeOK, server
  <2> QED  BY <1>1, <1>2, <1>8, <2>1, TakeStep DEF Quiet, server
<1> QED  BY <1>5, <1>6, <1>7, <1>8 DEF ServerReceives

LEMMA ClientReceivesStep ==
  ASSUME SetupInv, NEW c \in Client, ClientReceives(c)
  PROVE  SetupInv'
<1> DEFINE pkt == Head(sock[c])
           conn == recv_filter(<<sconn[c]>>, pkt)
<1> USE Hosts
<1>1. /\ TypeOK /\ pc[c] = "do_loop" /\ sock[c] # <<>> /\ sock[c] # NULL
  BY DEF SetupInv, TypeOK, ClientReceives
<1>2. Takes(sock, Received(c), c)
  BY <1>1, QueuesBounded, ReceivedFacts
<1>3. CASE Exits(c) /\ sock' = [sock EXCEPT ![c] = NULL]
  BY <1>3, ExitStep
<1>4. CASE /\ IF conn # NULL THEN Hand(c, conn, pkt) ELSE Quiet
           /\ sock' = Received(c)
           /\ UNCHANGED <<pc, resets, sconn, server, run, sent>>
  <2>1. <<sconn[c]>> \in Seq(conn_t) /\ Range(<<sconn[c]>>) = {sconn[c]} /\ sconn[c] \in conn_t
    BY <1>1 DEF TypeOK, Range
  <2>2. conn = NULL \/ conn \in conn_t
    BY <2>1, FilterFinds
  <2>3. pkt \in Datagram
    BY <1>2 DEF Takes
  <2>4. handed' \in Handed \cup {NULL} /\ swallowed' = NULL
    <3>1. CASE conn # NULL
      <4>1. conn \in conn_t /\ Hand(c, conn, pkt)
        BY <1>4, <2>2, <3>1
      <4> QED  BY <2>3, <4>1, HandTyped
    <3>2. CASE conn = NULL
      BY <1>4, <3>2 DEF Quiet
    <3> QED  BY <3>1, <3>2
  <2>5. new_connection' \in Client \cup {NULL}
    BY <1>1, <1>4 DEF TypeOK, server
  <2> QED  BY <1>1, <1>2, <1>4, <2>4, <2>5, TakeStep DEF server, resets
<1> QED  BY <1>3, <1>4 DEF ClientReceives

-----------------------------------------------------------------------------
(* The theorems *)

LEMMA HandshakeStep ==
  ASSUME SetupInv, NEW c \in Client,
         send_syn(c) \/ tcp_handshake(c) \/ NoAnswer(c)
  PROVE  SetupInv'
<1> USE Hosts
<1>1. CASE Exits(c) /\ sock' = [sock EXCEPT ![c] = NULL]
  BY <1>1, ExitStep
<1>2. CASE send_syn(c)
  BY <1>1, <1>2, SynStep DEF send_syn
<1>3. CASE tcp_handshake(c)
  <2>1. CASE /\ Connects(c, Head(sock[c])) \/ Continues(c, Head(sock[c]))
             /\ Goto(c, "do_loop")
             /\ UNCHANGED <<resets, server, run, sent>> /\ Quiet
    BY <1>3, <2>1, ConnectStep, ContinueStep DEF Goto, resets, server, Quiet
  <2> QED  BY <1>1, <1>3, <2>1 DEF tcp_handshake
<1>4. CASE NoAnswer(c)
  BY <1>1, <1>4 DEF NoAnswer
<1> QED  BY <1>2, <1>3, <1>4

LEMMA UnchangedStep ==
  ASSUME SetupInv, UNCHANGED vars
  PROVE  SetupInv'
<1>1. /\ TypeOK' /\ Threads' /\ Addressed' /\ NotStarted'
  BY DEF vars, SetupInv, TypeOK, Threads, Addressed, NotStarted, Unheard
<1>2. FirstHandshake'
  BY DEF vars, SetupInv, FirstHandshake, FirstRun, HandshakeOf, Unheard, SynsAgree,
         AnswerComesFirst, Agrees, Accepted
<1> QED  BY <1>1, <1>2 DEF SetupInv

LEMMA SetupStep ==
  ASSUME SetupInv, [Next]_vars
  PROVE  SetupInv'
<1>1. CASE ServerReceives
  BY <1>1, ServerReceivesStep
<1>2. CASE \E conn \in Range(connections) : Send(Server, conn)
  BY <1>2, ServerSendStep
<1>3. ASSUME NEW c \in Client, send_syn(c) \/ tcp_handshake(c) \/ NoAnswer(c)
      PROVE  SetupInv'
  BY <1>3, HandshakeStep
<1>4. ASSUME NEW c \in Client, ClientReceives(c) PROVE SetupInv'
  BY <1>4, ClientReceivesStep
<1>5. ASSUME NEW c \in Client, sconn[c] # NULL /\ Send(c, sconn[c]) PROVE SetupInv'
  BY <1>5, ClientSendStep
<1>6. ASSUME NEW h \in Host, Start(h) PROVE SetupInv'
  BY <1>6, StartStep
<1>7. ASSUME NEW h \in Host, do_config(h) \/ Join(h) PROVE SetupInv'
  BY <1>7, ConfigStep
<1>8. ASSUME NEW h \in Host, send_resets(h) PROVE SetupInv'
  BY <1>8, ResetStep
<1>9. ASSUME NEW h \in Host, Killed(h) PROVE SetupInv'
  BY <1>9, ExitStep DEF Killed
<1>10. CASE UNCHANGED vars
  BY <1>10, UnchangedStep
<1> QED  BY <1>1, <1>2, <1>3, <1>4, <1>5, <1>6, <1>7, <1>8, <1>9, <1>10 DEF Next

(* For any number of clients, starts and kills, the threads, the packets on *)
(* their way and the connections of the two ends stay as SetupInv says:     *)
(* tcp_handshake() and tcp_new_connection() on top of do_config().          *)
THEOREM SetupInvariant == Spec => []SetupInv
<1>1. Init => SetupInv
  BY InitSetupInv
<1>2. SetupInv /\ [Next]_vars => SetupInv'
  BY SetupStep
<1> QED  BY <1>1, <1>2, PTL DEF Spec

(* Sockets are bound exactly while their process runs and hold no more than *)
(* QueueLen packets, and the server never counts beyond MAX_NUM_CLIENTS.    *)
THEOREM SetupTypeCorrect == Spec => []TypeOK
<1>1. SetupInv => TypeOK
  BY DEF SetupInv
<1> QED  BY <1>1, SetupInvariant, PTL

(* tcp_handshake() and tcp_new_connection() leave a client and the server   *)
(* with the same initial numbers, although the client takes any SYN for the *)
(* answer to its own.                                                       *)
THEOREM HandshakeAgrees == Spec => []SetupAgrees
<1>1. SetupInv => SetupAgrees
  BY DEF SetupInv, SetupAgrees, FirstHandshake, FirstRun, HandshakeOf
<1> QED  BY <1>1, SetupInvariant, PTL
-----------------------------------------------------------------------------
(* Sessions: what recv_filter() and do_loop() make of a client's packets *)

(* recv_filter() finds a connection that matches, if there is one.          *)
LEMMA FilterMatches ==
  ASSUME NEW conns \in Seq(conn_t), NEW pkt
  PROVE  /\ recv_filter(conns, pkt) # NULL
              => /\ recv_filter(conns, pkt) \in Range(conns) /\ ~Syn(pkt)
                 /\ Matches(recv_filter(conns, pkt), pkt)
         /\ recv_filter(conns, pkt) = NULL /\ ~Syn(pkt)
              => \A conn \in Range(conns) : ~Matches(conn, pkt)
<1> DEFINE hits == {i \in DOMAIN conns : Matches(conns[i], pkt)}
           first == CHOOSE i \in hits : \A j \in hits : i <= j
<1>1. recv_filter(conns, pkt) = IF "SYN" \in pkt.flags \/ hits = {} THEN NULL
                                ELSE conns[first]
  BY DEF recv_filter
<1>2. hits \subseteq Nat /\ hits \subseteq DOMAIN conns
  OBVIOUS
<1>3. ASSUME hits # {} PROVE first \in hits
  <2> HIDE DEF hits
  <2> QED  BY <1>2, <1>3, Least
<1>4. \A i \in hits : i \in DOMAIN conns /\ Matches(conns[i], pkt)
  OBVIOUS
<1>5. \A conn \in Range(conns) : Matches(conn, pkt) => hits # {}
  BY DEF Range
<1>6. \A i \in DOMAIN conns : conns[i] \in Range(conns) /\ conns[i] \in conn_t
  BY DEF Range
<1>7. NULL \notin conn_t
  BY NullFacts
<1> HIDE DEF hits, first
<1>8. recv_filter(conns, pkt) # NULL
        => hits # {} /\ "SYN" \notin pkt.flags /\ recv_filter(conns, pkt) = conns[first]
  BY <1>1
<1>9. recv_filter(conns, pkt) = NULL => "SYN" \in pkt.flags \/ hits = {}
  BY <1>1, <1>3, <1>4, <1>6, <1>7
<1> QED  BY <1>3, <1>4, <1>5, <1>6, <1>8, <1>9 DEF Syn

(* Numbers relative to an initial number, added and taken off again.        *)
LEMMA Relative ==
  ASSUME NEW a \in Uint32, NEW b \in Uint32
  PROVE  /\ (((a + b) % Long) - b) % Long = a
         /\ (((b + 1) % Long) - b) % Long = 1
<1>1. Long \in Nat /\ Long > 1 /\ a \in 0..(Long - 1) /\ b \in 0..(Long - 1)
  BY NumberAssumption DEF Uint32
<1>2. \A x \in Int : /\ x \in 0..(Long - 1) => x % Long = x
                     /\ x \in Long..(2 * Long - 1) => x % Long = x - Long
                     /\ x \in (-Long)..(-1) => x % Long = x + Long
  <2>1. \A x \in Int : x \in 0..(Long - 1) => x % Long = x
    BY <1>1
  <2>2. \A x \in Int : x \in Long..(2 * Long - 1) => x % Long = x - Long
    BY <1>1
  <2>3. \A x \in Int : x \in (-Long)..(-1) => x % Long = x + Long
    BY <1>1
  <2> QED  BY <2>1, <2>2, <2>3
<1>3. \A c \in 0..(Long - 1) : (((c + b) % Long) - b) % Long = c
  <2> TAKE c \in 0..(Long - 1)
  <2>1. CASE c + b < Long
    <3>1. (c + b) % Long = c + b
      BY <1>1, <1>2, <2>1
    <3> QED  BY <1>1, <1>2, <3>1
  <2>2. CASE c + b >= Long
    <3>1. (c + b) % Long = c + b - Long
      BY <1>1, <1>2, <2>2
    <3>2. ((c + b) % Long) - b = c - Long /\ c - Long \in (-Long)..(-1)
      BY <1>1, <3>1
    <3>3. (c - Long) % Long = c - Long + Long
      BY <1>1, <1>2, <3>2
    <3> QED  BY <1>1, <3>2, <3>3
  <2> QED  BY <1>1, <2>1, <2>2
<1>4. 1 \in 0..(Long - 1) /\ 1 + b = b + 1
  BY <1>1
<1>5. (((1 + b) % Long) - b) % Long = 1
  BY <1>3, <1>4
<1> QED  BY <1>1, <1>3, <1>4, <1>5

(* One more than an initial number is above it unless that is the largest. *)
LEMMA OneMore ==
  ASSUME NEW a \in Uint32, NEW b \in Uint32, (a - b) % Long = 1
  PROVE  a >= b <=> b # Long - 1
<1>1. Long \in Nat /\ Long > 1 /\ a \in 0..(Long - 1) /\ b \in 0..(Long - 1)
  BY NumberAssumption DEF Uint32
<1>2. CASE a >= b
  <2>1. (a - b) % Long = a - b
    BY <1>1, <1>2
  <2> QED  BY <1>1, <1>2, <2>1
<1>3. CASE a < b
  <2>1. (a - b) % Long = a - b + Long
    BY <1>1, <1>3
  <2> QED  BY <1>1, <1>3, <2>1
<1> QED  BY <1>1, <1>2, <1>3

(* SYNs and the ACK of a handshake in a queue that grows and shrinks.       *)
LEMMA EmptyQueue ==
  ASSUME NEW c, NEW q \in Seq(Datagram), \A p \in Range(q) : p.port # c
  PROVE  SynAlone(q, c) /\ AckFirst(q, c)
BY DEF SynAlone, AckFirst, Range

LEMMA SynAppended ==
  ASSUME NEW c, NEW q \in Seq(Datagram), NEW pkt \in Datagram, SynAlone(q, c),
         \/ pkt.port # c
         \/ \A p \in Range(q) : p.port # c
         \/ ~Syn(pkt) /\ \A p \in Range(q) : p.port = c => ~Syn(p)
  PROVE  SynAlone(Append(q, pkt), c)
<1> DEFINE t == Append(q, pkt)
<1>1. /\ DOMAIN t = 1..(Len(q) + 1) /\ DOMAIN q = 1..Len(q) /\ Len(q) \in Nat
      /\ \A i \in 1..Len(q) : t[i] = q[i] /\ q[i] \in Range(q)
      /\ t[Len(q) + 1] = pkt
  BY DEF Range
<1> HIDE DEF t
<1>2. SUFFICES ASSUME NEW i \in DOMAIN t, NEW j \in DOMAIN t,
                      t[i].port = c, t[j].port = c, Syn(t[i])
               PROVE  i = j
  BY DEF SynAlone, t
<1>3. (i \in 1..Len(q) \/ i = Len(q) + 1) /\ (j \in 1..Len(q) \/ j = Len(q) + 1)
  BY <1>1
<1>4. CASE i \in 1..Len(q) /\ j \in 1..Len(q)
  BY <1>1, <1>2, <1>4 DEF SynAlone
<1>5. CASE i \in 1..Len(q) /\ j = Len(q) + 1
  BY <1>1, <1>2, <1>5
<1>6. CASE i = Len(q) + 1 /\ j \in 1..Len(q)
  BY <1>1, <1>2, <1>6
<1> QED  BY <1>3, <1>4, <1>5, <1>6

LEMMA AckAppended ==
  ASSUME NEW c, NEW q \in Seq(Datagram), NEW pkt \in Datagram, AckFirst(q, c),
         pkt.port # c \/ pkt.seqno = 0 \/ \E p \in Range(q) : p.port = c
  PROVE  AckFirst(Append(q, pkt), c)
<1> DEFINE t == Append(q, pkt)
<1>1. /\ DOMAIN t = 1..(Len(q) + 1) /\ DOMAIN q = 1..Len(q) /\ Len(q) \in Nat
      /\ \A i \in 1..Len(q) : t[i] = q[i]
      /\ t[Len(q) + 1] = pkt
  OBVIOUS
<1> HIDE DEF t
<1>2. SUFFICES ASSUME NEW i \in DOMAIN t, t[i].port = c
               PROVE  \E j \in 1..i : t[j].port = c /\ t[j].seqno = 0
  BY DEF AckFirst, t
<1>3. \A k \in 1..Len(q) : q[k].port = c => \E j \in 1..k : q[j].port = c /\ q[j].seqno = 0
  BY <1>1 DEF AckFirst
<1>4. CASE \E k \in 1..Len(q) : k <= i /\ q[k].port = c
  <2>1. PICK k \in 1..Len(q) : k <= i /\ q[k].port = c
    BY <1>4
  <2>2. PICK j \in 1..k : q[j].port = c /\ q[j].seqno = 0
    BY <1>3, <2>1
  <2>3. j \in 1..Len(q) /\ j \in 1..i
    BY <1>1, <2>1, <2>2
  <2> QED  BY <1>1, <2>2, <2>3
<1>5. CASE i = Len(q) + 1 /\ pkt.seqno = 0
  BY <1>1, <1>2, <1>5
<1>6. CASE i = Len(q) + 1 /\ \E p \in Range(q) : p.port = c
  <2>1. PICK k \in 1..Len(q) : q[k].port = c
    BY <1>1, <1>6 DEF Range
  <2> QED  BY <1>1, <1>4, <1>6, <2>1
<1>7. CASE i \in 1..Len(q)
  BY <1>1, <1>2, <1>4, <1>7
<1> QED  BY <1>1, <1>2, <1>5, <1>6, <1>7

LEMMA QueueTail ==
  ASSUME NEW c, NEW q \in Seq(Datagram), q # <<>>
  PROVE  /\ SynAlone(q, c) => SynAlone(Tail(q), c)
         /\ SynAlone(q, c) /\ Head(q).port = c /\ Syn(Head(q))
              => \A p \in Range(Tail(q)) : p.port # c
         /\ AckFirst(q, c) /\ Head(q).port # c => AckFirst(Tail(q), c)
         /\ AckFirst(q, c) /\ Head(q).port = c => Head(q).seqno = 0
<1> DEFINE t == Tail(q)
<1>1. /\ DOMAIN t = 1..(Len(q) - 1) /\ DOMAIN q = 1..Len(q) /\ Len(q) \in Nat /\ Len(q) > 0
      /\ \A i \in 1..(Len(q) - 1) : t[i] = q[i + 1]
      /\ Head(q) = q[1]
  OBVIOUS
<1> HIDE DEF t
<1>2. /\ \A i \in 1..(Len(q) - 1) : i + 1 \in 1..Len(q) /\ i + 1 # 1
      /\ 1 \in 1..Len(q)
  BY <1>1
<1>3. SynAlone(q, c) => SynAlone(t, c)
  BY <1>1, <1>2 DEF SynAlone
<1>4. SynAlone(q, c) /\ Head(q).port = c /\ Syn(Head(q)) => \A p \in Range(t) : p.port # c
  BY <1>1, <1>2 DEF SynAlone, Range
<1>5. ASSUME AckFirst(q, c), Head(q).port # c PROVE AckFirst(t, c)
  <2>1. SUFFICES ASSUME NEW i \in 1..(Len(q) - 1), t[i].port = c
                 PROVE  \E j \in 1..i : t[j].port = c /\ t[j].seqno = 0
    BY <1>1 DEF AckFirst
  <2>2. q[i + 1].port = c /\ i + 1 \in DOMAIN q
    BY <1>1, <1>2, <2>1
  <2>3. PICK k \in 1..(i + 1) : q[k].port = c /\ q[k].seqno = 0
    BY <1>5, <2>2 DEF AckFirst
  <2>4. k # 1
    BY <1>1, <1>5, <2>3
  <2>5. k - 1 \in 1..i /\ k - 1 \in 1..(Len(q) - 1) /\ (k - 1) + 1 = k
    BY <1>1, <2>1, <2>3, <2>4
  <2>6. t[k - 1] = q[k]
    BY <1>1, <2>5
  <2> QED  BY <2>3, <2>5, <2>6
<1>6. ASSUME AckFirst(q, c), Head(q).port = c PROVE Head(q).seqno = 0
  <2>1. \E j \in 1..1 : q[j].port = c /\ q[j].seqno = 0
    BY <1>1, <1>2, <1>6 DEF AckFirst
  <2> QED  BY <1>1, <2>1
<1> QED  BY <1>3, <1>4, <1>5, <1>6 DEF t

(* A queue, bound or not, and its packets.                                  *)
LEMMA QueuedFacts ==
  ASSUME TypeOK
  PROVE  \A h \in Host : /\ Queued(h) \in Seq(Datagram)
                         /\ Packets(sock[h]) = Range(Queued(h))
                         /\ sock[h] # NULL => Queued(h) = sock[h]
                         /\ sock[h] = NULL => Queued(h) = <<>>
<1> TAKE h \in Host
<1>1. sock[h] \in Seq(Datagram) \cup {NULL} /\ <<>> \in Seq(Datagram)
  BY NullFacts DEF TypeOK
<1>2. Range(<<>>) = {}
  BY DEF Range
<1> QED  BY <1>1, <1>2 DEF Queued, Packets

(* The queue of h as a packet to it leaves it: sendto() takes or refuses.   *)
Grows(h, pkt) == \/ Queued(h)' = Queued(h)
                 \/ Queued(h)' = Append(Queued(h), pkt)

LEMMA SentGrows ==
  ASSUME TypeOK, TypeOK', NEW h \in Host, NEW pkt \in Datagram, NEW s \in [Host -> Queue],
         s[h] = sock[h], sock' = Sent(s, h, pkt)
  PROVE  /\ Grows(h, pkt)
         /\ sock[h] # NULL /\ Len(sock[h]) < QueueLen
              => Queued(h)' = Append(Queued(h), pkt)
         /\ sock[h] = NULL => Queued(h)' = <<>>
<1>1. /\ sock[h] # NULL => Queued(h) = sock[h]
      /\ sock[h] = NULL => Queued(h) = <<>>
  BY QueuedFacts
<1>2. /\ sock'[h] # NULL => Queued(h)' = sock'[h]
      /\ sock'[h] = NULL => Queued(h)' = <<>>
  BY DEF Queued
<1>3. CASE sock[h] # NULL /\ Len(sock[h]) < QueueLen
  <2>1. sock' = [s EXCEPT ![h] = Append(@, pkt)]
    BY <1>3 DEF Sent
  <2>2. sock'[h] = Append(sock[h], pkt)
    BY <2>1
  <2>3. sock[h] \in Seq(Datagram)
    BY <1>3 DEF TypeOK
  <2>4. sock'[h] # NULL
    <3>1. Append(sock[h], pkt) \in Seq(Datagram)
      BY <2>3
    <3> QED  BY <2>2, <3>1, NullAssumption
  <2> QED  BY <1>1, <1>2, <1>3, <2>2, <2>4 DEF Grows
<1>4. CASE ~(sock[h] # NULL /\ Len(sock[h]) < QueueLen)
  <2>1. sock' = s
    BY <1>4 DEF Sent
  <2>2. sock'[h] = sock[h]
    BY <2>1
  <2> QED  BY <1>1, <1>2, <1>4, <2>2 DEF Grows
<1> QED  BY <1>3, <1>4

(* What a step does to the packets of a client and to their order when the  *)
(* server's queue stays, grows or loses its head.                           *)
LEMMA MineFacts ==
  ASSUME TypeOK, NEW c
  PROVE  Mine(c) = {p \in Range(Queued(Server)) : p.port = c}
BY QueuedFacts, Hosts DEF Mine

LEMMA MineFactsPrimed ==
  ASSUME TypeOK', NEW c
  PROVE  Mine(c)' = {p \in Range(Queued(Server)') : p.port = c}
<1>1. sock'[Server] \in Seq(Datagram) \cup {NULL}
  BY Hosts DEF TypeOK
<1>2. Range(<<>>) = {}
  BY DEF Range
<1> QED  BY <1>1, <1>2 DEF Mine, Queued, Packets

LEMMA RangeFacts ==
  ASSUME NEW q \in Seq(Datagram)
  PROVE  /\ \A pkt \in Datagram : Range(Append(q, pkt)) = Range(q) \cup {pkt}
         /\ q # <<>> => Range(q) = {Head(q)} \cup Range(Tail(q))
         /\ Range(q) \subseteq Datagram
<1>1. ASSUME NEW pkt \in Datagram PROVE Range(Append(q, pkt)) = Range(q) \cup {pkt}
  <2> DEFINE t == Append(q, pkt)
  <2>1. /\ DOMAIN t = 1..(Len(q) + 1) /\ DOMAIN q = 1..Len(q) /\ Len(q) \in Nat
        /\ \A i \in 1..Len(q) : t[i] = q[i]
        /\ t[Len(q) + 1] = pkt
    OBVIOUS
  <2>2. \A i \in 1..(Len(q) + 1) : i \in 1..Len(q) \/ i = Len(q) + 1
    BY <2>1
  <2>3. \A i \in 1..Len(q) : i \in 1..(Len(q) + 1)
    BY <2>1
  <2>4. Len(q) + 1 \in 1..(Len(q) + 1)
    BY <2>1
  <2> HIDE DEF t
  <2>5. Range(t) \subseteq Range(q) \cup {pkt}
    BY <2>1, <2>2 DEF Range
  <2>6. Range(q) \subseteq Range(t) /\ pkt \in Range(t)
    BY <2>1, <2>3, <2>4 DEF Range
  <2> QED  BY <2>5, <2>6 DEF t
<1>2. ASSUME q # <<>> PROVE Range(q) = {Head(q)} \cup Range(Tail(q))
  <2> DEFINE t == Tail(q)
  <2>1. /\ DOMAIN t = 1..(Len(q) - 1) /\ DOMAIN q = 1..Len(q) /\ Len(q) \in Nat /\ Len(q) > 0
        /\ \A i \in 1..(Len(q) - 1) : t[i] = q[i + 1]
        /\ Head(q) = q[1]
    BY <1>2
  <2>2. \A i \in 1..Len(q) : i = 1 \/ (i - 1 \in 1..(Len(q) - 1) /\ t[i - 1] = q[i])
    BY <2>1
  <2>3. \A i \in 1..(Len(q) - 1) : i + 1 \in 1..Len(q)
    BY <2>1
  <2>4. 1 \in 1..Len(q)
    BY <2>1
  <2> HIDE DEF t
  <2>5. Range(q) \subseteq {Head(q)} \cup Range(t)
    BY <2>1, <2>2 DEF Range
  <2>6. Range(t) \subseteq Range(q) /\ Head(q) \in Range(q)
    BY <2>1, <2>3, <2>4 DEF Range
  <2> QED  BY <2>5, <2>6 DEF t
<1>3. Range(q) \subseteq Datagram
  BY DEF Range
<1> QED  BY <1>1, <1>2, <1>3

(* A step that adds nothing of a client's at the server keeps its session,  *)
(* if the client stays as it is or ends.                                    *)
Stays(c) == \/ pc'[c] = "down"
            \/ pc'[c] = pc[c] /\ sconn'[c] = sconn[c] /\ Queued(c)' = Queued(c)

LEMMA KeptSession ==
  ASSUME NEW c \in Client, SessionOf(c), Stays(c),
         Mine(c)' \subseteq Mine(c), Conns(c)' \subseteq Conns(c),
         SynAlone(Queued(Server)', c), NewAckFirst(c)'
  PROVE  SessionOf(c)'
<1>1. \A p \in Mine(c)' : IF Syn(p) THEN Conns(c)' = {} ELSE \A conn \in Conns(c)' : Sees(conn, p)
  BY DEF SessionOf
<1>2. CASE pc'[c] = "down"
  BY <1>1, <1>2 DEF SessionOf
<1>3. CASE pc'[c] = pc[c] /\ sconn'[c] = sconn[c] /\ Queued(c)' = Queued(c)
  <2>1. Answered(c) => Answered(c)'
    BY <1>3 DEF Answered
  <2>2. Connected(c) => Connected(c)'
    BY <1>3 DEF Connected
  <2>3. pc[c] \in {"do_config", "join", "tcp_handshake"}
          => Mine(c)' = {} /\ Conns(c)' = {} /\ Queued(c)' = <<>>
    BY <1>3 DEF SessionOf
  <2> QED  BY <1>1, <1>3, <2>1, <2>2, <2>3 DEF SessionOf
<1> QED  BY <1>2, <1>3 DEF Stays

(* The same when the server keeps its queue.                                *)
LEMMA UntouchedSession ==
  ASSUME NEW c \in Client, SessionOf(c), Stays(c), UNCHANGED new_connection,
         sock'[Server] = sock[Server], Conns(c)' \subseteq Conns(c)
  PROVE  SessionOf(c)'
<1>1. Mine(c)' = Mine(c) /\ Queued(Server)' = Queued(Server)
  BY DEF Mine, Queued
<1>2. pc'[c] = "do_loop" => pc[c] = "do_loop"
  BY DEF Stays
<1>3. NewAckFirst(c)'
  BY <1>1, <1>2 DEF SessionOf, NewAckFirst
<1> QED  BY <1>1, <1>3, KeptSession DEF SessionOf

(* The same when the server has no connections, and no packet comes.        *)
LEMMA RestartedSession ==
  ASSUME NEW c \in Client, SessionOf(c), Stays(c), Conns(c)' = {},
         Mine(c)' \subseteq Mine(c), SynAlone(Queued(Server)', c)
  PROVE  SessionOf(c)'
<1>1. NewAckFirst(c)'
  BY DEF NewAckFirst
<1> QED  BY <1>1, KeptSession

(* The same when another client's packet comes in at the server.            *)
LEMMA OthersSession ==
  ASSUME TypeOK, TypeOK', NEW c \in Client, SessionOf(c), Stays(c), UNCHANGED new_connection,
         NEW pkt \in Datagram, pkt.port # c, Grows(Server, pkt), Conns(c)' = Conns(c)
  PROVE  SessionOf(c)'
<1> DEFINE q == Queued(Server)
<1>1. q \in Seq(Datagram)
  BY QueuedFacts, Hosts
<1>2. Mine(c)' = Mine(c) /\ SynAlone(Queued(Server)', c) /\ (AckFirst(q, c) => AckFirst(Queued(Server)', c))
  <2>1. CASE Queued(Server)' = Queued(Server)
    BY <2>1, MineFacts, MineFactsPrimed DEF SessionOf
  <2>2. CASE Queued(Server)' = Append(Queued(Server), pkt)
    <3>1. Range(Append(q, pkt)) = Range(q) \cup {pkt}
      BY <1>1, RangeFacts
    <3>2. Mine(c)' = Mine(c)
      <4>1. Mine(c) = {p \in Range(q) : p.port = c}
        BY MineFacts
      <4>2. Mine(c)' = {p \in Range(Append(q, pkt)) : p.port = c}
        BY <2>2, MineFactsPrimed
      <4> QED  BY <3>1, <4>1, <4>2
    <3>3. SynAlone(q, c)
      BY DEF SessionOf
    <3> HIDE DEF q
    <3>4. SynAlone(Append(q, pkt), c) /\ (AckFirst(q, c) => AckFirst(Append(q, pkt), c))
      BY <1>1, <3>3, SynAppended, AckAppended
    <3> QED  BY <2>2, <3>2, <3>4 DEF q
  <2> QED  BY <2>1, <2>2 DEF Grows
<1>3. pc'[c] = "do_loop" => pc[c] = "do_loop"
  BY DEF Stays
<1>4. NewAckFirst(c)'
  BY <1>2, <1>3 DEF SessionOf, NewAckFirst
<1> QED  BY <1>2, <1>4, KeptSession

-----------------------------------------------------------------------------
(* Each step keeps the sessions of the clients that run the first time *)

LEMMA InitSessionInv == Init => SessionInv
<1> SUFFICES ASSUME Init PROVE SessionInv
  OBVIOUS
<1>1. connections = <<>> /\ \A c \in Client : run[c] = 0
  BY Hosts DEF Init
<1> QED  BY <1>1 DEF SessionInv

LEMMA StartSession ==
  ASSUME SetupInv, SetupInv', SessionInv, NEW h \in Host, Start(h)
  PROVE  SessionInv'
<1> USE Hosts
<1>1. TypeOK /\ TypeOK' /\ NotStarted
  BY DEF SetupInv
<1>2. /\ pc[h] = "down" /\ pc' = [pc EXCEPT ![h] = "do_config"]
      /\ run' = [run EXCEPT ![h] = @ + 1] /\ sock' = [sock EXCEPT ![h] = <<>>]
      /\ UNCHANGED <<connections, num_connected, new_connection, sent>>
  BY DEF Start, Goto, server
<1>3. \A c \in Client : c # h => sconn'[c] = sconn[c]
  BY <1>1 DEF Start, do_config_server, TypeOK
<1>4. pc'[Server] # "do_loop" => connections' = <<>>
  BY <1>1, <1>2 DEF SessionInv, TypeOK
<1>5. \A c \in Client : Conns(c)' = Conns(c)
  BY <1>2 DEF Conns
<1>6. /\ NULL # <<>> /\ Range(<<>>) = {} /\ <<>> \in Seq(Datagram)
  BY NullFacts DEF Range
<1>7. ASSUME NEW c \in Client, run'[c] = 1 PROVE SessionOf(c)'
  <2>1. CASE h = c
    <3>1. run[c] = 0 /\ pc'[c] = "do_config" /\ sock'[Server] = sock[Server] /\ sock'[c] = <<>>
      BY <1>1, <1>2, <1>7, <2>1 DEF TypeOK
    <3>2. Mine(c)' = {} /\ Conns(c)' = {}
      BY <1>1, <1>2, <3>1 DEF NotStarted, Unheard, Mine, Conns
    <3>3. Queued(c)' = <<>>
      BY <1>6, <3>1 DEF Queued
    <3>4. Queued(Server)' \in Seq(Datagram) /\ \A p \in Range(Queued(Server)') : p.port # c
      <4>1. Queued(Server)' = Queued(Server)
        BY <3>1 DEF Queued
      <4>2. Queued(Server) \in Seq(Datagram) /\ Packets(sock[Server]) = Range(Queued(Server))
        BY <1>1, QueuedFacts
      <4> QED  BY <1>1, <3>1, <4>1, <4>2 DEF NotStarted, Unheard
    <3>5. SynAlone(Queued(Server)', c)
      BY <3>4, EmptyQueue
    <3> QED  BY <3>1, <3>2, <3>3, <3>5 DEF SessionOf, NewAckFirst
  <2>2. CASE h = Server
    <3>1. run[c] = 1 /\ pc'[c] = pc[c] /\ sock'[c] = sock[c] /\ sock'[Server] = <<>>
      BY <1>1, <1>2, <1>7, <2>2 DEF TypeOK
    <3>2. Stays(c) /\ SessionOf(c)
      BY <1>3, <1>7, <2>2, <3>1 DEF Stays, Queued, SessionInv
    <3>3. connections' = <<>>
      BY <1>1, <1>2, <2>2 DEF NotStarted
    <3>4. Conns(c)' = {} /\ Mine(c)' = {} /\ Queued(Server)' = <<>>
      BY <1>6, <3>1, <3>3 DEF Conns, Mine, Packets, Queued
    <3>5. SynAlone(<<>>, c)
      BY <1>6, EmptyQueue
    <3> QED  BY <3>2, <3>4, <3>5, RestartedSession
  <2>3. CASE h # c /\ h # Server
    <3>1. /\ run[c] = 1 /\ pc'[c] = pc[c] /\ sock'[c] = sock[c]
          /\ sock'[Server] = sock[Server]
      BY <1>1, <1>2, <1>7, <2>3 DEF TypeOK
    <3>2. Stays(c) /\ SessionOf(c)
      BY <1>3, <1>7, <2>3, <3>1 DEF Stays, Queued, SessionInv
    <3> QED  BY <1>2, <1>5, <3>1, <3>2, UntouchedSession
  <2> QED  BY <2>1, <2>2, <2>3
<1> QED  BY <1>4, <1>7 DEF SessionInv

LEMMA ExitSession ==
  ASSUME SetupInv, SetupInv', SessionInv, NEW h \in Host, Exits(h),
         sock' = [sock EXCEPT ![h] = NULL]
  PROVE  SessionInv'
<1> USE Hosts
<1>1. TypeOK /\ TypeOK'
  BY DEF SetupInv
<1>2. pc' = [pc EXCEPT ![h] = "down"] /\ UNCHANGED run
  BY DEF Exits, Goto
<1>3. \/ /\ h = Server /\ sconn' = sconn /\ connections' = <<>> /\ new_connection' = NULL
      \/ /\ h \in Client /\ sconn' = [sconn EXCEPT ![h] = NULL]
         /\ UNCHANGED <<connections, new_connection>>
  BY DEF Exits, server
<1>4. pc'[Server] # "do_loop" => connections' = <<>>
  BY <1>1, <1>2, <1>3 DEF SessionInv, TypeOK
<1>5. /\ NULL # <<>> /\ Range(<<>>) = {} /\ <<>> \in Seq(Datagram)
  BY NullFacts DEF Range
<1>6. ASSUME NEW c \in Client, run'[c] = 1 PROVE SessionOf(c)'
  <2>1. SessionOf(c)
    BY <1>2, <1>6 DEF SessionInv
  <2>2. Stays(c)
    <3>1. CASE h = c
      BY <1>1, <1>2, <3>1 DEF Stays, TypeOK
    <3>2. CASE h # c
      <4>1. pc'[c] = pc[c] /\ sock'[c] = sock[c] /\ sconn'[c] = sconn[c]
        BY <1>1, <1>2, <1>3, <3>2 DEF TypeOK
      <4> QED  BY <4>1 DEF Stays, Queued
    <3> QED  BY <3>1, <3>2
  <2>3. CASE h = Server
    <3>1. connections' = <<>> /\ sock'[Server] = NULL
      BY <1>1, <1>3, <2>3 DEF TypeOK
    <3>2. Conns(c)' = {} /\ Mine(c)' = {} /\ Queued(Server)' = <<>>
      BY <1>5, <3>1 DEF Conns, Mine, Packets, Queued
    <3>3. SynAlone(<<>>, c)
      BY <1>5, EmptyQueue
    <3> QED  BY <2>1, <2>2, <3>2, <3>3, RestartedSession
  <2>4. CASE h # Server
    <3>1. sock'[Server] = sock[Server] /\ UNCHANGED <<connections, new_connection>>
      BY <1>1, <1>3, <2>4 DEF TypeOK
    <3>2. Conns(c)' = Conns(c)
      BY <3>1 DEF Conns
    <3> QED  BY <2>1, <2>2, <3>1, <3>2, UntouchedSession
  <2> QED  BY <2>3, <2>4
<1> QED  BY <1>4, <1>6 DEF SessionInv

LEMMA ConfigSession ==
  ASSUME SetupInv, SetupInv', SessionInv, NEW h \in Host, do_config(h) \/ Join(h)
  PROVE  SessionInv'
<1> USE Hosts
<1>1. TypeOK
  BY DEF SetupInv
<1>2. UNCHANGED <<sock, sconn, connections, new_connection, run>>
  BY DEF do_config, Join, server
<1>3. \/ pc[h] = "do_config" /\ pc' = [pc EXCEPT ![h] = "join"]
      \/ /\ pc[h] = "join"
         /\ pc' = [pc EXCEPT ![h] = IF h = Server THEN "do_loop" ELSE "tcp_handshake"]
  BY DEF do_config, Join, Joined, Goto
<1>4. pc'[Server] # "do_loop" => connections' = <<>>
  BY <1>1, <1>2, <1>3 DEF SessionInv, TypeOK
<1>5. ASSUME NEW c \in Client, run'[c] = 1 PROVE SessionOf(c)'
  <2>1. SessionOf(c)
    BY <1>2, <1>5 DEF SessionInv
  <2>2. Queued(c)' = Queued(c) /\ Conns(c)' = Conns(c) /\ Mine(c)' = Mine(c)
        /\ Queued(Server)' = Queued(Server)
    BY <1>2 DEF Queued, Conns, Mine
  <2>3. CASE h = c
    <3>1. pc'[c] \in {"join", "tcp_handshake"} /\ pc[c] \in {"do_config", "join"}
      BY <1>1, <1>3, <2>3 DEF TypeOK
    <3>2. Mine(c)' = {} /\ Conns(c)' = {} /\ Queued(c)' = <<>> /\ SynAlone(Queued(Server)', c)
      BY <2>1, <2>2, <3>1 DEF SessionOf
    <3> QED  BY <3>1, <3>2 DEF SessionOf, NewAckFirst
  <2>4. CASE h # c
    <3>1. Stays(c)
      BY <1>1, <1>2, <1>3, <2>2, <2>4 DEF Stays, TypeOK
    <3> QED  BY <1>2, <2>1, <2>2, <3>1, UntouchedSession
  <2> QED  BY <2>3, <2>4
<1> QED  BY <1>4, <1>5 DEF SessionInv

(* What a client's queue, or the server's, loses with its head.             *)
LEMMA ReceivedQueue ==
  ASSUME TypeOK, NEW h \in Host, sock[h] # NULL, sock[h] # <<>>
  PROVE  /\ Queued(h) = sock[h] /\ sock[h] \in Seq(Datagram)
         /\ Tail(sock[h]) \in Seq(Datagram) /\ Tail(sock[h]) # NULL
         /\ Received(h)[h] = Tail(sock[h])
         /\ \A g \in Host : g # h => Received(h)[g] = sock[g]
         /\ Received(h) \in [Host -> Queue]
         /\ Head(sock[h]) \in Datagram
<1>1. sock[h] \in Seq(Datagram) /\ sock \in [Host -> Queue]
  BY DEF TypeOK, Queue
<1>2. /\ Received(h)[h] = Tail(sock[h])
      /\ \A g \in Host : g # h => Received(h)[g] = sock[g]
  BY <1>1 DEF Received
<1>3. Tail(sock[h]) \in Seq(Datagram) /\ Head(sock[h]) \in Datagram
  BY <1>1
<1>4. Received(h) \in [Host -> Queue]
  BY <1>1, <1>3 DEF Received, Queue
<1> QED  BY <1>1, <1>2, <1>3, <1>4, NullAssumption DEF Queued

(* The packets of a client as the server takes one.                         *)
LEMMA ServerTakes ==
  ASSUME TypeOK, TypeOK', sock[Server] # NULL, sock[Server] # <<>>,
         sock'[Server] = Tail(sock[Server]),
         NEW c \in Client, SessionOf(c)
  PROVE  /\ Queued(Server)' = Tail(sock[Server])
         /\ Mine(c)' \subseteq Mine(c) /\ SynAlone(Queued(Server)', c)
         /\ Head(sock[Server]).port # c
              => /\ Mine(c)' = Mine(c)
                 /\ AckFirst(Queued(Server), c) => AckFirst(Queued(Server)', c)
         /\ Head(sock[Server]).port = c => Head(sock[Server]) \in Mine(c)
         /\ Head(sock[Server]).port = c /\ Syn(Head(sock[Server])) => Mine(c)' = {}
         /\ Head(sock[Server]).port = c /\ AckFirst(Queued(Server), c)
              => Head(sock[Server]).seqno = 0
<1> USE Hosts
<1> DEFINE q == sock[Server]
<1>1. /\ Queued(Server) = q /\ q \in Seq(Datagram) /\ q # <<>>
      /\ Tail(q) \in Seq(Datagram) /\ Tail(q) # NULL
  BY ReceivedQueue
<1>2. Queued(Server)' = Tail(q)
  BY <1>1 DEF Queued
<1>3. Mine(c) = {p \in Range(q) : p.port = c} /\ Mine(c)' = {p \in Range(Tail(q)) : p.port = c}
  BY <1>1, <1>2, MineFacts, MineFactsPrimed
<1>4. SynAlone(q, c)
  BY <1>1 DEF SessionOf
<1> HIDE DEF q
<1>5. Range(q) = {Head(q)} \cup Range(Tail(q))
  BY <1>1, RangeFacts
<1>6. /\ SynAlone(Tail(q), c)
      /\ Head(q).port = c /\ Syn(Head(q)) => \A p \in Range(Tail(q)) : p.port # c
      /\ AckFirst(q, c) /\ Head(q).port # c => AckFirst(Tail(q), c)
      /\ AckFirst(q, c) /\ Head(q).port = c => Head(q).seqno = 0
  BY <1>1, <1>4, QueueTail
<1>7. Head(q).port # c => Mine(c)' = Mine(c)
  BY <1>3, <1>5
<1>8. Mine(c)' \subseteq Mine(c) /\ (Head(q).port = c => Head(q) \in Mine(c))
  BY <1>3, <1>5
<1>9. Head(q).port = c /\ Syn(Head(q)) => Mine(c)' = {}
  BY <1>3, <1>6
<1>10. /\ SynAlone(Queued(Server)', c)
       /\ Head(q).port # c => (AckFirst(Queued(Server), c) => AckFirst(Queued(Server)', c))
       /\ Head(q).port = c /\ AckFirst(Queued(Server), c) => Head(q).seqno = 0
  BY <1>1, <1>2, <1>6
<1> QED  BY <1>2, <1>7, <1>8, <1>9, <1>10 DEF q

LEMMA ResetSession ==
  ASSUME SetupInv, SetupInv', SessionInv, NEW h \in Host, send_resets(h)
  PROVE  SessionInv'
<1> USE Hosts
<1>1. TypeOK /\ TypeOK' /\ Threads
  BY DEF SetupInv
<1>2. UNCHANGED <<pc, sconn, connections, new_connection, run>>
  BY DEF send_resets, server
<1>3. thread[h] # "ended" /\ (sock' = sock \/ (sock[h] # <<>> /\ sock' = Received(h)))
  BY DEF send_resets, GivesUp
<1>4. pc[h] \in {"do_config", "join"} /\ sock[h] # NULL
  BY <1>1, <1>3 DEF Threads, TypeOK
<1>5. ASSUME NEW c \in Client, run'[c] = 1 PROVE SessionOf(c)'
  <2>1. SessionOf(c)
    BY <1>2, <1>5 DEF SessionInv
  <2>2. Conns(c)' = Conns(c)
    BY <1>2 DEF Conns
  <2>3. CASE sock' = sock
    <3>1. Stays(c)
      BY <1>2, <2>3 DEF Stays, Queued
    <3> QED  BY <1>2, <2>1, <2>2, <2>3, <3>1, UntouchedSession
  <2>4. CASE sock[h] # <<>> /\ sock' = Received(h)
    <3>1. sock'[h] = Tail(sock[h]) /\ \A g \in Host : g # h => sock'[g] = sock[g]
      BY <1>1, <1>4, <2>4, ReceivedQueue
    <3>2. h # c
      <4>1. ASSUME h = c PROVE FALSE
        <5>1. Queued(c) = <<>>
          BY <1>4, <2>1, <4>1 DEF SessionOf
        <5> QED  BY <1>4, <2>4, <4>1, <5>1 DEF Queued
      <4> QED  BY <4>1
    <3>3. Stays(c)
      BY <1>2, <3>1, <3>2 DEF Stays, Queued
    <3>4. CASE h = Server
      <4>1. connections' = <<>>
        BY <1>2, <1>4, <3>4 DEF SessionInv
      <4>2. Conns(c)' = {}
        BY <4>1 DEF Conns, Range
      <4>3. Mine(c)' \subseteq Mine(c) /\ SynAlone(Queued(Server)', c)
        BY <1>1, <1>4, <2>1, <2>4, <3>1, <3>4, ServerTakes
      <4> QED  BY <2>1, <3>3, <4>2, <4>3, RestartedSession
    <3>5. CASE h # Server
      BY <1>2, <2>1, <2>2, <3>1, <3>3, <3>5, UntouchedSession
    <3> QED  BY <3>4, <3>5
  <2> QED  BY <1>3, <2>3, <2>4
<1> QED  BY <1>2, <1>5 DEF SessionInv

LEMMA SynSession ==
  ASSUME SetupInv, SetupInv', SessionInv, NEW c \in Client, send_syn(c), sock[Server] # NULL
  PROVE  SessionInv'
<1> DEFINE syn == create_tcp_seg(c, {"SYN"}, sconn[c].init_seqno, 0)
<1> USE Hosts
<1>1. TypeOK /\ TypeOK' /\ sock \in [Host -> Queue]
  BY DEF SetupInv, TypeOK, Queue
<1>2. /\ pc[c] = "tcp_handshake" /\ pc' = [pc EXCEPT ![c] = "recv_filter"]
      /\ sock' = Sent(sock, Server, syn)
      /\ UNCHANGED <<sconn, connections, new_connection, run>>
  BY DEF send_syn, send_tcp_conn_seg, Goto, server
<1>3. /\ syn \in Datagram /\ syn.port = c /\ Syn(syn)
      /\ syn.th_seq = sconn[c].init_seqno
  <2>1. sconn[c] \in conn_t /\ sconn[c].init_seqno \in Uint32
    BY <1>1, <1>2 DEF TypeOK, conn_t
  <2>2. sconn[c].init_seqno \in Int /\ sconn[c].init_seqno % Long = sconn[c].init_seqno
    BY <2>1, Remainders, NumberAssumption DEF Uint32
  <2>3. {"SYN"} \in Flags
    BY DEF Flags
  <2>4. syn \in Datagram
    BY <2>2, <2>3, Made
  <2> QED  BY <2>2, <2>4 DEF create_tcp_seg, Syn
<1> HIDE DEF syn
<1>4. Grows(Server, syn) /\ \A g \in Host : g # Server => sock'[g] = sock[g]
  <2>1. Grows(Server, syn)
    BY <1>1, <1>2, <1>3, SentGrows
  <2>2. \A g \in Host : g # Server => Sent(sock, Server, syn)[g] = sock[g]
    BY <1>1, <1>3, SentFacts
  <2> QED  BY <1>2, <2>1, <2>2
<1>5. \A d \in Client : Conns(d)' = Conns(d) /\ Queued(d)' = Queued(d)
  BY <1>2, <1>4 DEF Conns, Queued
<1>6. ASSUME NEW d \in Client, run'[d] = 1 PROVE SessionOf(d)'
  <2>1. SessionOf(d)
    BY <1>2, <1>6 DEF SessionInv
  <2>2. CASE d = c
    <3> DEFINE q == Queued(Server)
    <3>1. Mine(c) = {} /\ Conns(c)' = {} /\ Queued(c)' = <<>> /\ pc'[c] = "recv_filter"
      BY <1>1, <1>2, <1>5, <2>1, <2>2 DEF SessionOf, TypeOK
    <3>2. q \in Seq(Datagram) /\ \A p \in Range(q) : p.port # c
      <4>1. q \in Seq(Datagram)
        BY <1>1, QueuedFacts
      <4>2. Mine(c) = {p \in Range(q) : p.port = c}
        BY <1>1, MineFacts
      <4> QED  BY <3>1, <4>1, <4>2
    <3>3. Mine(c)' = {p \in Range(Queued(Server)') : p.port = c}
      BY <1>1, MineFactsPrimed
    <3> HIDE DEF q
    <3>4. SynAlone(Queued(Server)', c) /\ Mine(c)' \subseteq {syn}
      <4>1. SynAlone(q, c) /\ SynAlone(Append(q, syn), c)
        BY <1>3, <3>2, EmptyQueue, SynAppended
      <4>2. Range(Append(q, syn)) = Range(q) \cup {syn}
        BY <1>3, <3>2, RangeFacts
      <4>3. CASE Queued(Server)' = q
        BY <3>2, <3>3, <4>1, <4>3
      <4>4. CASE Queued(Server)' = Append(q, syn)
        BY <3>2, <3>3, <4>1, <4>2, <4>4
      <4> QED  BY <1>4, <4>3, <4>4 DEF Grows, q
    <3>5. Answered(c)'
      BY <1>2, <1>3, <3>1, <3>4 DEF Answered
    <3>6. NewAckFirst(c)'
      BY <3>1 DEF NewAckFirst
    <3> QED  BY <1>3, <2>2, <3>1, <3>4, <3>5, <3>6 DEF SessionOf
  <2>3. CASE d # c
    <3>1. Stays(d)
      BY <1>1, <1>2, <1>5, <2>3 DEF Stays, TypeOK
    <3> QED  BY <1>1, <1>2, <1>3, <1>4, <1>5, <2>1, <2>3, <3>1, OthersSession
  <2> QED  BY <2>2, <2>3
<1>7. pc'[Server] = pc[Server]
  BY <1>1, <1>2 DEF TypeOK
<1> QED  BY <1>2, <1>6, <1>7 DEF SessionInv

(* The ACK of the handshake, as the server's connection sees it.            *)
LEMMA AckSeen ==
  ASSUME NEW n \in Uint32, NEW theirs \in Uint32, NEW c, NEW conn, Pairs(conn, n, theirs)
  PROVE  Sees(conn, create_tcp_seg(c, {"ACK"}, n + 1, theirs + 1))
<1>1. (((n + 1) % Long) - n) % Long = 1 /\ (((theirs + 1) % Long) - theirs) % Long = 1
  BY Relative
<1> QED  BY <1>1 DEF Sees, Pairs, AsSent, create_tcp_seg

LEMMA ConnectSession ==
  ASSUME SetupInv, SetupInv', SessionInv, NEW c \in Client, tcp_handshake(c),
         Connects(c, Head(sock[c])), pc' = [pc EXCEPT ![c] = "do_loop"],
         UNCHANGED <<connections, new_connection, run>>
  PROVE  SessionInv'
<1> DEFINE pkt == Head(sock[c])
           ack == create_tcp_seg(c, {"ACK"}, sconn[c].init_seqno + 1, pkt.th_seq + 1)
           q == Queued(Server)
<1> USE Hosts
<1>1. /\ TypeOK /\ TypeOK'
      /\ pc[c] = "recv_filter" /\ sock[c] # <<>> /\ sock[c] # NULL
  BY DEF SetupInv, tcp_handshake, TypeOK
<1>2. /\ Queued(c) = sock[c] /\ Tail(sock[c]) # NULL
      /\ Received(c)[c] = Tail(sock[c]) /\ Received(c)[Server] = sock[Server]
      /\ \A g \in Host : g # c => Received(c)[g] = sock[g]
      /\ Received(c) \in [Host -> Queue] /\ pkt \in Datagram
  BY <1>1, ReceivedQueue
<1>3. /\ MayReturn(sock, Server)
      /\ sconn' = [sconn EXCEPT ![c].their_init_seqno = pkt.th_seq]
      /\ sock' = Sent(Received(c), Server, ack)
  BY DEF Connects, send_tcp_conn_seg
<1>4. sconn[c] \in conn_t /\ sconn[c].init_seqno \in Uint32 /\ pkt.th_seq \in Uint32
  <2>1. sconn[c] \in conn_t
    BY <1>1 DEF TypeOK
  <2> HIDE DEF pkt
  <2> QED  BY <1>2, <2>1 DEF conn_t, Datagram
<1>5. /\ ack \in Datagram /\ ack.port = c /\ ~Syn(ack) /\ ack.seqno = 0
  <2>1. sconn[c].init_seqno + 1 \in Int /\ pkt.th_seq + 1 \in Int
    BY <1>4, NumberAssumption DEF Uint32
  <2>2. {"ACK"} \in Flags
    BY DEF Flags
  <2>3. ack \in Datagram
    BY <2>1, <2>2, Made
  <2> QED  BY <2>3 DEF create_tcp_seg, Syn
<1>6. /\ sconn'[c].init_seqno = sconn[c].init_seqno /\ sconn'[c].their_init_seqno = pkt.th_seq
      /\ \A d \in Client : d # c => sconn'[d] = sconn[d]
  BY <1>1, <1>3, <1>4 DEF TypeOK, conn_t
<1>7. \A conn : Pairs(conn, sconn[c].init_seqno, pkt.th_seq) => Sees(conn, ack)
  BY <1>4, AckSeen
<1> HIDE DEF pkt, ack, q
<1>8. /\ Grows(Server, ack)
      /\ sock[Server] # NULL => Queued(Server)' = Append(q, ack)
      /\ sock[Server] = NULL => Queued(Server)' = <<>>
  <2>1. /\ Grows(Server, ack)
        /\ sock[Server] # NULL /\ Len(sock[Server]) < QueueLen
             => Queued(Server)' = Append(Queued(Server), ack)
        /\ sock[Server] = NULL => Queued(Server)' = <<>>
    BY <1>1, <1>2, <1>3, <1>5, SentGrows
  <2> QED  BY <1>3, <2>1 DEF MayReturn, q
<1>9. sock'[c] = Tail(sock[c]) /\ \A g \in Host : g # c /\ g # Server => sock'[g] = sock[g]
  <2>1. \A g \in Host : g # Server => Sent(Received(c), Server, ack)[g] = Received(c)[g]
    BY <1>2, <1>5, SentFacts
  <2> QED  BY <1>2, <1>3, <2>1
<1>10. \A d \in Client : Conns(d)' = Conns(d)
  BY DEF Conns
<1>11. ASSUME NEW d \in Client, run'[d] = 1 PROVE SessionOf(d)'
  <2>1. SessionOf(d)
    BY <1>11 DEF SessionInv
  <2>2. CASE d = c
    <3>1. Answered(c) /\ pc'[c] = "do_loop"
      BY <1>1, <2>1, <2>2 DEF SessionOf, TypeOK
    <3>2. /\ Mine(c) = {}
          /\ \A conn \in Conns(c) : Pairs(conn, sconn[c].init_seqno, pkt.th_seq)
          /\ \A p \in Range(Tail(sock[c])) :
               Sees([init_seqno |-> sconn[c].init_seqno, their_init_seqno |-> pkt.th_seq], p)
      BY <1>1, <1>2, <3>1 DEF Answered, pkt
    <3>3. q \in Seq(Datagram) /\ \A p \in Range(q) : p.port # c
      <4>1. q \in Seq(Datagram)
        BY <1>1, QueuedFacts DEF q
      <4>2. Mine(c) = {p \in Range(q) : p.port = c}
        BY <1>1, MineFacts DEF q
      <4> QED  BY <3>2, <4>1, <4>2
    <3>4. Mine(c)' = {p \in Range(Queued(Server)') : p.port = c}
      BY <1>1, MineFactsPrimed
    <3>5. /\ SynAlone(q, c) /\ SynAlone(Append(q, ack), c)
          /\ AckFirst(Append(q, ack), c)
          /\ Range(Append(q, ack)) = Range(q) \cup {ack}
      BY <1>5, <3>3, EmptyQueue, SynAppended, AckAppended, RangeFacts
    <3>6. Mine(c)' \subseteq {ack} /\ SynAlone(Queued(Server)', c)
      <4>1. CASE Queued(Server)' = q
        BY <3>3, <3>4, <3>5, <4>1
      <4>2. CASE Queued(Server)' = Append(q, ack)
        BY <3>3, <3>4, <3>5, <4>2
      <4> QED  BY <1>8, <4>1, <4>2 DEF Grows, q
    <3>7. NewAckFirst(c)'
      <4>1. CASE sock[Server] # NULL
        <5>1. Queued(Server)' = Append(q, ack)
          BY <1>8, <4>1
        <5>2. ack \in Mine(c)'
          BY <1>5, <3>4, <3>5, <5>1
        <5> QED  BY <3>5, <5>1, <5>2 DEF NewAckFirst
      <4>2. CASE sock[Server] = NULL
        <5>1. connections = <<>>
          BY <1>1, <4>2 DEF SessionInv, TypeOK
        <5>2. Conns(c)' = {}
          BY <5>1 DEF Conns, Range
        <5> QED  BY <5>2 DEF NewAckFirst
      <4> QED  BY <4>1, <4>2
    <3>8. Connected(c)'
      <4>1. \A p \in Mine(c)' : ~Syn(p)
        BY <1>5, <3>6
      <4>2. \A conn \in Conns(c)' : Pairs(conn, sconn'[c].init_seqno, sconn'[c].their_init_seqno)
        BY <1>6, <1>10, <3>2
      <4>3. Queued(c)' = Tail(sock[c])
        BY <1>2, <1>9 DEF Queued
      <4>4. \A p \in Range(Queued(c)') : Sees(sconn'[c], p)
        BY <1>6, <3>2, <4>3 DEF Sees
      <4> QED  BY <4>1, <4>2, <4>4 DEF Connected
    <3>9. \A p \in Mine(c)' : ~Syn(p) /\ \A conn \in Conns(c)' : Sees(conn, p)
      BY <1>5, <1>7, <1>10, <3>2, <3>6
    <3> QED  BY <2>2, <3>1, <3>6, <3>7, <3>8, <3>9 DEF SessionOf
  <2>3. CASE d # c
    <3>1. pc'[d] = pc[d] /\ sconn'[d] = sconn[d] /\ sock'[d] = sock[d]
      BY <1>1, <1>6, <1>9, <2>3 DEF TypeOK
    <3>2. Stays(d)
      BY <3>1 DEF Stays, Queued
    <3> QED  BY <1>1, <1>5, <1>8, <1>10, <2>1, <2>3, <3>2, OthersSession
  <2> QED  BY <2>2, <2>3
<1>12. pc'[Server] = pc[Server]
  BY <1>1 DEF TypeOK
<1> QED  BY <1>11, <1>12 DEF SessionInv

(* A client that runs the first time finds a SYN-ACK, nothing to continue.  *)
LEMMA ContinueSession ==
  ASSUME SetupInv, SetupInv', SessionInv, NEW c \in Client, tcp_handshake(c),
         Continues(c, Head(sock[c])), pc' = [pc EXCEPT ![c] = "do_loop"],
         UNCHANGED <<connections, new_connection, run>>
  PROVE  SessionInv'
<1> USE Hosts
<1>1. /\ TypeOK /\ TypeOK'
      /\ pc[c] = "recv_filter" /\ sock[c] # <<>> /\ sock[c] # NULL
  BY DEF SetupInv, tcp_handshake, TypeOK
<1>2. sock' = Received(c) /\ ~Syn(Head(sock[c]))
  <2>1. recv_filter(<<sconn[c]>>, Head(sock[c])) # NULL /\ sock' = Received(c)
    BY DEF Continues
  <2> QED  BY <2>1 DEF recv_filter, Syn
<1>3. /\ \A g \in Host : g # c => sock'[g] = sock[g]
      /\ Queued(c) = sock[c]
  BY <1>1, <1>2, ReceivedQueue
<1>4. \A d \in Client : d # c => sconn'[d] = sconn[d]
  BY <1>1 DEF Continues, TypeOK
<1>5. ASSUME NEW d \in Client, run'[d] = 1 PROVE SessionOf(d)'
  <2>1. SessionOf(d)
    BY <1>5 DEF SessionInv
  <2>2. d # c
    <3>1. ASSUME d = c PROVE FALSE
      <4>1. Answered(c)
        BY <1>1, <2>1, <3>1 DEF SessionOf
      <4> QED  BY <1>1, <1>2, <1>3, <4>1 DEF Answered
    <3> QED  BY <3>1
  <2>3. pc'[d] = pc[d] /\ sconn'[d] = sconn[d] /\ sock'[d] = sock[d]
    BY <1>1, <1>3, <1>4, <2>2 DEF TypeOK
  <2>4. Stays(d) /\ Conns(d)' = Conns(d)
    BY <2>3 DEF Stays, Queued, Conns
  <2> QED  BY <1>3, <2>1, <2>4, UntouchedSession
<1>6. pc'[Server] = pc[Server]
  BY <1>1 DEF TypeOK
<1> QED  BY <1>5, <1>6 DEF SessionInv

(* The head of the server's queue, when the connections stay and the new    *)
(* one does not change: whatever is not swallowed is no ACK of a handshake. *)
LEMMA ServerTakesOther ==
  ASSUME TypeOK, TypeOK', sock[Server] # NULL, sock[Server] # <<>>,
         sock'[Server] = Tail(sock[Server]), UNCHANGED <<pc, connections, new_connection>>,
         ~Syn(Head(sock[Server])),
         recv_filter(connections, Head(sock[Server])) # NULL
           => ~IsNewAck(recv_filter(connections, Head(sock[Server])), Head(sock[Server])),
         NEW c \in Client, SessionOf(c)
  PROVE  NewAckFirst(c)'
<1> DEFINE pkt == Head(sock[Server])
           conn == recv_filter(connections, pkt)
<1> USE Hosts
<1>1. /\ pkt.port # c => Mine(c)' = Mine(c) /\ (AckFirst(Queued(Server), c) => AckFirst(Queued(Server)', c))
      /\ pkt.port = c => pkt \in Mine(c)
      /\ pkt.port = c /\ AckFirst(Queued(Server), c) => pkt.seqno = 0
  BY ServerTakes
<1>2. Conns(c)' = Conns(c)
  BY DEF Conns
<1>3. pkt \in Datagram
  BY ReceivedQueue
<1>4. connections \in Seq(conn_t)
  BY DEF TypeOK
<1>5. /\ conn # NULL => conn \in Range(connections) /\ Matches(conn, pkt) /\ ~IsNewAck(conn, pkt)
      /\ conn = NULL => \A k \in Range(connections) : ~Matches(k, pkt)
  BY <1>4, FilterMatches
<1> HIDE DEF pkt, conn
<1>6. CASE pkt.port # c
  BY <1>1, <1>2, <1>6 DEF SessionOf, NewAckFirst
<1>7. CASE pkt.port = c /\ new_connection = c /\ \E k \in Conns(c) : ~Wraps(k)
  <2>1. PICK k \in Conns(c) : ~Wraps(k)
    BY <1>7
  <2>2. pkt.seqno = 0
    BY <1>1, <1>7 DEF SessionOf, NewAckFirst
  <2>3. ~Syn(pkt) /\ \A j \in Conns(c) : Sees(j, pkt)
    BY <1>1, <1>7 DEF SessionOf, pkt
  <2>4. \A j \in Conns(c) : convert_to_ctcp(j, pkt) = [seqno |-> 1, ackno |-> 1]
    BY <2>2, <2>3 DEF Sees, AsSent, convert_to_ctcp
  <2>5. "ACK" \in pkt.flags
    BY <1>3, <2>3 DEF Datagram, Flags, Syn
  <2>6. conn = NULL
    <3>1. ASSUME conn # NULL PROVE FALSE
      <4>1. conn \in Conns(c)
        BY <1>5, <1>7, <3>1 DEF Conns, Matches
      <4> QED  BY <1>5, <1>7, <2>4, <2>5, <3>1, <4>1 DEF IsNewAck
    <3> QED  BY <3>1
  <2>7. k \in Range(connections) /\ k.port = c /\ k \in conn_t
    BY <1>4, <2>1 DEF Conns, Range
  <2>8. /\ k.init_seqno \in Uint32 /\ k.their_init_seqno \in Uint32
        /\ pkt.th_seq \in Uint32 /\ pkt.th_ack \in Uint32
    BY <1>3, <2>7 DEF conn_t, Datagram
  <2>9. (pkt.th_seq - k.their_init_seqno) % Long = 1 /\ (pkt.th_ack - k.init_seqno) % Long = 1
    BY <2>1, <2>2, <2>3 DEF Sees, AsSent
  <2>10. pkt.th_seq >= k.their_init_seqno /\ pkt.th_ack >= k.init_seqno
    BY <2>1, <2>8, <2>9, OneMore DEF Wraps
  <2>11. Matches(k, pkt)
    BY <1>7, <2>7, <2>10 DEF Matches
  <2> QED  BY <1>5, <2>6, <2>7, <2>11
<1>8. CASE pkt.port = c /\ ~(new_connection = c /\ \E k \in Conns(c) : ~Wraps(k))
  BY <1>2, <1>8 DEF NewAckFirst
<1> QED  BY <1>6, <1>7, <1>8

(* What is swallowed is the ACK of the handshake: what comes first of this  *)
(* client has number 0, that is, no segment of ctcp.c.                      *)
LEMMA SwallowedIsAck ==
  ASSUME TypeOK, TypeOK', sock[Server] # NULL, sock[Server] # <<>>,
         sock'[Server] = Tail(sock[Server]),
         recv_filter(connections, Head(sock[Server])) # NULL,
         IsNewAck(recv_filter(connections, Head(sock[Server])), Head(sock[Server])),
         NEW c \in Client, Head(sock[Server]).port = c, SessionOf(c)
  PROVE  Head(sock[Server]).seqno = 0
<1> DEFINE pkt == Head(sock[Server])
           conn == recv_filter(connections, pkt)
<1> USE Hosts
<1>1. AckFirst(Queued(Server), c) => pkt.seqno = 0
  BY ServerTakes
<1>2. pkt \in Datagram
  BY ReceivedQueue
<1>3. connections \in Seq(conn_t)
  BY DEF TypeOK
<1>4. conn \in Range(connections) /\ Matches(conn, pkt)
  BY <1>3, FilterMatches
<1>5. new_connection = c /\ convert_to_ctcp(conn, pkt) = [seqno |-> 1, ackno |-> 1]
  BY DEF IsNewAck
<1> HIDE DEF conn
<1>6. pkt.port = c
  OBVIOUS
<1> HIDE DEF pkt
<1>7. conn \in conn_t /\ conn \in Conns(c)
  BY <1>3, <1>4, <1>6 DEF Conns, Range, Matches
<1>8. /\ conn.init_seqno \in Uint32 /\ conn.their_init_seqno \in Uint32
      /\ pkt.th_seq \in Uint32 /\ pkt.th_ack \in Uint32
  BY <1>2, <1>7 DEF conn_t, Datagram
<1>9. (pkt.th_seq - conn.their_init_seqno) % Long = 1 /\ (pkt.th_ack - conn.init_seqno) % Long = 1
  BY <1>5 DEF convert_to_ctcp
<1>10. pkt.th_seq >= conn.their_init_seqno /\ pkt.th_ack >= conn.init_seqno
  BY <1>4 DEF Matches
<1>11. ~Wraps(conn)
  BY <1>8, <1>9, <1>10, OneMore DEF Wraps
<1>12. AckFirst(Queued(Server), c)
  BY <1>5, <1>7, <1>11 DEF SessionOf, NewAckFirst
<1> QED  BY <1>1, <1>12 DEF pkt

(* What the connection that recv_filter() finds makes of the packet.        *)
LEMMA HandedIsSeen ==
  ASSUME NEW conn, NEW pkt, Sees(conn, pkt)
  PROVE  convert_to_ctcp(conn, pkt) = AsSent(pkt)
<1>1. AsSent(pkt) = [seqno |-> AsSent(pkt).seqno, ackno |-> AsSent(pkt).ackno]
  BY DEF AsSent
<1> QED  BY <1>1 DEF Sees, convert_to_ctcp

LEMMA AcceptSession ==
  ASSUME SetupInv, SetupInv', SessionInv, pc[Server] = "do_loop", sock[Server] # <<>>,
         Syn(Head(sock[Server])), tcp_new_connection(Head(sock[Server])), ~AtLimit,
         NEW c \in Client, Head(sock[Server]).port = c, new_connection' = c,
         UNCHANGED <<pc, sconn, run>>
  PROVE  SessionInv'
<1> DEFINE pkt == Head(sock[Server])
<1> USE Hosts
<1>1. TypeOK /\ TypeOK' /\ sock[Server] # NULL /\ connections \in Seq(conn_t)
  BY DEF SetupInv, TypeOK
<1>2. /\ Received(Server)[Server] = Tail(sock[Server])
      /\ \A g \in Host : g # Server => Received(Server)[g] = sock[g]
      /\ Received(Server) \in [Host -> Queue] /\ pkt \in Datagram
  BY <1>1, ReceivedQueue
<1>3. c \in Host /\ c # Server
  OBVIOUS
<1>4. PICK n \in InitSeqno[Server] :
        /\ connections' = conn_add(conn_setup(c, n, pkt.th_seq))
        /\ sock' = Sent(Received(Server), c,
                        create_tcp_seg(Server, {"SYN", "ACK"}, n, pkt.th_seq + 1))
  BY DEF tcp_new_connection, send_tcp_conn_seg
<1> DEFINE conn == conn_setup(c, n, pkt.th_seq)
           synack == create_tcp_seg(Server, {"SYN", "ACK"}, n, pkt.th_seq + 1)
<1>5. n \in Uint32 /\ pkt.th_seq \in Uint32
  <2> HIDE DEF pkt
  <2> QED  BY <1>2, NumberAssumption DEF Datagram
<1>6. synack \in Datagram /\ Syn(synack) /\ synack.th_seq = n
  <2>1. pkt.th_seq + 1 \in Int /\ n \in Int /\ n % Long = n
    <3> HIDE DEF pkt
    <3>1. n % Long = n
      BY <1>5, Remainders
    <3>2. Long \in Nat
      BY NumberAssumption
    <3>3. \A x \in Uint32 : x \in Int /\ x + 1 \in Int
      BY <3>2 DEF Uint32
    <3> QED  BY <1>5, <3>1, <3>3
  <2>2. {"SYN", "ACK"} \in Flags
    BY DEF Flags
  <2>3. synack \in Datagram
    BY <2>1, <2>2, Made
  <2> QED  BY <2>1, <2>3 DEF create_tcp_seg, Syn
<1>7. /\ conn \in conn_t /\ conn.port = c
      /\ conn.init_seqno = n /\ conn.their_init_seqno = pkt.th_seq
  BY <1>3, <1>5, Made DEF conn_setup
<1>8. Range(connections') = {conn} \cup Range(connections)
  BY <1>1, <1>4, <1>7, AddedFacts
<1>9. sock' = Sent(Received(Server), c, synack)
  BY <1>4
<1>10. Syn(pkt) /\ pkt.port = c
  OBVIOUS
<1>11. \A d \in Client : SessionOf(d)
          => /\ Mine(d)' \subseteq Mine(d) /\ SynAlone(Queued(Server)', d)
             /\ pkt.port # d => Mine(d)' = Mine(d)
             /\ pkt.port = d => pkt \in Mine(d) /\ Mine(d)' = {}
  <2>1. Received(Server)[Server] = sock'[Server]
    <3> HIDE DEF synack
    <3>1. \A g \in Host : g # c => Sent(Received(Server), c, synack)[g] = Received(Server)[g]
      BY <1>2, <1>3, <1>6, SentFacts
    <3> QED  BY <1>3, <1>9, <3>1
  <2>2. sock'[Server] = Tail(sock[Server])
    BY <1>2, <2>1
  <2> QED  BY <1>1, <2>2, ServerTakes
<1> HIDE DEF pkt, conn, synack
<1>12. ASSUME NEW d \in Client, run'[d] = 1, d # c PROVE SessionOf(d)'
  <2>1. SessionOf(d)
    BY <1>12 DEF SessionInv
  <2>2. sock'[d] = sock[d]
    <3>1. \A g \in Host : g # c => Sent(Received(Server), c, synack)[g] = Received(Server)[g]
      BY <1>2, <1>3, <1>6, SentFacts
    <3> QED  BY <1>2, <1>9, <1>12, <3>1
  <2>3. Stays(d)
    BY <2>2 DEF Stays, Queued
  <2>4. Conns(d)' \subseteq Conns(d)
    BY <1>7, <1>8, <1>12 DEF Conns
  <2>5. NewAckFirst(d)'
    BY <1>12 DEF NewAckFirst
  <2> QED  BY <1>11, <2>1, <2>3, <2>4, <2>5, KeptSession
<1>13. ASSUME run'[c] = 1 PROVE SessionOf(c)'
  <2>1. SessionOf(c)
    BY <1>3, <1>13 DEF SessionInv
  <2>2. pkt \in Mine(c) /\ Mine(c)' = {} /\ SynAlone(Queued(Server)', c)
    BY <1>10, <1>11, <2>1
  <2>3. Conns(c) = {}
    BY <1>10, <2>1, <2>2 DEF SessionOf
  <2>4. Conns(c)' = {conn}
    BY <1>7, <1>8, <2>3 DEF Conns
  <2>5. pc[c] \in {"down", "recv_filter"}
    <3>1. pc[c] \in Starting \cup {"down", "do_loop"}
      BY <1>1, <1>3 DEF TypeOK
    <3>2. pc[c] # "do_loop"
      BY <1>10, <2>1, <2>2 DEF SessionOf, Connected
    <3>3. pc[c] \notin {"do_config", "join", "tcp_handshake"}
      BY <2>1, <2>2 DEF SessionOf
    <3> QED  BY <3>1, <3>2, <3>3 DEF Starting
  <2>6. NewAckFirst(c)'
    <3>1. Queued(Server)' \in Seq(Datagram)
      <4>1. sock'[Server] \in Seq(Datagram) \cup {NULL}
        BY <1>1 DEF TypeOK
      <4> QED  BY <4>1, NullFacts DEF Queued
    <3>2. \A p \in Range(Queued(Server)') : p.port # c
      BY <1>1, <2>2, MineFactsPrimed
    <3>3. AckFirst(Queued(Server)', c)
      BY <3>1, <3>2, EmptyQueue
    <3> QED  BY <2>5, <3>3 DEF NewAckFirst
  <2>7. CASE pc[c] = "recv_filter"
    <3>1. pkt.th_seq = sconn[c].init_seqno /\ Queued(c) = <<>>
      BY <2>1, <2>2, <2>7 DEF SessionOf, Answered
    <3>2. sock[c] # NULL
      BY <1>1, <1>3, <2>7 DEF TypeOK
    <3>3. sock[c] = <<>> /\ Len(sock[c]) < QueueLen
      BY <3>1, <3>2, BoundAssumption DEF Queued
    <3>4. Queued(c)' = Append(<<>>, synack)
      <4>1. c # Server /\ c \in Host
        BY <1>3
      <4>2. Received(Server)[c] = sock[c]
        BY <1>2, <4>1
      <4>3. Queued(c)' = Append(Queued(c), synack)
        BY <1>1, <1>2, <1>6, <1>9, <3>2, <3>3, <4>1, <4>2, SentGrows
      <4> QED  BY <3>1, <4>3
    <3>5. Queued(c)' # <<>> /\ Head(Queued(c)') = synack /\ Tail(Queued(c)') = <<>>
      BY <1>6, <3>4
    <3>6. Pairs(conn, sconn[c].init_seqno, synack.th_seq)
      BY <1>6, <1>7, <3>1 DEF Pairs
    <3>7. Range(<<>>) = {}
      BY DEF Range
    <3>8. Answered(c)'
      BY <1>6, <2>2, <2>4, <3>5, <3>6, <3>7 DEF Answered
    <3> QED  BY <2>2, <2>6, <2>7, <3>8 DEF SessionOf
  <2>8. CASE pc[c] = "down"
    BY <2>2, <2>6, <2>8 DEF SessionOf
  <2> QED  BY <2>5, <2>7, <2>8
<1> QED  BY <1>12, <1>13 DEF SessionInv

LEMMA ServerReceivesSession ==
  ASSUME SetupInv, SetupInv', SessionInv, ServerReceives
  PROVE  SessionInv' /\ HandedAsSent' /\ OnlyAcksAreSwallowed'
<1> DEFINE pkt == Head(sock[Server])
           conn == recv_filter(connections, pkt)
<1> USE Hosts
<1>1. /\ TypeOK /\ TypeOK' /\ pc[Server] = "do_loop" /\ sock[Server] # <<>> /\ sock[Server] # NULL
      /\ UNCHANGED <<pc, sconn, run>> /\ connections \in Seq(conn_t)
  BY DEF SetupInv, TypeOK, ServerReceives
<1>2. /\ Received(Server)[Server] = Tail(sock[Server])
      /\ \A g \in Host : g # Server => Received(Server)[g] = sock[g]
  BY <1>1, ReceivedQueue
<1>3. pkt.port \in Client
  <2>1. Takes(sock, Received(Server), Server)
    BY <1>1, QueuesBounded, ReceivedFacts
  <2> QED  BY <2>1 DEF Takes, SetupInv, Addressed
<1>4. PICK c \in Client : pkt.port = c
  BY <1>3
<1>5. NULL \notin Client /\ pc'[Server] = "do_loop"
  BY <1>1, HostAssumption DEF Host
<1>6. ASSUME sock' = Received(Server), UNCHANGED connections, NEW d \in Client, run'[d] = 1,
             SessionOf(d) => NewAckFirst(d)'
      PROVE  SessionOf(d)'
  <2>1. SessionOf(d)
    BY <1>1, <1>6 DEF SessionInv
  <2>2. sock'[d] = sock[d] /\ sock'[Server] = Tail(sock[Server])
    BY <1>2, <1>6
  <2>3. Stays(d)
    BY <1>1, <2>2 DEF Stays, Queued
  <2>4. Conns(d)' = Conns(d)
    BY <1>6 DEF Conns
  <2>5. Mine(d)' \subseteq Mine(d) /\ SynAlone(Queued(Server)', d)
    BY <1>1, <2>1, <2>2, ServerTakes
  <2> QED  BY <1>6, <2>1, <2>3, <2>4, <2>5, KeptSession
<1>7. CASE /\ conn # NULL /\ IsNewAck(conn, pkt) /\ Swallow(pkt)
           /\ sock' = Received(Server) /\ UNCHANGED <<connections, num_connected>>
  <2>1. new_connection' = NULL /\ swallowed' = pkt /\ handed' = NULL
    BY <1>7 DEF Swallow
  <2>2. \A d \in Client : NewAckFirst(d)'
    BY <1>5, <2>1 DEF NewAckFirst
  <2>3. SessionInv'
    BY <1>5, <1>6, <1>7, <2>2 DEF SessionInv
  <2>4. ASSUME run'[c] = 1 PROVE pkt.seqno = 0
    <3>1. SessionOf(c)
      BY <1>1, <2>4 DEF SessionInv
    <3>2. sock'[Server] = Tail(sock[Server])
      BY <1>2, <1>7
    <3> QED  BY <1>1, <1>4, <1>7, <3>1, <3>2, SwallowedIsAck
  <2> QED  BY <1>4, <2>1, <2>3, <2>4 DEF HandedAsSent, OnlyAcksAreSwallowed
<1>8. CASE /\ conn # NULL /\ ~IsNewAck(conn, pkt) /\ Hand(Server, conn, pkt)
           /\ sock' = Received(Server) /\ UNCHANGED server
  <2>1. UNCHANGED <<connections, new_connection>> /\ sock'[Server] = Tail(sock[Server])
    BY <1>2, <1>8 DEF server
  <2>2. conn \in Range(connections) /\ ~Syn(pkt) /\ Matches(conn, pkt)
    BY <1>1, <1>8, FilterMatches
  <2>3. \A d \in Client : SessionOf(d) => NewAckFirst(d)'
    BY <1>1, <1>8, <2>1, <2>2, ServerTakesOther
  <2>4. SessionInv'
    BY <1>5, <1>6, <1>8, <2>1, <2>3 DEF SessionInv
  <2>5. handed' = [to |-> Server, conn |-> conn, segment |-> convert_to_ctcp(conn, pkt), pkt |-> pkt]
        /\ swallowed' = NULL
    BY <1>8 DEF Hand
  <2> HIDE DEF conn
  <2>6. ASSUME run'[c] = 1 PROVE convert_to_ctcp(conn, pkt) = AsSent(pkt)
    <3>1. SessionOf(c)
      BY <1>1, <2>6 DEF SessionInv
    <3>2. pkt \in Mine(c)
      BY <1>1, <1>4, <2>1, <3>1, ServerTakes
    <3> HIDE DEF pkt
    <3>3. conn \in Conns(c)
      BY <1>4, <2>2 DEF Conns, Matches
    <3>4. Sees(conn, pkt)
      BY <2>2, <3>1, <3>2, <3>3 DEF SessionOf
    <3> QED  BY <3>4, HandedIsSeen
  <2> HIDE DEF pkt
  <2>7. /\ handed'.to = Server /\ handed'.conn = conn /\ handed'.pkt = pkt
        /\ handed'.segment = convert_to_ctcp(conn, pkt)
    BY <2>5
  <2>8. ClientOf(handed') = c /\ conn.port = pkt.port
    BY <1>4, <2>2, <2>7 DEF ClientOf, Matches
  <2>9. HandedAsSent'
    BY <2>6, <2>7, <2>8 DEF HandedAsSent
  <2>10. OnlyAcksAreSwallowed'
    BY <2>5 DEF OnlyAcksAreSwallowed
  <2> QED  BY <2>4, <2>9, <2>10
<1>9. CASE Syn(pkt) /\ tcp_new_connection(pkt) /\ new_connection' = pkt.port /\ Quiet
  <2>1. CASE AtLimit
    <3>1. sock' = Received(Server) /\ UNCHANGED connections
      BY <1>9, <2>1 DEF tcp_new_connection
    <3>2. ASSUME NEW d \in Client, SessionOf(d) PROVE NewAckFirst(d)'
      <4>1. CASE d # c
        BY <1>4, <1>9, <4>1 DEF NewAckFirst
      <4>2. CASE d = c
        <5>1. sock'[Server] = Tail(sock[Server])
          BY <1>2, <3>1
        <5>2. pkt \in Mine(c)
          BY <1>1, <1>4, <3>2, <4>2, <5>1, ServerTakes
        <5>3. Conns(c) = {}
          BY <1>9, <3>2, <4>2, <5>2 DEF SessionOf
        <5>4. Conns(c)' = {}
          BY <3>1, <5>3 DEF Conns
        <5> QED  BY <4>2, <5>4 DEF NewAckFirst
      <4> QED  BY <4>1, <4>2
    <3>3. SessionInv'
      BY <1>5, <1>6, <3>1, <3>2 DEF SessionInv
    <3> QED  BY <1>9, <3>3 DEF Quiet, HandedAsSent, OnlyAcksAreSwallowed
  <2>2. CASE ~AtLimit
    <3>1. SessionInv'
      BY <1>1, <1>4, <1>9, <2>2, AcceptSession
    <3> QED  BY <1>9, <3>1 DEF Quiet, HandedAsSent, OnlyAcksAreSwallowed
  <2> QED  BY <2>1, <2>2
<1>10. CASE conn = NULL /\ ~Syn(pkt) /\ sock' = Received(Server) /\ UNCHANGED server /\ Quiet
  <2>1. UNCHANGED <<connections, new_connection>> /\ sock'[Server] = Tail(sock[Server])
    BY <1>2, <1>10 DEF server
  <2>2. \A d \in Client : SessionOf(d) => NewAckFirst(d)'
    BY <1>1, <1>10, <2>1, ServerTakesOther
  <2>3. SessionInv'
    BY <1>5, <1>6, <1>10, <2>1, <2>2 DEF SessionInv
  <2> QED  BY <1>10, <2>3 DEF Quiet, HandedAsSent, OnlyAcksAreSwallowed
<1> QED  BY <1>7, <1>8, <1>9, <1>10 DEF ServerReceives, Syn

LEMMA ClientReceivesSession ==
  ASSUME SetupInv, SetupInv', SessionInv, NEW c \in Client, ClientReceives(c)
  PROVE  SessionInv' /\ HandedAsSent' /\ OnlyAcksAreSwallowed'
<1> DEFINE pkt == Head(sock[c])
           conn == recv_filter(<<sconn[c]>>, pkt)
<1> USE Hosts
<1>1. TypeOK /\ TypeOK' /\ pc[c] = "do_loop" /\ sock[c] # <<>> /\ sock[c] # NULL
  BY DEF SetupInv, TypeOK, ClientReceives
<1>2. /\ Queued(c) = sock[c] /\ sock[c] \in Seq(Datagram) /\ Tail(sock[c]) # NULL
      /\ Received(c)[c] = Tail(sock[c])
      /\ \A g \in Host : g # c => Received(c)[g] = sock[g]
  BY <1>1, ReceivedQueue
<1>3. CASE Exits(c) /\ sock' = [sock EXCEPT ![c] = NULL]
  <2>1. handed' = NULL /\ swallowed' = NULL
    BY <1>3 DEF Exits, Quiet
  <2>2. SessionInv'
    BY <1>3, ExitSession
  <2> QED  BY <2>1, <2>2 DEF HandedAsSent, OnlyAcksAreSwallowed
<1>4. CASE /\ IF conn # NULL THEN Hand(c, conn, pkt) ELSE Quiet
           /\ sock' = Received(c)
           /\ UNCHANGED <<pc, resets, sconn, server, run, sent>>
  <2>1. UNCHANGED <<pc, sconn, connections, new_connection, run>>
    BY <1>4 DEF server
  <2>2. /\ sock'[c] = Tail(sock[c]) /\ Queued(c)' = Tail(sock[c])
        /\ \A g \in Host : g # c => sock'[g] = sock[g]
    BY <1>2, <1>4 DEF Queued
  <2>3. \A d \in Client : Conns(d)' = Conns(d) /\ Mine(d)' = Mine(d)
    BY <2>1, <2>2 DEF Conns, Mine
  <2>4. Queued(Server)' = Queued(Server)
    BY <2>2 DEF Queued
  <2>5. Range(sock[c]) = {pkt} \cup Range(Tail(sock[c]))
    BY <1>1, <1>2, RangeFacts
  <2>6. ASSUME NEW d \in Client, run'[d] = 1 PROVE SessionOf(d)'
    <3>1. SessionOf(d)
      BY <2>1, <2>6 DEF SessionInv
    <3>2. CASE d = c
      <4>1. Connected(c)
        BY <1>1, <3>1, <3>2 DEF SessionOf
      <4>2. Connected(c)'
        BY <1>2, <2>1, <2>2, <2>3, <2>5, <4>1 DEF Connected
      <4>3. NewAckFirst(c)'
        BY <2>1, <2>3, <2>4, <3>1, <3>2 DEF SessionOf, NewAckFirst
      <4> QED  BY <1>1, <2>1, <2>3, <2>4, <3>1, <3>2, <4>2, <4>3 DEF SessionOf
    <3>3. CASE d # c
      <4>1. Stays(d)
        BY <2>1, <2>2, <3>3 DEF Stays, Queued
      <4> QED  BY <2>1, <2>2, <2>3, <3>1, <4>1, UntouchedSession
    <3> QED  BY <3>2, <3>3
  <2>7. SessionInv'
    BY <2>1, <2>6 DEF SessionInv
  <2>8. CASE conn = NULL
    BY <1>4, <2>7, <2>8 DEF Quiet, HandedAsSent, OnlyAcksAreSwallowed
  <2>9. CASE conn # NULL
    <3>1. <<sconn[c]>> \in Seq(conn_t) /\ Range(<<sconn[c]>>) = {sconn[c]}
      BY <1>1 DEF TypeOK, Range
    <3>2. conn \in Range(<<sconn[c]>>) /\ Matches(conn, pkt)
      BY <2>9, <3>1, FilterMatches
    <3>3. conn = sconn[c]
      BY <3>1, <3>2
    <3>4. handed' = [to |-> c, conn |-> conn, segment |-> convert_to_ctcp(conn, pkt), pkt |-> pkt]
          /\ swallowed' = NULL
      BY <1>4, <2>9 DEF Hand
    <3>5. ASSUME run'[c] = 1 PROVE convert_to_ctcp(conn, pkt) = AsSent(pkt)
      <4>1. Connected(c)
        BY <1>1, <2>1, <3>5 DEF SessionInv, SessionOf
      <4>2. Sees(conn, pkt)
        BY <1>2, <2>5, <3>3, <4>1 DEF Connected
      <4> QED  BY <4>2, HandedIsSeen
    <3> HIDE DEF pkt, conn
    <3>6. /\ handed'.to = c /\ handed'.conn = conn /\ handed'.pkt = pkt
          /\ handed'.segment = convert_to_ctcp(conn, pkt)
      BY <3>4
    <3>7. ClientOf(handed') = c /\ conn.port = pkt.port
      BY <3>2, <3>6 DEF ClientOf, Matches
    <3>8. HandedAsSent'
      BY <3>5, <3>6, <3>7 DEF HandedAsSent
    <3>9. OnlyAcksAreSwallowed'
      BY <3>4 DEF OnlyAcksAreSwallowed
    <3> QED  BY <2>7, <3>8, <3>9
  <2> QED  BY <2>8, <2>9
<1> QED  BY <1>3, <1>4 DEF ClientReceives

(* A segment sent over one of two paired connections, seen by the other.    *)
LEMMA SegmentSeen ==
  ASSUME NEW conn, NEW n \in Uint32, NEW theirs \in Uint32, Pairs(conn, n, theirs),
         NEW pkt \in Datagram, pkt.seqno # 0,
         pkt.th_seq = (pkt.seqno + n) % Long, pkt.th_ack = (pkt.ackno + theirs) % Long
  PROVE  Sees(conn, pkt)
<1>1. pkt.seqno \in Uint32 /\ pkt.ackno \in Uint32
  BY DEF Datagram
<1>2. /\ (((pkt.seqno + n) % Long) - n) % Long = pkt.seqno
      /\ (((pkt.ackno + theirs) % Long) - theirs) % Long = pkt.ackno
  BY <1>1, Relative
<1> QED  BY <1>2 DEF Sees, Pairs, AsSent

(* The packet that Send() puts on its way.                                  *)
IsSegment(h, conn, pkt) ==
  /\ pkt \in Datagram /\ pkt.port = h /\ ~Syn(pkt) /\ pkt.seqno # 0
  /\ pkt.th_seq = (pkt.seqno + conn.init_seqno) % Long
  /\ pkt.th_ack = (pkt.ackno + conn.their_init_seqno) % Long
  /\ sock' = Sent(sock, conn.port, pkt)

LEMMA SendMakes ==
  ASSUME NEW h \in Host, NEW conn \in conn_t, Send(h, conn)
  PROVE  \E pkt : IsSegment(h, conn, pkt)
<1>1. PICK s \in Numbers :
        sock' = Sent(sock, conn.port,
                     [flags |-> {"ACK"}, port |-> h,
                      th_seq |-> (s.seqno + conn.init_seqno) % Long,
                      th_ack |-> (s.ackno + conn.their_init_seqno) % Long,
                      seqno |-> s.seqno, ackno |-> s.ackno])
  BY DEF Send
<1> DEFINE x == (s.seqno + conn.init_seqno) % Long
           y == (s.ackno + conn.their_init_seqno) % Long
           pkt == [flags |-> {"ACK"}, port |-> h, th_seq |-> x, th_ack |-> y,
                   seqno |-> s.seqno, ackno |-> s.ackno]
<1>2. s.seqno \in Uint32 /\ s.ackno \in Uint32 /\ s.seqno # 0
  BY NumberAssumption
<1>3. x \in Uint32 /\ y \in Uint32
  <2>1. s.seqno + conn.init_seqno \in Int /\ s.ackno + conn.their_init_seqno \in Int
    BY <1>2, NumberAssumption DEF conn_t, Uint32
  <2> QED  BY <2>1, Remainders
<1>4. sock' = Sent(sock, conn.port, pkt)
  BY <1>1
<1>5. pkt.seqno = s.seqno /\ pkt.ackno = s.ackno /\ pkt.th_seq = x /\ pkt.th_ack = y
  OBVIOUS
<1>6. pkt.th_seq = (pkt.seqno + conn.init_seqno) % Long
      /\ pkt.th_ack = (pkt.ackno + conn.their_init_seqno) % Long
  BY <1>5
<1> HIDE DEF x, y
<1>7. pkt \in Datagram /\ pkt.port = h /\ ~Syn(pkt) /\ pkt.seqno # 0
  BY <1>2, <1>3 DEF Datagram, Flags, Syn
<1> HIDE DEF pkt
<1> QED  BY <1>4, <1>6, <1>7 DEF IsSegment

LEMMA ServerSendSession ==
  ASSUME SetupInv, SetupInv', SessionInv, NEW conn \in Range(connections), Send(Server, conn)
  PROVE  SessionInv'
<1> USE Hosts
<1>1. TypeOK /\ TypeOK' /\ sock \in [Host -> Queue]
  BY DEF SetupInv, TypeOK, Queue
<1>2. conn \in conn_t /\ conn.port \in Client
  BY DEF SetupInv, TypeOK, Addressed, Range
<1>3. UNCHANGED <<pc, sconn, connections, new_connection, run>>
  BY DEF Send, server
<1>4. PICK pkt : IsSegment(Server, conn, pkt)
  BY <1>2, SendMakes
<1>5. PICK c \in Client : c = conn.port
  BY <1>2
<1>6. pkt \in Datagram /\ sock' = Sent(sock, c, pkt)
  BY <1>4, <1>5 DEF IsSegment
<1>7. /\ \A g \in Host : g # c => sock'[g] = sock[g]
      /\ Grows(c, pkt) /\ (sock[c] = NULL => Queued(c)' = <<>>)
  <2>1. \A g \in Host : g # c => Sent(sock, c, pkt)[g] = sock[g]
    BY <1>1, <1>6, SentFacts
  <2>2. Grows(c, pkt) /\ (sock[c] = NULL => Queued(c)' = <<>>)
    BY <1>1, <1>6, SentGrows
  <2> QED  BY <1>6, <2>1, <2>2
<1>8. /\ \A d \in Client : Conns(d)' = Conns(d) /\ Mine(d)' = Mine(d)
      /\ Queued(Server)' = Queued(Server)
  BY <1>3, <1>7 DEF Conns, Mine, Queued
<1>9. ASSUME NEW d \in Client, run'[d] = 1 PROVE SessionOf(d)'
  <2>1. SessionOf(d)
    BY <1>3, <1>9 DEF SessionInv
  <2>2. CASE d # c \/ Queued(c)' = Queued(c)
    <3>1. Stays(d)
      BY <1>3, <1>7, <2>2 DEF Stays, Queued
    <3>2. sock'[Server] = sock[Server]
      BY <1>7
    <3> QED  BY <1>3, <1>8, <2>1, <3>1, <3>2, UntouchedSession
  <2>3. CASE d = c /\ Queued(c)' = Append(Queued(c), pkt)
    <3> DEFINE r == Queued(c)
    <3>1. conn \in Conns(c)
      BY <1>5 DEF Conns
    <3>2. r \in Seq(Datagram) /\ Range(Append(r, pkt)) = Range(r) \cup {pkt}
      BY <1>1, <1>6, QueuedFacts, RangeFacts
    <3>3. \A k, n, theirs : /\ n = conn.their_init_seqno /\ theirs = conn.init_seqno
                            /\ k.init_seqno = n /\ k.their_init_seqno = theirs
                            => Sees(k, pkt)
      <4> SUFFICES ASSUME NEW k, k.init_seqno = conn.their_init_seqno,
                          k.their_init_seqno = conn.init_seqno
                   PROVE  Sees(k, pkt)
        OBVIOUS
      <4>1. conn.init_seqno \in Uint32 /\ conn.their_init_seqno \in Uint32
        BY <1>2 DEF conn_t
      <4>2. Pairs(k, conn.init_seqno, conn.their_init_seqno)
        BY DEF Pairs
      <4>3. /\ pkt.seqno # 0 /\ pkt.th_seq = (pkt.seqno + conn.init_seqno) % Long
            /\ pkt.th_ack = (pkt.ackno + conn.their_init_seqno) % Long
        BY <1>4 DEF IsSegment
      <4> QED  BY <1>6, <4>1, <4>2, <4>3, SegmentSeen
    <3>4. NewAckFirst(c)'
      BY <1>3, <1>8, <2>1, <2>3 DEF SessionOf, NewAckFirst
    <3>5. ASSUME pc[c] = "recv_filter" PROVE Answered(c)'
      <4> DEFINE n == sconn[c].init_seqno
      <4>1. Answered(c)
        BY <2>1, <2>3, <3>5 DEF SessionOf
      <4>2. /\ r # <<>> /\ Pairs(conn, n, Head(r).th_seq) /\ Mine(c) = {} /\ Syn(Head(r))
            /\ \A k \in Conns(c) : Pairs(k, n, Head(r).th_seq)
            /\ \A p \in Range(Tail(r)) : Sees([init_seqno |-> n, their_init_seqno |-> Head(r).th_seq], p)
        BY <3>1, <4>1 DEF Answered
      <4>3. Sees([init_seqno |-> n, their_init_seqno |-> Head(r).th_seq], pkt)
        BY <3>3, <4>2 DEF Pairs
      <4>4. /\ Queued(c)' = Append(r, pkt) /\ Append(r, pkt) # <<>>
            /\ Head(Append(r, pkt)) = Head(r)
            /\ Tail(Append(r, pkt)) = Append(Tail(r), pkt)
            /\ Tail(r) \in Seq(Datagram)
        <5>1. r \in Seq(Datagram) /\ pkt \in Datagram /\ r # <<>>
          BY <1>6, <3>2, <4>2
        <5>2. Queued(c)' = Append(r, pkt)
          BY <2>3
        <5> HIDE DEF r
        <5>3. Append(r, pkt) # <<>> /\ Head(Append(r, pkt)) = Head(r) /\ Tail(r) \in Seq(Datagram)
          BY <5>1
        <5>4. Tail(Append(r, pkt)) = Append(Tail(r), pkt)
          BY <5>1
        <5> QED  BY <5>2, <5>3, <5>4
      <4>5. Range(Append(Tail(r), pkt)) = Range(Tail(r)) \cup {pkt}
        BY <1>6, <4>4, RangeFacts
      <4>6. \A p \in Range(Append(Tail(r), pkt)) :
              Sees([init_seqno |-> n, their_init_seqno |-> Head(r).th_seq], p)
        BY <4>2, <4>3, <4>5
      <4>7. sconn'[c].init_seqno = n /\ Head(Queued(c)') = Head(r)
            /\ Queued(c)' # <<>> /\ Tail(Queued(c)') = Append(Tail(r), pkt)
            /\ Mine(c)' = {} /\ Conns(c)' = Conns(c)
        BY <1>3, <1>8, <4>2, <4>4
      <4> HIDE DEF n, r
      <4> QED  BY <4>2, <4>6, <4>7 DEF Answered
    <3>6. ASSUME pc[c] = "do_loop" PROVE Connected(c)'
      <4>1. Connected(c)
        BY <2>1, <2>3, <3>6 DEF SessionOf
      <4>2. Sees(sconn[c], pkt)
        BY <3>1, <3>3, <4>1 DEF Connected, Pairs
      <4> QED  BY <1>3, <1>8, <2>3, <3>2, <4>1, <4>2 DEF Connected
    <3>7. pc[c] \notin {"do_config", "join", "tcp_handshake"}
      BY <2>1, <2>3, <3>1 DEF SessionOf
    <3> QED  BY <1>3, <1>8, <2>1, <2>3, <3>4, <3>5, <3>6, <3>7 DEF SessionOf
  <2> QED  BY <1>7, <2>2, <2>3 DEF Grows
<1> QED  BY <1>3, <1>9 DEF SessionInv

LEMMA ClientSendSession ==
  ASSUME SetupInv, SetupInv', SessionInv, NEW c \in Client, sconn[c] # NULL, Send(c, sconn[c])
  PROVE  SessionInv'
<1> DEFINE q == Queued(Server)
<1> USE Hosts
<1>1. TypeOK /\ TypeOK' /\ sock \in [Host -> Queue]
  BY DEF SetupInv, TypeOK, Queue
<1>2. sconn[c] \in conn_t /\ sconn[c].port = Server
  BY DEF SetupInv, TypeOK, Addressed
<1>3. pc[c] = "do_loop" /\ UNCHANGED <<pc, sconn, connections, new_connection, run>>
  BY DEF Send, server
<1>4. PICK pkt : IsSegment(c, sconn[c], pkt)
  BY <1>2, SendMakes
<1>5. /\ pkt \in Datagram /\ pkt.port = c /\ ~Syn(pkt) /\ pkt.seqno # 0
      /\ sock' = Sent(sock, Server, pkt)
  BY <1>2, <1>4 DEF IsSegment
<1>6. /\ \A g \in Host : g # Server => sock'[g] = sock[g]
      /\ Grows(Server, pkt)
  <2>1. \A g \in Host : g # Server => Sent(sock, Server, pkt)[g] = sock[g]
    BY <1>1, <1>5, SentFacts
  <2>2. Grows(Server, pkt)
    BY <1>1, <1>5, SentGrows
  <2> QED  BY <1>5, <2>1, <2>2
<1>7. \A d \in Client : Conns(d)' = Conns(d) /\ Queued(d)' = Queued(d)
  BY <1>3, <1>6 DEF Conns, Queued
<1>8. q \in Seq(Datagram) /\ Range(Append(q, pkt)) = Range(q) \cup {pkt}
  BY <1>1, <1>5, QueuedFacts, RangeFacts
<1>9. ASSUME NEW d \in Client, run'[d] = 1 PROVE SessionOf(d)'
  <2>1. SessionOf(d)
    BY <1>3, <1>9 DEF SessionInv
  <2>2. CASE d # c
    <3>1. Stays(d)
      BY <1>3, <1>7 DEF Stays
    <3> QED  BY <1>1, <1>3, <1>5, <1>6, <1>7, <2>1, <2>2, <3>1, OthersSession
  <2>3. CASE d = c
    <3>1. Connected(c) /\ SynAlone(q, c)
      BY <1>3, <2>1, <2>3 DEF SessionOf
    <3>2. Mine(c) = {p \in Range(q) : p.port = c}
          /\ Mine(c)' = {p \in Range(Queued(Server)') : p.port = c}
      BY <1>1, MineFacts, MineFactsPrimed
    <3>3. \A p \in Range(q) : p.port = c => ~Syn(p)
      BY <3>1, <3>2 DEF Connected
    <3>4. SynAlone(Append(q, pkt), c)
      BY <1>5, <1>8, <3>1, <3>3, SynAppended
    <3>5. AckFirst(q, c) /\ Mine(c) # {} => AckFirst(Append(q, pkt), c)
      BY <1>5, <1>8, <3>2, AckAppended
    <3>6. \A conn \in Conns(c) : Sees(conn, pkt)
      <4> SUFFICES ASSUME NEW conn \in Conns(c) PROVE Sees(conn, pkt)
        OBVIOUS
      <4>1. Pairs(conn, sconn[c].init_seqno, sconn[c].their_init_seqno)
        BY <3>1 DEF Connected
      <4>2. sconn[c].init_seqno \in Uint32 /\ sconn[c].their_init_seqno \in Uint32
        BY <1>2 DEF conn_t
      <4>3. /\ pkt.th_seq = (pkt.seqno + sconn[c].init_seqno) % Long
            /\ pkt.th_ack = (pkt.ackno + sconn[c].their_init_seqno) % Long
        BY <1>4 DEF IsSegment
      <4> QED  BY <1>5, <4>1, <4>2, <4>3, SegmentSeen
    <3> HIDE DEF q
    <3>7. /\ Mine(c) \subseteq Mine(c)' /\ Mine(c)' \subseteq Mine(c) \cup {pkt}
          /\ SynAlone(Queued(Server)', c)
          /\ AckFirst(q, c) /\ Mine(c) # {} => AckFirst(Queued(Server)', c)
      <4>1. CASE Queued(Server)' = q
        BY <3>1, <3>2, <4>1
      <4>2. CASE Queued(Server)' = Append(q, pkt)
        BY <1>8, <3>2, <3>4, <3>5, <4>2
      <4> QED  BY <1>6, <4>1, <4>2 DEF Grows, q
    <3>8. NewAckFirst(c)'
      <4>1. NewAckFirst(c)
        BY <2>1, <2>3 DEF SessionOf
      <4> QED  BY <1>3, <1>7, <3>7, <4>1 DEF NewAckFirst, q
    <3>9. Connected(c)'
      BY <1>3, <1>5, <1>7, <3>1, <3>7 DEF Connected
    <3>10. \A p \in Mine(c)' : IF Syn(p) THEN Conns(c)' = {} ELSE \A conn \in Conns(c)' : Sees(conn, p)
      BY <1>5, <1>7, <2>1, <2>3, <3>6, <3>7 DEF SessionOf
    <3> QED  BY <1>3, <2>3, <3>7, <3>8, <3>9, <3>10 DEF SessionOf
  <2> QED  BY <2>2, <2>3
<1> QED  BY <1>3, <1>9 DEF SessionInv

-----------------------------------------------------------------------------
(* What arrives *)

ArrivalInv == SetupInv /\ SessionInv /\ HandedAsSent /\ OnlyAcksAreSwallowed

LEMMA QuietArrivals ==
  ASSUME Quiet
  PROVE  HandedAsSent' /\ OnlyAcksAreSwallowed'
BY DEF Quiet, HandedAsSent, OnlyAcksAreSwallowed

LEMMA UnchangedSession ==
  ASSUME ArrivalInv, UNCHANGED vars
  PROVE  ArrivalInv'
<1>1. SetupInv'
  BY UnchangedStep DEF ArrivalInv
<1>2. SessionInv'
  <2>1. \A c \in Client : /\ Mine(c)' = Mine(c) /\ Conns(c)' = Conns(c)
                          /\ Queued(c)' = Queued(c) /\ Queued(Server)' = Queued(Server)
                          /\ pc'[c] = pc[c] /\ sconn'[c] = sconn[c]
    BY DEF vars, Mine, Conns, Queued
  <2>2. \A c \in Client : SessionOf(c) => SessionOf(c)'
    <3>1. \A c \in Client : Stays(c)
      BY <2>1 DEF Stays
    <3>2. UNCHANGED new_connection /\ sock'[Server] = sock[Server]
      BY DEF vars
    <3> QED  BY <2>1, <3>1, <3>2, UntouchedSession
  <2> QED  BY <2>2 DEF vars, ArrivalInv, SessionInv
<1>3. HandedAsSent' /\ OnlyAcksAreSwallowed'
  BY DEF vars, ArrivalInv, HandedAsSent, OnlyAcksAreSwallowed
<1> QED  BY <1>1, <1>2, <1>3 DEF ArrivalInv

LEMMA ArrivalStep ==
  ASSUME ArrivalInv, [Next]_vars
  PROVE  ArrivalInv'
<1>1. SetupInv /\ SetupInv' /\ SessionInv
  BY SetupStep DEF ArrivalInv
<1>2. CASE ServerReceives
  BY <1>1, <1>2, ServerReceivesSession DEF ArrivalInv
<1>3. ASSUME NEW c \in Client, ClientReceives(c) PROVE ArrivalInv'
  BY <1>1, <1>3, ClientReceivesSession DEF ArrivalInv
<1>4. CASE \E conn \in Range(connections) : Send(Server, conn)
  <2>1. SessionInv' /\ Quiet
    BY <1>1, <1>4, ServerSendSession DEF Send
  <2> QED  BY <1>1, <2>1, QuietArrivals DEF ArrivalInv
<1>5. ASSUME NEW c \in Client, sconn[c] # NULL /\ Send(c, sconn[c]) PROVE ArrivalInv'
  <2>1. SessionInv' /\ Quiet
    BY <1>1, <1>5, ClientSendSession DEF Send
  <2> QED  BY <1>1, <2>1, QuietArrivals DEF ArrivalInv
<1>6. ASSUME NEW h \in Host, Exits(h), sock' = [sock EXCEPT ![h] = NULL] PROVE ArrivalInv'
  <2>1. SessionInv' /\ Quiet
    BY <1>1, <1>6, ExitSession DEF Exits
  <2> QED  BY <1>1, <2>1, QuietArrivals DEF ArrivalInv
<1>7. ASSUME NEW c \in Client, send_syn(c) PROVE ArrivalInv'
  <2>1. CASE Exits(c) /\ sock' = [sock EXCEPT ![c] = NULL]
    BY <1>6, <2>1, Hosts
  <2>2. CASE sock[Server] # NULL /\ Quiet
    <3>1. SessionInv'
      BY <1>1, <1>7, <2>2, SynSession
    <3> QED  BY <1>1, <2>2, <3>1, QuietArrivals DEF ArrivalInv
  <2> QED  BY <1>7, <2>1, <2>2 DEF send_syn
<1>8. ASSUME NEW c \in Client, tcp_handshake(c) PROVE ArrivalInv'
  <2>1. CASE Exits(c) /\ sock' = [sock EXCEPT ![c] = NULL]
    BY <1>6, <2>1, Hosts
  <2>2. CASE /\ Connects(c, Head(sock[c])) \/ Continues(c, Head(sock[c]))
             /\ Goto(c, "do_loop")
             /\ UNCHANGED <<resets, server, run, sent>> /\ Quiet
    <3>1. UNCHANGED <<connections, new_connection, run>> /\ pc' = [pc EXCEPT ![c] = "do_loop"]
      BY <2>2 DEF server, Goto
    <3>2. SessionInv'
      BY <1>1, <1>8, <2>2, <3>1, ConnectSession, ContinueSession
    <3> QED  BY <1>1, <2>2, <3>2, QuietArrivals DEF ArrivalInv
  <2> QED  BY <1>8, <2>1, <2>2 DEF tcp_handshake
<1>9. ASSUME NEW c \in Client, NoAnswer(c) PROVE ArrivalInv'
  BY <1>6, <1>9, Hosts DEF NoAnswer
<1>10. ASSUME NEW h \in Host, Start(h) PROVE ArrivalInv'
  <2>1. SessionInv' /\ Quiet
    BY <1>1, <1>10, StartSession DEF Start
  <2> QED  BY <1>1, <2>1, QuietArrivals DEF ArrivalInv
<1>11. ASSUME NEW h \in Host, do_config(h) \/ Join(h) PROVE ArrivalInv'
  <2>1. SessionInv' /\ Quiet
    BY <1>1, <1>11, ConfigSession DEF do_config, Join
  <2> QED  BY <1>1, <2>1, QuietArrivals DEF ArrivalInv
<1>12. ASSUME NEW h \in Host, send_resets(h) PROVE ArrivalInv'
  <2>1. SessionInv' /\ Quiet
    BY <1>1, <1>12, ResetSession DEF send_resets
  <2> QED  BY <1>1, <2>1, QuietArrivals DEF ArrivalInv
<1>13. ASSUME NEW h \in Host, Killed(h) PROVE ArrivalInv'
  BY <1>6, <1>13 DEF Killed
<1>14. CASE UNCHANGED vars
  BY <1>14, UnchangedSession
<1> QED  BY <1>2, <1>3, <1>4, <1>5, <1>7, <1>8, <1>9, <1>10, <1>11, <1>12, <1>13, <1>14 DEF Next

LEMMA ArrivalInvariant == Spec => []ArrivalInv
<1>1. Init => ArrivalInv
  BY InitSetupInv, InitSessionInv DEF ArrivalInv, Init, HandedAsSent, OnlyAcksAreSwallowed
<1>2. ArrivalInv /\ [Next]_vars => ArrivalInv'
  BY ArrivalStep
<1> QED  BY <1>1, <1>2, PTL DEF Spec

(* For a client that runs the first time, whatever the others and the       *)
(* server do: a SYN is alone, the packets under way have the numbers that   *)
(* their receiver will give them back, and the ACK of tcp_handshake() comes *)
(* before any segment of ctcp.c.                                            *)
THEOREM SessionInvariant == Spec => []SessionInv
<1>1. ArrivalInv => SessionInv
  BY DEF ArrivalInv
<1> QED  BY <1>1, ArrivalInvariant, PTL

(* recv_filter() and convert_to_ctcp() hand ctcp_receive() a segment on the *)
(* connection, and with the relative numbers, that it was sent with.        *)
THEOREM SegmentsArriveAsSent == Spec => []HandedAsSent
<1>1. ArrivalInv => HandedAsSent
  BY DEF ArrivalInv
<1> QED  BY <1>1, ArrivalInvariant, PTL

(* do_loop() never takes the first segment of ctcp.c for the ACK of the     *)
(* handshake, although both have the relative numbers 1 and 1.              *)
THEOREM NoSegmentIsSwallowed == Spec => []OnlyAcksAreSwallowed
<1>1. ArrivalInv => OnlyAcksAreSwallowed
  BY DEF ArrivalInv
<1> QED  BY <1>1, ArrivalInvariant, PTL
=============================================================================
