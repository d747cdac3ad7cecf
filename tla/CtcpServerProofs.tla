-------------------------- MODULE CtcpServerProofs --------------------------
(***************************************************************************)
(* The lists of the server stay consistent with each other and with the    *)
(* memory that has been freed, for any number of clients: ServerInv is     *)
(* inductive.                                                              *)
(***************************************************************************)
EXTENDS CtcpServer, TLAPS

(* Updates of a ctcp_state_t.                                               *)
LEMMA Updates ==
  ASSUME NEW s \in Tcb
  PROVE  /\ s.pending \in BOOLEAN /\ s.queued \in BOOLEAN /\ s.tim \in Ticks
         /\ \A p \in BOOLEAN : [s EXCEPT !.pending = p] \in Tcb
         /\ \A q \in BOOLEAN : [s EXCEPT !.queued = q] \in Tcb
         /\ \A p, q \in BOOLEAN : [s EXCEPT !.pending = p, !.queued = q] \in Tcb
         /\ \A c \in ConnState : [s EXCEPT !.conn_state = c] \in Tcb
         /\ \A p \in BOOLEAN, c \in ConnState :
              [s EXCEPT !.pending = p, !.conn_state = c] \in Tcb
         /\ \A d \in TdState, t \in Ticks : [s EXCEPT !.td_state = d, !.tim = t] \in Tcb
         /\ \A t \in Ticks : [s EXCEPT !.tim = t] \in Tcb
<1>1. s.pending \in BOOLEAN /\ s.queued \in BOOLEAN /\ s.tim \in Ticks
  BY Zenon DEF Tcb
<1>2. \A p \in BOOLEAN : [s EXCEPT !.pending = p] \in Tcb
  BY Zenon DEF Tcb
<1>3. \A q \in BOOLEAN : [s EXCEPT !.queued = q] \in Tcb
  BY Zenon DEF Tcb
<1>4. \A p, q \in BOOLEAN : [s EXCEPT !.pending = p, !.queued = q] \in Tcb
  BY Zenon DEF Tcb
<1>5. \A c \in ConnState : [s EXCEPT !.conn_state = c] \in Tcb
  BY Zenon DEF Tcb
<1>6. \A p \in BOOLEAN, c \in ConnState :
        [s EXCEPT !.pending = p, !.conn_state = c] \in Tcb
  BY Zenon DEF Tcb
<1>7. \A d \in TdState, t \in Ticks : [s EXCEPT !.td_state = d, !.tim = t] \in Tcb
  BY Zenon DEF Tcb
<1>8. \A t \in Ticks : [s EXCEPT !.tim = t] \in Tcb
  BY Zenon DEF Tcb
<1> QED  BY <1>1, <1>2, <1>3, <1>4, <1>5, <1>6, <1>7, <1>8

(* A new ctcp_state_t.                                                      *)
LEMMA InitTyped == ctcp_init \in Tcb
<1>1. 0 \in Ticks
  BY WaitAssumption, SMT DEF Ticks
<1> QED  BY <1>1, Zenon DEF ctcp_init, Tcb, ConnState, TdState

(* The server starts with both lists empty.                                 *)
LEMMA InitServerInv == Init => ServerInv
<1> SUFFICES ASSUME Init PROVE ServerInv
  OBVIOUS
<1>1. /\ pc \in Place /\ cur \in 0..MaxClients
      /\ num_connected \in 0..MaxClients /\ new_connection \in 0..MaxClients
  BY ClientsAssumption, SMT DEF Init, Place
<1>2. pollout \in BOOLEAN /\ tcb \in [Conns -> Tcb]
  BY InitTyped, Zenon DEF Init
<1>3. TypeOK
  BY <1>1, <1>2, Zenon DEF Init, TypeOK
<1>4. Accepted = {}
  BY SMT DEF Init, Accepted
<1> QED
  BY <1>3, <1>4, SMT DEF Init, ServerInv, TimerOnLive, LoopOnLive, ListsAgree

(* What the handlers of one connection leave is again a ctcp_state_t.       *)
LEMMA HandlersTyped ==
  ASSUME NEW s \in Tcb
  PROVE  /\ ctcp_read(s) \subseteq Tcb
         /\ conn_drain(s) \subseteq Tcb
         /\ \A kind \in {"ack", "data", "fin"} : ctcp_receive(s, kind) \subseteq Tcb
         /\ ~WaitOver(s) => retransmission_handler(s) \subseteq Tcb
<1>1. ctcp_read(s) \subseteq Tcb
  <2>1. "TEAR_DOWN" \in ConnState
    BY DEF ConnState
  <2>2. [s EXCEPT !.pending = TRUE] \in Tcb
    BY Updates, Zenon
  <2>3. [s EXCEPT !.pending = TRUE, !.conn_state = "TEAR_DOWN"] \in Tcb
    BY <2>1, Updates, Zenon
  <2> QED  BY <2>2, <2>3, Zenon DEF ctcp_read
<1>2. ASSUME NEW t \in Tcb PROVE ctcp_output(t) \subseteq Tcb
  BY Updates, Zenon DEF ctcp_output
<1>3. conn_drain(s) \subseteq Tcb
  <2>1. ASSUME NEW q \in BOOLEAN
        PROVE  ctcp_output([s EXCEPT !.queued = q]) \subseteq Tcb
    BY <1>2, Updates, Zenon
  <2> QED  BY <2>1, Zenon DEF conn_drain
<1>4. ASSUME NEW kind \in {"ack", "data", "fin"}
      PROVE  ctcp_receive(s, kind) \subseteq Tcb
  <2>1. /\ "WAIT_LAST_ACK" \in ConnState /\ "WAIT_LAST_FIN" \in ConnState
        /\ "WAIT_DESTROY" \in TdState
    BY DEF ConnState, TdState
  <2>2. 0 \in Ticks
    BY WaitAssumption, SMT DEF Ticks
  <2>3. ctcp_output(s) \subseteq Tcb
    BY <1>2
  <2>4. /\ [s EXCEPT !.pending = FALSE] \in Tcb
        /\ [s EXCEPT !.conn_state = "WAIT_LAST_FIN"] \in Tcb
        /\ [s EXCEPT !.td_state = "WAIT_DESTROY", !.tim = 0] \in Tcb
    BY <2>1, <2>2, Updates, Zenon
  <2>5. \A p \in {s.pending, TRUE} :
          [s EXCEPT !.pending = p, !.conn_state = "WAIT_LAST_ACK"] \in Tcb
    BY <2>1, Updates, Zenon
  <2>6. CASE kind = "ack"
    BY <2>6, <2>4, Zenon DEF ctcp_receive
  <2>7. CASE kind = "data"
    BY <2>3, <2>7, <2>4, Zenon DEF ctcp_receive
  <2>8. CASE kind = "fin"
    BY <2>8, <2>4, <2>5, Zenon DEF ctcp_receive
  <2> QED  BY <2>6, <2>7, <2>8
<1>5. ASSUME ~WaitOver(s) PROVE retransmission_handler(s) \subseteq Tcb
  <2>1. CASE s.td_state = "WAIT_DESTROY"
    <3>1. s.tim \in Ticks
      BY Updates, Zenon
    <3>2. s.tim + 1 \in Ticks
      BY <1>5, <2>1, <3>1, WaitAssumption, SMT DEF WaitOver, Ticks
    <3>3. Ticked(s) \in Tcb
      BY <2>1, <3>2, Updates, Zenon DEF Ticked
    <3> QED  BY <3>3, Updates, Zenon DEF retransmission_handler
  <2>2. CASE s.td_state # "WAIT_DESTROY"
    BY <2>2, Updates, Zenon DEF retransmission_handler, Ticked
  <2> QED  BY <2>1, <2>2
<1> QED  BY <1>1, <1>3, <1>4, <1>5

(* Return() and ctcp_destroy() keep tcb typed.                              *)
LEMMA TcbUpdates ==
  ASSUME tcb \in [Conns -> Tcb], NEW c
  PROVE  /\ \A s \in Tcb : Return(c, s) => tcb' \in [Conns -> Tcb]
         /\ ctcp_destroy(c) => tcb' \in [Conns -> Tcb]
<1>1. \A s \in Tcb : [tcb EXCEPT ![c] = s] \in [Conns -> Tcb]
  BY Zenon
<1> QED  BY <1>1, InitTyped, Zenon DEF Return, ctcp_destroy

(* Every step keeps the states and pollout typed.                           *)
LEMMA NextTcb ==
  ASSUME ServerInv, Next
  PROVE  tcb' \in [Conns -> Tcb] /\ pollout' \in BOOLEAN
<1>1. tcb \in [Conns -> Tcb] /\ pollout \in BOOLEAN
  BY Zenon DEF ServerInv, TypeOK
<1>2. /\ state_list \subseteq Conns /\ connections \subseteq Conns
      /\ pc = "walk" => cur \in Conns
      /\ pc = "drain" => cur \in Conns
  <2>1. Accepted \subseteq Conns
    BY ClientsAssumption, SMT DEF ServerInv, TypeOK, Accepted, Conns
  <2> QED  BY <2>1, Zenon DEF ServerInv, TypeOK, TimerOnLive, LoopOnLive
<1>3. \A c \in Conns : tcb[c] \in Tcb
  BY <1>1, Zenon
<1>4. \A c \in Conns : tcb[c].queued \in BOOLEAN
  BY <1>3, Updates, Zenon
<1>5. CASE UNCHANGED <<tcb, pollout>>
  BY <1>1, <1>5, Zenon
<1>6. CASE Stdin
  <2>1. PICK c \in connections : \E s \in ctcp_read(tcb[c]) : Return(c, s)
    BY <1>6, Zenon DEF Stdin
  <2>2. PICK s \in ctcp_read(tcb[c]) : Return(c, s)
    BY <2>1
  <2>3. s \in Tcb
    BY <1>2, <1>3, <2>1, <2>2, HandlersTyped, Zenon
  <2>4. UNCHANGED pollout
    BY <1>6 DEF Stdin
  <2> QED  BY <1>1, <2>2, <2>3, <2>4, TcbUpdates, Zenon
<1>7. CASE Drain
  <2>1. cur \in Conns
    BY <1>2, <1>7, Zenon DEF Drain
  <2>2. CASE tcb[cur].queued
    <3>1. PICK s \in conn_drain(tcb[cur]) : Return(cur, s) /\ pollout' \in {FALSE, s.queued}
      BY <1>7, <2>2, Zenon DEF Drain
    <3>2. s \in Tcb
      BY <1>3, <2>1, <3>1, HandlersTyped, Zenon
    <3>3. s.queued \in BOOLEAN
      BY <3>2, Updates, Zenon
    <3> QED  BY <1>1, <3>1, <3>2, <3>3, TcbUpdates, Zenon
  <2>3. CASE ~tcb[cur].queued
    <3>1. Return(cur, tcb[cur]) /\ pollout' = FALSE
      BY <1>7, <2>3, Zenon DEF Drain
    <3> QED  BY <1>1, <1>3, <2>1, <3>1, TcbUpdates, Zenon
  <2> QED  BY <2>2, <2>3
<1>8. CASE DrainDestroys
  BY <1>1, <1>8, TcbUpdates, Zenon DEF DrainDestroys
<1>9. CASE tcp_new_connection
  <2>1. tcb' = [tcb EXCEPT ![num_connected + 1] = ctcp_init] /\ UNCHANGED pollout
    BY <1>9, Zenon DEF tcp_new_connection
  <2> QED  BY <1>1, <2>1, InitTyped, Zenon
<1>10. ASSUME NEW c \in connections, NEW kind \in {"ack", "data", "fin"},
              Receive(c, kind)
       PROVE  tcb' \in [Conns -> Tcb] /\ pollout' \in BOOLEAN
  <2>1. CASE ctcp_destroy(c) /\ UNCHANGED pollout
    BY <1>1, <2>1, TcbUpdates, Zenon
  <2>2. CASE \E s \in ctcp_receive(tcb[c], kind) :
               /\ Return(c, s)
               /\ pollout' \in {pollout, pollout \/ (kind = "data" /\ s.queued)}
    <3>1. PICK s \in ctcp_receive(tcb[c], kind) :
               /\ Return(c, s)
               /\ pollout' \in {pollout, pollout \/ (kind = "data" /\ s.queued)}
      BY <2>2
    <3>2. s \in Tcb
      BY <1>2, <1>3, <3>1, HandlersTyped, Zenon
    <3>3. pollout' \in BOOLEAN
      BY <1>1, <3>1, Zenon
    <3> QED  BY <1>1, <3>1, <3>2, <3>3, TcbUpdates, Zenon
  <2> QED  BY <1>10, <2>1, <2>2, Zenon DEF Receive
<1>11. CASE Walk
  <2>1. cur \in Conns /\ UNCHANGED pollout
    BY <1>2, <1>11, Zenon DEF Walk
  <2>2. CASE WaitOver(tcb[cur])
    BY <1>1, <1>11, <2>1, <2>2, TcbUpdates, Zenon DEF Walk
  <2>3. CASE ~WaitOver(tcb[cur])
    <3>1. PICK s \in retransmission_handler(tcb[cur]) : Return(cur, s)
      BY <1>11, <2>3, Zenon DEF Walk
    <3>2. s \in Tcb
      BY <1>3, <2>1, <2>3, <3>1, HandlersTyped, Zenon
    <3> QED  BY <1>1, <2>1, <3>1, <3>2, TcbUpdates, Zenon
  <2> QED  BY <2>2, <2>3
<1> QED
  BY <1>5, <1>6, <1>7, <1>8, <1>9, <1>10, <1>11, Zenon
     DEF Next, NoStdin, Stdout, NoStdout, DrainAborts, Socket, NoPacket,
         RefusedSyn, Swallow, ReceiveOnFreed, NoTimer, Timer,
         delete_all_connections, Undefined, Quiet, vars

(* ServerInv without the types of tcb and pollout.                          *)
Lists == /\ pc \in Place
         /\ num_connected \in 0..MaxClients /\ new_connection \in 0..MaxClients
         /\ cur \in 0..MaxClients
         /\ connections \subseteq Accepted /\ freed \subseteq Accepted
         /\ delete_me \subseteq Accepted /\ state_list \subseteq Accepted
         /\ TimerOnLive /\ LoopOnLive /\ ListsAgree

(* Steps that leave every list alone and touch no state after this one.     *)
LEMMA Moves ==
  ASSUME Lists, UNCHANGED <<lists, delete_me, state_list>>,
         pc' \in Place, cur' \in 0..MaxClients,
         pc' = "walk" => cur' \in state_list,
         pc' \in {"stdin", "stdout"} => connections \subseteq state_list,
         pc' = "drain" => /\ cur' \in connections
                          /\ \A c \in connections : c <= cur' => c \in state_list
  PROVE  Lists'
<1>1. Accepted' = Accepted
  BY DEF lists, Accepted
<1>2. cur' \in Accepted => cur' <= cur'
  BY SMT DEF Accepted
<1> QED
  BY <1>1, <1>2, Zenon DEF Lists, TimerOnLive, LoopOnLive, ListsAgree, lists

(* ctcp_destroy() of a state that is in its list, before the list of        *)
(* connections is visited again.                                            *)
LEMMA DestroyMoves ==
  ASSUME Lists, NEW c \in state_list, UNCHANGED lists, ctcp_destroy(c),
         pc' \in Place \ {"stdin", "stdout"}, cur' \in 0..MaxClients,
         pc' = "walk" => cur' \in state_list \ {c},
         pc' = "drain" =>
           /\ cur' \in connections /\ cur' < c
           /\ \A d \in connections : d <= cur' => d \in state_list
  PROVE  Lists'
<1>1. Accepted' = Accepted /\ Accepted \subseteq Int
  BY SMT DEF lists, Accepted, Lists
<1>2. \A d \in Accepted : pc' = "drain" /\ d <= cur' => d # c
  BY <1>1, SMT DEF Lists
<1>3. /\ connections' = connections /\ freed' = freed
      /\ num_connected' = num_connected /\ new_connection' = new_connection
      /\ state_list' = state_list \ {c} /\ delete_me' = delete_me \cup {c}
  BY DEF lists, ctcp_destroy
<1>4. pc' = "drain" => cur' <= cur'
  BY <1>1, SMT DEF Lists
<1>5. c \in Accepted
  BY Zenon DEF Lists
<1>6. ListsAgree'
  BY <1>1, <1>2, <1>3, <1>5, SMT DEF Lists, ListsAgree
<1>7. TimerOnLive'
  BY <1>3, SMT DEF Lists, TimerOnLive
<1>8. LoopOnLive'
  BY <1>1, <1>2, <1>3, <1>4, SMT DEF Lists, LoopOnLive, Place
<1> QED  BY <1>1, <1>3, <1>5, <1>6, <1>7, <1>8, Zenon DEF Lists

(* tcp_new_connection() puts the connection and its state into their lists. *)
LEMMA AcceptLists == ASSUME Lists, tcp_new_connection PROVE Lists'
<1> DEFINE c == num_connected + 1
<1>1. /\ pc' = "timer" /\ cur' = cur /\ freed' = freed /\ delete_me' = delete_me
      /\ num_connected' = c /\ new_connection' = c
      /\ connections' = connections \cup {c} /\ state_list' = state_list \cup {c}
  BY DEF tcp_new_connection
<1>2. c \in 0..MaxClients
  BY ClientsAssumption, SMT DEF Lists, tcp_new_connection, Refuses
<1>3. Accepted' = Accepted \cup {c} /\ c \notin Accepted
  BY <1>1, SMT DEF Lists, Accepted
<1> HIDE DEF c
<1>4. TimerOnLive' /\ LoopOnLive' /\ ListsAgree'
  BY <1>1, <1>3, SMT DEF Lists, TimerOnLive, LoopOnLive, ListsAgree
<1> QED  BY <1>1, <1>2, <1>3, <1>4, SMT DEF Lists, Place

(* delete_all_connections() frees what is marked, and no more.              *)
LEMMA DeleteLists == ASSUME Lists, delete_all_connections PROVE Lists'
<1>1. /\ pc' \in {"stdin", "undefined"} /\ cur' = cur
      /\ num_connected' = num_connected /\ new_connection' = new_connection
      /\ delete_me' = delete_me /\ state_list' = state_list
      /\ freed' = freed \cup (connections \cap delete_me)
      /\ connections' \subseteq connections \ delete_me
  BY SMT DEF delete_all_connections, Quiet
<1>2. Accepted' = Accepted
  BY <1>1 DEF Accepted
<1>3. TimerOnLive' /\ LoopOnLive' /\ ListsAgree'
  BY <1>1, <1>2, SMT DEF Lists, TimerOnLive, LoopOnLive, ListsAgree
<1> QED  BY <1>1, <1>2, <1>3, SMT DEF Lists, Place

(* ctcp_timer() goes on from the second state of a list that has lost at    *)
(* most the state it was at.                                                *)
LEMMA WalkLists == ASSUME Lists, Walk PROVE Lists'
<1>1. pc = "walk" /\ cur \in state_list /\ UNCHANGED lists
  BY DEF Walk, Lists, TimerOnLive
<1>2. /\ pc' \in {"walk", "delete", "undefined"}
      /\ pc' = "walk" => cur' \in state_list'
      /\ pc' # "walk" => cur' = 0
  BY SMT DEF Walk, NextState
<1>3. state_list \subseteq 0..MaxClients /\ 0 \in 0..MaxClients
  BY ClientsAssumption, SMT DEF Lists, Accepted
<1>4. CASE ctcp_destroy(cur)
  <2>1. state_list' = state_list \ {cur}
    BY <1>4 DEF ctcp_destroy
  <2>2. cur' \in 0..MaxClients
    BY <1>2, <1>3, <2>1, Zenon
  <2>3. pc' \in Place \ {"stdin", "stdout"} /\ pc' # "drain"
    BY <1>2, SMT DEF Place
  <2> QED  BY <1>1, <1>2, <1>4, <2>1, <2>2, <2>3, DestroyMoves, Zenon
<1>5. CASE UNCHANGED <<delete_me, state_list>>
  <2>1. cur' \in 0..MaxClients
    BY <1>2, <1>3, <1>5, Zenon
  <2>2. pc' \in Place /\ pc' \notin {"stdin", "stdout"} /\ pc' # "drain"
    BY <1>2, SMT DEF Place
  <2> QED  BY <1>1, <1>2, <1>5, <2>1, <2>2, Moves, Zenon
<1> QED  BY <1>4, <1>5, Zenon DEF Walk, Return

(* The drain goes on to the next older connection.                          *)
LEMMA DrainLists == ASSUME Lists, Drain \/ DrainDestroys PROVE Lists'
<1>1. pc = "drain" /\ NextConn /\ UNCHANGED lists
  BY Zenon DEF Drain, DrainDestroys
<1>2. /\ cur \in connections /\ cur \in state_list
      /\ \A c \in connections : c <= cur => c \in state_list
  BY <1>1, Zenon DEF Lists, LoopOnLive, ListsAgree
<1>3. connections \subseteq 0..MaxClients /\ 0 \in 0..MaxClients
  BY ClientsAssumption, SMT DEF Lists, Accepted
<1>4. \/ pc' = "drain" /\ cur' \in connections /\ cur' < cur
      \/ pc' = "socket" /\ cur' = 0
  BY <1>1, Zenon DEF NextConn, IsNext
<1>5. /\ pc' \in Place \ {"stdin", "stdout"} /\ pc' # "walk"
      /\ pc' = "drain" => cur' \in connections /\ cur' < cur
  BY <1>4, SMT DEF Place
<1>6. cur' \in 0..MaxClients
  BY <1>3, <1>4, Zenon
<1>7. ASSUME pc' = "drain", NEW c \in connections, c <= cur'
      PROVE  c \in state_list
  <2>1. c \in Int /\ cur \in Int /\ cur' \in Int
    BY <1>2, <1>3, <1>6, SMT
  <2>2. c <= cur
    BY <1>5, <1>7, <2>1, SMT
  <2> QED  BY <1>2, <2>2
<1>8. CASE Drain
  <2>1. UNCHANGED <<delete_me, state_list>>
    BY <1>8, Zenon DEF Drain, Return
  <2> QED  BY <1>1, <1>2, <1>5, <1>6, <1>7, <2>1, Moves, Zenon
<1>9. CASE DrainDestroys
  <2>1. ctcp_destroy(cur)
    BY <1>9 DEF DrainDestroys
  <2> QED  BY <1>1, <1>2, <1>5, <1>6, <1>7, <2>1, DestroyMoves, Zenon
<1> QED  BY <1>8, <1>9

(* A segment for a live connection may destroy it.                          *)
LEMMA ReceiveLists ==
  ASSUME Lists, NEW c \in connections, NEW kind, Receive(c, kind)
  PROVE  Lists'
<1>1. /\ pc' = "timer" /\ c \in state_list /\ UNCHANGED lists /\ cur' = cur
  BY DEF Receive
<1>2. pc' \in Place \ {"stdin", "stdout"} /\ pc' # "walk" /\ pc' # "drain"
  BY <1>1, SMT DEF Place
<1>3. cur' \in 0..MaxClients
  BY <1>1 DEF Lists
<1>4. CASE ctcp_destroy(c)
  BY <1>1, <1>2, <1>3, <1>4, DestroyMoves, Zenon
<1>5. CASE UNCHANGED <<delete_me, state_list>>
  BY <1>1, <1>2, <1>3, <1>5, Moves, Zenon
<1> QED  BY <1>4, <1>5, Zenon DEF Receive, Return

(* Every step preserves Lists.                                              *)
LEMMA NextLists == ASSUME Lists, Next PROVE Lists'
<1>1. CASE Stdin \/ NoStdin
  <2>1. /\ pc = "stdin" /\ pc' = "stdout" /\ cur' = cur
        /\ UNCHANGED <<lists, delete_me, state_list>>
    BY <1>1, Zenon DEF Stdin, NoStdin, Return
  <2>2. connections \subseteq state_list
    BY <2>1, SMT DEF Lists, LoopOnLive
  <2>3. pc' \in Place /\ pc' # "walk" /\ pc' # "drain" /\ cur' \in 0..MaxClients
    BY <2>1, SMT DEF Place, Lists
  <2> QED  BY <2>1, <2>2, <2>3, Moves, Zenon
<1>2. CASE Stdout
  <2>1. /\ pc = "stdout" /\ pc' \in {"socket", "drain"}
        /\ pc' = "drain" => IsHead(cur', connections)
        /\ pc' = "socket" => cur' = cur
        /\ UNCHANGED <<lists, delete_me, state_list>>
    BY <1>2, SMT DEF Stdout
  <2>2. connections \subseteq state_list
    BY <2>1, SMT DEF Lists, LoopOnLive
  <2>3. pc' = "drain" => cur' \in connections
    BY <2>1 DEF IsHead
  <2>4. connections \subseteq 0..MaxClients
    BY ClientsAssumption, SMT DEF Lists, Accepted
  <2>5. cur' \in 0..MaxClients
    BY <2>1, <2>3, <2>4, Zenon DEF Lists
  <2>6. pc' \in Place /\ pc' # "walk"
    BY <2>1, SMT DEF Place
  <2> QED  BY <2>1, <2>2, <2>3, <2>5, <2>6, Moves, Zenon
<1>3. CASE Timer
  <2>1. /\ pc' \in {"delete", "walk"}
        /\ pc' = "walk" => cur' \in state_list
        /\ pc' = "delete" => cur' = cur
        /\ UNCHANGED <<lists, delete_me, state_list>>
    BY <1>3, SMT DEF Timer, IsHead, Quiet
  <2>2. state_list \subseteq 0..MaxClients
    BY ClientsAssumption, SMT DEF Lists, Accepted
  <2>3. cur' \in 0..MaxClients
    BY <2>1, <2>2, Zenon DEF Lists
  <2>4. pc' \in Place /\ pc' \notin {"stdin", "stdout"} /\ pc' # "drain"
    BY <2>1, SMT DEF Place
  <2> QED  BY <2>1, <2>3, <2>4, Moves, Zenon
<1>4. CASE \/ NoStdout \/ DrainAborts \/ NoPacket \/ NoTimer
           \/ \E c \in connections : ReceiveOnFreed(c)
  <2>1. /\ pc' \in {"socket", "undefined", "timer", "delete"} /\ cur' = cur
        /\ UNCHANGED <<lists, delete_me, state_list>>
    BY <1>4, SMT DEF NoStdout, DrainAborts, NoPacket, NoTimer, ReceiveOnFreed, Quiet
  <2>2. /\ pc' \in Place /\ pc' \notin {"stdin", "stdout"}
        /\ pc' # "walk" /\ pc' # "drain" /\ cur' \in 0..MaxClients
    BY <2>1, SMT DEF Place, Lists
  <2> QED  BY <2>1, <2>2, Moves, Zenon
<1>5. CASE RefusedSyn \/ Swallow
  <2>1. /\ pc' = "timer" /\ cur' = cur /\ new_connection' = 0
        /\ num_connected' = num_connected /\ connections' = connections
        /\ freed' = freed /\ delete_me' = delete_me /\ state_list' = state_list
    BY <1>5 DEF RefusedSyn, Swallow, Quiet
  <2>2. Accepted' = Accepted /\ new_connection' \in 0..MaxClients
    BY <2>1, ClientsAssumption, SMT DEF Accepted
  <2>3. TimerOnLive' /\ LoopOnLive' /\ ListsAgree'
    BY <2>1, <2>2, SMT DEF Lists, TimerOnLive, LoopOnLive, ListsAgree
  <2> QED  BY <2>1, <2>2, <2>3, SMT DEF Lists, Place
<1>6. CASE Undefined
  BY <1>6, Zenon DEF Undefined, vars, lists, Lists, TimerOnLive, LoopOnLive,
                     ListsAgree, Accepted
<1> QED
  BY <1>1, <1>2, <1>3, <1>4, <1>5, <1>6, AcceptLists, DeleteLists, WalkLists,
     DrainLists, ReceiveLists, Zenon DEF Next, Socket

(* ServerInv is an invariant of the server, for any number of clients.      *)
THEOREM ServerInvariant == Spec => []ServerInv
<1>1. ServerInv /\ [Next]_vars => ServerInv'
  <2> SUFFICES ASSUME ServerInv, [Next]_vars PROVE ServerInv'
    OBVIOUS
  <2>1. Lists
    BY Zenon DEF ServerInv, TypeOK, Lists
  <2>2. CASE Next
    <3>1. Lists'
      BY <2>1, <2>2, NextLists
    <3>2. tcb' \in [Conns -> Tcb] /\ pollout' \in BOOLEAN
      BY <2>2, NextTcb
    <3>3. Conns' = Conns /\ Tcb' = Tcb
      OBVIOUS
    <3> QED  BY <3>1, <3>2, <3>3, Zenon DEF ServerInv, TypeOK, Lists
  <2>3. CASE UNCHANGED vars
    BY <2>3, Zenon DEF ServerInv, TypeOK, TimerOnLive, LoopOnLive, ListsAgree,
                       Accepted, vars, lists
  <2> QED  BY <2>2, <2>3
<1> QED  BY <1>1, InitServerInv, PTL DEF Spec

(* ctcp_timer() never touches a destroyed state or a freed connection.      *)
THEOREM TimerSafe == Spec => []TimerOnLive
<1>1. ServerInv => TimerOnLive
  BY DEF ServerInv
<1> QED  BY <1>1, ServerInvariant, PTL

(* Nor do ctcp_read() and conn_drain() as do_loop() calls them.             *)
THEOREM LoopSafe == Spec => []LoopOnLive
<1>1. ServerInv => LoopOnLive
  BY DEF ServerInv
<1> QED  BY <1>1, ServerInvariant, PTL

(* The server's table and the lists of its ends keep their types: no more   *)
(* than MaxClients connections are ever accepted.                           *)
THEOREM ServerTypeCorrect == Spec => []TypeOK
<1>1. ServerInv => TypeOK
  BY DEF ServerInv
<1> QED  BY <1>1, ServerInvariant, PTL
=============================================================================
