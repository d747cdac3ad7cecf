----------------------------- MODULE CtcpServer -----------------------------
(***************************************************************************)
(* A server with several clients: do_loop() pass by pass, the list of      *)
(* connections (conn_t) the library keeps, the list of states              *)
(* (ctcp_state_t) that ctcp.c keeps, and ctcp_timer() walking over the     *)
(* latter.  Of the transport itself, module Ctcp, only what decides about  *)
(* the lists is left.                                                      *)
(*                                                                         *)
(* Connections are numbered in the order in which they are accepted.  Both *)
(* lists are extended at the front only, so that a list is the set of its  *)
(* members: its head is the newest, next is the next older member.         *)
(***************************************************************************)
EXTENDS Integers, FiniteSets

CONSTANTS
  MaxClients,  \* MAX_NUM_CLIENTS
  Wait         \* ticks of WAIT_DESTROY: 50 rt_timeout / timer

ASSUME ClientsAssumption == MaxClients \in Nat \ {0}
ASSUME WaitAssumption == Wait \in Nat \ {0}

VARIABLES
  pc,              \* the part of do_loop() that comes next
  num_connected,
  new_connection,  \* the connection whose first ACK is swallowed, 0: none
  connections,     \* the list config->connections
  freed,           \* the conn_t that conn_free() has freed
  delete_me,       \* the conn_t with delete_me set, freed ones included
  state_list,      \* the list state_list of ctcp.c
  tcb,             \* the ctcp_state_t, and the out_queue, of each connection
  cur,             \* conn in the drain loop, state in ctcp_timer(), else 0
  pollout          \* POLLOUT is requested for stdout

lists == <<num_connected, new_connection, connections, freed>>
vars == <<pc, lists, delete_me, state_list, tcb, cur, pollout>>

Conns == 1..MaxClients
Accepted == 1..num_connected

(* "undefined": the process used freed memory, wrote through a dangling     *)
(* pointer or followed NULL.  Nothing is said about it from there on.       *)
Place == {"stdin", "stdout", "drain", "socket", "timer", "walk", "delete",
          "undefined"}

(* pending: sent_segment_attr # NULL.  queued: out_queue is not empty.      *)
ConnState == {"DATA_TRANSFER", "TEAR_DOWN", "WAIT_LAST_FIN", "WAIT_LAST_ACK"}
TdState == {"NOT_TEARDOWN", "WAIT_DESTROY"}
Ticks == 0..Wait
Tcb == [conn_state : ConnState, pending : BOOLEAN, td_state : TdState,
        tim : Ticks, queued : BOOLEAN]

ctcp_init == [conn_state |-> "DATA_TRANSFER", pending |-> FALSE,
              td_state |-> "NOT_TEARDOWN", tim |-> 0, queued |-> FALSE]

Init == /\ pc = "stdin"
        /\ num_connected = 0 /\ new_connection = 0
        /\ connections = {} /\ freed = {} /\ delete_me = {} /\ state_list = {}
        /\ tcb = [c \in Conns |-> ctcp_init]
        /\ cur = 0 /\ pollout = TRUE

(* c is the head of the list.                                               *)
IsHead(c, list) == c \in list /\ \A d \in list : d <= c

(* d follows c in the list.                                                 *)
IsNext(d, c, list) == d \in list /\ d < c /\ \A e \in list : e < c => e <= d

(* The handler leaves connection c with the state s.                        *)
Return(c, s) == /\ tcb' = [tcb EXCEPT ![c] = s]
                /\ UNCHANGED <<delete_me, state_list>>

ctcp_destroy_KeepsState(c) == /\ delete_me' = delete_me \cup {c}
                              /\ tcb' = [tcb EXCEPT ![c] = ctcp_init]
                              /\ UNCHANGED state_list
ctcp_destroy_KeepsConn(c) == /\ state_list' = state_list \ {c}
                             /\ tcb' = [tcb EXCEPT ![c] = ctcp_init]
                             /\ UNCHANGED delete_me
(* ctcp_destroy() on the server: the state leaves its list and is freed     *)
(* (its contents no longer matter), conn_remove() marks the connection.     *)
ctcp_destroy(c) == /\ state_list' = state_list \ {c}
                   /\ delete_me' = delete_me \cup {c}
                   /\ tcb' = [tcb EXCEPT ![c] = ctcp_init]

-----------------------------------------------------------------------------
(* stdin: ctcp_read() for the most recent connection *)

(* Data, or the end of file; nothing is kept of a segment that is not sent. *)
ctcp_read(s) ==
  {s} \cup IF s.pending THEN {}
           ELSE {[s EXCEPT !.pending = TRUE],
                 [s EXCEPT !.pending = TRUE, !.conn_state = "TEAR_DOWN"]}

Stdin == /\ pc = "stdin" /\ pc' = "stdout"
         /\ \E c \in connections : /\ IsHead(c, connections)
                                   /\ \E s \in ctcp_read(tcb[c]) : Return(c, s)
         /\ UNCHANGED <<lists, cur, pollout>>

NoStdin == /\ pc = "stdin" /\ pc' = "stdout"
           /\ UNCHANGED <<lists, delete_me, state_list, tcb, cur, pollout>>

-----------------------------------------------------------------------------
(* stdout: conn_drain() for every connection *)

(* ctcp_output() that does not fail: it found no room, or it has printed    *)
(* the segment, maybe leaving some of it queued.                            *)
ctcp_output(s) == {s} \cup {[s EXCEPT !.pending = FALSE, !.queued = q] :
                              q \in {s.queued, TRUE}}

(* conn_drain(): stdout refuses, or it takes all or some of the queue and   *)
(* ctcp_output() is called.                                                 *)
conn_drain(s) == {s} \cup UNION {ctcp_output([s EXCEPT !.queued = q]) :
                                   q \in BOOLEAN}

Stdout == /\ pc = "stdout" /\ pollout
          /\ \/ connections = {} /\ pc' = "socket" /\ UNCHANGED cur
             \/ \E c \in connections : IsHead(c, connections) /\ cur' = c
                                       /\ pc' = "drain"
          /\ UNCHANGED <<lists, delete_me, state_list, tcb, pollout>>

NoStdout == /\ pc = "stdout" /\ pc' = "socket"
            /\ UNCHANGED <<lists, delete_me, state_list, tcb, cur, pollout>>

(* conn = conn->next, in the list as it is: nothing leaves it before the    *)
(* end of the pass.                                                         *)
NextConn == \/ \E d \in connections : /\ IsNext(d, cur, connections)
                                      /\ cur' = d /\ pc' = "drain"
            \/ /\ \A d \in connections : d >= cur
               /\ pc' = "socket" /\ cur' = 0

(* Each conn_drain() cancels POLLOUT, requested again for what is left of   *)
(* this connection's queue only.                                            *)
Drain == /\ pc = "drain"
         /\ IF tcb[cur].queued
            THEN \E s \in conn_drain(tcb[cur]) : /\ Return(cur, s)
                                                 /\ pollout' \in {FALSE, s.queued}
            ELSE Return(cur, tcb[cur]) /\ pollout' = FALSE
         /\ NextConn
         /\ UNCHANGED lists

(* conn_output() met an error of stdout.                                    *)
DrainDestroys == /\ pc = "drain" /\ tcb[cur].queued
                 /\ ctcp_destroy(cur)
                 /\ pollout' = FALSE
                 /\ NextConn
                 /\ UNCHANGED lists

(* ctcp_output() frees a segment for the second time.                       *)
DrainAborts == /\ pc = "drain" /\ tcb[cur].queued /\ pc' = "undefined"
               /\ UNCHANGED <<lists, delete_me, state_list, tcb, cur, pollout>>

-----------------------------------------------------------------------------
(* The socket: recv_filter(), then ctcp_receive() or tcp_new_connection() *)

Quiet == UNCHANGED <<delete_me, state_list, tcb>>

NoPacket == /\ pc = "socket" /\ pc' = "timer"
            /\ UNCHANGED <<lists, cur, pollout>> /\ Quiet

(* A SYN.  num_connected counts the clients that ever connected; a refused  *)
(* client's port, which no connection has, replaces new_connection too.     *)
Refuses_OffByOne == num_connected > MaxClients
Refuses == num_connected >= MaxClients

tcp_new_connection ==
  /\ pc = "socket" /\ pc' = "timer" /\ ~Refuses
  /\ LET c == num_connected + 1 IN
       /\ num_connected' = c /\ new_connection' = c
       /\ connections' = connections \cup {c}
       /\ state_list' = state_list \cup {c}
       /\ tcb' = [tcb EXCEPT ![c] = ctcp_init]
  /\ UNCHANGED <<freed, delete_me, cur, pollout>>

RefusedSyn == /\ pc = "socket" /\ pc' = "timer" /\ Refuses
              /\ new_connection' = 0
              /\ UNCHANGED <<num_connected, connections, freed, cur, pollout>>
              /\ Quiet

(* The ACK that ends the handshake, or a first segment in its place.        *)
Swallow == /\ pc = "socket" /\ pc' = "timer"
           /\ new_connection \in connections /\ new_connection' = 0
           /\ UNCHANGED <<num_connected, connections, freed, cur, pollout>>
           /\ Quiet

(* ctcp_receive() on an ACK, data or a FIN, when it does not destroy the    *)
(* connection; invalid and old segments change nothing.                     *)
ctcp_receive(s, kind) ==
  {s} \cup
  IF s.conn_state = "DATA_TRANSFER" THEN
    CASE kind = "ack"  -> {[s EXCEPT !.pending = FALSE]}
      [] kind = "data" -> ctcp_output(s)
      [] kind = "fin"  -> {[s EXCEPT !.pending = p, !.conn_state = "WAIT_LAST_ACK"] :
                             p \in {s.pending, TRUE}}
  ELSE IF s.conn_state = "TEAR_DOWN" /\ kind # "fin" THEN
    {[s EXCEPT !.conn_state = "WAIT_LAST_FIN"]}
  ELSE IF s.conn_state = "WAIT_LAST_FIN" /\ kind = "fin" THEN
    {[s EXCEPT !.td_state = "WAIT_DESTROY", !.tim = 0]}
  ELSE {}

(* ... and when it does: stdout fails, a simultaneous close, the last ACK.  *)
Destroys(s, kind) == \/ s.conn_state = "DATA_TRANSFER" /\ kind = "data"
                     \/ s.conn_state = "TEAR_DOWN" /\ kind = "fin"
                     \/ s.conn_state = "WAIT_LAST_ACK" /\ kind # "fin"

Receive(c, kind) ==
  /\ pc = "socket" /\ pc' = "timer" /\ c \in state_list
  /\ \/ \E s \in ctcp_receive(tcb[c], kind) :
          /\ Return(c, s)
          /\ pollout' \in {pollout, pollout \/ (kind = "data" /\ s.queued)}
     \/ Destroys(tcb[c], kind) /\ ctcp_destroy(c) /\ UNCHANGED pollout
  /\ UNCHANGED <<lists, cur>>

(* The connection was destroyed earlier in this pass, by its drain, and its *)
(* state is freed.                                                          *)
ReceiveOnFreed(c) ==
  /\ pc = "socket" /\ pc' \in {"timer", "undefined"} /\ c \notin state_list
  /\ UNCHANGED <<lists, cur, pollout>> /\ Quiet

(* A segment belongs to the connection, in the list, of its sender's port.  *)
Socket == \/ NoPacket \/ tcp_new_connection \/ RefusedSyn \/ Swallow
          \/ \E c \in connections, kind \in {"ack", "data", "fin"} :
               Receive(c, kind) \/ ReceiveOnFreed(c)

-----------------------------------------------------------------------------
(* ctcp_timer() *)

NoTimer == /\ pc = "timer" /\ pc' = "delete"
           /\ UNCHANGED <<lists, cur, pollout>> /\ Quiet

Timer == /\ pc = "timer"
         /\ \/ state_list = {} /\ pc' = "delete" /\ UNCHANGED cur
            \/ \E c \in state_list : IsHead(c, state_list) /\ cur' = c
                                     /\ pc' = "walk"
         /\ UNCHANGED <<lists, pollout>> /\ Quiet

(* retransmission_handler() that goes on after the switch.                  *)
WaitOver(s) == s.td_state = "WAIT_DESTROY" /\ s.tim + 1 >= Wait
Ticked(s) == IF s.td_state = "WAIT_DESTROY" THEN [s EXCEPT !.tim = @ + 1] ELSE s

(* The segment is given up at its fifth retransmission.                     *)
retransmission_handler(s) ==
  {Ticked(s), [Ticked(s) EXCEPT !.pending = FALSE]}

(* state = state_list->next, whatever state was; state_list may be NULL.    *)
NextState(list) ==
  \/ \E h, c \in list : /\ IsHead(h, list) /\ IsNext(c, h, list)
                        /\ cur' = c /\ pc' = "walk"
  \/ list # {} /\ (\A c \in list : IsHead(c, list))
     /\ pc' = "delete" /\ cur' = 0
  \/ list = {} /\ pc' = "undefined" /\ cur' = 0

Walk ==
  /\ pc = "walk"
  /\ \/ /\ WaitOver(tcb[cur])
        /\ ctcp_destroy(cur)
     \/ /\ ~WaitOver(tcb[cur])
        /\ \E s \in retransmission_handler(tcb[cur]) : Return(cur, s)
  /\ NextState(state_list')
  /\ UNCHANGED <<lists, pollout>>

-----------------------------------------------------------------------------

delete_all_connections_LeavesOlder ==
  LET dead == connections \cap delete_me
      head == \E c \in dead : IsHead(c, connections)
  IN  /\ pc = "delete"
      /\ pc' \in IF head THEN {"stdin", "undefined"} ELSE {"stdin"}
      /\ freed' = freed \cup dead
      /\ connections' = IF head THEN {} ELSE connections
      /\ UNCHANGED <<num_connected, new_connection, cur, pollout>> /\ Quiet
(* Every marked connection of the list is freed.  conn_free() of the head   *)
(* writes through prev, the address of a local variable of conn_add(), and  *)
(* sets config->connections to NULL.                                        *)
delete_all_connections ==
  LET dead == connections \cap delete_me
      head == \E c \in dead : IsHead(c, connections)
  IN  /\ pc = "delete"
      /\ pc' \in IF head THEN {"stdin", "undefined"} ELSE {"stdin"}
      /\ freed' = freed \cup dead
      /\ connections' = IF head THEN {} ELSE connections \ dead
      /\ UNCHANGED <<num_connected, new_connection, cur, pollout>> /\ Quiet

Undefined == pc = "undefined" /\ UNCHANGED vars

Next == \/ Stdin \/ NoStdin
        \/ Stdout \/ NoStdout \/ Drain \/ DrainDestroys \/ DrainAborts
        \/ Socket
        \/ NoTimer \/ Timer \/ Walk
        \/ delete_all_connections
        \/ Undefined

Spec == Init /\ [][Next]_vars

(* One thread that never blocks for longer than the timer's interval.       *)
FairSpec == Spec /\ WF_vars(Next)

-----------------------------------------------------------------------------
(* Properties *)

(* Every variable has its type.                                             *)
TypeOK == /\ pc \in Place
          /\ num_connected \in 0..MaxClients
          /\ new_connection \in 0..MaxClients
          /\ connections \subseteq Accepted /\ freed \subseteq Accepted
          /\ delete_me \subseteq Accepted /\ state_list \subseteq Accepted
          /\ tcb \in [Conns -> Tcb]
          /\ cur \in 0..MaxClients /\ pollout \in BOOLEAN

(* The timer never touches freed memory: it walks over states that are not  *)
(* destroyed, although it destroys some as it goes, and the connections     *)
(* they send through are not freed.                                         *)
TimerOnLive == /\ pc = "walk" => cur \in state_list
               /\ state_list \cap freed = {}

(* Neither do the handlers of stdin and stdout: no connection of the list   *)
(* outlives the pass that destroyed its state.                              *)
LoopOnLive == /\ pc \in {"stdin", "stdout"} => connections \subseteq state_list
              /\ pc = "drain" => cur \in connections \cap state_list
              /\ connections \cap freed = {}

(* What makes the two inductive: a state that is accepted and not destroyed *)
(* is in the list of the timer, only marked connections are freed, and the  *)
(* drain has still to reach the older connections.                          *)
ListsAgree == /\ state_list = Accepted \ delete_me
              /\ freed \subseteq delete_me
              /\ pc = "drain" => \A c \in connections : c <= cur => c \in state_list
ServerInv == TypeOK /\ TimerOnLive /\ LoopOnLive /\ ListsAgree

(* ctcp.h:174: ctcp_timer() is called periodically, so that it returns.     *)
TimerReturns == (pc = "walk") ~> (pc # "walk")
=============================================================================
