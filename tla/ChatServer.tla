------------------------------ MODULE ChatServer ------------------------------
(***************************************************************************)
(* lab2/server/server.cpp: main accepts connections and starts a handler   *)
(* thread for each; main and the handlers share client_list, num_clients   *)
(* and next_id under list_mutex.  What is done under the mutex is one      *)
(* step.  A handler takes its socket and its identity from client_list     *)
(* when it starts, without the mutex, and keeps the index it was given.    *)
(* What the packets contain is left out, except for whom they reach.       *)
(***************************************************************************)
EXTENDS Integers, FiniteSets

CONSTANTS Conn,          \* connections that clients make, one each
          NoConn,
          MAX_CLIENTS    \* 100

ASSUME ChatAssumption ==
  MAX_CLIENTS \in Nat \ {0} /\ IsFiniteSet(Conn) /\ NoConn \notin Conn

Fd   == 1 .. Cardinality(Conn)   \* descriptor numbers that accept() may return
Slot == 0 .. MAX_CLIENTS - 1

Blank == [id |-> 0, addr |-> NoConn, sock |-> 0]   \* a zeroed struct Client

VARIABLES conn,          \* conn[c]: "new", "waiting" to be accepted, "open", "left", "refused"
          fd,            \* fd[n]: the connection behind descriptor n, NoConn if it is not in use
          client_list, num_clients, next_id,
          accepted,      \* main: descriptor and address just accepted, NotAccepted if none
          handler,       \* handler[c]: the thread started for c: its step and its locals
          running        \* the process has not been killed

vars == <<conn, fd, client_list, num_clients, next_id, accepted, handler, running>>

NotAccepted == [sock |-> 0, addr |-> NoConn]
NoThread    == [at |-> "none", index |-> 0, sock |-> 0, my_id |-> 0]
NewThread(index) == [at |-> "start", index |-> index, sock |-> 0, my_id |-> 0]

Init ==
  /\ conn = [c \in Conn |-> "new"]
  /\ fd = [n \in Fd |-> NoConn]
  /\ client_list = [i \in Slot |-> Blank]
  /\ num_clients = 0
  /\ next_id = 1
  /\ accepted = NotAccepted
  /\ handler = [c \in Conn |-> NoThread]
  /\ running = TRUE

\* A client connects, and leaves.
ClientConnects(c) ==
  /\ conn[c] = "new"
  /\ conn' = [conn EXCEPT ![c] = "waiting"]
  /\ UNCHANGED <<fd, client_list, num_clients, next_id, accepted, handler, running>>

ClientLeaves(c) ==
  /\ conn[c] = "open"
  /\ conn' = [conn EXCEPT ![c] = "left"]
  /\ UNCHANGED <<fd, client_list, num_clients, next_id, accepted, handler, running>>

\* accept() returns the lowest descriptor that is not in use.
Accept(c) ==
  /\ accepted = NotAccepted
  /\ conn[c] = "waiting"
  /\ \E n \in Fd :
       /\ fd[n] = NoConn /\ \A m \in 1 .. n - 1 : fd[m] # NoConn
       /\ fd' = [fd EXCEPT ![n] = c]
       /\ accepted' = [sock |-> n, addr |-> c]
  /\ conn' = [conn EXCEPT ![c] = "open"]
  /\ UNCHANGED <<client_list, num_clients, next_id, handler, running>>

\* Mutation: one client more than there is room for.
Add_overfull ==
  /\ accepted # NotAccepted
  /\ num_clients <= MAX_CLIENTS
  /\ client_list' = [client_list EXCEPT ![num_clients] =
                       [id |-> next_id, addr |-> accepted.addr, sock |-> accepted.sock]]
  /\ handler' = [handler EXCEPT ![accepted.addr] = NewThread(num_clients)]
  /\ num_clients' = num_clients + 1
  /\ next_id' = next_id + 1
  /\ accepted' = NotAccepted
  /\ UNCHANGED <<conn, fd, running>>

\* Mutation: ids are taken from the size of the list.
Add_reusing_id ==
  /\ accepted # NotAccepted
  /\ num_clients < MAX_CLIENTS
  /\ client_list' = [client_list EXCEPT ![num_clients] =
                       [id |-> num_clients + 1, addr |-> accepted.addr, sock |-> accepted.sock]]
  /\ handler' = [handler EXCEPT ![accepted.addr] = NewThread(num_clients)]
  /\ num_clients' = num_clients + 1
  /\ next_id' = next_id + 1
  /\ accepted' = NotAccepted
  /\ UNCHANGED <<conn, fd, running>>

\* main enters the connection in the list and starts its handler.
Add ==
  /\ accepted # NotAccepted
  /\ num_clients < MAX_CLIENTS
  /\ client_list' = [client_list EXCEPT ![num_clients] =
                       [id |-> next_id, addr |-> accepted.addr, sock |-> accepted.sock]]
  /\ handler' = [handler EXCEPT ![accepted.addr] = NewThread(num_clients)]
  /\ num_clients' = num_clients + 1
  /\ next_id' = next_id + 1
  /\ accepted' = NotAccepted
  /\ UNCHANGED <<conn, fd, running>>

Refuse ==
  /\ accepted # NotAccepted
  /\ ~(num_clients < MAX_CLIENTS)
  /\ conn' = [conn EXCEPT ![accepted.addr] = "refused"]
  /\ fd' = [fd EXCEPT ![accepted.sock] = NoConn]
  /\ accepted' = NotAccepted
  /\ UNCHANGED <<client_list, num_clients, next_id, handler, running>>

\* The handler's first two lines, outside the mutex.
ReadSock(c) ==
  /\ handler[c].at = "start"
  /\ handler' = [handler EXCEPT ![c].sock = client_list[handler[c].index].sock, ![c].at = "sock read"]
  /\ UNCHANGED <<conn, fd, client_list, num_clients, next_id, accepted, running>>

ReadId(c) ==
  /\ handler[c].at = "sock read"
  /\ handler' = [handler EXCEPT ![c].my_id = client_list[handler[c].index].id, ![c].at = "serving"]
  /\ UNCHANGED <<conn, fd, client_list, num_clients, next_id, accepted, running>>

\* The connection a handler reads from, if its descriptor is still in use.
served(c) == fd[handler[c].sock]

can_read(c) == served(c) # NoConn /\ conn[served(c)] = "open"

\* A message is forwarded to the descriptor of the first entry with the target's id.
\* Two send() calls on a connection that the other side has closed may raise SIGPIPE,
\* which nothing handles.
Message(c, target_id) ==
  /\ handler[c].at = "serving"
  /\ can_read(c)
  /\ \E i \in 0 .. num_clients - 1 :
       /\ client_list[i].id = target_id
       /\ fd[client_list[i].sock] # NoConn
       /\ conn[fd[client_list[i].sock]] = "left"
  /\ running' = FALSE
  /\ UNCHANGED <<conn, fd, client_list, num_clients, next_id, accepted, handler>>

\* Mutation: the place that the last entry leaves is cleared.
Remove_clearing(c) ==
  /\ handler[c].at = "serving"
  /\ client_list' = [i \in Slot |-> IF i = num_clients - 1 THEN Blank
                                    ELSE IF handler[c].index <= i /\ i < num_clients - 1
                                    THEN client_list[i + 1] ELSE client_list[i]]
  /\ num_clients' = num_clients - 1
  /\ handler' = [handler EXCEPT ![c].at = "removed"]
  /\ UNCHANGED <<conn, fd, next_id, accepted, running>>

\* recv_packet() failed, for the client has left, or may only have sent a packet in parts
\* (a short recv()): the entries behind the handler's index move down by one.
Remove(c) ==
  /\ handler[c].at = "serving"
  /\ client_list' = [i \in Slot |-> IF handler[c].index <= i /\ i < num_clients - 1
                                    THEN client_list[i + 1] ELSE client_list[i]]
  /\ num_clients' = num_clients - 1
  /\ handler' = [handler EXCEPT ![c].at = "removed"]
  /\ UNCHANGED <<conn, fd, next_id, accepted, running>>

\* close(sock), which frees whatever connection the descriptor is by now.
Close(c) ==
  /\ handler[c].at = "removed"
  /\ fd' = [fd EXCEPT ![handler[c].sock] = NoConn]
  /\ handler' = [handler EXCEPT ![c].at = "done"]
  /\ UNCHANGED <<conn, client_list, num_clients, next_id, accepted, running>>

Handler(c) ==
  ReadSock(c) \/ ReadId(c) \/ (\E id \in 1 .. next_id - 1 : Message(c, id)) \/ Remove(c) \/ Close(c)

Next ==
  /\ running
  /\ \/ Add
     \/ Refuse
     \/ \E c \in Conn : ClientConnects(c) \/ ClientLeaves(c) \/ Accept(c) \/ Handler(c)

Spec == Init /\ [][Next]_vars

-----------------------------------------------------------------------------
registered == {c \in Conn : handler[c].at \in {"start", "sock read", "serving"}}

\* The size of the list is the number of handlers that have not taken a client off it,
\* and stays within the array, though handlers take off what lies at a stale index.
CountsHandlers ==
  /\ num_clients = Cardinality(registered)
  /\ num_clients <= MAX_CLIENTS

\* Ids in the list ascend, whatever was shifted over whatever: an id stands for one
\* entry at most, so that the search for a message's target is unambiguous.
IdsAscend ==
  /\ \A i, j \in 0 .. num_clients - 1 : i < j => client_list[i].id < client_list[j].id
  /\ \A i \in 0 .. num_clients - 1 : client_list[i].id \in 1 .. next_id - 1

\* A handler reads its entry without the mutex when other handlers may have shifted the
\* list: the entry may be another client's or lie past the end of the list by then, but it
\* is never one that main has not written, so that no handler serves descriptor 0 or sends
\* messages in the name of client 0.
ServesSomebody ==
  \A c \in Conn :
    /\ handler[c].at \notin {"none", "start"} => handler[c].sock \in Fd
    /\ handler[c].at \notin {"none", "start", "sock read"} => handler[c].my_id \in 1 .. next_id - 1
=============================================================================
