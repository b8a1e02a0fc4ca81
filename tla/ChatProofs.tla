------------------------------ MODULE ChatProofs ------------------------------
(***************************************************************************)
(* The bookkeeping of the chat server, for any number of clients and any   *)
(* size of the list, although handlers take entries off at stale indices.  *)
(***************************************************************************)
EXTENDS ChatServer, FiniteSetTheorems, TLAPS

Steps == {"none", "start", "sock read", "serving", "removed", "done"}

Entries  == [id : Nat, addr : Conn \cup {NoConn}, sock : Nat]
Handlers == [at : Steps, index : Slot, sock : Nat, my_id : Nat]

\* What the variables hold.  A connection that has no handler is one that main has not
\* entered yet: accepted.addr is such a one, so that its handler is a new one.
TypeInv ==
  /\ num_clients \in Int
  /\ next_id \in Nat \ {0}
  /\ client_list \in [Slot -> Entries]
  /\ handler \in [Conn -> Handlers]
  /\ conn \in [Conn -> {"new", "waiting", "open", "left", "refused"}]

UnstartedInv ==
  /\ \A c \in Conn : conn[c] \in {"new", "waiting"} => handler[c].at = "none"
  /\ accepted # NotAccepted => /\ accepted \in [sock : Fd, addr : Conn]
                               /\ handler[accepted.addr].at = "none"
                               /\ conn[accepted.addr] \notin {"new", "waiting"}

\* Main has written the entry: it has a descriptor and an id.
Written(entry, next) == entry.sock \in Fd /\ entry.id \in 1 .. next - 1

\* All that is on the list is written, and so is what lies at a handler's index, on the list
\* or behind its end.
WrittenInv ==
  /\ \A i \in 0 .. num_clients - 1 : Written(client_list[i], next_id)
  /\ \A c \in Conn : handler[c].at # "none" => Written(client_list[handler[c].index], next_id)

\* The inductive invariant of the three properties.
IInv == TypeInv /\ UnstartedInv /\ CountsHandlers /\ IdsAscend /\ WrittenInv /\ ServesSomebody

\* Registered handlers are finitely many, so that their number is a natural one.
LEMMA RegisteredFinite == IsFiniteSet(registered) /\ Cardinality(registered) \in Nat
<1>1. registered \subseteq Conn BY DEF registered
<1> QED BY <1>1, ChatAssumption, FS_Subset, FS_CardinalityType

\* The thread that main starts is a handler at the index it was given.
LEMMA NewHandler == \A i \in Slot : NewThread(i) \in Handlers
  BY DEF NewThread, Handlers, Steps

\* The invariant holds at the start: nobody is connected.
LEMMA InitIInv == Init => IInv
<1> SUFFICES ASSUME Init PROVE IInv OBVIOUS
<1>1. registered = {} BY DEF Init, NoThread, registered
<1>2. Cardinality(registered) = 0 BY <1>1, FS_EmptySet
<1>3. CountsHandlers BY <1>2, ChatAssumption DEF Init, CountsHandlers
<1>4. IdsAscend BY DEF Init, IdsAscend
<1>5. TypeInv BY ChatAssumption DEF Init, TypeInv, NoThread, Steps, Slot, Handlers, Entries, Blank
<1>6. UnstartedInv BY DEF Init, UnstartedInv, NoThread
<1>7. WrittenInv BY DEF Init, WrittenInv, NoThread
<1>8. ServesSomebody BY DEF Init, ServesSomebody, NoThread
<1> QED BY <1>3, <1>4, <1>5, <1>6, <1>7, <1>8 DEF IInv

\* What every step of the server and the clients keeps of it, apart from the number of
\* handlers and the order of the ids.
LEMMA NextTypes == IInv /\ [Next]_vars => TypeInv' /\ UnstartedInv'
<1> SUFFICES ASSUME IInv, [Next]_vars PROVE TypeInv' /\ UnstartedInv' OBVIOUS
<1> USE ChatAssumption DEF IInv, TypeInv, UnstartedInv
<1>0. num_clients \in Nat /\ num_clients <= MAX_CLIENTS BY RegisteredFinite DEF CountsHandlers
<1>1. CASE UNCHANGED vars BY <1>1 DEF vars
<1>2. CASE Add
  <2>1. accepted.addr \in Conn /\ accepted.sock \in Nat BY <1>2 DEF Add, Fd
  <2>2. handler' \in [Conn -> Handlers]
    <3>1. num_clients \in Slot BY <1>0, <1>2 DEF Add, Slot
    <3> QED BY <1>2, <3>1, NewHandler DEF Add
  <2>3. client_list' \in [Slot -> Entries]
    BY <1>2, <2>1 DEF Add, Entries, Slot
  <2> QED BY <1>2, <2>1, <2>2, <2>3 DEF Add
<1>3. CASE Refuse BY <1>3 DEF Refuse
<1>4. ASSUME NEW c \in Conn, ClientConnects(c) PROVE TypeInv' /\ UnstartedInv'
  BY <1>4 DEF ClientConnects
<1>5. ASSUME NEW c \in Conn, ClientLeaves(c) PROVE TypeInv' /\ UnstartedInv'
  BY <1>5 DEF ClientLeaves
<1>6. ASSUME NEW c \in Conn, Accept(c) PROVE TypeInv' /\ UnstartedInv'
  BY <1>6 DEF Accept, NotAccepted
<1>7. ASSUME NEW c \in Conn, ReadSock(c) PROVE TypeInv' /\ UnstartedInv'
  <2>1. client_list[handler[c].index].sock \in Nat BY DEF Handlers, Entries
  <2>2. handler' \in [Conn -> Handlers]
    <3>1. [handler[c] EXCEPT !.sock = client_list[handler[c].index].sock] \in Handlers
      BY <2>1 DEF Handlers
    <3>2. handler'[c] = [[handler[c] EXCEPT !.sock = client_list[handler[c].index].sock]
                           EXCEPT !.at = "sock read"]
      BY <1>7 DEF ReadSock, Handlers
    <3>3. handler'[c] \in Handlers BY <3>1, <3>2 DEF Handlers, Steps
    <3> QED BY <1>7, <3>3 DEF ReadSock
  <2>3. \A d \in Conn : handler[d].at = "none" => handler'[d].at = "none"
    BY <1>7 DEF ReadSock, Handlers
  <2>4. UNCHANGED <<conn, client_list, num_clients, next_id, accepted>> BY <1>7 DEF ReadSock
  <2>5. TypeInv' BY <2>2, <2>4
  <2>6. UnstartedInv' BY <2>3, <2>4
  <2> QED BY <2>5, <2>6
<1>8. ASSUME NEW c \in Conn, ReadId(c) PROVE TypeInv' /\ UnstartedInv'
  <2>1. client_list[handler[c].index].id \in Nat BY DEF Handlers, Entries
  <2>2. handler' \in [Conn -> Handlers]
    <3>1. [handler[c] EXCEPT !.my_id = client_list[handler[c].index].id] \in Handlers
      BY <2>1 DEF Handlers
    <3>2. handler'[c] = [[handler[c] EXCEPT !.my_id = client_list[handler[c].index].id]
                           EXCEPT !.at = "serving"]
      BY <1>8 DEF ReadId, Handlers
    <3>3. handler'[c] \in Handlers BY <3>1, <3>2 DEF Handlers, Steps
    <3> QED BY <1>8, <3>3 DEF ReadId
  <2>3. \A d \in Conn : handler[d].at = "none" => handler'[d].at = "none"
    BY <1>8 DEF ReadId, Handlers
  <2>4. UNCHANGED <<conn, client_list, num_clients, next_id, accepted>> BY <1>8 DEF ReadId
  <2>5. TypeInv' BY <2>2, <2>4
  <2>6. UnstartedInv' BY <2>3, <2>4
  <2> QED BY <2>5, <2>6
<1>9. ASSUME NEW c \in Conn, NEW id \in 1 .. next_id - 1, Message(c, id) PROVE TypeInv' /\ UnstartedInv'
  BY <1>9 DEF Message
<1>10. ASSUME NEW c \in Conn, Remove(c) PROVE TypeInv' /\ UnstartedInv'
  <2>1. handler' \in [Conn -> Handlers] BY <1>10, ZenonT(30) DEF Remove, Handlers, Steps
  <2>2. ASSUME NEW i \in Slot
        PROVE  client_list'[i] \in Entries
    <3>1. handler[c].index <= i /\ i < num_clients - 1 => i + 1 \in Slot
      BY <1>0, <1>10 DEF Slot
    <3> QED BY <1>10, <3>1 DEF Remove
  <2>3. client_list' \in [Slot -> Entries] BY <1>10, <2>2 DEF Remove
  <2> QED BY <1>10, <2>1, <2>3 DEF Remove
<1>11. ASSUME NEW c \in Conn, Close(c) PROVE TypeInv' /\ UnstartedInv'
  BY <1>11, ZenonT(30) DEF Close, Handlers, Steps
<1> QED BY <1>1, <1>2, <1>3, <1>4, <1>5, <1>6, <1>7, <1>8, <1>9, <1>10, <1>11 DEF Next, Handler

\* The number of entries follows the handlers: one more when main enters a client, one
\* less when a handler takes an entry off.
LEMMA NextCounts == IInv /\ [Next]_vars => CountsHandlers'
<1> SUFFICES ASSUME IInv, [Next]_vars PROVE CountsHandlers' OBVIOUS
<1> USE ChatAssumption DEF IInv, TypeInv
<1>1. CASE Add
  <2> DEFINE c == accepted.addr
  <2>1. c \in Conn /\ handler[c].at = "none" BY <1>1 DEF Add, UnstartedInv
  <2>2. registered' = registered \cup {c} BY <1>1, <2>1 DEF Add, registered, NewThread
  <2>3. c \notin registered BY <2>1 DEF registered
  <2>4. Cardinality(registered') = Cardinality(registered) + 1
    BY <2>2, <2>3, RegisteredFinite, FS_AddElement
  <2>5. num_clients < MAX_CLIENTS /\ num_clients' = num_clients + 1 BY <1>1 DEF Add
  <2> QED BY <2>4, <2>5 DEF CountsHandlers
<1>2. ASSUME NEW c \in Conn, Remove(c) PROVE CountsHandlers'
  <2>1. /\ handler'[c].at = "removed"
        /\ \A d \in Conn \ {c} : handler'[d] = handler[d]
    BY <1>2 DEF Remove, Handlers
  <2>2. registered' = registered \ {c} BY <2>1 DEF registered
  <2>3. c \in registered BY <1>2 DEF Remove, registered
  <2>4. Cardinality(registered') = Cardinality(registered) - 1
    BY <2>2, <2>3, RegisteredFinite, FS_RemoveElement
  <2>5. num_clients' = num_clients - 1 BY <1>2 DEF Remove
  <2> QED BY <2>4, <2>5 DEF CountsHandlers
<1>3. CASE /\ num_clients' = num_clients
           /\ \A d \in Conn : handler'[d].at \in {"start", "sock read", "serving"}
                                <=> handler[d].at \in {"start", "sock read", "serving"}
  <2>1. registered' = registered BY <1>3 DEF registered
  <2> QED BY <1>3, <2>1 DEF CountsHandlers
<1>4. ASSUME NEW c \in Conn, ReadSock(c) PROVE CountsHandlers'
  <2>1. /\ handler[c].at = "start" /\ handler'[c].at = "sock read"
        /\ \A d \in Conn \ {c} : handler'[d] = handler[d]
    BY <1>4 DEF ReadSock, Handlers
  <2> QED BY <1>3, <1>4, <2>1 DEF ReadSock
<1>5. ASSUME NEW c \in Conn, ReadId(c) PROVE CountsHandlers'
  <2>1. /\ handler[c].at = "sock read" /\ handler'[c].at = "serving"
        /\ \A d \in Conn \ {c} : handler'[d] = handler[d]
    BY <1>5 DEF ReadId, Handlers
  <2> QED BY <1>3, <1>5, <2>1 DEF ReadId
<1>6. ASSUME NEW c \in Conn, Close(c) PROVE CountsHandlers'
  <2>1. /\ handler[c].at = "removed" /\ handler'[c].at = "done"
        /\ \A d \in Conn \ {c} : handler'[d] = handler[d]
    BY <1>6 DEF Close, Handlers
  <2> QED BY <1>3, <1>6, <2>1 DEF Close
<1>7. CASE UNCHANGED <<num_clients, handler>> BY <1>3, <1>7
<1> QED BY <1>1, <1>2, <1>4, <1>5, <1>6, <1>7
        DEF Next, Handler, Refuse, ClientConnects, ClientLeaves, Accept, Message, vars

\* A new entry has the greatest id so far, and what moves down keeps its order.
LEMMA NextAscends == IInv /\ [Next]_vars => IdsAscend'
<1> SUFFICES ASSUME IInv, [Next]_vars PROVE IdsAscend' OBVIOUS
<1> USE ChatAssumption DEF IInv, TypeInv
<1>0. num_clients \in Nat /\ num_clients <= MAX_CLIENTS BY RegisteredFinite DEF CountsHandlers
<1>1. CASE Add
  <2>1. /\ num_clients \in Slot /\ num_clients' = num_clients + 1 /\ next_id' = next_id + 1
        /\ \A i \in 0 .. num_clients : client_list'[i].id =
              IF i = num_clients THEN next_id ELSE client_list[i].id
    BY <1>0, <1>1 DEF Add, Slot
  <2> QED BY <1>0, <2>1 DEF IdsAscend
<1>2. ASSUME NEW c \in Conn, Remove(c) PROVE IdsAscend'
  <2> DEFINE k == handler[c].index
  <2>1. k \in Nat BY DEF Handlers, Slot
  <2>2. /\ num_clients' = num_clients - 1 /\ next_id' = next_id
        /\ \A i \in 0 .. num_clients - 2 :
              client_list'[i].id = IF k <= i THEN client_list[i + 1].id ELSE client_list[i].id
    BY <1>0, <1>2, <2>1 DEF Remove, Slot
  <2> QED BY <1>0, <2>1, <2>2 DEF IdsAscend
<1>3. CASE UNCHANGED <<client_list, num_clients, next_id>> BY <1>3 DEF IdsAscend
<1> QED BY <1>1, <1>2, <1>3
        DEF Next, Handler, Refuse, ClientConnects, ClientLeaves, Accept, ReadSock, ReadId, Message, Close, vars

\* A removal moves written entries over others and leaves the last one where it was, so
\* that a handler that starts late still finds a written one.
LEMMA NextWritten == IInv /\ [Next]_vars => WrittenInv'
<1> SUFFICES ASSUME IInv, [Next]_vars PROVE WrittenInv' OBVIOUS
<1> USE ChatAssumption DEF IInv, TypeInv
<1>0. num_clients \in Nat /\ num_clients <= MAX_CLIENTS BY RegisteredFinite DEF CountsHandlers
<1>1. CASE Add
  <2>1. /\ num_clients \in Slot /\ num_clients' = num_clients + 1 /\ next_id' = next_id + 1
        /\ accepted.sock \in Fd /\ accepted.addr \in Conn
    BY <1>0, <1>1 DEF Add, Slot, UnstartedInv
  <2>2. client_list' = [client_list EXCEPT ![num_clients] =
                          [id |-> next_id, addr |-> accepted.addr, sock |-> accepted.sock]]
    BY <1>1 DEF Add
  <2>3. Written(client_list'[num_clients], next_id') BY <2>1, <2>2 DEF Written, Fd
  <2>4. ASSUME NEW i \in Slot, Written(client_list[i], next_id) PROVE Written(client_list'[i], next_id')
    <3>1. CASE i = num_clients BY <2>3, <3>1, <2>1
    <3>2. CASE i # num_clients
      <4>1. client_list'[i] = client_list[i] BY <2>1, <2>2, <3>2
      <4> QED BY <2>1, <2>4, <4>1 DEF Written, Fd
    <3> QED BY <3>1, <3>2
  <2>5. ASSUME NEW i \in 0 .. num_clients' - 1 PROVE Written(client_list'[i], next_id')
    <3>1. i \in Slot BY <1>0, <2>1, <2>5 DEF Slot
    <3>2. CASE i = num_clients BY <2>3, <3>2, <2>1
    <3>3. CASE i # num_clients
      <4>1. i \in 0 .. num_clients - 1 BY <1>0, <2>1, <2>5, <3>3
      <4> QED BY <2>4, <3>1, <4>1 DEF WrittenInv
    <3> QED BY <3>2, <3>3
  <2>6. ASSUME NEW c \in Conn, handler'[c].at # "none" PROVE Written(client_list'[handler'[c].index], next_id')
    <3>1. CASE c = accepted.addr
      <4>1. handler'[c].index = num_clients BY <1>1, <2>1, <3>1 DEF Add, NewThread
      <4> QED BY <2>3, <4>1, <2>1 DEF Written
    <3>2. CASE c # accepted.addr
      <4>1. handler'[c] = handler[c] BY <1>1, <3>2 DEF Add
      <4>2. handler[c].index \in Slot BY DEF Handlers
      <4>3. Written(client_list[handler[c].index], next_id) BY <2>6, <4>1 DEF WrittenInv
      <4> QED BY <2>4, <4>1, <4>2, <4>3
    <3> QED BY <3>1, <3>2
  <2> QED BY <2>5, <2>6 DEF WrittenInv
<1>2. ASSUME NEW c \in Conn, Remove(c) PROVE WrittenInv'
  <2>1. /\ num_clients' = num_clients - 1 /\ next_id' = next_id
        /\ \A d \in Conn : /\ handler'[d].index = handler[d].index
                           /\ handler'[d].at # "none" => handler[d].at # "none"
    BY <1>2 DEF Remove, Handlers
  <2>2. ASSUME NEW i \in Slot, Written(client_list[i], next_id) PROVE Written(client_list'[i], next_id')
    <3>1. CASE handler[c].index <= i /\ i < num_clients - 1
      <4>1. client_list'[i] = client_list[i + 1] BY <1>2, <3>1 DEF Remove
      <4>2. i + 1 \in 0 .. num_clients - 1 BY <1>0, <3>1 DEF Slot
      <4>3. Written(client_list[i + 1], next_id) BY <4>2 DEF WrittenInv
      <4> QED BY <2>1, <4>1, <4>3 DEF Written, Fd
    <3>2. CASE ~(handler[c].index <= i /\ i < num_clients - 1)
      <4>1. client_list'[i] = client_list[i] BY <1>2, <3>2 DEF Remove
      <4> QED BY <2>1, <2>2, <4>1 DEF Written, Fd
    <3> QED BY <3>1, <3>2
  <2>3. ASSUME NEW i \in 0 .. num_clients' - 1 PROVE Written(client_list'[i], next_id')
    <3>1. i \in Slot /\ i \in 0 .. num_clients - 1 BY <1>0, <2>1, <2>3 DEF Slot
    <3> QED BY <2>2, <3>1 DEF WrittenInv
  <2>4. ASSUME NEW d \in Conn, handler'[d].at # "none" PROVE Written(client_list'[handler'[d].index], next_id')
    <3>1. handler[d].index \in Slot /\ Written(client_list[handler[d].index], next_id)
      BY <2>1, <2>4 DEF Handlers, WrittenInv
    <3> QED BY <2>1, <2>2, <3>1
  <2> QED BY <2>3, <2>4 DEF WrittenInv
<1>3. CASE /\ UNCHANGED <<client_list, num_clients, next_id>>
           /\ \A d \in Conn : /\ handler'[d].index = handler[d].index
                              /\ handler'[d].at # "none" => handler[d].at # "none"
  BY <1>3 DEF WrittenInv, Written, Fd
<1>4. ASSUME NEW c \in Conn, ReadSock(c) \/ ReadId(c) \/ Close(c) PROVE WrittenInv'
  <2>1. handler[c].at # "none" /\ handler'[c].index = handler[c].index
    BY <1>4, ZenonT(30) DEF ReadSock, ReadId, Close, Handlers
  <2>2. \A d \in Conn \ {c} : handler'[d] = handler[d]
    BY <1>4 DEF ReadSock, ReadId, Close
  <2> QED BY <1>3, <1>4, <2>1, <2>2 DEF ReadSock, ReadId, Close
<1>5. CASE UNCHANGED <<client_list, num_clients, next_id, handler>> BY <1>3, <1>5
<1> QED BY <1>1, <1>2, <1>4, <1>5
        DEF Next, Handler, Refuse, ClientConnects, ClientLeaves, Accept, Message, vars

\* What a handler reads at its index is a written entry, and stays what it read.
LEMMA NextServes == IInv /\ [Next]_vars => ServesSomebody'
<1> SUFFICES ASSUME IInv, [Next]_vars PROVE ServesSomebody' OBVIOUS
<1> USE DEF IInv, TypeInv
<1>1. CASE Add
  <2>1. next_id' = next_id + 1 /\ accepted.addr \in Conn BY <1>1 DEF Add, UnstartedInv
  <2>2. \A d \in Conn : handler'[d] = IF d = accepted.addr THEN NewThread(num_clients) ELSE handler[d]
    BY <1>1 DEF Add
  <2>3. handler'[accepted.addr].at = "start" BY <2>1, <2>2 DEF NewThread
  <2>4. \A n \in 1 .. next_id - 1 : n \in 1 .. next_id' - 1 BY <2>1
  <2> QED BY <2>2, <2>3, <2>4 DEF ServesSomebody, Fd
<1>2. ASSUME NEW c \in Conn, ReadSock(c) PROVE ServesSomebody'
  <2>1. /\ handler[c].at = "start" /\ handler'[c].at = "sock read" /\ next_id' = next_id
        /\ handler'[c].sock = client_list[handler[c].index].sock
        /\ \A d \in Conn \ {c} : handler'[d] = handler[d]
    BY <1>2 DEF ReadSock, Handlers
  <2>2. client_list[handler[c].index].sock \in Fd BY <2>1 DEF WrittenInv, Written
  <2> QED BY <2>1, <2>2 DEF ServesSomebody, Fd
<1>3. ASSUME NEW c \in Conn, ReadId(c) PROVE ServesSomebody'
  <2>1. /\ handler[c].at = "sock read" /\ handler'[c].at = "serving" /\ next_id' = next_id
        /\ handler'[c].my_id = client_list[handler[c].index].id
        /\ handler'[c].sock = handler[c].sock
        /\ \A d \in Conn \ {c} : handler'[d] = handler[d]
    BY <1>3 DEF ReadId, Handlers
  <2>2. client_list[handler[c].index].id \in 1 .. next_id - 1 BY <2>1 DEF WrittenInv, Written
  <2> QED BY <2>1, <2>2 DEF ServesSomebody, Fd
<1>4. ASSUME NEW c \in Conn, Remove(c) \/ Close(c) PROVE ServesSomebody'
  <2>1. /\ handler[c].at \in {"serving", "removed"} /\ next_id' = next_id
        /\ handler'[c].sock = handler[c].sock /\ handler'[c].my_id = handler[c].my_id
        /\ \A d \in Conn \ {c} : handler'[d] = handler[d]
    BY <1>4 DEF Remove, Close, Handlers
  <2> QED BY <2>1 DEF ServesSomebody, Fd
<1>5. CASE UNCHANGED <<handler, next_id>> BY <1>5 DEF ServesSomebody, Fd
<1> QED BY <1>1, <1>2, <1>3, <1>4, <1>5
        DEF Next, Handler, Refuse, ClientConnects, ClientLeaves, Accept, Message, vars

\* The inductive invariant holds throughout.
LEMMA Inductive == Spec => []IInv
<1>1. IInv /\ [Next]_vars => IInv' BY NextTypes, NextCounts, NextAscends, NextWritten, NextServes DEF IInv
<1> QED BY <1>1, InitIInv, PTL DEF Spec

\* The list of the chat server is as long as there are handlers that have not left it,
\* and never longer than the array (main's check of num_clients, the handlers' exit).
THEOREM ServerCounts == Spec => []CountsHandlers
<1>1. IInv => CountsHandlers BY DEF IInv
<1> QED BY <1>1, Inductive, PTL

\* Ids in the list of the chat server ascend, so that a message's target is one entry at
\* most, whatever entries the handlers remove.
THEOREM IdsAlwaysAscend == Spec => []IdsAscend
<1>1. IInv => IdsAscend BY DEF IInv
<1> QED BY <1>1, Inductive, PTL

\* A handler of the chat server never serves an entry that main has not written, although it
\* reads its descriptor and its id without the mutex.
THEOREM ServerServesSomebody == Spec => []ServesSomebody
<1>1. IInv => ServesSomebody BY DEF IInv
<1> QED BY <1>1, Inductive, PTL
=============================================================================
