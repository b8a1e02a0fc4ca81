--------------------------- MODULE ChatClientProofs ---------------------------
(***************************************************************************)
(* The answers of the chat server reach the screen in order, and a client  *)
(* whose answers come in time never locks queue_mutex twice, for any       *)
(* number of connections, requests and messages of others, until a thread  *)
(* takes bytes that are not for it.                                        *)
(*                                                                         *)
(* The invariant follows an answer on its way: it is asked for, half sent, *)
(* on the wire, in the hands of the receiving thread, in the queue, and    *)
(* printed.  On each connection what has come further has the smaller      *)
(* number; and until main has given up on an answer, there is at most one  *)
(* that is not printed, and main waits for it.                             *)
(***************************************************************************)
EXTENDS ChatClient, SequenceTheorems, TLAPS

Packets == [part : {"", "header", "payload"}, conn : Nat, n : Nat]

Conns == [state : {"new", "open", "left", "closed"}, asked : Seq(Nat \ {0}), half : Nat,
          wire : Seq(Packets)]

Steps == {"none", "loop", "in header", "has header", "in payload", "has payload", "ended"}

Threads == [at : Steps, on : Nat, head : Packets]

in_recv(k) == thread[k].at \in {"in header", "in payload"}

TypeInv ==
  /\ file \in Conn \cup {0} /\ requests \in Nat
  /\ conn \in [Conn -> Conns] /\ thread \in [Conn -> Threads]
  /\ queue \in Seq(Packets) /\ shown \in Seq(Packets)
  /\ \A k \in Conn : in_recv(k) => thread[k].on \in Conn

\* Where the answers of a connection are before they are printed.
carries(p)    == p.part = "payload" /\ p.n # 0
has_answer(k) == thread[k].at = "has payload" /\ thread[k].head.n # 0

unanswered(c) == {conn[c].asked[i] : i \in DOMAIN conn[c].asked}
unsent(c)     == unanswered(c) \cup ({conn[c].half} \ {0})
unread(c)     == unsent(c) \cup {conn[c].wire[i].n : i \in {j \in DOMAIN conn[c].wire : carries(conn[c].wire[j])}}
undelivered(c) == unread(c) \cup {n \in {thread[c].head.n} : has_answer(c)}

\* On each connection what has come further has the smaller number, and belongs to it.
Line(c) ==
  /\ \A i, j \in DOMAIN conn[c].asked : i < j => conn[c].asked[i] < conn[c].asked[j]
  /\ conn[c].half # 0 => \A n \in unanswered(c) : conn[c].half < n
  /\ \A i, j \in DOMAIN conn[c].wire :
       i < j /\ carries(conn[c].wire[i]) /\ carries(conn[c].wire[j]) => conn[c].wire[i].n < conn[c].wire[j].n
  /\ \A i \in DOMAIN conn[c].wire : carries(conn[c].wire[i]) =>
       conn[c].wire[i].conn = c /\ \A n \in unsent(c) : conn[c].wire[i].n < n
  /\ has_answer(c) => thread[c].head.conn = c /\ \A n \in unread(c) : thread[c].head.n < n
  /\ \A i \in DOMAIN answers : answers[i].conn = c =>
       answers[i].n <= requests /\ \A n \in undelivered(c) : answers[i].n < n
  /\ \A n \in undelivered(c) : n <= requests

\* All that is not printed is one answer, at this place; main waits for it.
nowhere == <<"nowhere", 0>>

AllAt(place) ==
  /\ \A c \in Conn : conn[c].asked # <<>> => place = <<"asked", c>> /\ Len(conn[c].asked) = 1
  /\ \A c \in Conn : conn[c].half # 0 => place = <<"half", c>>
  /\ \A c \in Conn : \A i \in DOMAIN conn[c].wire : carries(conn[c].wire[i]) =>
       /\ place = <<"wire", c>>
       /\ \A j \in DOMAIN conn[c].wire : carries(conn[c].wire[j]) => i = j
  /\ \A k \in Conn : has_answer(k) => place = <<"hand", k>>
  /\ queue # <<>> => place = <<"queue", 0>> /\ Len(queue) = 1
  /\ place # nowhere => main = "waiting"

Places == {nowhere, <<"queue", 0>>} \cup ({"asked", "half", "wire", "hand"} \X Conn)
AtMostOne == \E place \in Places : AllAt(place)

IInv ==
  /\ TypeInv /\ AnswersInOrder /\ StuckOnlyAfterGivingUp
  /\ ~confused => \A c \in Conn : Line(c)
  /\ ~confused /\ ~gave_up => AtMostOne

-----------------------------------------------------------------------------
(* Packets, and the sequences they are in. *)

\* Connections are numbered.
LEMMA Numbers == \A c \in Conn : c \in Nat
  BY ChatClientAssumption DEF Conn

\* What the server sends: an answer of its connection, or a message, in two parts.
LEMMA Parts ==
  ASSUME NEW c \in Conn, NEW n \in Nat
  PROVE  /\ {Header(Answer(c, n)), Payload(Answer(c, n)), Header(Message), Payload(Message)} \subseteq Packets
         /\ carries(Payload(Answer(c, n))) => Payload(Answer(c, n)).conn = c /\ Payload(Answer(c, n)).n = n
         /\ ~carries(Header(Answer(c, n))) /\ ~carries(Header(Message)) /\ ~carries(Payload(Message))
<1>1. c \in Nat BY Numbers
<1>2. ASSUME NEW p \in Packets
      PROVE  /\ Header(p) \in Packets /\ Header(p).part = "header"
             /\ Payload(p) \in Packets /\ Payload(p).conn = p.conn /\ Payload(p).n = p.n
  BY DEF Header, Payload, Packets
<1>3. Answer(c, n) \in Packets /\ Answer(c, n).conn = c /\ Answer(c, n).n = n
  BY <1>1 DEF Answer, Packets
<1>4. Message \in Packets /\ Message.n = 0 BY DEF Message, Packets
<1> QED BY <1>2, <1>3, <1>4 DEF carries

\* Printing the queue moves its answers, and changes neither their number nor their order.
LEMMA Printed ==
  ASSUME TypeInv, process_sync_response
  PROVE  queue' = <<>> /\ shown' \in Seq(Packets) /\ answers' = answers
<1>1. queue' = <<>> /\ shown' = shown \o queue BY DEF process_sync_response
<1>2. shown \o queue \in Seq(Packets) BY ConcatProperties DEF TypeInv
<1>3. shown' \o queue' = shown \o queue BY <1>1, <1>2, ConcatEmptySeq
<1> QED BY <1>1, <1>2, <1>3 DEF answers

-----------------------------------------------------------------------------
(* Steps that move no answer. *)

\* A connection, its thread and its answers are as they were, but the thread may have dropped
\* what it had.
Unmoved(c) ==
  /\ conn'[c].asked = conn[c].asked /\ conn'[c].half = conn[c].half /\ conn'[c].wire = conn[c].wire
  /\ has_answer(c)' => has_answer(c) /\ thread'[c].head = thread[c].head

AnswersKept(c) ==
  \A i \in DOMAIN answers' : answers'[i].conn = c => i \in DOMAIN answers /\ answers'[i] = answers[i]

\* What is where on such a connection.
LEMMA UnmovedSets ==
  ASSUME NEW c \in Conn, Unmoved(c)
  PROVE  /\ unanswered(c)' = unanswered(c) /\ unsent(c)' = unsent(c) /\ unread(c)' = unread(c)
         /\ undelivered(c)' \subseteq undelivered(c)
<1>1. unanswered(c)' = unanswered(c) BY DEF Unmoved, unanswered
<1>2. unsent(c)' = unsent(c) BY <1>1 DEF Unmoved, unsent
<1>3. unread(c)' = unread(c) BY <1>2 DEF Unmoved, unread
<1>4. undelivered(c)' \subseteq undelivered(c) BY <1>3 DEF Unmoved, undelivered
<1> QED BY <1>1, <1>2, <1>3, <1>4

\* It keeps its order.
LEMMA LineKept ==
  ASSUME NEW c \in Conn, Line(c), Unmoved(c), AnswersKept(c),
         requests \in Nat, requests' \in Nat, requests <= requests',
         undelivered(c) \subseteq Nat, \A i \in DOMAIN answers : answers[i].n \in Nat
  PROVE  Line(c)'
<1>1. /\ unanswered(c)' = unanswered(c) /\ unsent(c)' = unsent(c) /\ unread(c)' = unread(c)
      /\ undelivered(c)' \subseteq undelivered(c)
  BY UnmovedSets
<1>2. /\ \A i, j \in DOMAIN conn'[c].asked : i < j => conn'[c].asked[i] < conn'[c].asked[j]
      /\ conn'[c].half # 0 => \A n \in unanswered(c)' : conn'[c].half < n
  BY <1>1 DEF Line, Unmoved
<1>3. \A i, j \in DOMAIN conn'[c].wire :
        i < j /\ carries(conn'[c].wire[i]) /\ carries(conn'[c].wire[j]) => conn'[c].wire[i].n < conn'[c].wire[j].n
  BY DEF Line, Unmoved
<1>4. \A i \in DOMAIN conn'[c].wire : carries(conn'[c].wire[i]) =>
        conn'[c].wire[i].conn = c /\ \A n \in unsent(c)' : conn'[c].wire[i].n < n
  BY <1>1 DEF Line, Unmoved
<1>5. has_answer(c)' => thread'[c].head.conn = c /\ \A n \in unread(c)' : thread'[c].head.n < n
  BY <1>1 DEF Line, Unmoved
<1>6. \A i \in DOMAIN answers' : answers'[i].conn = c =>
        answers'[i].n <= requests' /\ \A n \in undelivered(c)' : answers'[i].n < n
  <2> SUFFICES ASSUME NEW i \in DOMAIN answers', answers'[i].conn = c
               PROVE  answers'[i].n <= requests' /\ \A n \in undelivered(c)' : answers'[i].n < n
    OBVIOUS
  <2>1. i \in DOMAIN answers /\ answers'[i] = answers[i] BY DEF AnswersKept
  <2>2. answers[i].n <= requests /\ \A n \in undelivered(c) : answers[i].n < n BY <2>1 DEF Line
  <2> QED BY <1>1, <2>1, <2>2
<1>7. \A n \in undelivered(c)' : n <= requests'
  <2> SUFFICES ASSUME NEW n \in undelivered(c)' PROVE n <= requests' OBVIOUS
  <2>1. n \in Nat /\ n <= requests BY <1>1 DEF Line
  <2> QED BY <2>1
<1> QED BY <1>2, <1>3, <1>4, <1>5, <1>6, <1>7 DEF Line, carries

\* Nothing is on the way but natural numbers.
LEMMA LineTypes ==
  ASSUME TypeInv
  PROVE  /\ \A c \in Conn : /\ conn[c] \in Conns /\ thread[c] \in Threads
                            /\ undelivered(c) \subseteq Nat
         /\ answers \in Seq(Packets) /\ \A i \in DOMAIN answers : answers[i] \in Packets
<1>1. ASSUME NEW c \in Conn PROVE conn[c] \in Conns /\ thread[c] \in Threads BY DEF TypeInv
<1>2. ASSUME NEW c \in Conn PROVE undelivered(c) \subseteq Nat
  <2>1. \A i \in DOMAIN conn[c].asked : conn[c].asked[i] \in Nat
    BY <1>1, ElementOfSeq DEF Conns
  <2>2. \A i \in DOMAIN conn[c].wire : conn[c].wire[i].n \in Nat
    <3>1. conn[c].wire \in Seq(Packets) BY <1>1 DEF Conns
    <3>2. \A i \in DOMAIN conn[c].wire : conn[c].wire[i] \in Packets BY <3>1, ElementOfSeq
    <3> QED BY <3>2 DEF Packets
  <2>3. conn[c].half \in Nat /\ thread[c].head.n \in Nat BY <1>1 DEF Conns, Threads, Packets
  <2>4. unanswered(c) \subseteq Nat BY <2>1 DEF unanswered
  <2>5. unread(c) \subseteq Nat BY <2>2, <2>3, <2>4 DEF unread, unsent
  <2> QED BY <2>3, <2>5 DEF undelivered
<1>3. answers \in Seq(Packets) BY ConcatProperties DEF TypeInv, answers
<1>4. \A i \in DOMAIN answers : answers[i] \in Packets BY <1>3, ElementOfSeq
<1> QED BY <1>1, <1>2, <1>3, <1>4

\* The state of a connection is no place for answers.
LEMMA StateOnly ==
  ASSUME TypeInv, NEW c \in Conn, NEW s \in {"new", "open", "left", "closed"},
         conn' = [conn EXCEPT ![c].state = s]
  PROVE  /\ conn' \in [Conn -> Conns]
         /\ \A b \in Conn : /\ conn'[b].asked = conn[b].asked /\ conn'[b].half = conn[b].half
                            /\ conn'[b].wire = conn[b].wire
<1>1. conn \in [Conn -> Conns] BY DEF TypeInv
<1>2. [conn[c] EXCEPT !.state = s] \in Conns BY <1>1 DEF Conns
<1>3. conn' \in [Conn -> Conns] BY <1>1, <1>2
<1>4. \A b \in Conn : /\ conn'[b].asked = conn[b].asked /\ conn'[b].half = conn[b].half
                      /\ conn'[b].wire = conn[b].wire
  BY <1>1 DEF Conns
<1> QED BY <1>3, <1>4

\* Nor is a thread that is at none of the steps that have one.
LEMMA ThreadOnly ==
  ASSUME TypeInv, NEW k \in Conn, NEW step \in Steps \ {"has payload"}, NEW on \in Nat,
         step \in {"in header", "in payload"} => on \in Conn,
         thread' = [thread EXCEPT ![k].at = step, ![k].on = on] \/
         (thread' = [thread EXCEPT ![k].at = step] /\ on = thread[k].on)
  PROVE  /\ thread' \in [Conn -> Threads]
         /\ \A b \in Conn : /\ in_recv(b)' => thread'[b].on \in Conn
                            /\ has_answer(b)' => b # k /\ has_answer(b) /\ thread'[b].head = thread[b].head
<1>1. thread \in [Conn -> Threads] BY DEF TypeInv
<1>2. thread' \in [Conn -> Threads]
  <2>1. thread[k] \in Threads BY <1>1
  <2>2. /\ [thread[k] EXCEPT !.at = step, !.on = on] \in Threads
        /\ [thread[k] EXCEPT !.at = step] \in Threads
    BY <2>1 DEF Threads
  <2>3. CASE thread' = [thread EXCEPT ![k].at = step, ![k].on = on] BY <1>1, <2>2, <2>3
  <2>4. CASE thread' = [thread EXCEPT ![k].at = step] BY <1>1, <2>2, <2>4
  <2> QED BY <2>3, <2>4
<1>3. thread'[k].at = step /\ thread'[k].on = on BY <1>1 DEF Threads
<1>4. \A b \in Conn : b # k => thread'[b] = thread[b] BY <1>1
<1>5. \A b \in Conn : in_recv(b)' => thread'[b].on \in Conn
  BY <1>3, <1>4 DEF TypeInv, in_recv
<1>6. \A b \in Conn : has_answer(b)' => b # k /\ has_answer(b) /\ thread'[b].head = thread[b].head
  BY <1>3, <1>4 DEF has_answer
<1> QED BY <1>2, <1>5, <1>6

\* What a step does that moves no answer on its way to the queue.
Still == TypeInv' /\ requests' = requests /\ answers' = answers /\ \A c \in Conn : Unmoved(c)

\* What main does but ask.
MainGoesOn ==
  \/ Top \/ Poll \/ Disconnect \/ Quit \/ Other \/ SendToNobody
  \/ Compose \/ SendMessage \/ SeeAnswer \/ GiveUp \/ LookAgain
  \/ \E c \in Conn : Connect(c)

\* Asking apart, main only takes from the queue, connects and closes.
LEMMA MainStill ==
  ASSUME TypeInv, MainGoesOn
  PROVE  Still
<1>1. requests' = requests
  BY DEF MainGoesOn, Top, Poll, Disconnect, Quit, Other, SendToNobody, Compose, SendMessage,
            SeeAnswer, GiveUp, LookAgain, Connect
<1>2. queue' \in Seq(Packets) /\ shown' \in Seq(Packets) /\ answers' = answers
  <2>1. CASE process_sync_response
    <3>1. queue' = <<>> /\ shown' \in Seq(Packets) /\ answers' = answers BY <2>1, Printed
    <3> QED BY <3>1
  <2>2. CASE UNCHANGED <<queue, shown>> BY <2>2 DEF TypeInv, answers
  <2>3. process_sync_response \/ UNCHANGED <<queue, shown>>
    BY DEF MainGoesOn, Top, Poll, Disconnect, Quit, Other, SendToNobody, Compose, SendMessage,
              SeeAnswer, GiveUp, LookAgain, Connect
  <2> QED BY <2>1, <2>2, <2>3
<1>3. /\ file' \in Conn \cup {0} /\ conn' \in [Conn -> Conns]
      /\ \A b \in Conn : /\ conn'[b].asked = conn[b].asked /\ conn'[b].half = conn[b].half
                         /\ conn'[b].wire = conn[b].wire
  <2>1. CASE UNCHANGED <<file, conn>> BY <2>1 DEF TypeInv
  <2>2. CASE connected /\ close_sock
    <3>1. file \in Conn BY <2>2 DEF TypeInv, connected
    <3>2. CASE conn' = conn BY <2>2, <3>2 DEF TypeInv, close_sock
    <3>3. CASE conn' = [conn EXCEPT ![file].state = "closed"]
      <4>1. /\ conn' \in [Conn -> Conns]
            /\ \A b \in Conn : /\ conn'[b].asked = conn[b].asked /\ conn'[b].half = conn[b].half
                               /\ conn'[b].wire = conn[b].wire
        BY <3>1, <3>3, StateOnly
      <4> QED BY <2>2, <4>1 DEF close_sock
    <3> QED BY <2>2, <3>2, <3>3 DEF close_sock
  <2>3. ASSUME NEW c \in Conn, Connect(c)
        PROVE /\ file' \in Conn \cup {0} /\ conn' \in [Conn -> Conns]
              /\ \A b \in Conn : /\ conn'[b].asked = conn[b].asked /\ conn'[b].half = conn[b].half
                                 /\ conn'[b].wire = conn[b].wire
    <3>1. file' = c /\ conn' = [conn EXCEPT ![c].state = "open"] BY <2>3 DEF Connect
    <3> QED BY <3>1, StateOnly
  <2>4. CASE Disconnect \/ Quit
    <3>1. UNCHANGED <<file, conn>> \/ (connected /\ close_sock) BY <2>4 DEF Disconnect, Quit
    <3> QED BY <2>1, <2>2, <3>1
  <2>5. CASE Top \/ Poll \/ Other \/ SendToNobody \/ Compose \/ SendMessage \/ SeeAnswer \/ GiveUp \/ LookAgain
    <3>1. UNCHANGED <<file, conn>>
      BY <2>5 DEF Top, Poll, Other, SendToNobody, Compose, SendMessage, SeeAnswer, GiveUp, LookAgain
    <3> QED BY <2>1, <3>1
  <2> QED BY <2>3, <2>4, <2>5 DEF MainGoesOn
<1>4. /\ thread' \in [Conn -> Threads]
      /\ \A b \in Conn : /\ in_recv(b)' => thread'[b].on \in Conn
                         /\ has_answer(b)' => has_answer(b) /\ thread'[b].head = thread[b].head
  <2>1. CASE thread' = thread BY <2>1 DEF TypeInv, in_recv, has_answer
  <2>2. ASSUME NEW c \in Conn, Connect(c)
        PROVE  /\ thread' \in [Conn -> Threads]
               /\ \A b \in Conn : /\ in_recv(b)' => thread'[b].on \in Conn
                                  /\ has_answer(b)' => has_answer(b) /\ thread'[b].head = thread[b].head
    <3> DEFINE step == "loop"
               on   == thread[c].on
    <3>1. thread' = [thread EXCEPT ![c].at = step] BY <2>2 DEF Connect
    <3>2. step \in Steps \ {"has payload"} /\ on \in Nat BY DEF Steps, TypeInv, Threads
    <3>3. step \in {"in header", "in payload"} => on \in Conn OBVIOUS
    <3>4. on = thread[c].on OBVIOUS
    <3> HIDE DEF step, on
    <3> QED BY <3>1, <3>2, <3>3, <3>4, ThreadOnly
  <2>3. thread' = thread \/ \E c \in Conn : Connect(c)
    BY DEF MainGoesOn, Top, Poll, Disconnect, Quit, Other, SendToNobody, Compose, SendMessage,
           SeeAnswer, GiveUp, LookAgain
  <2> QED BY <2>1, <2>2, <2>3
<1>5. TypeInv' BY <1>1, <1>2, <1>3, <1>4 DEF TypeInv
<1>6. \A c \in Conn : Unmoved(c) BY <1>3, <1>4 DEF Unmoved
<1> QED BY <1>1, <1>2, <1>5, <1>6 DEF Still

\* A thread that calls recv() or sees the end of the connection, and a server that leaves.
LEMMA OthersStill ==
  ASSUME TypeInv, NEW k \in Conn,
         \/ Recv(k, "loop", "in header") \/ Recv(k, "has header", "in payload")
         \/ EndOfFile(k) \/ ServerLeaves(k)
  PROVE  Still
<1>1. requests' = requests /\ queue' = queue /\ shown' = shown /\ file' = file
  BY DEF Recv, EndOfFile, ServerLeaves
<1>2. answers' = answers BY <1>1 DEF answers
<1>3. /\ conn' \in [Conn -> Conns]
      /\ \A b \in Conn : /\ conn'[b].asked = conn[b].asked /\ conn'[b].half = conn[b].half
                         /\ conn'[b].wire = conn[b].wire
  <2>1. CASE conn' = conn BY <2>1 DEF TypeInv
  <2>2. CASE conn' = [conn EXCEPT ![k].state = "left"] BY <2>2, StateOnly
  <2> QED BY <2>1, <2>2 DEF Recv, EndOfFile, ServerLeaves
<1>4. /\ thread' \in [Conn -> Threads]
      /\ \A b \in Conn : /\ in_recv(b)' => thread'[b].on \in Conn
                         /\ has_answer(b)' => has_answer(b) /\ thread'[b].head = thread[b].head
  <2>1. CASE thread' = thread BY <2>1 DEF TypeInv, in_recv, has_answer
  <2>2. CASE thread' = [thread EXCEPT ![k].at = "ended"]
    <3> DEFINE step == "ended"
               on   == thread[k].on
    <3>1. thread' = [thread EXCEPT ![k].at = step] BY <2>2
    <3>2. step \in Steps \ {"has payload"} /\ on \in Nat BY DEF Steps, TypeInv, Threads
    <3>3. step \in {"in header", "in payload"} => on \in Conn OBVIOUS
    <3>4. on = thread[k].on OBVIOUS
    <3> HIDE DEF step, on
    <3> QED BY <3>1, <3>2, <3>3, <3>4, ThreadOnly
  <2>3. ASSUME NEW step \in {"in header", "in payload"}, file \in Conn,
               thread' = [thread EXCEPT ![k].at = step, ![k].on = file]
        PROVE  /\ thread' \in [Conn -> Threads]
               /\ \A b \in Conn : /\ in_recv(b)' => thread'[b].on \in Conn
                                  /\ has_answer(b)' => has_answer(b) /\ thread'[b].head = thread[b].head
    <3>1. step \in Steps \ {"has payload"} BY DEF Steps
    <3>2. file \in Nat BY <2>3, Numbers
    <3> QED BY <2>3, <3>1, <3>2, ThreadOnly
  <2>4. \/ thread' = thread \/ thread' = [thread EXCEPT ![k].at = "ended"]
        \/ \E step \in {"in header", "in payload"} :
             file \in Conn /\ thread' = [thread EXCEPT ![k].at = step, ![k].on = file]
    BY DEF Recv, EndOfFile, ServerLeaves, connected, TypeInv
  <2> QED BY <2>1, <2>2, <2>3, <2>4
<1>5. TypeInv' BY <1>1, <1>3, <1>4 DEF TypeInv
<1>6. \A c \in Conn : Unmoved(c) BY <1>3, <1>4 DEF Unmoved
<1> QED BY <1>1, <1>2, <1>5, <1>6 DEF Still

\* The order of the answers is kept.
LEMMA StillLines ==
  ASSUME TypeInv, Still, NEW c \in Conn, Line(c)
  PROVE  Line(c)'
<1>1. AnswersKept(c) BY DEF Still, AnswersKept
<1>2. undelivered(c) \subseteq Nat /\ \A i \in DOMAIN answers : answers[i].n \in Nat
  BY LineTypes DEF Packets
<1>3. requests \in Nat /\ requests' = requests BY DEF TypeInv, Still
<1> QED BY <1>1, <1>2, <1>3, LineKept DEF Still

-----------------------------------------------------------------------------
(* Steps of one connection. *)

\* Only c is another one.
OnlyConn(c, d) ==
  /\ conn' = [conn EXCEPT ![c] = d] /\ d \in Conns
  /\ UNCHANGED <<file, thread, queue, shown>> /\ requests' \in Nat /\ requests <= requests'

\* What comes of the others.
LEMMA OneConn ==
  ASSUME TypeInv, NEW c \in Conn, NEW d, OnlyConn(c, d)
  PROVE  /\ TypeInv' /\ conn'[c] = d /\ thread' = thread /\ answers' = answers
         /\ \A b \in Conn : b # c /\ Line(b) => Line(b)'
<1>1. conn \in [Conn -> Conns] BY DEF TypeInv
<1>2. conn'[c] = d /\ \A b \in Conn : b # c => conn'[b] = conn[b] BY <1>1 DEF OnlyConn
<1>3. TypeInv' BY <1>1 DEF TypeInv, OnlyConn, in_recv
<1>4. thread' = thread /\ answers' = answers BY DEF OnlyConn, answers
<1>5. ASSUME NEW b \in Conn, b # c, Line(b) PROVE Line(b)'
  <2>1. Unmoved(b) BY <1>2, <1>4, <1>5 DEF Unmoved, has_answer
  <2>2. AnswersKept(b) BY <1>4 DEF AnswersKept
  <2>3. undelivered(b) \subseteq Nat /\ \A i \in DOMAIN answers : answers[i].n \in Nat
    BY LineTypes DEF Packets
  <2>4. requests \in Nat /\ requests' \in Nat /\ requests <= requests' BY DEF TypeInv, OnlyConn
  <2> QED BY <1>5, <2>1, <2>2, <2>3, <2>4, LineKept
<1> QED BY <1>2, <1>3, <1>4, <1>5

\* A request is the last one of its connection.
LEMMA AskLines ==
  ASSUME TypeInv, Ask, \A c \in Conn : Line(c)
  PROVE  TypeInv' /\ answers' = answers /\ \A c \in Conn : Line(c)'
<1>1. PICK c \in Conn : c = file BY DEF Ask, connected, TypeInv
<1> DEFINE r == requests + 1
           s == conn[c].asked
           d == [conn[c] EXCEPT !.asked = Append(s, r)]
<1>2. requests \in Nat /\ r \in Nat \ {0} BY DEF TypeInv
<1>3. conn[c] \in Conns /\ s \in Seq(Nat \ {0}) BY <1>1 DEF TypeInv, Conns
<1>4. /\ Append(s, r) \in Seq(Nat \ {0}) /\ Len(Append(s, r)) = Len(s) + 1
      /\ \A i \in 1 .. Len(s) : Append(s, r)[i] = s[i]
      /\ Append(s, r)[Len(s) + 1] = r
  BY <1>2, <1>3, AppendProperties
<1>5. /\ d \in Conns /\ d.asked = Append(s, r)
      /\ d.half = conn[c].half /\ d.wire = conn[c].wire
  BY <1>3, <1>4 DEF Conns
<1>6. conn' = [conn EXCEPT ![c] = d] BY <1>1 DEF Ask
<1>7. OnlyConn(c, d)
  <2> HIDE DEF d
  <2>1. UNCHANGED <<file, thread, queue, shown>> /\ requests' = r BY DEF Ask
  <2>2. requests <= r BY <1>2
  <2> QED BY <1>2, <1>5, <1>6, <2>1, <2>2 DEF OnlyConn
<1>8. /\ TypeInv' /\ conn'[c] = d /\ thread' = thread /\ answers' = answers
      /\ \A b \in Conn : b # c => Line(b)'
  BY <1>1, <1>7, OneConn
<1>9. Line(c)'
  <2>1. /\ conn'[c].asked = Append(s, r) /\ conn'[c].half = conn[c].half /\ conn'[c].wire = conn[c].wire
        /\ requests' = r
    BY <1>5, <1>8 DEF Ask
  <2>2. DOMAIN s = 1 .. Len(s) /\ DOMAIN Append(s, r) = 1 .. Len(s) + 1 /\ Len(s) \in Nat
    BY <1>3, <1>4, LenProperties
  <2> HIDE DEF d, s
  <2>3. unanswered(c)' = unanswered(c) \cup {r}
    BY <1>4, <2>1, <2>2 DEF unanswered, s
  <2>4. unsent(c)' = unsent(c) \cup {r} BY <2>1, <2>3 DEF unsent
  <2>5. unread(c)' = unread(c) \cup {r} BY <2>1, <2>4 DEF unread
  <2>6. undelivered(c)' = undelivered(c) \cup {r} BY <1>8, <2>5 DEF undelivered, has_answer
  <2>7. undelivered(c) \subseteq Nat /\ \A i \in DOMAIN answers : answers[i].n \in Nat
    BY <1>1, LineTypes DEF Packets
  <2>8. Line(c) BY <1>1
  <2>9. \A n \in undelivered(c) : n < r BY <1>2, <2>7, <2>8 DEF Line
  <2>10. \A i, j \in DOMAIN conn'[c].asked : i < j => conn'[c].asked[i] < conn'[c].asked[j]
    <3>1. \A i \in DOMAIN s : s[i] < r
      <4>1. \A i \in DOMAIN s : s[i] \in unanswered(c) BY DEF unanswered, s
      <4> QED BY <2>9, <4>1 DEF unsent, unread, undelivered
    <3>2. \A i, j \in DOMAIN s : i < j => s[i] < s[j] BY <2>8 DEF Line, s
    <3> QED BY <1>4, <2>1, <2>2, <3>1, <3>2
  <2>11. conn'[c].half # 0 => \A n \in unanswered(c)' : conn'[c].half < n
    <3>1. conn[c].half # 0 => conn[c].half \in undelivered(c) BY DEF unsent, unread, undelivered
    <3> QED BY <2>1, <2>3, <2>8, <2>9, <3>1 DEF Line
  <2>12. \A i, j \in DOMAIN conn'[c].wire : i < j /\ carries(conn'[c].wire[i]) /\ carries(conn'[c].wire[j])
           => conn'[c].wire[i].n < conn'[c].wire[j].n
    BY <2>1, <2>8 DEF Line
  <2>13. \A i \in DOMAIN conn'[c].wire : carries(conn'[c].wire[i]) =>
           conn'[c].wire[i].conn = c /\ \A n \in unsent(c)' : conn'[c].wire[i].n < n
    <3>1. \A i \in DOMAIN conn[c].wire : carries(conn[c].wire[i]) => conn[c].wire[i].n \in undelivered(c)
      BY DEF unread, undelivered
    <3> QED BY <2>1, <2>4, <2>8, <2>9, <3>1 DEF Line
  <2>14. has_answer(c)' => thread'[c].head.conn = c /\ \A n \in unread(c)' : thread'[c].head.n < n
    <3>1. has_answer(c)' = has_answer(c) /\ thread'[c] = thread[c] BY <1>8 DEF has_answer
    <3>2. has_answer(c) => thread[c].head.n < r BY <2>9 DEF undelivered
    <3>3. has_answer(c) => thread[c].head.conn = c /\ \A n \in unread(c) : thread[c].head.n < n
      BY <2>8 DEF Line
    <3> QED BY <2>5, <3>1, <3>2, <3>3
  <2>15. \A i \in DOMAIN answers' : answers'[i].conn = c =>
           answers'[i].n <= requests' /\ \A n \in undelivered(c)' : answers'[i].n < n
    <3> SUFFICES ASSUME NEW i \in DOMAIN answers, answers[i].conn = c
                 PROVE  answers[i].n <= r /\ \A n \in undelivered(c) \cup {r} : answers[i].n < n
      BY <1>8, <2>1, <2>6
    <3>1. answers[i].n <= requests /\ \A n \in undelivered(c) : answers[i].n < n BY <2>8 DEF Line
    <3> QED BY <1>2, <2>7, <3>1
  <2>16. \A n \in undelivered(c)' : n <= requests' BY <1>2, <2>1, <2>6, <2>7, <2>9
  <2> QED BY <2>10, <2>11, <2>12, <2>13, <2>14, <2>15, <2>16 DEF Line, carries
<1> QED BY <1>8, <1>9

\* As long as what is not read is the same, so is the order of what is.
LEMMA ReadKept ==
  ASSUME NEW c \in Conn, Line(c), thread' = thread, answers' = answers, requests' = requests,
         unread(c)' = unread(c)
  PROVE  /\ has_answer(c)' => thread'[c].head.conn = c /\ \A n \in unread(c)' : thread'[c].head.n < n
         /\ \A i \in DOMAIN answers' : answers'[i].conn = c =>
              answers'[i].n <= requests' /\ \A n \in undelivered(c)' : answers'[i].n < n
         /\ \A n \in undelivered(c)' : n <= requests'
<1>1. has_answer(c)' = has_answer(c) /\ thread'[c] = thread[c] BY DEF has_answer
<1>2. undelivered(c)' = undelivered(c) BY <1>1 DEF undelivered
<1>3. has_answer(c) => thread[c].head.conn = c /\ \A n \in unread(c) : thread[c].head.n < n
  BY DEF Line
<1>4. /\ \A i \in DOMAIN answers : answers[i].conn = c =>
           answers[i].n <= requests /\ \A n \in undelivered(c) : answers[i].n < n
      /\ \A n \in undelivered(c) : n <= requests
  BY DEF Line
<1> QED BY <1>1, <1>2, <1>3, <1>4

\* Packets that are no answers do not change what a wire carries.
Padded(w, v) ==
  /\ v \in Seq(Packets) /\ Len(w) <= Len(v)
  /\ \A i \in 1 .. Len(w) : v[i] = w[i]
  /\ \A i \in Len(w) + 1 .. Len(v) : ~carries(v[i])

LEMMA PaddedCarries ==
  ASSUME NEW w \in Seq(Packets), NEW v, Padded(w, v)
  PROVE  /\ \A i \in DOMAIN w : i \in DOMAIN v /\ v[i] = w[i]
         /\ \A i \in DOMAIN v : carries(v[i]) => i \in DOMAIN w /\ v[i] = w[i]
         /\ {v[i].n : i \in {j \in DOMAIN v : carries(v[j])}} = {w[i].n : i \in {j \in DOMAIN w : carries(w[j])}}
<1>1. /\ DOMAIN w = 1 .. Len(w) /\ DOMAIN v = 1 .. Len(v) /\ Len(w) \in Nat /\ Len(v) \in Nat
      /\ Len(w) <= Len(v)
  BY LenProperties DEF Padded
<1>2. \A i \in DOMAIN w : i \in DOMAIN v /\ v[i] = w[i] BY <1>1 DEF Padded
<1>3. \A i \in DOMAIN v : carries(v[i]) => i \in DOMAIN w /\ v[i] = w[i]
  <2>1. \A i \in DOMAIN v : i \in DOMAIN w \/ i \in Len(w) + 1 .. Len(v) BY <1>1
  <2> QED BY <1>2, <2>1 DEF Padded
<1> QED BY <1>2, <1>3

\* A header is sent: the request is half answered, and nothing has come further.
LEMMA SendHeaderLines ==
  ASSUME TypeInv, NEW c \in Conn, SendHeader(c), \A b \in Conn : Line(b)
  PROVE  /\ TypeInv' /\ answers' = answers /\ \A b \in Conn : Line(b)'
         /\ Padded(conn[c].wire, conn'[c].wire)
         /\ conn'[c].asked = Tail(conn[c].asked) /\ conn'[c].half = Head(conn[c].asked)
         /\ \A b \in Conn : b # c => conn'[b] = conn[b]
<1> DEFINE s == conn[c].asked
           h == Head(s)
           t == Tail(s)
           p == Header(Answer(c, h))
           w == conn[c].wire
           v == Append(w, p)
           d == [conn[c] EXCEPT !.half = h, !.asked = t, !.wire = v]
<1>1. conn[c] \in Conns /\ s \in Seq(Nat \ {0}) /\ w \in Seq(Packets) BY DEF TypeInv, Conns
<1>2. s # <<>> /\ conn[c].half = 0 BY DEF SendHeader
<1>3. /\ h \in Nat \ {0} /\ t \in Seq(Nat \ {0}) /\ Len(s) \in Nat \ {0} /\ Len(t) = Len(s) - 1
      /\ \A i \in 1 .. Len(s) - 1 : t[i] = s[i + 1]
      /\ DOMAIN s = 1 .. Len(s) /\ DOMAIN t = 1 .. Len(s) - 1 /\ h = s[1]
  BY <1>1, <1>2, HeadTailProperties, LenProperties
<1>4. p \in Packets /\ ~carries(p) BY <1>3, Parts
<1>5. Padded(w, v)
  <2> HIDE DEF w, p
  <2> QED BY <1>1, <1>4, AppendProperties, LenProperties DEF Padded, w
<1>6. v \in Seq(Packets) BY <1>5 DEF Padded
<1>7. /\ d \in Conns /\ d.half = h /\ d.asked = t /\ d.wire = v
  <2> HIDE DEF h, s, t, v
  <2> QED BY <1>1, <1>3, <1>6 DEF Conns
<1>8. conn' = [conn EXCEPT ![c] = d] BY DEF SendHeader
<1>9. OnlyConn(c, d)
  <2> HIDE DEF d
  <2>1. UNCHANGED <<file, thread, queue, shown, requests>> BY DEF SendHeader
  <2> QED BY <1>7, <1>8, <2>1 DEF OnlyConn, TypeInv
<1>10. /\ TypeInv' /\ conn'[c] = d /\ thread' = thread /\ answers' = answers
       /\ \A b \in Conn : b # c => Line(b)'
  BY <1>9, OneConn
<1>11. \A b \in Conn : b # c => conn'[b] = conn[b] BY <1>8 DEF TypeInv
<1>12. /\ conn'[c].half = h /\ conn'[c].asked = t /\ conn'[c].wire = v
       /\ requests' = requests
  BY <1>7, <1>10 DEF SendHeader
<1>13. Line(c)'
  <2> HIDE DEF p, v, d, h
  <2>1. unanswered(c) = unanswered(c)' \cup {h}
    <3>1. {s[i] : i \in DOMAIN s} = {t[i] : i \in DOMAIN t} \cup {h}
      <4> HIDE DEF s, t
      <4>1. \A i \in DOMAIN s : i = 1 \/ (i - 1 \in DOMAIN t /\ i - 1 + 1 = i) BY <1>3
      <4>2. \A i \in DOMAIN s : s[i] = h \/ (i - 1 \in DOMAIN t /\ s[i] = t[i - 1]) BY <1>3, <4>1
      <4>3. \A i \in DOMAIN t : i + 1 \in DOMAIN s /\ t[i] = s[i + 1] BY <1>3
      <4>4. 1 \in DOMAIN s /\ s[1] = h BY <1>3
      <4>5. \A n \in {s[i] : i \in DOMAIN s} : n \in {t[i] : i \in DOMAIN t} \cup {h} BY <4>2
      <4>6. \A n \in {t[i] : i \in DOMAIN t} \cup {h} : n \in {s[i] : i \in DOMAIN s} BY <4>3, <4>4
      <4> QED BY <4>5, <4>6
    <3> QED BY <1>12, <3>1 DEF unanswered
  <2>2. unsent(c)' = unsent(c) BY <1>2, <1>3, <1>12, <2>1 DEF unsent
  <2>3. /\ \A i \in DOMAIN v : carries(v[i]) => i \in DOMAIN w /\ v[i] = w[i]
        /\ {v[i].n : i \in {j \in DOMAIN v : carries(v[j])}} = {w[i].n : i \in {j \in DOMAIN w : carries(w[j])}}
    BY <1>1, <1>5, PaddedCarries
  <2>4. unread(c)' = unread(c) BY <1>12, <2>2, <2>3 DEF unread
  <2>5. \A i, j \in DOMAIN s : i < j => s[i] < s[j] BY DEF Line
  <2>6. /\ \A i, j \in DOMAIN t : i < j => t[i] < t[j]
        /\ \A i \in DOMAIN t : h < t[i]
    <3> HIDE DEF s, t
    <3>1. \A i \in DOMAIN t : i + 1 \in DOMAIN s /\ 1 < i + 1 /\ t[i] = s[i + 1] BY <1>3
    <3>2. 1 \in DOMAIN s BY <1>3
    <3>3. \A i, j \in DOMAIN t : i < j => i + 1 < j + 1 BY <1>3
    <3> QED BY <1>3, <2>5, <3>1, <3>2, <3>3
  <2>7. \A n \in unanswered(c)' : h < n BY <1>12, <2>6 DEF unanswered
  <2>8. \A i, j \in DOMAIN v : i < j /\ carries(v[i]) /\ carries(v[j]) => v[i].n < v[j].n
    BY <2>3 DEF Line
  <2>9. \A i \in DOMAIN v : carries(v[i]) => v[i].conn = c /\ \A n \in unsent(c)' : v[i].n < n
    BY <2>2, <2>3 DEF Line
  <2> HIDE DEF s, t, w
  <2> QED BY <1>10, <1>12, <2>4, <2>6, <2>7, <2>8, <2>9, ReadKept DEF Line, carries
<1> QED BY <1>5, <1>10, <1>11, <1>12, <1>13

\* A payload is sent: its number is behind those on the wire, and before those that are asked.
LEMMA SendPayloadLines ==
  ASSUME TypeInv, NEW c \in Conn, SendPayload(c), \A b \in Conn : Line(b)
  PROVE  /\ TypeInv' /\ answers' = answers /\ \A b \in Conn : Line(b)'
         /\ conn'[c].asked = conn[c].asked /\ conn'[c].half = 0
         /\ conn'[c].wire = Append(conn[c].wire, Payload(Answer(c, conn[c].half)))
         /\ \A b \in Conn : b # c => conn'[b] = conn[b]
<1> DEFINE h == conn[c].half
           p == Payload(Answer(c, h))
           w == conn[c].wire
           v == Append(w, p)
           d == [conn[c] EXCEPT !.half = 0, !.wire = v]
<1>1. conn[c] \in Conns /\ w \in Seq(Packets) /\ h \in Nat BY DEF TypeInv, Conns
<1>2. h # 0 BY DEF SendPayload
<1>3. p \in Packets /\ (carries(p) => p.conn = c /\ p.n = h) BY <1>1, Parts
<1>4. p.part = "payload" /\ p.n = h BY DEF Payload, Answer
<1>5. /\ v \in Seq(Packets) /\ Len(w) \in Nat /\ DOMAIN w = 1 .. Len(w) /\ DOMAIN v = 1 .. Len(w) + 1
      /\ \A i \in 1 .. Len(w) : v[i] = w[i]
      /\ v[Len(w) + 1] = p
  <2> HIDE DEF p, w
  <2> QED BY <1>1, <1>3, AppendProperties, LenProperties
<1>6. d \in Conns /\ d.half = 0 /\ d.asked = conn[c].asked /\ d.wire = v
  <2> HIDE DEF v
  <2> QED BY <1>1, <1>5 DEF Conns
<1>7. conn' = [conn EXCEPT ![c] = d] BY DEF SendPayload
<1>8. OnlyConn(c, d)
  <2> HIDE DEF d
  <2>1. UNCHANGED <<file, thread, queue, shown, requests>> BY DEF SendPayload
  <2> QED BY <1>6, <1>7, <2>1 DEF OnlyConn, TypeInv
<1>9. /\ TypeInv' /\ conn'[c] = d /\ thread' = thread /\ answers' = answers
      /\ \A b \in Conn : b # c => Line(b)'
  BY <1>8, OneConn
<1>10. \A b \in Conn : b # c => conn'[b] = conn[b] BY <1>7 DEF TypeInv
<1>11. /\ conn'[c].half = 0 /\ conn'[c].asked = conn[c].asked /\ conn'[c].wire = v
       /\ requests' = requests
  BY <1>6, <1>9 DEF SendPayload
<1>12. Line(c)'
  <2> HIDE DEF p, v, d, w, h
  <2>1. unanswered(c)' = unanswered(c) BY <1>11 DEF unanswered
  <2>2. unsent(c)' = unanswered(c) BY <1>11, <2>1 DEF unsent
  <2>3. unsent(c) = unanswered(c) \cup {h} BY <1>2 DEF unsent, h
  <2>4. carries(p) BY <1>2, <1>4 DEF carries
  <2>5. \A i \in DOMAIN v : (i \in DOMAIN w /\ v[i] = w[i]) \/ (i = Len(w) + 1 /\ v[i] = p)
    <3>1. \A i \in DOMAIN v : i \in 1 .. Len(w) \/ i = Len(w) + 1 BY <1>5
    <3> QED BY <1>5, <3>1
  <2>6. \A i \in DOMAIN w : i \in DOMAIN v /\ v[i] = w[i] BY <1>5
  <2>7. Len(w) + 1 \in DOMAIN v BY <1>5
  <2>8. {v[i].n : i \in {j \in DOMAIN v : carries(v[j])}} = {w[i].n : i \in {j \in DOMAIN w : carries(w[j])}} \cup {h}
    BY <1>4, <1>5, <2>4, <2>5, <2>6, <2>7
  <2>9. unread(c)' = unread(c) BY <1>11, <2>2, <2>3, <2>8 DEF unread, w
  <2>10. \A i \in DOMAIN w : carries(w[i]) => w[i].conn = c /\ \A n \in unsent(c) : w[i].n < n
    BY DEF Line, w
  <2>11. \A n \in unanswered(c) : h < n BY <1>2 DEF Line, h
  <2>12. \A i, j \in DOMAIN v : i < j /\ carries(v[i]) /\ carries(v[j]) => v[i].n < v[j].n
    <3>1. \A i, j \in DOMAIN w : i < j /\ carries(w[i]) /\ carries(w[j]) => w[i].n < w[j].n
      BY DEF Line, w
    <3> SUFFICES ASSUME NEW i \in DOMAIN v, NEW j \in DOMAIN v, i < j, carries(v[i]), carries(v[j])
                 PROVE  v[i].n < v[j].n
      OBVIOUS
    <3>2. i \in DOMAIN w /\ v[i] = w[i] BY <1>5
    <3>3. CASE j \in DOMAIN w BY <2>6, <3>1, <3>2, <3>3
    <3>4. CASE v[j] = p BY <1>4, <2>3, <2>10, <3>2, <3>4
    <3> QED BY <2>5, <3>3, <3>4
  <2>13. \A i \in DOMAIN v : carries(v[i]) => v[i].conn = c /\ \A n \in unsent(c)' : v[i].n < n
    BY <1>3, <1>4, <2>2, <2>3, <2>5, <2>10, <2>11
  <2>14. \A i, j \in DOMAIN conn'[c].asked : i < j => conn'[c].asked[i] < conn'[c].asked[j]
    BY <1>11 DEF Line
  <2> QED BY <1>9, <1>11, <2>9, <2>12, <2>13, <2>14, ReadKept DEF Line, carries
<1> QED BY <1>9, <1>10, <1>11, <1>12

\* A message of another client is no answer.
LEMMA ForwardLines ==
  ASSUME TypeInv, NEW c \in Conn, Forward(c), \A b \in Conn : Line(b)
  PROVE  /\ TypeInv' /\ answers' = answers /\ \A b \in Conn : Line(b)'
         /\ Padded(conn[c].wire, conn'[c].wire)
         /\ conn'[c].asked = conn[c].asked /\ conn'[c].half = conn[c].half
         /\ \A b \in Conn : b # c => conn'[b] = conn[b]
<1> DEFINE w == conn[c].wire
           m == <<Header(Message), Payload(Message)>>
           v == w \o m
           d == [conn[c] EXCEPT !.wire = v]
<1>1. conn[c] \in Conns /\ w \in Seq(Packets) BY DEF TypeInv, Conns
<1>2. /\ m \in Seq(Packets) /\ Len(m) = 2
      /\ ~carries(m[1]) /\ ~carries(m[2])
  <2>1. {Header(Message), Payload(Message)} \subseteq Packets /\ ~carries(Header(Message)) /\ ~carries(Payload(Message))
    <3>1. 0 \in Nat OBVIOUS
    <3> QED BY <3>1, Parts
  <2> QED BY <2>1
<1>3. Padded(w, v)
  <2> HIDE DEF w, m
  <2>1. /\ v \in Seq(Packets) /\ Len(v) = Len(w) + Len(m) /\ Len(w) \in Nat
        /\ \A i \in 1 .. Len(w) : v[i] = w[i]
        /\ \A i \in 1 .. Len(m) : v[Len(w) + i] = m[i]
    <3>1. Len(w) \in Nat BY <1>1, LenProperties
    <3>2. /\ v \in Seq(Packets) /\ Len(v) = Len(w) + Len(m)
          /\ \A i \in 1 .. Len(w) + Len(m) : v[i] = IF i <= Len(w) THEN w[i] ELSE m[i - Len(w)]
      BY <1>1, <1>2, ConcatProperties
    <3> HIDE DEF v
    <3>3. \A i \in 1 .. Len(w) : i \in 1 .. Len(w) + Len(m) /\ i <= Len(w) BY <1>2, <3>1
    <3>4. \A i \in 1 .. Len(m) : /\ Len(w) + i \in 1 .. Len(w) + Len(m) /\ ~(Len(w) + i <= Len(w))
                                 /\ Len(w) + i - Len(w) = i
      BY <1>2, <3>1
    <3> QED BY <3>1, <3>2, <3>3, <3>4
  <2> HIDE DEF v
  <2>2. v[Len(w) + 1] = m[1] /\ v[Len(w) + 2] = m[2] BY <1>2, <2>1
  <2>3. \A i \in Len(w) + 1 .. Len(v) : i = Len(w) + 1 \/ i = Len(w) + 2 BY <1>2, <2>1
  <2>4. \A i \in Len(w) + 1 .. Len(v) : ~carries(v[i]) BY <1>2, <2>2, <2>3
  <2> QED BY <1>2, <2>1, <2>4 DEF Padded
<1>4. v \in Seq(Packets) BY <1>3 DEF Padded
<1>5. d \in Conns /\ d.half = conn[c].half /\ d.asked = conn[c].asked /\ d.wire = v
  <2> HIDE DEF v
  <2> QED BY <1>1, <1>4 DEF Conns
<1>6. conn' = [conn EXCEPT ![c] = d] BY DEF Forward
<1>7. OnlyConn(c, d)
  <2> HIDE DEF d
  <2>1. UNCHANGED <<file, thread, queue, shown, requests>> BY DEF Forward
  <2> QED BY <1>5, <1>6, <2>1 DEF OnlyConn, TypeInv
<1>8. /\ TypeInv' /\ conn'[c] = d /\ thread' = thread /\ answers' = answers
      /\ \A b \in Conn : b # c => Line(b)'
  BY <1>7, OneConn
<1>9. \A b \in Conn : b # c => conn'[b] = conn[b] BY <1>6 DEF TypeInv
<1>10. /\ conn'[c].half = conn[c].half /\ conn'[c].asked = conn[c].asked /\ conn'[c].wire = v
       /\ requests' = requests
  BY <1>5, <1>8 DEF Forward
<1>11. Line(c)'
  <2> HIDE DEF m, v, d
  <2>1. unanswered(c)' = unanswered(c) /\ unsent(c)' = unsent(c) BY <1>10 DEF unsent, unanswered
  <2>2. /\ \A i \in DOMAIN v : carries(v[i]) => i \in DOMAIN w /\ v[i] = w[i]
        /\ {v[i].n : i \in {j \in DOMAIN v : carries(v[j])}} = {w[i].n : i \in {j \in DOMAIN w : carries(w[j])}}
    BY <1>1, <1>3, PaddedCarries
  <2>3. unread(c)' = unread(c) BY <1>10, <2>1, <2>2 DEF unread
  <2>4. \A i, j \in DOMAIN v : i < j /\ carries(v[i]) /\ carries(v[j]) => v[i].n < v[j].n
    BY <2>2 DEF Line
  <2>5. \A i \in DOMAIN v : carries(v[i]) => v[i].conn = c /\ \A n \in unsent(c)' : v[i].n < n
    BY <2>1, <2>2 DEF Line
  <2>6. /\ \A i, j \in DOMAIN conn'[c].asked : i < j => conn'[c].asked[i] < conn'[c].asked[j]
        /\ conn'[c].half # 0 => \A n \in unanswered(c)' : conn'[c].half < n
    BY <1>10, <2>1 DEF Line
  <2> HIDE DEF w
  <2> QED BY <1>8, <1>10, <2>3, <2>4, <2>5, <2>6, ReadKept DEF Line, carries
<1> QED BY <1>3, <1>8, <1>9, <1>10, <1>11

-----------------------------------------------------------------------------
(* Steps of a receiving thread. *)

Receives(k) ==
  Received(k, "in header", "header", "has header") \/ Received(k, "in payload", "payload", "has payload")

\* What recv() returns is the first that is on a wire; it may be lost.
LEMMA ReceivedTypes ==
  ASSUME TypeInv, NEW k \in Conn, Receives(k), NEW c \in Conn, c = thread[k].on
  PROVE  /\ TypeInv' /\ answers' = answers /\ requests' = requests
         /\ conn[c].wire \in Seq(Packets) \ {<<>>} /\ conn'[c].wire = Tail(conn[c].wire)
         /\ conn'[c].asked = conn[c].asked /\ conn'[c].half = conn[c].half
         /\ \A b \in Conn : b # c => conn'[b] = conn[b]
         /\ \A b \in Conn : b # k => thread'[b] = thread[b]
         /\ ~has_answer(k)
         /\ has_answer(k)' => thread[k].at = "in payload" /\ thread'[k].head = Head(conn[c].wire)
<1> DEFINE w == conn[c].wire
           d == [conn[c] EXCEPT !.wire = Tail(w), !.state = IF c = file THEN @ ELSE "closed"]
<1>1. conn[c] \in Conns /\ w \in Seq(Packets) BY DEF TypeInv, Conns
<1>2. w # <<>> BY DEF Receives, Received
<1>3. Tail(w) \in Seq(Packets) /\ Head(w) \in Packets BY <1>1, <1>2, HeadTailProperties
<1>4. d \in Conns /\ d.wire = Tail(w) /\ d.asked = conn[c].asked /\ d.half = conn[c].half
  <2> HIDE DEF w
  <2> QED BY <1>1, <1>3 DEF Conns
<1>5. conn' = [conn EXCEPT ![c] = d] BY DEF Receives, Received, taken
<1>6. conn' \in [Conn -> Conns] /\ conn'[c] = d /\ \A b \in Conn : b # c => conn'[b] = conn[b]
  <2> HIDE DEF d
  <2> QED BY <1>4, <1>5 DEF TypeInv
<1>7. UNCHANGED <<file, queue, shown, requests>> BY DEF Receives, Received
<1>8. answers' = answers BY <1>7 DEF answers
<1> HIDE DEF d
<1>9. \/ \E part \in {"header", "payload"}, to \in {"has header", "has payload"} :
           /\ to = "has payload" => thread[k].at = "in payload"
           /\ thread' = [thread EXCEPT ![k].at = to, ![k].head = Head(w)]
      \/ thread' = [thread EXCEPT ![k].at = "ended"]
  BY DEF Receives, Received
<1>10. thread[k] \in Threads /\ thread \in [Conn -> Threads] BY DEF TypeInv
<1>11. ~has_answer(k) BY DEF Receives, Received, has_answer
<1>12. /\ thread' \in [Conn -> Threads] /\ ~in_recv(k)'
       /\ \A b \in Conn : b # k => thread'[b] = thread[b]
       /\ has_answer(k)' => thread[k].at = "in payload" /\ thread'[k].head = Head(w)
  <2> HIDE DEF w
  <2>1. ASSUME NEW to \in {"has header", "has payload"}, to = "has payload" => thread[k].at = "in payload",
               thread' = [thread EXCEPT ![k].at = to, ![k].head = Head(w)]
        PROVE  /\ thread' \in [Conn -> Threads] /\ ~in_recv(k)'
               /\ \A b \in Conn : b # k => thread'[b] = thread[b]
               /\ has_answer(k)' => thread[k].at = "in payload" /\ thread'[k].head = Head(w)
    <3>1. [thread[k] EXCEPT !.at = to, !.head = Head(w)] \in Threads BY <1>3, <1>10 DEF Threads, Steps
    <3>2. thread' \in [Conn -> Threads] BY <1>10, <2>1, <3>1
    <3>3. thread'[k].at = to /\ thread'[k].head = Head(w) BY <1>10, <2>1 DEF Threads
    <3>4. \A b \in Conn : b # k => thread'[b] = thread[b] BY <1>10, <2>1
    <3> QED BY <2>1, <3>2, <3>3, <3>4 DEF in_recv, has_answer
  <2>2. CASE thread' = [thread EXCEPT ![k].at = "ended"]
    <3>1. [thread[k] EXCEPT !.at = "ended"] \in Threads BY <1>10 DEF Threads, Steps
    <3>2. thread' \in [Conn -> Threads] BY <1>10, <2>2, <3>1
    <3>3. thread'[k].at = "ended" BY <1>10, <2>2 DEF Threads
    <3>4. \A b \in Conn : b # k => thread'[b] = thread[b] BY <1>10, <2>2
    <3> QED BY <3>2, <3>3, <3>4 DEF in_recv, has_answer
  <2> QED BY <1>9, <2>1, <2>2
<1>13. TypeInv'
  <2>1. \A b \in Conn : in_recv(b)' => thread'[b].on \in Conn BY <1>12 DEF TypeInv, in_recv
  <2> QED BY <1>6, <1>7, <1>12, <2>1 DEF TypeInv
<1> QED BY <1>1, <1>2, <1>4, <1>6, <1>7, <1>8, <1>11, <1>12, <1>13

\* A thread that reads what is for it takes the answer that comes next.
LEMMA ReceivedLines ==
  ASSUME TypeInv, NEW k \in Conn, Receives(k), ~confused', \A b \in Conn : Line(b)
  PROVE  /\ thread[k].on = k
         /\ has_answer(k)' => carries(Head(conn[k].wire))
         /\ \A b \in Conn : Line(b)'
<1> DEFINE w == conn[k].wire
           v == Tail(w)
<1>1. /\ thread[k].on = k
      /\ thread[k].at = "in payload" => Head(w).part = "payload"
  BY DEF Receives, Received
<1>2. /\ TypeInv' /\ answers' = answers /\ requests' = requests
      /\ w \in Seq(Packets) \ {<<>>} /\ conn'[k].wire = v
      /\ conn'[k].asked = conn[k].asked /\ conn'[k].half = conn[k].half
      /\ \A b \in Conn : b # k => conn'[b] = conn[b] /\ thread'[b] = thread[b]
      /\ ~has_answer(k)
      /\ has_answer(k)' => thread[k].at = "in payload" /\ thread'[k].head = Head(w)
  BY <1>1, ReceivedTypes
<1>3. has_answer(k)' => carries(Head(w))
  <2>1. has_answer(k)' => thread'[k].head.n # 0 BY DEF has_answer
  <2> HIDE DEF w
  <2> QED BY <1>1, <1>2, <2>1 DEF carries
<1>4. undelivered(k) \subseteq Nat /\ \A i \in DOMAIN answers : answers[i].n \in Nat
  BY LineTypes DEF Packets
<1>5. ASSUME NEW b \in Conn, b # k PROVE Line(b)'
  <2>1. Unmoved(b) BY <1>2, <1>5 DEF Unmoved, has_answer
  <2>2. AnswersKept(b) BY <1>2 DEF AnswersKept
  <2>3. undelivered(b) \subseteq Nat /\ \A i \in DOMAIN answers : answers[i].n \in Nat
    BY LineTypes DEF Packets
  <2>4. requests \in Nat /\ requests' = requests BY <1>2 DEF TypeInv
  <2> QED BY <2>1, <2>2, <2>3, <2>4, LineKept
<1>6. Line(k)'
  <2>1. /\ Len(w) \in Nat \ {0} /\ DOMAIN w = 1 .. Len(w) /\ DOMAIN v = 1 .. Len(w) - 1
        /\ Head(w) = w[1] /\ \A i \in 1 .. Len(w) - 1 : v[i] = w[i + 1]
    <3>1. w \in Seq(Packets) /\ w # <<>> BY <1>2
    <3> HIDE DEF w
    <3>2. Len(w) \in Nat /\ DOMAIN w = 1 .. Len(w) BY <3>1, LenProperties
    <3>3. v \in Seq(Packets) /\ Len(v) = Len(w) - 1 /\ \A i \in 1 .. Len(v) : v[i] = w[i + 1]
      BY <3>1, HeadTailProperties
    <3>4. DOMAIN v = 1 .. Len(v) BY <3>3, LenProperties
    <3>5. Len(w) # 0 BY <3>1, EmptySeq
    <3>6. Head(w) = w[1] BY <3>1
    <3> QED BY <3>2, <3>3, <3>4, <3>5, <3>6
  <2>2. Line(k) OBVIOUS
  <2> HIDE DEF v
  <2>3. /\ 1 \in DOMAIN w /\ \A i \in DOMAIN v : i + 1 \in DOMAIN w /\ 1 < i + 1 /\ v[i] = w[i + 1]
        /\ \A i, j \in DOMAIN v : i < j => i + 1 < j + 1
    <3> HIDE DEF w
    <3> QED BY <2>1
  <2>4. unanswered(k)' = unanswered(k) /\ unsent(k)' = unsent(k) BY <1>2 DEF unanswered, unsent
  <2>5. unread(k)' \subseteq unread(k)
    <3>1. {v[i].n : i \in {j \in DOMAIN v : carries(v[j])}} \subseteq {w[i].n : i \in {j \in DOMAIN w : carries(w[j])}}
      BY <2>3
    <3> QED BY <1>2, <2>4, <3>1 DEF unread
  <2>6. undelivered(k)' \subseteq undelivered(k)
    <3>1. carries(Head(w)) => Head(w).n \in unread(k) BY <2>1, <2>3 DEF unread
    <3>2. \A n \in undelivered(k)' : n \in unread(k)' \/ (has_answer(k)' /\ n = thread'[k].head.n)
      BY DEF undelivered
    <3>3. unread(k) \subseteq undelivered(k) BY DEF undelivered
    <3> QED BY <1>2, <1>3, <2>5, <3>1, <3>2, <3>3
  <2>7. \A i, j \in DOMAIN w : i < j /\ carries(w[i]) /\ carries(w[j]) => w[i].n < w[j].n
    BY DEF Line
  <2>8. \A i \in DOMAIN w : carries(w[i]) => w[i].conn = k /\ \A n \in unsent(k) : w[i].n < n
    BY DEF Line
  <2>9. /\ \A i, j \in DOMAIN conn'[k].asked : i < j => conn'[k].asked[i] < conn'[k].asked[j]
        /\ conn'[k].half # 0 => \A n \in unanswered(k)' : conn'[k].half < n
    BY <1>2, <2>4 DEF Line
  <2>10. \A i, j \in DOMAIN v : i < j /\ carries(v[i]) /\ carries(v[j]) => v[i].n < v[j].n
    BY <2>3, <2>7
  <2>11. \A i \in DOMAIN v : carries(v[i]) => v[i].conn = k /\ \A n \in unsent(k)' : v[i].n < n
    BY <2>3, <2>4, <2>8
  <2>12. has_answer(k)' => thread'[k].head.conn = k /\ \A n \in unread(k)' : thread'[k].head.n < n
    <3>1. carries(w[1]) => \A i \in DOMAIN v : carries(v[i]) => w[1].n < v[i].n BY <2>3, <2>7
    <3>2. \A n \in unread(k)' : n \in unsent(k) \/ \E i \in DOMAIN v : carries(v[i]) /\ n = v[i].n
      BY <1>2, <2>4 DEF unread
    <3>3. carries(w[1]) => w[1].conn = k /\ \A n \in unsent(k) : w[1].n < n BY <2>3, <2>8
    <3>4. has_answer(k)' => carries(w[1]) /\ thread'[k].head = w[1] BY <1>2, <1>3, <2>1
    <3> HIDE DEF w
    <3>5. carries(w[1]) => \A n \in unread(k)' : w[1].n < n BY <3>1, <3>2, <3>3
    <3> QED BY <3>3, <3>4, <3>5
  <2>13. \A i \in DOMAIN answers' : answers'[i].conn = k =>
           answers'[i].n <= requests' /\ \A n \in undelivered(k)' : answers'[i].n < n
    BY <1>2, <2>2, <2>6 DEF Line
  <2>14. \A n \in undelivered(k)' : n <= requests' BY <1>2, <2>2, <2>6 DEF Line
  <2> HIDE DEF w
  <2> QED BY <1>2, <2>9, <2>10, <2>11, <2>12, <2>13, <2>14 DEF Line, carries
<1> QED BY <1>1, <1>3, <1>5, <1>6

\* A message is announced to main, which is no answer.
LEMMA DeliverMessage ==
  ASSUME TypeInv, NEW k \in Conn, Deliver(k), thread[k].head.n = 0
  PROVE  Still /\ queue' = queue /\ conn' = conn
<1>1. UNCHANGED <<file, conn, shown, requests, queue>> BY DEF Deliver
<1>2. answers' = answers BY <1>1 DEF answers
<1>3. /\ thread' \in [Conn -> Threads]
      /\ \A b \in Conn : /\ in_recv(b)' => thread'[b].on \in Conn
                         /\ has_answer(b)' => has_answer(b) /\ thread'[b].head = thread[b].head
  <2> DEFINE step == "loop"
             on   == thread[k].on
  <2>1. thread' = [thread EXCEPT ![k].at = step] BY DEF Deliver
  <2>2. step \in Steps \ {"has payload"} /\ on \in Nat BY DEF Steps, TypeInv, Threads
  <2>3. step \in {"in header", "in payload"} => on \in Conn OBVIOUS
  <2>4. on = thread[k].on OBVIOUS
  <2> HIDE DEF step, on
  <2> QED BY <2>1, <2>2, <2>3, <2>4, ThreadOnly
<1>4. TypeInv' BY <1>1, <1>3 DEF TypeInv
<1>5. \A c \in Conn : Unmoved(c) BY <1>1, <1>3 DEF Unmoved
<1> QED BY <1>1, <1>2, <1>4, <1>5 DEF Still

\* An answer goes to the end of the queue.
LEMMA DeliverAnswer ==
  ASSUME TypeInv, NEW k \in Conn, Deliver(k), thread[k].head.n # 0
  PROVE  /\ TypeInv' /\ has_answer(k) /\ queue' = Append(queue, thread[k].head)
         /\ UNCHANGED <<conn, requests>>
         /\ \A b \in Conn : has_answer(b)' => b # k /\ has_answer(b) /\ thread'[b].head = thread[b].head
         /\ answers' \in Seq(Packets) /\ Len(answers) \in Nat /\ DOMAIN answers = 1 .. Len(answers)
         /\ DOMAIN answers' = 1 .. Len(answers) + 1
         /\ \A i \in 1 .. Len(answers) : answers'[i] = answers[i]
         /\ answers'[Len(answers) + 1] = thread[k].head
<1> DEFINE p == thread[k].head
<1>1. /\ UNCHANGED <<file, conn, shown, requests>> /\ queue' = Append(queue, p)
      /\ has_answer(k)
  BY DEF Deliver, has_answer
<1>2. /\ thread' \in [Conn -> Threads]
      /\ \A b \in Conn : /\ in_recv(b)' => thread'[b].on \in Conn
                         /\ has_answer(b)' => b # k /\ has_answer(b) /\ thread'[b].head = thread[b].head
  <2> DEFINE step == "loop"
             on   == thread[k].on
  <2>1. thread' = [thread EXCEPT ![k].at = step] BY DEF Deliver
  <2>2. step \in Steps \ {"has payload"} /\ on \in Nat BY DEF Steps, TypeInv, Threads
  <2>3. step \in {"in header", "in payload"} => on \in Conn OBVIOUS
  <2>4. on = thread[k].on OBVIOUS
  <2> HIDE DEF step, on
  <2> QED BY <2>1, <2>2, <2>3, <2>4, ThreadOnly
<1>3. p \in Packets BY DEF TypeInv, Threads
<1> HIDE DEF p
<1>4. queue \in Seq(Packets) /\ shown \in Seq(Packets) BY DEF TypeInv
<1>5. queue' \in Seq(Packets) /\ queue' = queue \o <<p>> BY <1>1, <1>3, <1>4, AppendProperties, AppendIsConcat
<1>6. answers' = Append(answers, p)
  <2>1. <<p>> \in Seq(Packets) BY <1>3
  <2>2. shown \o (queue \o <<p>>) = (shown \o queue) \o <<p>> BY <1>4, <2>1, ConcatAssociative
  <2>3. answers \in Seq(Packets) BY LineTypes
  <2>4. answers \o <<p>> = Append(answers, p) BY <1>3, <2>3, AppendIsConcat
  <2> QED BY <1>1, <1>5, <2>2, <2>4 DEF answers
<1>7. /\ Append(answers, p) \in Seq(Packets) /\ Len(answers) \in Nat /\ DOMAIN answers = 1 .. Len(answers)
      /\ DOMAIN Append(answers, p) = 1 .. Len(answers) + 1
      /\ \A i \in 1 .. Len(answers) : Append(answers, p)[i] = answers[i]
      /\ Append(answers, p)[Len(answers) + 1] = p
  <2>1. answers \in Seq(Packets) BY LineTypes
  <2> HIDE DEF answers
  <2> QED BY <1>3, <2>1, AppendProperties, LenProperties
<1>8. TypeInv' BY <1>1, <1>2, <1>5 DEF TypeInv
<1> QED BY <1>1, <1>2, <1>6, <1>7, <1>8 DEF p

\* It is the last answer, and what is still under way on its connection has greater numbers.
LEMMA DeliverLines ==
  ASSUME TypeInv, NEW k \in Conn, Deliver(k), thread[k].head.n # 0, \A b \in Conn : Line(b), AnswersInOrder
  PROVE  AnswersInOrder' /\ \A b \in Conn : Line(b)'
<1> DEFINE p == thread[k].head
           l == Len(answers)
<1>1. /\ TypeInv' /\ has_answer(k)
      /\ UNCHANGED <<conn, requests>>
      /\ \A b \in Conn : has_answer(b)' => b # k /\ has_answer(b) /\ thread'[b].head = thread[b].head
      /\ l \in Nat /\ DOMAIN answers = 1 .. l
      /\ DOMAIN answers' = 1 .. l + 1
      /\ \A i \in 1 .. l : answers'[i] = answers[i]
      /\ answers'[l + 1] = p
  BY DeliverAnswer
<1>2. \A i \in DOMAIN answers' : i \in DOMAIN answers \/ i = l + 1 BY <1>1
<1>3. /\ p.conn = k /\ p.n \in undelivered(k) /\ \A n \in unread(k) : p.n < n
      /\ p.n <= requests
  <2>1. p.n \in undelivered(k) BY <1>1 DEF undelivered
  <2>2. p.n <= requests BY <2>1 DEF Line
  <2>3. p.conn = k /\ \A n \in unread(k) : p.n < n BY <1>1 DEF Line
  <2> QED BY <2>1, <2>2, <2>3
<1> HIDE DEF p, l
<1>4. requests \in Nat BY DEF TypeInv
<1>5. AnswersInOrder'
  <2> SUFFICES ASSUME NEW i \in DOMAIN answers', NEW j \in DOMAIN answers', i < j,
                      answers'[i].conn = answers'[j].conn
               PROVE  answers'[i].n < answers'[j].n
    BY DEF AnswersInOrder
  <2>1. i \in DOMAIN answers /\ answers'[i] = answers[i] BY <1>1
  <2>2. CASE j \in DOMAIN answers BY <1>1, <2>1, <2>2 DEF AnswersInOrder
  <2>3. CASE j = l + 1 BY <1>1, <1>3, <2>1, <2>3 DEF Line
  <2> QED BY <1>2, <2>2, <2>3
<1>6. ASSUME NEW b \in Conn PROVE Unmoved(b) BY <1>1 DEF Unmoved
<1>7. ASSUME NEW b \in Conn, b # k PROVE Line(b)'
  <2>1. AnswersKept(b) BY <1>1, <1>2, <1>3, <1>7 DEF AnswersKept
  <2>2. undelivered(b) \subseteq Nat /\ \A i \in DOMAIN answers : answers[i].n \in Nat
    BY LineTypes DEF Packets
  <2> QED BY <1>1, <1>4, <1>6, <2>1, <2>2, LineKept
<1>8. Line(k)'
  <2>1. unanswered(k)' = unanswered(k) /\ unsent(k)' = unsent(k) /\ unread(k)' = unread(k)
    BY <1>6, UnmovedSets
  <2>2. ~has_answer(k)' BY <1>1
  <2>3. undelivered(k)' = unread(k) BY <2>1, <2>2 DEF undelivered
  <2>4. unread(k) \subseteq undelivered(k) BY DEF undelivered
  <2>5. \A i \in DOMAIN answers' : answers'[i].conn = k =>
          answers'[i].n <= requests' /\ \A n \in undelivered(k)' : answers'[i].n < n
    <3>1. \A i \in DOMAIN answers : answers[i].conn = k =>
            answers[i].n <= requests /\ \A n \in undelivered(k) : answers[i].n < n
      BY DEF Line
    <3> QED BY <1>1, <1>2, <1>3, <2>3, <2>4, <3>1
  <2>6. \A n \in undelivered(k)' : n <= requests' BY <1>1, <2>3, <2>4 DEF Line
  <2>7. /\ \A i, j \in DOMAIN conn'[k].asked : i < j => conn'[k].asked[i] < conn'[k].asked[j]
        /\ conn'[k].half # 0 => \A n \in unanswered(k)' : conn'[k].half < n
    BY <1>1, <2>1 DEF Line
  <2>8. \A i, j \in DOMAIN conn'[k].wire : i < j /\ carries(conn'[k].wire[i]) /\ carries(conn'[k].wire[j])
          => conn'[k].wire[i].n < conn'[k].wire[j].n
    BY <1>1 DEF Line
  <2>9. \A i \in DOMAIN conn'[k].wire : carries(conn'[k].wire[i]) =>
          conn'[k].wire[i].conn = k /\ \A n \in unsent(k)' : conn'[k].wire[i].n < n
    BY <1>1, <2>1 DEF Line
  <2> QED BY <2>2, <2>5, <2>6, <2>7, <2>8, <2>9 DEF Line, carries
<1> QED BY <1>5, <1>7, <1>8

-----------------------------------------------------------------------------
(* The place of the answer that is not printed. *)

\* It stays where it is when nothing moves, and if there is none main may do what it likes.
LEMMA PlaceKept ==
  ASSUME NEW place, AllAt(place), \A c \in Conn : Unmoved(c),
         queue' = queue \/ queue' = <<>>, main' = main \/ place = nowhere
  PROVE  AllAt(place)'
<1>1. \A c \in Conn : /\ conn'[c].asked = conn[c].asked /\ conn'[c].half = conn[c].half
                      /\ conn'[c].wire = conn[c].wire
                      /\ has_answer(c)' => has_answer(c)
  BY DEF Unmoved
<1>2. \A c \in Conn : conn'[c].asked # <<>> => place = <<"asked", c>> /\ Len(conn'[c].asked) = 1
  BY <1>1 DEF AllAt
<1>3. \A c \in Conn : conn'[c].half # 0 => place = <<"half", c>> BY <1>1 DEF AllAt
<1>4. \A c \in Conn : \A i \in DOMAIN conn'[c].wire : carries(conn'[c].wire[i]) =>
        /\ place = <<"wire", c>>
        /\ \A j \in DOMAIN conn'[c].wire : carries(conn'[c].wire[j]) => i = j
  BY <1>1 DEF AllAt
<1>5. \A k \in Conn : has_answer(k)' => place = <<"hand", k>> BY <1>1 DEF AllAt
<1>6. queue' # <<>> => place = <<"queue", 0>> /\ Len(queue') = 1 BY DEF AllAt
<1>7. place # nowhere => main' = "waiting" BY DEF AllAt
<1> QED BY <1>2, <1>3, <1>4, <1>5, <1>6, <1>7 DEF AllAt, nowhere, carries

\* When there is none, nothing is anywhere.
LEMMA Nowhere ==
  AllAt(nowhere) <=>
    /\ \A c \in Conn : /\ conn[c].asked = <<>> /\ conn[c].half = 0 /\ ~has_answer(c)
                       /\ \A i \in DOMAIN conn[c].wire : ~carries(conn[c].wire[i])
    /\ queue = <<>>
BY DEF AllAt, nowhere

\* All but one wait go without an answer under way, and this one ends with it or with main
\* giving up.
LEMMA MainOne ==
  ASSUME TypeInv, AtMostOne, ~gave_up', MainGoesOn
  PROVE  AtMostOne'
<1>1. PICK place \in Places : AllAt(place) BY DEF AtMostOne
<1>2. \A c \in Conn : Unmoved(c) BY MainStill DEF Still
<1>3. queue' = queue \/ queue' = <<>>
  BY DEF MainGoesOn, Top, Poll, Disconnect, Quit, Other, SendToNobody, Compose, SendMessage,
            SeeAnswer, GiveUp, LookAgain, Connect, process_sync_response
<1>4. ASSUME main # "waiting" PROVE AtMostOne'
  <2>1. place = nowhere BY <1>1, <1>4 DEF AllAt
  <2>2. AllAt(place)' BY <1>1, <1>2, <1>3, <2>1, PlaceKept
  <2> QED BY <2>2 DEF AtMostOne
<1>5. CASE SeeAnswer
  <2>1. queue # <<>> /\ queue' = <<>> BY <1>5 DEF SeeAnswer, process_sync_response
  <2>2. place = <<"queue", 0>> BY <1>1, <2>1 DEF AllAt
  <2>3. \A c \in Conn : /\ conn[c].asked = <<>> /\ conn[c].half = 0 /\ ~has_answer(c)
                        /\ \A i \in DOMAIN conn[c].wire : ~carries(conn[c].wire[i])
    BY <1>1, <2>2 DEF AllAt
  <2>4. \A c \in Conn : /\ conn'[c].asked = <<>> /\ conn'[c].half = 0 /\ ~has_answer(c)'
                        /\ \A i \in DOMAIN conn'[c].wire : ~carries(conn'[c].wire[i])
    BY <1>2, <2>3 DEF Unmoved
  <2>5. AllAt(nowhere)' BY <2>1, <2>4 DEF AllAt, nowhere, carries
  <2>6. nowhere \in Places BY DEF Places
  <2> QED BY <2>5, <2>6 DEF AtMostOne, nowhere
<1>6. ~GiveUp BY DEF GiveUp
<1>7. SeeAnswer \/ main # "waiting"
  BY <1>6 DEF MainGoesOn, Top, Poll, Disconnect, Quit, Other, SendToNobody, Compose, SendMessage,
              LookAgain, Connect, Chosen
<1> QED BY <1>4, <1>5, <1>7

\* Main asks when nothing is under way.
LEMMA AskOne ==
  ASSUME TypeInv, AtMostOne, Ask
  PROVE  AtMostOne'
<1>1. PICK place \in Places : AllAt(place) BY DEF AtMostOne
<1>2. PICK c \in Conn : c = file BY DEF Ask, connected, TypeInv
<1>3. place = nowhere BY <1>1 DEF AllAt, Ask, Chosen
<1>4. /\ \A b \in Conn : /\ conn[b].asked = <<>> /\ conn[b].half = 0 /\ ~has_answer(b)
                         /\ \A i \in DOMAIN conn[b].wire : ~carries(conn[b].wire[i])
      /\ queue = <<>>
  BY <1>1, <1>3, Nowhere
<1> DEFINE d == [conn[c] EXCEPT !.asked = Append(@, requests + 1)]
<1>5. conn[c] \in Conns /\ conn \in [Conn -> Conns] /\ requests + 1 \in Nat \ {0} BY DEF TypeInv
<1>6. d.asked = Append(conn[c].asked, requests + 1) /\ d.half = conn[c].half /\ d.wire = conn[c].wire
  BY <1>5 DEF Conns
<1>7. Len(d.asked) = 1
  <2>1. <<>> \in Seq(Nat \ {0}) /\ Len(<<>>) = 0 OBVIOUS
  <2>2. Len(Append(<<>>, requests + 1)) = 1 BY <1>5, <2>1, AppendProperties
  <2> QED BY <1>4, <1>6, <2>2
<1>8. conn' = [conn EXCEPT ![c] = d] BY <1>2 DEF Ask
<1>9. UNCHANGED <<thread, queue>> /\ main' = "waiting" BY DEF Ask
<1> HIDE DEF d
<1>10. conn'[c] = d /\ \A b \in Conn : b # c => conn'[b] = conn[b] BY <1>5, <1>8
<1>11. \A b \in Conn : conn'[b].asked # <<>> => b = c /\ Len(conn'[b].asked) = 1
  BY <1>4, <1>7, <1>10
<1>12. \A b \in Conn : /\ conn'[b].half = 0 /\ ~has_answer(b)'
                       /\ \A i \in DOMAIN conn'[b].wire : ~carries(conn'[b].wire[i])
  <2>1. \A b \in Conn : ~has_answer(b)' BY <1>4, <1>9 DEF has_answer
  <2> QED BY <1>4, <1>6, <1>10, <2>1
<1>13. AllAt(<<"asked", c>>)' BY <1>4, <1>9, <1>11, <1>12 DEF AllAt, carries
<1>14. <<"asked", c>> \in Places BY DEF Places
<1> QED BY <1>13, <1>14 DEF AtMostOne

\* The server moves it to the wire.
LEMMA ServerOne ==
  ASSUME TypeInv, AtMostOne, NEW c \in Conn, \A b \in Conn : Line(b),
         SendHeader(c) \/ SendPayload(c) \/ Forward(c)
  PROVE  AtMostOne'
<1>1. PICK place \in Places : AllAt(place) BY DEF AtMostOne
<1> DEFINE w == conn[c].wire
           v == conn'[c].wire
<1>2. UNCHANGED <<main, thread, queue>> BY DEF SendHeader, SendPayload, Forward
<1>3. \A b \in Conn : has_answer(b)' = has_answer(b) BY <1>2 DEF has_answer
<1>4. \A b \in Conn : b # c => conn'[b] = conn[b] BY SendHeaderLines, SendPayloadLines, ForwardLines
<1>5. conn[c] \in Conns /\ w \in Seq(Packets) BY DEF TypeInv, Conns
<1>6. CASE SendHeader(c)
  <2>1. /\ conn[c].asked # <<>> /\ conn'[c].asked = Tail(conn[c].asked)
        /\ Padded(w, v)
    BY <1>6, SendHeaderLines DEF SendHeader
  <2>2. place = <<"asked", c>> /\ Len(conn[c].asked) = 1 BY <1>1, <2>1 DEF AllAt
  <2>3. conn'[c].asked = <<>>
    <3>1. conn[c].asked \in Seq(Nat \ {0}) BY <1>5 DEF Conns
    <3>2. Tail(conn[c].asked) \in Seq(Nat \ {0}) /\ Len(Tail(conn[c].asked)) = 0
      BY <2>1, <2>2, <3>1, HeadTailProperties
    <3> QED BY <2>1, <3>2, EmptySeq
  <2>4. \A i \in DOMAIN v : ~carries(v[i])
    <3>1. \A i \in DOMAIN w : ~carries(w[i]) BY <1>1, <2>2 DEF AllAt
    <3> QED BY <1>5, <2>1, <3>1, PaddedCarries
  <2>5. /\ \A b \in Conn : conn'[b].asked = <<>> /\ ~has_answer(b)'
        /\ \A b \in Conn : \A i \in DOMAIN conn'[b].wire : ~carries(conn'[b].wire[i])
        /\ \A b \in Conn : conn'[b].half # 0 => b = c
        /\ queue' = <<>>
    BY <1>1, <1>2, <1>3, <1>4, <2>2, <2>3, <2>4 DEF AllAt
  <2>6. main' = "waiting" BY <1>1, <1>2, <2>2 DEF AllAt, nowhere
  <2>7. AllAt(<<"half", c>>)' BY <2>5, <2>6 DEF AllAt, carries
  <2>8. <<"half", c>> \in Places BY DEF Places
  <2> QED BY <2>7, <2>8 DEF AtMostOne
<1>7. CASE SendPayload(c)
  <2> DEFINE p == Payload(Answer(c, conn[c].half))
  <2>1. /\ conn[c].half # 0 /\ conn'[c].asked = conn[c].asked /\ conn'[c].half = 0
        /\ v = Append(w, p)
    BY <1>7, SendPayloadLines DEF SendPayload
  <2>2. place = <<"half", c>> BY <1>1, <2>1 DEF AllAt
  <2>3. p \in Packets
    <3>1. conn[c].half \in Nat BY <1>5 DEF Conns
    <3> QED BY <3>1, Parts
  <2>4. \A i \in DOMAIN v : carries(v[i]) => i = Len(w) + 1
    <3>1. \A i \in DOMAIN w : ~carries(w[i]) BY <1>1, <2>2 DEF AllAt
    <3>2. /\ Len(w) \in Nat /\ DOMAIN w = 1 .. Len(w) /\ DOMAIN Append(w, p) = 1 .. Len(w) + 1
          /\ \A i \in 1 .. Len(w) : Append(w, p)[i] = w[i]
      <4> HIDE DEF w, p
      <4> QED BY <1>5, <2>3, AppendProperties, LenProperties
    <3> HIDE DEF p, w, v
    <3>3. \A i \in DOMAIN v : i \in DOMAIN w \/ i = Len(w) + 1 BY <2>1, <3>2
    <3> QED BY <2>1, <3>1, <3>2, <3>3
  <2>5. /\ \A b \in Conn : conn'[b].asked = <<>> /\ ~has_answer(b)' /\ conn'[b].half = 0
        /\ \A b \in Conn : \A i \in DOMAIN conn'[b].wire : carries(conn'[b].wire[i]) => b = c
        /\ queue' = <<>>
    BY <1>1, <1>2, <1>3, <1>4, <2>1, <2>2 DEF AllAt
  <2>6. \A b \in Conn : \A i \in DOMAIN conn'[b].wire : carries(conn'[b].wire[i]) =>
          /\ b = c
          /\ \A j \in DOMAIN conn'[b].wire : carries(conn'[b].wire[j]) => i = j
    BY <2>4, <2>5
  <2>7. main' = "waiting" BY <1>1, <1>2, <2>2 DEF AllAt, nowhere
  <2>8. AllAt(<<"wire", c>>)' BY <2>5, <2>6, <2>7 DEF AllAt, carries
  <2>9. <<"wire", c>> \in Places BY DEF Places
  <2> QED BY <2>8, <2>9 DEF AtMostOne
<1>8. CASE Forward(c)
  <2>1. conn'[c].asked = conn[c].asked /\ conn'[c].half = conn[c].half /\ Padded(w, v)
    BY <1>8, ForwardLines
  <2>2. \A i \in DOMAIN v : carries(v[i]) => i \in DOMAIN w /\ v[i] = w[i]
    BY <1>5, <2>1, PaddedCarries
  <2>3. \A i \in DOMAIN v : carries(v[i]) =>
          place = <<"wire", c>> /\ \A j \in DOMAIN v : carries(v[j]) => i = j
    BY <1>1, <2>2 DEF AllAt
  <2>4. \A b \in Conn : \A i \in DOMAIN conn'[b].wire : carries(conn'[b].wire[i]) =>
          place = <<"wire", b>> /\ \A j \in DOMAIN conn'[b].wire : carries(conn'[b].wire[j]) => i = j
    BY <1>1, <1>4, <2>3 DEF AllAt
  <2>5. /\ \A b \in Conn : conn'[b].asked # <<>> => place = <<"asked", b>> /\ Len(conn'[b].asked) = 1
        /\ \A b \in Conn : conn'[b].half # 0 => place = <<"half", b>>
        /\ \A b \in Conn : has_answer(b)' => place = <<"hand", b>>
    BY <1>1, <1>3, <1>4, <2>1 DEF AllAt
  <2>6. /\ queue' # <<>> => place = <<"queue", 0>> /\ Len(queue') = 1
        /\ place # nowhere => main' = "waiting"
    BY <1>1, <1>2 DEF AllAt
  <2>7. AllAt(place)' BY <2>4, <2>5, <2>6 DEF AllAt, nowhere, carries
  <2> QED BY <2>7 DEF AtMostOne
<1> QED BY <1>6, <1>7, <1>8

\* The thread takes it from the wire, or loses it, and leaves it for main.
LEMMA ReceivedOne ==
  ASSUME TypeInv, AtMostOne, NEW k \in Conn, Receives(k), ~confused', \A b \in Conn : Line(b)
  PROVE  AtMostOne'
<1>1. PICK place \in Places : AllAt(place) BY DEF AtMostOne
<1> DEFINE w == conn[k].wire
           v == conn'[k].wire
<1>2. thread[k].on = k /\ (has_answer(k)' => carries(Head(w))) BY ReceivedLines
<1>3. /\ w \in Seq(Packets) /\ w # <<>> /\ v = Tail(w)
      /\ conn'[k].asked = conn[k].asked /\ conn'[k].half = conn[k].half
      /\ \A b \in Conn : b # k => conn'[b] = conn[b] /\ thread'[b] = thread[b]
  BY <1>2, ReceivedTypes
<1>4. UNCHANGED <<main, queue>> BY DEF Receives, Received
<1>5. /\ 1 \in DOMAIN w /\ Head(w) = w[1]
      /\ \A i \in DOMAIN v : i + 1 \in DOMAIN w /\ i + 1 # 1 /\ v[i] = w[i + 1]
      /\ \A i, j \in DOMAIN v : i + 1 = j + 1 => i = j
  <2> HIDE DEF w, v
  <2>1. Len(w) \in Nat /\ DOMAIN w = 1 .. Len(w) BY <1>3, LenProperties
  <2>2. v \in Seq(Packets) /\ Len(v) = Len(w) - 1 /\ \A i \in 1 .. Len(v) : v[i] = w[i + 1]
    BY <1>3, HeadTailProperties
  <2>3. DOMAIN v = 1 .. Len(v) /\ Len(v) \in Nat BY <2>2, LenProperties
  <2>4. Head(w) = w[1] BY <1>3
  <2> QED BY <2>1, <2>2, <2>3, <2>4
<1>6. \A b \in Conn : b # k => (has_answer(b)' <=> has_answer(b)) BY <1>3 DEF has_answer
<1>7. CASE has_answer(k)'
  <2>1. carries(w[1]) BY <1>2, <1>5, <1>7
  <2>2. place = <<"wire", k>> /\ \A i \in DOMAIN w : carries(w[i]) => i = 1
    BY <1>1, <1>5, <2>1 DEF AllAt
  <2>3. \A i \in DOMAIN v : ~carries(v[i]) BY <1>5, <2>2
  <2>4. /\ \A b \in Conn : conn'[b].asked = <<>> /\ conn'[b].half = 0
        /\ \A b \in Conn : \A i \in DOMAIN conn'[b].wire : ~carries(conn'[b].wire[i])
        /\ queue' = <<>>
    BY <1>1, <1>3, <1>4, <2>2, <2>3 DEF AllAt
  <2>5. \A b \in Conn : has_answer(b)' => b = k BY <1>1, <1>6, <2>2 DEF AllAt
  <2>6. main' = "waiting" BY <1>1, <1>4, <2>2 DEF AllAt, nowhere
  <2>7. AllAt(<<"hand", k>>)' BY <2>4, <2>5, <2>6 DEF AllAt, carries
  <2>8. <<"hand", k>> \in Places BY DEF Places
  <2> QED BY <2>7, <2>8 DEF AtMostOne
<1>8. CASE ~has_answer(k)'
  <2>1. \A i \in DOMAIN v : carries(v[i]) =>
          place = <<"wire", k>> /\ \A j \in DOMAIN v : carries(v[j]) => i = j
    <3>1. \A i \in DOMAIN w : carries(w[i]) =>
            place = <<"wire", k>> /\ \A j \in DOMAIN w : carries(w[j]) => i = j
      BY <1>1 DEF AllAt
    <3> HIDE DEF v, w
    <3> QED BY <1>5, <3>1
  <2>2. \A b \in Conn : \A i \in DOMAIN conn'[b].wire : carries(conn'[b].wire[i]) =>
          place = <<"wire", b>> /\ \A j \in DOMAIN conn'[b].wire : carries(conn'[b].wire[j]) => i = j
    <3>1. \A b \in Conn : b # k => \A i \in DOMAIN conn'[b].wire : carries(conn'[b].wire[i]) =>
            place = <<"wire", b>> /\ \A j \in DOMAIN conn'[b].wire : carries(conn'[b].wire[j]) => i = j
      <4>1. \A b \in Conn : b # k => conn'[b] = conn[b] BY <1>3
      <4> QED BY <1>1, <4>1 DEF AllAt
    <3> QED BY <2>1, <3>1
  <2>3. /\ \A b \in Conn : conn'[b].asked # <<>> => place = <<"asked", b>> /\ Len(conn'[b].asked) = 1
        /\ \A b \in Conn : conn'[b].half # 0 => place = <<"half", b>>
        /\ \A b \in Conn : has_answer(b)' => place = <<"hand", b>>
    BY <1>1, <1>3, <1>6, <1>8 DEF AllAt
  <2>4. /\ queue' # <<>> => place = <<"queue", 0>> /\ Len(queue') = 1
        /\ place # nowhere => main' = "waiting"
    BY <1>1, <1>4 DEF AllAt
  <2>5. AllAt(place)' BY <2>2, <2>3, <2>4 DEF AllAt, nowhere, carries
  <2> QED BY <2>5 DEF AtMostOne
<1> QED BY <1>7, <1>8

LEMMA DeliverOne ==
  ASSUME TypeInv, AtMostOne, NEW k \in Conn, Deliver(k), thread[k].head.n # 0
  PROVE  AtMostOne'
<1>1. PICK place \in Places : AllAt(place) BY DEF AtMostOne
<1>2. /\ has_answer(k) /\ queue' = Append(queue, thread[k].head) /\ conn' = conn
      /\ \A b \in Conn : has_answer(b)' => b # k /\ has_answer(b)
  BY DeliverAnswer
<1>3. place = <<"hand", k>> BY <1>1, <1>2 DEF AllAt
<1>4. /\ \A b \in Conn : /\ conn[b].asked = <<>> /\ conn[b].half = 0 /\ (has_answer(b) => b = k)
                         /\ \A i \in DOMAIN conn[b].wire : ~carries(conn[b].wire[i])
      /\ queue = <<>> /\ main = "waiting"
  BY <1>1, <1>3 DEF AllAt, nowhere
<1>5. Len(queue') = 1
  <2>1. thread[k].head \in Packets BY DEF TypeInv, Threads
  <2>2. <<>> \in Seq(Packets) /\ Len(<<>>) = 0 OBVIOUS
  <2>3. Len(Append(<<>>, thread[k].head)) = 1 BY <2>1, <2>2, AppendProperties
  <2> QED BY <1>2, <1>4, <2>3
<1>6. main' = "waiting" BY <1>4 DEF Deliver
<1>7. \A b \in Conn : /\ conn'[b].asked = <<>> /\ conn'[b].half = 0 /\ ~has_answer(b)'
                      /\ \A i \in DOMAIN conn'[b].wire : ~carries(conn'[b].wire[i])
  BY <1>2, <1>4
<1>8. AllAt(<<"queue", 0>>)' BY <1>5, <1>6, <1>7 DEF AllAt, carries
<1>9. <<"queue", 0>> \in Places BY DEF Places
<1> QED BY <1>8, <1>9 DEF AtMostOne

-----------------------------------------------------------------------------
(* The invariant. *)

\* It holds at the start: nothing was asked.
LEMMA InitIInv == Init => IInv
<1> SUFFICES ASSUME Init PROVE IInv OBVIOUS
<1>1. NoThread \in Threads /\ NoThread.at = "none" /\ NewConn \in Conns
      /\ NewConn.asked = <<>> /\ NewConn.half = 0 /\ NewConn.wire = <<>>
  <2>1. Message \in Packets BY DEF Message, Packets
  <2> QED BY <2>1 DEF NoThread, NewConn, Threads, Steps, Conns
<1>2. TypeInv
  <2>1. conn \in [Conn -> Conns] /\ thread \in [Conn -> Threads] BY <1>1 DEF Init
  <2>2. \A k \in Conn : ~in_recv(k) BY <1>1 DEF Init, in_recv
  <2> QED BY <2>1, <2>2 DEF Init, TypeInv
<1>3. answers = <<>> /\ DOMAIN answers = {} BY ConcatEmptySeq DEF Init, answers
<1>4. AnswersInOrder BY <1>3 DEF AnswersInOrder
<1>5. StuckOnlyAfterGivingUp BY DEF Init, StuckOnlyAfterGivingUp
<1>6. \A c \in Conn : /\ conn[c].asked = <<>> /\ conn[c].half = 0 /\ conn[c].wire = <<>>
                      /\ ~has_answer(c)
  BY <1>1 DEF Init, has_answer
<1>7. ASSUME NEW c \in Conn PROVE Line(c)
  <2>1. unanswered(c) = {} BY <1>6 DEF unanswered
  <2>2. undelivered(c) = {} BY <1>6, <2>1 DEF undelivered, unread, unsent
  <2> QED BY <1>3, <1>6, <2>1, <2>2 DEF Line
<1>8. AllAt(nowhere)
  <2>1. queue = <<>> BY DEF Init
  <2>2. \A c \in Conn : \A i \in DOMAIN conn[c].wire : ~carries(conn[c].wire[i]) BY <1>6
  <2> QED BY <1>6, <2>1, <2>2, Nowhere
<1>9. AtMostOne BY <1>8 DEF AtMostOne, Places
<1> QED BY <1>2, <1>4, <1>5, <1>7, <1>9 DEF IInv

\* The actions, by what they do to answers.
LEMMA Actions ==
  ASSUME Next
  PROVE  \/ MainGoesOn
         \/ Ask
         \/ \E c \in Conn : SendHeader(c) \/ SendPayload(c) \/ Forward(c)
         \/ \E k \in Conn : \/ Recv(k, "loop", "in header") \/ Recv(k, "has header", "in payload")
                            \/ EndOfFile(k) \/ ServerLeaves(k)
         \/ \E k \in Conn : Receives(k)
         \/ \E k \in Conn : Deliver(k)
BY DEF Next, Main, MainGoesOn, Thread, Server, Receives

\* Main locks the queue twice when it has seen an answer and another one is there.
LEMMA StuckStep ==
  ASSUME IInv, Next
  PROVE  StuckOnlyAfterGivingUp'
<1>1. ~confused BY DEF Next
<1> DEFINE Only == (gave_up => gave_up') /\ (main' = "stuck" => main = "stuck" \/ (LookAgain /\ queue # <<>>))
<1>2. ASSUME MainGoesOn \/ Ask
      PROVE  Only
  <2>1. CASE LookAgain BY <2>1 DEF LookAgain
  <2>2. CASE Top \/ Poll \/ Disconnect \/ Quit \/ Other BY <2>2 DEF Top, Poll, Disconnect, Quit, Other
  <2>3. CASE SendToNobody \/ SeeAnswer \/ GiveUp BY <2>3 DEF SendToNobody, SeeAnswer, GiveUp
  <2>5. CASE Compose \/ SendMessage BY <2>5 DEF Compose, SendMessage
  <2>4. CASE Ask \/ \E c \in Conn : Connect(c) BY <2>4 DEF Ask, Connect
  <2> QED BY <1>2, <2>1, <2>2, <2>3, <2>4, <2>5 DEF MainGoesOn
<1>3. ASSUME NEW c \in Conn,
             \/ SendHeader(c) \/ SendPayload(c) \/ Forward(c) \/ ServerLeaves(c) \/ EndOfFile(c) \/ Deliver(c)
             \/ Recv(c, "loop", "in header") \/ Recv(c, "has header", "in payload") \/ Receives(c)
      PROVE  Only
  <2>1. UNCHANGED <<main, gave_up>>
    <3>1. CASE SendHeader(c) \/ SendPayload(c) \/ Forward(c) \/ ServerLeaves(c)
      BY <3>1 DEF SendHeader, SendPayload, Forward, ServerLeaves
    <3>2. CASE EndOfFile(c) \/ Deliver(c) BY <3>2 DEF EndOfFile, Deliver
    <3>3. CASE Recv(c, "loop", "in header") \/ Recv(c, "has header", "in payload") BY <3>3 DEF Recv
    <3>4. CASE Receives(c) BY <3>4 DEF Receives, Received
    <3> QED BY <1>3, <3>1, <3>2, <3>3, <3>4
  <2> QED BY <2>1
<1>4. ASSUME LookAgain, queue # <<>> PROVE gave_up
  <2>1. SUFFICES ASSUME ~gave_up PROVE FALSE OBVIOUS
  <2>2. PICK place \in Places : AllAt(place) BY <1>1, <2>1 DEF IInv, AtMostOne
  <2>3. main # "waiting" BY <1>4 DEF LookAgain
  <2>4. place = <<"queue", 0>>
    <3>1. queue # <<>> => place = <<"queue", 0>> BY <2>2 DEF AllAt
    <3> QED BY <1>4, <3>1
  <2>5. place = nowhere BY <2>2, <2>3 DEF AllAt
  <2>6. place[1] = "queue" BY <2>4
  <2>7. place[1] = "nowhere" BY <2>5 DEF nowhere
  <2> QED BY <2>6, <2>7
<1>5. Only
  <2> HIDE DEF Only
  <2> QED BY <1>2, <1>3, Actions, Zenon
<1> QED BY <1>4, <1>5 DEF IInv, StuckOnlyAfterGivingUp

\* Each action preserves it.
LEMMA NextIInv ==
  ASSUME IInv, Next
  PROVE  IInv'
<1>1. TypeInv /\ AnswersInOrder /\ ~confused /\ \A c \in Conn : Line(c) BY DEF IInv, Next
<1>2. ~gave_up => AtMostOne BY <1>1 DEF IInv
<1>3. StuckOnlyAfterGivingUp' BY StuckStep
<1> DEFINE Kept == /\ TypeInv' /\ AnswersInOrder' /\ (~confused' => \A c \in Conn : Line(c)')
                   /\ (~confused' /\ ~gave_up' => AtMostOne')
<1>4. ASSUME Still PROVE TypeInv' /\ AnswersInOrder' /\ \A c \in Conn : Line(c)'
  <2>1. answers' = answers /\ TypeInv' BY <1>4 DEF Still
  <2>2. AnswersInOrder' BY <1>1, <2>1 DEF AnswersInOrder
  <2>3. \A c \in Conn : Line(c)' BY <1>1, <1>4, StillLines
  <2> QED BY <2>1, <2>2, <2>3
<1>5. ASSUME MainGoesOn
      PROVE  Kept
  <2>1. Still BY <1>1, <1>5, MainStill
  <2>2. gave_up => gave_up'
    BY <1>5 DEF MainGoesOn, Top, Poll, Disconnect, Quit, Other, SendToNobody, Compose, SendMessage,
                   SeeAnswer, GiveUp, LookAgain, Connect
  <2>3. ~gave_up' => AtMostOne' BY <1>1, <1>2, <1>5, <2>2, MainOne
  <2> QED BY <1>4, <2>1, <2>3
<1>6. ASSUME Ask PROVE Kept
  <2>1. TypeInv' /\ answers' = answers /\ \A c \in Conn : Line(c)' BY <1>1, <1>6, AskLines
  <2>2. AnswersInOrder' BY <1>1, <2>1 DEF AnswersInOrder
  <2>3. gave_up' = gave_up BY <1>6 DEF Ask
  <2>4. ~gave_up' => AtMostOne' BY <1>1, <1>2, <1>6, <2>3, AskOne
  <2> QED BY <2>1, <2>2, <2>4
<1>7. ASSUME NEW c \in Conn, SendHeader(c) \/ SendPayload(c) \/ Forward(c) PROVE Kept
  <2>1. TypeInv' /\ answers' = answers /\ \A b \in Conn : Line(b)'
    BY <1>1, <1>7, SendHeaderLines, SendPayloadLines, ForwardLines
  <2>2. AnswersInOrder' BY <1>1, <2>1 DEF AnswersInOrder
  <2>3. gave_up' = gave_up BY <1>7 DEF SendHeader, SendPayload, Forward
  <2>4. ~gave_up' => AtMostOne' BY <1>1, <1>2, <1>7, <2>3, ServerOne
  <2> QED BY <2>1, <2>2, <2>4
<1>8. ASSUME NEW k \in Conn,
             \/ Recv(k, "loop", "in header") \/ Recv(k, "has header", "in payload")
             \/ EndOfFile(k) \/ ServerLeaves(k)
      PROVE  Kept
  <2>1. Still BY <1>1, <1>8, OthersStill
  <2>2. UNCHANGED <<main, queue, gave_up>> BY <1>8 DEF Recv, EndOfFile, ServerLeaves
  <2>3. AtMostOne => AtMostOne' BY <2>1, <2>2, PlaceKept DEF Still, AtMostOne
  <2> QED BY <1>2, <1>4, <2>1, <2>2, <2>3
<1>9. ASSUME NEW k \in Conn, Receives(k) PROVE Kept
  <2>1. thread[k].on \in Conn BY <1>1, <1>9 DEF TypeInv, in_recv, Receives, Received
  <2>2. PICK c \in Conn : c = thread[k].on BY <2>1
  <2>3. TypeInv' /\ answers' = answers BY <1>1, <1>9, <2>2, ReceivedTypes
  <2>4. AnswersInOrder' BY <1>1, <2>3 DEF AnswersInOrder
  <2>5. ~confused' => \A b \in Conn : Line(b)' BY <1>1, <1>9, ReceivedLines
  <2>6. gave_up' = gave_up BY <1>9 DEF Receives, Received
  <2>7. ~confused' /\ ~gave_up' => AtMostOne' BY <1>1, <1>2, <1>9, <2>6, ReceivedOne
  <2> QED BY <2>3, <2>4, <2>5, <2>7
<1>10. ASSUME NEW k \in Conn, Deliver(k) PROVE Kept
  <2>1. gave_up' = gave_up /\ main' = main BY <1>10 DEF Deliver
  <2>2. CASE thread[k].head.n = 0
    <3>1. Still /\ queue' = queue BY <1>1, <1>10, <2>2, DeliverMessage
    <3>2. AtMostOne => AtMostOne' BY <2>1, <3>1, PlaceKept DEF Still, AtMostOne
    <3> QED BY <1>2, <1>4, <2>1, <3>1, <3>2
  <2>3. CASE thread[k].head.n # 0
    <3>1. TypeInv' BY <1>1, <1>10, <2>3, DeliverAnswer
    <3>2. AnswersInOrder' /\ \A b \in Conn : Line(b)' BY <1>1, <1>10, <2>3, DeliverLines
    <3>3. ~gave_up' => AtMostOne' BY <1>1, <1>2, <1>10, <2>1, <2>3, DeliverOne
    <3> QED BY <3>1, <3>2, <3>3
  <2> QED BY <2>2, <2>3
<1>11. Kept
  <2> HIDE DEF Kept
  <2> QED BY <1>5, <1>6, <1>7, <1>8, <1>9, <1>10, Actions
<1> QED BY <1>3, <1>11 DEF IInv

THEOREM Invariance == Spec => []IInv
<1>1. IInv /\ UNCHANGED vars => IInv'
  <2> SUFFICES ASSUME IInv, UNCHANGED vars PROVE IInv' OBVIOUS
  <2>1. UNCHANGED <<main, file, conn, thread, queue, shown, requests, gave_up, confused>> BY DEF vars
  <2>2. TypeInv /\ TypeInv' BY <2>1 DEF IInv, TypeInv, in_recv
  <2>3. answers' = answers /\ \A c \in Conn : Unmoved(c) BY <2>1 DEF answers, Unmoved, has_answer
  <2>4. Still BY <2>1, <2>2, <2>3 DEF Still
  <2>5. AnswersInOrder' /\ StuckOnlyAfterGivingUp'
    BY <2>1, <2>3 DEF IInv, AnswersInOrder, StuckOnlyAfterGivingUp
  <2>6. ~confused' => \A c \in Conn : Line(c)' BY <2>1, <2>2, <2>4, StillLines DEF IInv
  <2>7. AtMostOne => AtMostOne' BY <2>1, <2>3, PlaceKept DEF AtMostOne
  <2>8. ~confused' /\ ~gave_up' => AtMostOne' BY <2>1, <2>7 DEF IInv
  <2> QED BY <2>2, <2>5, <2>6, <2>8 DEF IInv
<1>2. IInv /\ [Next]_vars => IInv' BY <1>1, NextIInv
<1> QED BY InitIInv, <1>2, PTL DEF Spec

\* Answers are printed in the order of the requests of their connection, each once, however
\* late, and by whichever wait or menu (process_sync_response, recv_thread_func), until a
\* thread takes bytes that are not for it: the behaviours of Spec end there.
THEOREM ClientAnswersInOrder == Spec => []AnswersInOrder
<1>1. IInv => AnswersInOrder BY DEF IInv
<1> QED BY <1>1, Invariance, PTL

\* As long as no wait has been in vain, and no thread has taken bytes that are not for it,
\* wait_for_sync_response() does not lock the mutex that it holds.
THEOREM ClientStuckOnlyAfterGivingUp == Spec => []StuckOnlyAfterGivingUp
<1>1. IInv => StuckOnlyAfterGivingUp BY DEF IInv
<1> QED BY <1>1, Invariance, PTL
=============================================================================
