------------------------------ MODULE ChatClient ------------------------------
(***************************************************************************)
(* lab2/client/client.cpp: the main thread with its menu, a receiving      *)
(* thread for each connection ever made, the queue of answers between      *)
(* them, and the handlers of the server that send to the client.           *)
(*                                                                         *)
(* All threads use the one descriptor in the global variable sock: recv()  *)
(* takes from whatever connection it stands for when it is called.  When a *)
(* thread takes bytes that are not for it, or takes a payload for a        *)
(* header, anything may follow, and the behaviour ends (confused).         *)
(* What is done under queue_mutex is one step.                             *)
(***************************************************************************)
EXTENDS Integers, Sequences

CONSTANTS MaxConns, MaxRequests, MaxMessages   \* bounds: connections, requests, messages of others

ASSUME ChatClientAssumption == MaxConns \in Nat /\ MaxRequests \in Nat /\ MaxMessages \in Nat

Conn == 1 .. MaxConns

VARIABLES main,       \* where main is: "top" of its loop, "menu" (read_choice), "typing" a message, "waiting"
                      \* for an answer, "answered" (and asleep), "stuck" with queue_mutex, "gone"
          file,       \* the connection that sock stands for, 0 if it is not connected
          conn,       \* conn[c]: [state, asked, half, wire], see NewConn
          thread,     \* thread[c]: the receiving thread started for c: [at, on, head]
          queue,      \* msg_queue
          signals,    \* bytes in signal_pipe
          shown,      \* answers that were printed
          requests, messages,   \* how many there were
          gave_up,    \* a wait has ended without an answer
          confused

vars == <<main, file, conn, thread, queue, signals, shown, requests, messages, gave_up, confused>>

connected == file # 0

\* asked: requests the server has not answered; half: the one of which it has sent the header;
\* wire: what it has sent and nobody received, each packet in two sends.
NewConn  == [state |-> "new", asked |-> <<>>, half |-> 0, wire |-> <<>>]
Message  == [part |-> "", conn |-> 0, n |-> 0]   \* of another client
Answer(c, n) == [part |-> "", conn |-> c, n |-> n]
Header(p)  == [p EXCEPT !.part = "header"]
Payload(p) == [p EXCEPT !.part = "payload"]
NoThread == [at |-> "none", on |-> 0, head |-> Message]

Init ==
  /\ main = "top" /\ file = 0
  /\ conn = [c \in Conn |-> NewConn]
  /\ thread = [c \in Conn |-> NoThread]
  /\ queue = <<>> /\ signals = 0 /\ shown = <<>>
  /\ requests = 0 /\ messages = 0 /\ gave_up = FALSE /\ confused = FALSE

-----------------------------------------------------------------------------
(* The main thread *)

\* Mutation: the queue is printed, and stays as it is.
process_sync_response_keeping == shown' = shown \o queue /\ queue' = queue

process_sync_response == shown' = shown \o queue /\ queue' = <<>>

\* Nothing holds queue_mutex for ever but a main thread that locks it twice.
Top ==
  /\ main = "top"
  /\ process_sync_response
  /\ main' = "menu"
  /\ UNCHANGED <<file, conn, thread, signals, requests, messages, gave_up, confused>>

\* Mutation: the byte stays in the pipe.
read_signal_peeking == UNCHANGED signals

read_signal == signals' = IF connected /\ signals > 0 THEN signals - 1 ELSE signals

\* A round of read_choice without a choice; it does not poll when there is no connection.
Poll ==
  /\ main = "menu" /\ connected
  /\ read_signal
  /\ process_sync_response
  /\ UNCHANGED <<main, file, conn, thread, requests, messages, gave_up, confused>>

\* read_choice() returns; select() may have reported a signal in the same round.
Chosen == main = "menu" /\ read_signal

Connect(c) ==
  /\ Chosen /\ ~connected
  /\ conn[c].state = "new" /\ \A b \in 1 .. c - 1 : conn[b].state # "new"
  /\ conn' = [conn EXCEPT ![c].state = "open"]
  /\ file' = c
  /\ thread' = [thread EXCEPT ![c].at = "loop"]
  /\ process_sync_response
  /\ main' = "top"
  /\ UNCHANGED <<requests, messages, gave_up, confused>>

\* A thread that is in recv() keeps the connection: the server is not told.
blocked_on(c) == \E k \in Conn : thread[k].at \in {"in header", "in payload"} /\ thread[k].on = c

close_sock ==
  /\ file' = 0
  /\ conn' = IF blocked_on(file) THEN conn ELSE [conn EXCEPT ![file].state = "closed"]

Disconnect ==
  /\ Chosen /\ connected
  /\ close_sock
  /\ process_sync_response
  /\ main' = "top"
  /\ UNCHANGED <<thread, requests, messages, gave_up, confused>>

Quit ==
  /\ Chosen
  /\ main' = "gone"
  /\ IF connected THEN close_sock /\ process_sync_response
                  ELSE UNCHANGED <<file, conn, queue, shown>>
  /\ UNCHANGED <<thread, requests, messages, gave_up, confused>>

\* Mutation: one of the choices does not wait.
Ask_without_waiting ==
  /\ Chosen /\ connected /\ requests < MaxRequests
  /\ conn[file].state = "open"
  /\ requests' = requests + 1
  /\ conn' = [conn EXCEPT ![file].asked = Append(@, requests + 1)]
  /\ main' \in {"waiting", "top"}
  /\ UNCHANGED <<file, thread, queue, shown, messages, gave_up, confused>>

\* Time, name and list: send_packet() and wait_for_sync_response().
Ask ==
  /\ Chosen /\ connected /\ requests < MaxRequests
  /\ conn[file].state = "open"
  /\ requests' = requests + 1
  /\ conn' = [conn EXCEPT ![file].asked = Append(@, requests + 1)]
  /\ main' = "waiting"
  /\ UNCHANGED <<file, thread, queue, shown, messages, gave_up, confused>>

\* A connect() that fails, or what is no choice.
Other ==
  /\ Chosen
  /\ main' = "top"
  /\ UNCHANGED <<file, conn, thread, queue, shown, requests, messages, gave_up, confused>>

\* When the server has left, requests are lost, and SIGPIPE may end the client.
SendToNobody ==
  /\ Chosen /\ connected /\ conn[file].state = "left"
  /\ main' \in {"waiting", "gone"}
  /\ UNCHANGED <<file, conn, thread, queue, shown, requests, messages, gave_up, confused>>

\* A message to others: main blocks in scanf(), getchar() and fgets(), and looks at nothing else.
Compose ==
  /\ Chosen /\ connected
  /\ main' = "typing"
  /\ UNCHANGED <<file, conn, thread, queue, shown, requests, messages, gave_up, confused>>

\* It was typed, and is sent; it is lost, or SIGPIPE ends the client, if the server has left.
SendMessage ==
  /\ main = "typing"
  /\ main' \in IF conn[file].state = "left" THEN {"top", "gone"} ELSE {"top"}
  /\ UNCHANGED <<file, conn, thread, queue, signals, shown, requests, messages, gave_up, confused>>

SeeAnswer ==
  /\ main = "waiting" /\ queue # <<>>
  /\ process_sync_response
  /\ main' = "answered"
  /\ UNCHANGED <<file, conn, thread, signals, requests, messages, gave_up, confused>>

\* Fifty times there was nothing.
GiveUp ==
  /\ main = "waiting" /\ queue = <<>>
  /\ main' = "top"
  /\ gave_up' = TRUE
  /\ UNCHANGED <<file, conn, thread, queue, signals, shown, requests, messages, confused>>

\* After ten milliseconds it locks the queue; if there is something, it locks it again.
LookAgain ==
  /\ main = "answered"
  /\ main' = IF queue = <<>> THEN "top" ELSE "stuck"
  /\ UNCHANGED <<file, conn, thread, queue, signals, shown, requests, messages, gave_up, confused>>

-----------------------------------------------------------------------------
(* A receiving thread *)

\* It calls recv() for a header or for the payload.
Recv(k, from, to) ==
  /\ thread[k].at = from
  /\ thread' = IF connected THEN [thread EXCEPT ![k].at = to, ![k].on = file]
                            ELSE [thread EXCEPT ![k].at = "ended"]
  /\ UNCHANGED <<main, file, conn, queue, signals, shown, requests, messages, gave_up, confused>>

\* A connection that main has closed is given up when recv() returns.
taken(c) ==
  [conn EXCEPT ![c].wire = Tail(@), ![c].state = IF c = file THEN @ ELSE "closed"]

\* recv() returns: all that was asked for, or less, which ends the thread.
Received(k, from, part, to) ==
  LET c == thread[k].on
  IN  /\ thread[k].at = from
      /\ conn[c].wire # <<>>
      /\ conn' = taken(c)
      /\ confused' = (c # k \/ Head(conn[c].wire).part # part \/ (part = "payload" /\
                        Head(conn[c].wire) # Payload(thread[k].head)))
      /\ thread' \in {[thread EXCEPT ![k].at = to, ![k].head = Head(conn[c].wire)],
                      [thread EXCEPT ![k].at = "ended"]}
      /\ UNCHANGED <<main, file, queue, signals, shown, requests, messages, gave_up>>

EndOfFile(k) ==
  /\ thread[k].at \in {"in header", "in payload"}
  /\ conn[thread[k].on].state = "left" /\ conn[thread[k].on].wire = <<>>
  /\ thread' = [thread EXCEPT ![k].at = "ended"]
  /\ UNCHANGED <<main, file, conn, queue, signals, shown, requests, messages, gave_up, confused>>

\* print_async_message(), or push to the queue, for which queue_mutex must be free.
Deliver(k) ==
  /\ thread[k].at = "has payload"
  /\ IF thread[k].head.n = 0
     THEN signals' = signals + 1 /\ UNCHANGED queue
     ELSE main # "stuck" /\ queue' = Append(queue, thread[k].head) /\ UNCHANGED signals
  /\ thread' = [thread EXCEPT ![k].at = "loop"]
  /\ UNCHANGED <<main, file, conn, shown, requests, messages, gave_up, confused>>

Thread(k) ==
  \/ Recv(k, "loop", "in header") \/ Received(k, "in header", "header", "has header")
  \/ Recv(k, "has header", "in payload") \/ Received(k, "in payload", "payload", "has payload")
  \/ EndOfFile(k) \/ Deliver(k)

-----------------------------------------------------------------------------
(* The server: send_packet() is two calls, and only messages and lists are sent under its mutex *)

SendHeader(c) ==
  /\ conn[c].state = "open" /\ conn[c].asked # <<>> /\ conn[c].half = 0
  /\ conn' = [conn EXCEPT ![c].half = Head(conn[c].asked), ![c].asked = Tail(@),
                          ![c].wire = Append(@, Header(Answer(c, Head(conn[c].asked))))]
  /\ UNCHANGED <<main, file, thread, queue, signals, shown, requests, messages, gave_up, confused>>

SendPayload(c) ==
  /\ conn[c].state = "open" /\ conn[c].half # 0
  /\ conn' = [conn EXCEPT ![c].half = 0, ![c].wire = Append(@, Payload(Answer(c, conn[c].half)))]
  /\ UNCHANGED <<main, file, thread, queue, signals, shown, requests, messages, gave_up, confused>>

\* Another client's handler forwards a message.
Forward(c) ==
  /\ conn[c].state = "open" /\ messages < MaxMessages
  /\ messages' = messages + 1
  /\ conn' = [conn EXCEPT ![c].wire = @ \o <<Header(Message), Payload(Message)>>]
  /\ UNCHANGED <<main, file, thread, queue, signals, shown, requests, gave_up, confused>>

ServerLeaves(c) ==
  /\ conn[c].state = "open"
  /\ conn' = [conn EXCEPT ![c].state = "left"]
  /\ UNCHANGED <<main, file, thread, queue, signals, shown, requests, messages, gave_up, confused>>

Server(c) == SendHeader(c) \/ SendPayload(c) \/ Forward(c) \/ ServerLeaves(c)

-----------------------------------------------------------------------------
Main ==
  \/ Top \/ Poll \/ Disconnect \/ Quit \/ Ask \/ Other \/ SendToNobody
  \/ Compose \/ SendMessage \/ SeeAnswer \/ GiveUp \/ LookAgain
  \/ \E c \in Conn : Connect(c)

Next ==
  /\ ~confused /\ main # "gone"
  /\ Main \/ \E c \in Conn : Thread(c) \/ Server(c)

\* select() times out and sleeps end; the receiving thread, the server and the user, also one
\* who is typing a message, may do what they like.
Fairness ==
  WF_vars(~confused /\ (Top \/ Poll \/ SeeAnswer \/ GiveUp \/ LookAgain))

Spec == Init /\ [][Next]_vars /\ Fairness

-----------------------------------------------------------------------------
answers == shown \o queue

\* Answers of a connection are printed in the order of the requests, each once, though
\* late ones are printed by other waits, by the menu, or after the connection was closed.
\* This is so until a thread takes bytes that are not for it (confused): when a thread of a
\* closed connection reads beside the new one's, or two handlers of the server have sent to one
\* client at once, the code may queue anything.
AnswersInOrder ==
  \A i, j \in DOMAIN answers :
    i < j /\ answers[i].conn = answers[j].conn => answers[i].n < answers[j].n

\* queue_mutex is locked twice by one thread only after an earlier wait has ended without
\* its answer: a server that answers in time does not stop the client.  Until confused: what
\* is then left of a packet may be queued as an answer too many.
StuckOnlyAfterGivingUp == main = "stuck" => gave_up

\* "Poll for sync responses occasionally", "Signal main to re-print": what the receiving
\* thread leaves for main is taken up while the client is connected and not stuck, unless
\* the user leaves a message half typed for ever.
TakenUp ==
  []<>(main # "typing") =>
    ((queue # <<>> \/ signals > 0) ~>
       ((queue = <<>> /\ signals = 0) \/ ~connected \/ main \in {"stuck", "gone"} \/ confused))
=============================================================================
