------------------------------ MODULE Gateway ------------------------------
(***************************************************************************)
(* server.c: the accept loop, the worker threads, the clients at the other *)
(* end of the socket and the signals that stop the gateway.  The job queue *)
(* between the accept loop and the workers is the abstract FifoQueue,      *)
(* which JobQueue implements; what a worker does with a request is one     *)
(* step here and the subject of Scheduler.                                 *)
(*                                                                         *)
(* A connection is a client_fd together with the client behind it; the     *)
(* same descriptor serves another client once both ends are closed.        *)
(***************************************************************************)
EXTENDS Naturals, Sequences, FiniteSets

CONSTANTS Conns,        \* connections
          Workers,      \* worker threads
          Main,         \* the main thread
          Depth,        \* MAX_QUEUE_DEPTH
          Backlog,      \* the length given to listen()
          Signals,      \* SIGINT and SIGTERM
          NoConn,       \* "no connection"
          EndOfQueue    \* what a worker has after queue_pop returned -1

ASSUME BoundsAssumption == Depth \in Nat \ {0} /\ Backlog \in Nat
ASSUME ThreadAssumption == Workers # {} /\ Main \notin Workers
ASSUME ConnAssumption   == /\ NoConn \notin Conns /\ EndOfQueue \notin Conns
                           /\ NoConn # EndOfQueue

VARIABLES
  link,      \* the client's end: "none", "open", or "left"
  line,      \* what the client wrote: "unsent", "good", or "bad"
  answer,    \* the gateway's end: "none", "answered", or "dropped"
  backlog,   \* connections the kernel holds for accept()
  pc,        \* where the main thread is
  conn,      \* client_fd of the accept loop
  q,         \* the job queue ...
  closed,    \* ... whether it is stopped ...
  hand,      \* ... and the job each thread has outside of it
  gstop,     \* g_stop
  armed,     \* the signals whose handler is still installed
  alive      \* the process has not been killed by a signal

queueVars  == <<q, closed, hand>>
clientVars == <<link, line>>
signalVars == <<gstop, armed>>
vars == <<clientVars, answer, backlog, pc, conn, queueVars, signalVars, alive>>

Queue == INSTANCE FifoQueue WITH Producers <- {Main}, Consumers <- Workers,
                                 Jobs <- Conns, NoJob <- NoConn

\* "test"    about to test g_stop      "accept"  in accept()
\* "read"    in read_line()            "push"    in queue_push()
\* "stop"    left the loop             "join"    in pthread_join()
\* "exit"    server_run has returned
Locations == {"test", "accept", "read", "push", "stop", "join", "exit"}

-----------------------------------------------------------------------------
Init ==
  /\ link = [c \in Conns |-> "none"]
  /\ line = [c \in Conns |-> "unsent"]
  /\ answer = [c \in Conns |-> "none"]
  /\ backlog = <<>>
  /\ pc = "test"
  /\ conn = NoConn
  /\ Queue!Init
  /\ gstop = FALSE
  /\ armed = Signals
  /\ alive = TRUE

-----------------------------------------------------------------------------
(* The clients *)

\* connect() succeeds while the listening socket exists and has room.
Connect(c) ==
  /\ alive /\ pc # "exit"
  /\ link[c] = "none"
  /\ Len(backlog) < Backlog
  /\ link' = [link EXCEPT ![c] = "open"]
  /\ backlog' = Append(backlog, c)
  /\ UNCHANGED <<line, answer, pc, conn, queueVars, signalVars, alive>>

\* One line: a request, or something parse_request_json or the test for an
\* empty line rejects.
Send(c) ==
  /\ link[c] = "open" /\ line[c] = "unsent"
  /\ \E what \in {"good", "bad"} : line' = [line EXCEPT ![c] = what]
  /\ UNCHANGED <<link, answer, backlog, pc, conn, queueVars, signalVars, alive>>

\* The client closes its end: it has its answer, or gives up, or dies.
Leave(c) ==
  /\ link[c] = "open"
  /\ link' = [link EXCEPT ![c] = "left"]
  /\ UNCHANGED <<line, answer, backlog, pc, conn, queueVars, signalVars, alive>>

\* Both ends are closed: the descriptor's number is free for a new client.
Recycle(c) ==
  /\ link[c] = "left" /\ answer[c] # "none"
  /\ link' = [link EXCEPT ![c] = "none"]
  /\ line' = [line EXCEPT ![c] = "unsent"]
  /\ answer' = [answer EXCEPT ![c] = "none"]
  /\ UNCHANGED <<backlog, pc, conn, queueVars, signalVars, alive>>

-----------------------------------------------------------------------------
(***************************************************************************)
(* Plausible errors in the code, here and further down: each is a variant  *)
(* of the definition that it is named after.  No specification uses them.  *)
(***************************************************************************)
\* close() is forgotten.
WriteAndKeepOpen(c, fits) ==
  /\ alive' = (link[c] = "open" \/ ~fits)
  /\ UNCHANGED answer
-----------------------------------------------------------------------------
(* The gateway's end of a connection *)

\* write_response_and_close: a response that does not fit the buffer is not
\* written at all; writing to a client that has left, or that leaves between
\* two of the writes, raises SIGPIPE, which nobody catches.  In every other
\* case the connection is closed.
WriteAndClose(c, fits) ==
  /\ alive' \in IF fits THEN {link[c] = "open", FALSE} ELSE {TRUE}
  /\ answer' = [answer EXCEPT ![c] = IF fits THEN "answered" ELSE "dropped"]

-----------------------------------------------------------------------------
(* The main thread *)

TestStop ==
  /\ alive /\ pc = "test"
  /\ pc' = IF gstop THEN "stop" ELSE "accept"
  /\ UNCHANGED <<clientVars, answer, backlog, conn, queueVars, signalVars, alive>>

Accept ==
  /\ alive /\ pc = "accept"
  /\ backlog # <<>>
  /\ conn' = Head(backlog)
  /\ backlog' = Tail(backlog)
  /\ pc' = "read"
  /\ UNCHANGED <<clientVars, answer, queueVars, signalVars, alive>>

\* accept() fails with something else than EINTR: the loop ends as if the
\* gateway had been told to stop.
AcceptFails ==
  /\ alive /\ pc = "accept"
  /\ pc' = "stop"
  /\ UNCHANGED <<clientVars, answer, backlog, conn, queueVars, signalVars, alive>>

\* read_line returns with a request: it becomes a job.
ReadRequest ==
  /\ alive /\ pc = "read"
  /\ line[conn] = "good"
  /\ Queue!Submit(Main, conn)
  /\ conn' = NoConn
  /\ pc' = "push"
  /\ UNCHANGED <<clientVars, answer, backlog, signalVars, alive>>

\* A bad line is skipped, without an answer.
ReadGarbageSkipped ==
  /\ alive /\ pc = "read"
  /\ line[conn] = "bad" \/ (line[conn] = "unsent" /\ link[conn] = "left")
  /\ conn' = NoConn
  /\ pc' = "test"
  /\ UNCHANGED <<clientVars, answer, backlog, queueVars, signalVars, alive>>

\* read_line returns with something else, or with nothing because the client
\* left: the main thread answers 400 itself.
ReadGarbage ==
  /\ alive /\ pc = "read"
  /\ line[conn] = "bad" \/ (line[conn] = "unsent" /\ link[conn] = "left")
  /\ WriteAndClose(conn, TRUE)
  /\ conn' = NoConn
  /\ pc' = "test"
  /\ UNCHANGED <<clientVars, backlog, queueVars, signalVars>>

\* The accept loop closes the descriptor it has just handed to a worker.
PushAndClose ==
  /\ alive /\ pc = "push"
  /\ Queue!Put(Main)
  /\ WriteAndClose(hand[Main], TRUE)
  /\ pc' = "test"
  /\ UNCHANGED <<clientVars, backlog, conn, signalVars>>

\* queue_push returns 0; while the queue is full the main thread is blocked.
\* That it returns -1 is impossible here: see PushNeverRefused.
Push ==
  /\ alive /\ pc = "push"
  /\ Queue!Put(Main)
  /\ pc' = "test"
  /\ UNCHANGED <<clientVars, answer, backlog, conn, signalVars, alive>>

\* queue_stop is forgotten.
StopQueueSkipped ==
  /\ alive /\ pc = "stop"
  /\ pc' = "join"
  /\ UNCHANGED <<clientVars, answer, backlog, conn, queueVars, signalVars, alive>>

StopQueue ==
  /\ alive /\ pc = "stop"
  /\ Queue!Close
  /\ pc' = "join"
  /\ UNCHANGED <<clientVars, answer, backlog, conn, signalVars, alive>>

\* The workers are not waited for.
ExitWithoutJoin ==
  /\ alive /\ pc = "join"
  /\ pc' = "exit"
  /\ UNCHANGED <<clientVars, answer, backlog, conn, queueVars, signalVars, alive>>

\* The last pthread_join returned: close, unlink, return.
Exit ==
  /\ alive /\ pc = "join"
  /\ \A w \in Workers : hand[w] = EndOfQueue
  /\ pc' = "exit"
  /\ UNCHANGED <<clientVars, answer, backlog, conn, queueVars, signalVars, alive>>

-----------------------------------------------------------------------------
(* The workers *)

Pop(w) ==
  /\ alive
  /\ Queue!Take(w) \/ Queue!TakeEnd(w)
  /\ UNCHANGED <<clientVars, answer, backlog, pc, conn, signalVars, alive>>

\* scheduler_execute, then the response, which may be too long.
Respond(w) ==
  /\ alive
  /\ Queue!Finish(w)
  /\ \E fits \in BOOLEAN : WriteAndClose(hand[w], fits)
  /\ UNCHANGED <<clientVars, backlog, pc, conn, signalVars>>

-----------------------------------------------------------------------------
\* The handler stops the queue itself.
SignalStopsQueue(s) ==
  /\ alive /\ pc # "exit"
  /\ s \in armed
  /\ armed' = armed \ {s}
  /\ gstop' = TRUE
  /\ closed' = TRUE
  /\ pc' \in {pc} \cup (IF pc = "accept" THEN {"test"} ELSE {})
  /\ UNCHANGED <<clientVars, answer, backlog, conn, q, hand, alive>>

\* accept()'s EINTR is taken for a connection.
SignalAsConnection(s) ==
  /\ alive /\ pc # "exit"
  /\ s \in armed
  /\ armed' = armed \ {s}
  /\ gstop' = TRUE
  /\ pc' \in {pc} \cup (IF pc = "accept" THEN {"read"} ELSE {})
  /\ UNCHANGED <<clientVars, answer, backlog, conn, queueVars, alive>>

-----------------------------------------------------------------------------
(***************************************************************************)
(* Signals.  signal() in a program compiled with -std=c11 is the System V  *)
(* one: the handler runs once, the next signal of the kind kills the       *)
(* process, and system calls are not restarted.  A signal interrupts       *)
(* accept() if the main thread is blocked in it; it does not if the main   *)
(* thread is still between the test of g_stop and accept(), or if another  *)
(* thread runs the handler.                                                *)
(***************************************************************************)
Signal(s) ==
  /\ alive /\ pc # "exit"
  /\ s \in armed
  /\ armed' = armed \ {s}
  /\ gstop' = TRUE
  /\ pc' \in {pc} \cup (IF pc = "accept" THEN {"test"} ELSE {})
  /\ UNCHANGED <<clientVars, answer, backlog, conn, queueVars, alive>>

SecondSignal(s) ==
  /\ alive /\ pc # "exit"
  /\ s \notin armed
  /\ alive' = FALSE
  /\ UNCHANGED <<clientVars, answer, backlog, pc, conn, queueVars, signalVars>>

\* The gateway has ended; there is nothing left to do.
Ended ==
  /\ ~alive \/ pc = "exit"
  /\ UNCHANGED vars

MainStep == TestStop \/ Accept \/ ReadRequest \/ ReadGarbage \/ Push \/ StopQueue \/ Exit

WorkerStep(w) == Pop(w) \/ Respond(w)

Next ==
  \/ \E c \in Conns : Connect(c)
  \/ \E c \in Conns : Send(c)
  \/ \E c \in Conns : Leave(c)
  \/ \E c \in Conns : Recycle(c)
  \/ TestStop
  \/ Accept
  \/ AcceptFails
  \/ ReadRequest
  \/ ReadGarbage
  \/ Push
  \/ StopQueue
  \/ Exit
  \/ \E w \in Workers : Pop(w)
  \/ \E w \in Workers : Respond(w)
  \/ \E s \in Signals : Signal(s)
  \/ \E s \in Signals : SecondSignal(s)
  \/ Ended

\* The threads run, and an adapter call returns.  Clients, signals, the
\* arrival of connections and a failing accept() are free.
Fairness == WF_vars(MainStep) /\ \A w \in Workers : WF_vars(WorkerStep(w))

\* A client that has connected writes its line or closes (the repository's
\* own client does: client_transport.c).  Without this the main thread may
\* sit in read_line for ever, since it reads without a timeout.
ClientFairness == \A c \in Conns : WF_vars(Send(c) \/ Leave(c))

SafeSpec == Init /\ [][Next]_vars

Spec == SafeSpec /\ Fairness

PromptSpec == Spec /\ ClientFairness

-----------------------------------------------------------------------------
Taken(c) == link[c] # "none" /\ answer[c] = "none" /\ \A i \in DOMAIN backlog : backlog[i] # c

TypeOK ==
  /\ link \in [Conns -> {"none", "open", "left"}]
  /\ line \in [Conns -> {"unsent", "good", "bad"}]
  /\ answer \in [Conns -> {"none", "answered", "dropped"}]
  /\ backlog \in Seq(Conns) /\ Len(backlog) <= Backlog
  /\ pc \in Locations
  /\ conn \in Conns \cup {NoConn}
  /\ q \in Seq(Conns) /\ Len(q) <= Depth
  /\ closed \in BOOLEAN
  /\ hand \in [Workers \cup {Main} -> Conns \cup {NoConn, EndOfQueue}]
  /\ gstop \in BOOLEAN
  /\ armed \subseteq Signals
  /\ alive \in BOOLEAN
  /\ pc = "read" <=> conn # NoConn
  /\ pc = "push" <=> hand[Main] \in Conns
  /\ pc # "push" <=> hand[Main] = NoConn

\* Where the gateway keeps connection c: with the main thread, in slot i of
\* the queue, or with a worker.
Places(c) ==
  {<<"main", 0>> : x \in {y \in {conn} : y = c}}
    \cup {<<"hand", t>> : t \in {u \in Workers \cup {Main} : hand[u] = c}}
    \cup {<<"queue", i>> : i \in {k \in DOMAIN q : q[k] = c}}

\* A connection the gateway has accepted and not closed is in exactly one
\* place, and one it has closed or not accepted is in none: no descriptor is
\* forgotten, used after close, or answered by two threads
\* (server.c:143-176 and 82-83).
OneOwner ==
  alive => \A c \in Conns : Cardinality(Places(c)) = IF Taken(c) THEN 1 ELSE 0

\* The gateway's end of a connection is closed once: nothing is written to a
\* descriptor after close(), whose number may by then be another client's
\* (server.c:70).
ClosedOnce ==
  [][\A c \in Conns : answer[c] # "none" /\ answer'[c] # answer[c] => link'[c] = "none"]_vars

\* The "queue stopped" answer (server.c:170-176) is never given: only the
\* main thread stops the queue, and not before it has left the loop.
PushNeverRefused == hand[Main] # NoConn => ~closed

\* When server_run returns, every connection it ever accepted is closed: the
\* requests that were queued when the signal came have been executed.
ExitDrains == pc = "exit" => q = <<>> /\ \A c \in Conns : ~Taken(c)

\* A request the main thread has read is answered, or at least its connection
\* is closed, whatever the other clients do, unless the process dies.
RequestAnswered ==
  \A c \in Conns : (hand[Main] = c) ~> (answer[c] # "none" \/ ~alive)

\* A client in the backlog is served unless the gateway is told to stop or
\* accept() failed.
BacklogServed ==
  \A c \in Conns :
    (c \in {backlog[i] : i \in DOMAIN backlog}) ~>
       (answer[c] # "none" \/ gstop \/ pc \in {"stop", "join", "exit"} \/ ~alive)

\* Once told to stop the gateway ends, provided the main thread is not inside
\* accept(), where it may have missed the signal.
StopEnds == (gstop /\ pc # "accept") ~> (pc = "exit" \/ ~alive)

=============================================================================
