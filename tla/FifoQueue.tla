----------------------------- MODULE FifoQueue -----------------------------
(***************************************************************************)
(* What the gateway's job queue promises its callers, with no mutex, no    *)
(* condition variable and no ring: a bounded first-in first-out queue that *)
(* can be closed.  A producer hands in a job and the call ends in one of   *)
(* two ways: the job is queued, or, once the queue is closed, it is        *)
(* refused.  A consumer receives the oldest job, or, once the queue is     *)
(* closed AND drained, the end-of-queue mark.  JobQueue (queue.c)          *)
(* implements this specification and Gateway (server.c) uses it.           *)
(***************************************************************************)
EXTENDS Naturals, Sequences

CONSTANTS Producers, Consumers,   \* threads that push and threads that pop
          Jobs,                   \* what is queued: an accepted connection
          Depth,                  \* MAX_QUEUE_DEPTH
          NoJob,                  \* "this thread holds no job"
          EndOfQueue              \* "this thread was told there are no more"

VARIABLES q,        \* the queued jobs, oldest first
          closed,   \* queue_stop has run
          hand      \* the job each thread holds outside the queue

qvars == <<q, closed, hand>>

Threads == Producers \cup Consumers

InFlight == {q[i] : i \in 1 .. Len(q)} \cup {hand[t] : t \in Threads}

Init ==
  /\ q = <<>>
  /\ closed = FALSE
  /\ hand = [t \in Threads |-> NoJob]

\* A producer starts handing in a connection nobody holds yet.
Submit(p, j) ==
  /\ hand[p] = NoJob
  /\ j \notin InFlight
  /\ hand' = [hand EXCEPT ![p] = j]
  /\ UNCHANGED <<q, closed>>

Put(p) ==
  /\ hand[p] # NoJob
  /\ ~closed
  /\ Len(q) < Depth
  /\ q' = Append(q, hand[p])
  /\ hand' = [hand EXCEPT ![p] = NoJob]
  /\ UNCHANGED closed

Refuse(p) ==
  /\ hand[p] # NoJob
  /\ closed
  /\ hand' = [hand EXCEPT ![p] = NoJob]
  /\ UNCHANGED <<q, closed>>

Take(c) ==
  /\ hand[c] = NoJob
  /\ q # <<>>
  /\ hand' = [hand EXCEPT ![c] = Head(q)]
  /\ q' = Tail(q)
  /\ UNCHANGED closed

\* Only a closed queue that is empty ends a consumer: nothing is dropped.
TakeEnd(c) ==
  /\ hand[c] = NoJob
  /\ closed
  /\ q = <<>>
  /\ hand' = [hand EXCEPT ![c] = EndOfQueue]
  /\ UNCHANGED <<q, closed>>

\* The consumer is done with its job (the worker closed the connection).
Finish(c) ==
  /\ hand[c] \in Jobs
  /\ hand' = [hand EXCEPT ![c] = NoJob]
  /\ UNCHANGED <<q, closed>>

Close ==
  /\ ~closed
  /\ closed' = TRUE
  /\ UNCHANGED <<q, hand>>

Next ==
  \/ \E p \in Producers, j \in Jobs : Submit(p, j)
  \/ \E p \in Producers : Put(p) \/ Refuse(p)
  \/ \E c \in Consumers : Take(c) \/ TakeEnd(c) \/ Finish(c)
  \/ Close

\* A queued job is taken while some consumer is free, a call of queue_push
\* returns while there is room or the queue is closed, and a consumer of a
\* closed and drained queue is told so.
Fairness ==
  /\ WF_qvars(\E c \in Consumers : Take(c))
  /\ \A p \in Producers : WF_qvars(Put(p)) /\ WF_qvars(Refuse(p))
  /\ \A c \in Consumers : WF_qvars(TakeEnd(c)) /\ WF_qvars(Finish(c))

SafeSpec == Init /\ [][Next]_qvars

Spec == SafeSpec /\ Fairness

=============================================================================
