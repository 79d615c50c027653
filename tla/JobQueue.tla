------------------------------ MODULE JobQueue ------------------------------
(***************************************************************************)
(* queue.c: the bounded job queue between the accept loop and the worker   *)
(* threads.  A ring of MAX_QUEUE_DEPTH slots is guarded by one mutex; a    *)
(* producer that finds it full sleeps on not_full, a consumer that finds   *)
(* it empty sleeps on not_empty, and queue_stop wakes everybody.           *)
(*                                                                         *)
(* One action is one section of code under the mutex, from the test of     *)
(* the while loop to the unlock or to pthread_cond_wait: pthread_cond_wait *)
(* releases the mutex and sleeps atomically, and a thread that is woken    *)
(* must get the mutex again, so that any other thread may run before it    *)
(* re-tests the loop condition.                                            *)
(***************************************************************************)
EXTENDS Naturals, FiniteSets, Sequences

CONSTANTS Producers,    \* threads that call queue_push (the accept loop)
          Consumers,    \* threads that call queue_pop (the workers)
          Jobs,         \* job_t, identified by its client connection
          Depth,        \* MAX_QUEUE_DEPTH
          NoJob,        \* a thread's or a slot's job_t that holds no job
          EndOfQueue    \* what a consumer has after queue_pop returned -1

ASSUME DepthAssumption  == Depth \in Nat \ {0}
ASSUME ThreadAssumption == /\ IsFiniteSet(Producers)
                           /\ IsFiniteSet(Consumers)
                           /\ Producers \cap Consumers = {}
ASSUME JobAssumption    == NoJob \notin Jobs /\ EndOfQueue \notin Jobs

Threads == Producers \cup Consumers

VARIABLES
  items,   \* the ring: queue->items
  head,    \* next slot to pop
  tail,    \* next slot to push
  count,   \* number of queued jobs
  stop,    \* queue_stop has run
  at,      \* where each thread is with respect to the queue
  job      \* the job_t each thread holds in a local variable

vars == <<items, head, tail, count, stop, at, job>>

\* "idle"    a producer outside queue_push, a consumer executing its job
\* "locking" inside queue_push or queue_pop, before (or about to re-run) the
\*           test of the while loop
\* "waiting" asleep in pthread_cond_wait
\* "ended"   a consumer whose queue_pop returned -1 (worker_main returned)
ThreadStates == {"idle", "locking", "waiting", "ended"}

Slots == 0 .. Depth - 1

In(state, S) == {t \in S : at[t] = state}

Contents == [i \in 1 .. count |-> items[(head + i - 1) % Depth]]

InUse == {items[(head + i - 1) % Depth] : i \in 1 .. count}
           \cup {job[t] : t \in Threads}

-----------------------------------------------------------------------------
(***************************************************************************)
(* Plausible errors in the code, each a variant of the definition below    *)
(* that it is named after: no signal after a push or pop, no broadcast in  *)
(* queue_stop, an index that is not wrapped or not advanced, a test for    *)
(* full that is off by one, a pop that gives up although jobs are queued.  *)
(* No specification uses them.                                             *)
(***************************************************************************)
SignalledNobody(W) == {{}}
BroadcastNobody(S) == {}
NextSlotNoWrap(i)  == i + 1
NextSlotKept(i)    == i
FullTooLate        == count > Depth
PopRefusedEarly    == stop
-----------------------------------------------------------------------------

\* pthread_cond_signal wakes one of the threads asleep on the condition
\* variable, any of them, or nobody when none is asleep.  (That it may wake
\* more than one is covered by SpuriousWakeup.)
Signalled(W) == IF W = {} THEN {{}} ELSE {{t} : t \in W}

\* pthread_cond_broadcast wakes everyone asleep on the condition variable.
Broadcast(S) == In("waiting", S)

\* (i + 1) % MAX_QUEUE_DEPTH
NextSlot(i) == (i + 1) % Depth

Full       == count >= Depth
MustWait   == ~stop /\ count = 0
PopRefused == stop /\ count = 0

\* Thread t leaves its critical section for state s and the threads in woken
\* are back before the test of their loop.
Move(t, s, woken) ==
  at' = [u \in Threads |-> IF u \in woken THEN "locking"
                           ELSE IF u = t THEN s ELSE at[u]]

Init ==
  /\ items = [s \in Slots |-> NoJob]
  /\ head = 0
  /\ tail = 0
  /\ count = 0
  /\ stop = FALSE
  /\ at = [t \in Threads |-> IF t \in Producers THEN "idle" ELSE "locking"]
  /\ job = [t \in Threads |-> NoJob]

-----------------------------------------------------------------------------
(* queue_push *)

\* The caller enters queue_push with a job.  A job is a connection that was
\* just accepted, so its descriptor is not in use anywhere else.
CallPush(p, j) ==
  /\ at[p] = "idle"
  /\ j \notin InUse
  /\ at' = [at EXCEPT ![p] = "locking"]
  /\ job' = [job EXCEPT ![p] = j]
  /\ UNCHANGED <<items, head, tail, count, stop>>

PushWait(p) ==
  /\ at[p] = "locking"
  /\ ~stop /\ Full
  /\ at' = [at EXCEPT ![p] = "waiting"]
  /\ UNCHANGED <<items, head, tail, count, stop, job>>

PushRefused(p) ==
  /\ at[p] = "locking"
  /\ stop
  /\ at' = [at EXCEPT ![p] = "idle"]
  /\ job' = [job EXCEPT ![p] = NoJob]
  /\ UNCHANGED <<items, head, tail, count, stop>>

PushStore(p) ==
  /\ at[p] = "locking"
  /\ ~stop /\ ~Full
  /\ items' = [items EXCEPT ![tail] = job[p]]
  /\ tail' = NextSlot(tail)
  /\ count' = count + 1
  /\ job' = [job EXCEPT ![p] = NoJob]
  /\ \E woken \in Signalled(In("waiting", Consumers)) : Move(p, "idle", woken)
  /\ UNCHANGED <<head, stop>>

-----------------------------------------------------------------------------
(* queue_pop *)

\* The worker is done with its job and calls queue_pop again.
CallPop(c) ==
  /\ at[c] = "idle"
  /\ at' = [at EXCEPT ![c] = "locking"]
  /\ job' = [job EXCEPT ![c] = NoJob]
  /\ UNCHANGED <<items, head, tail, count, stop>>

PopWait(c) ==
  /\ at[c] = "locking"
  /\ MustWait
  /\ at' = [at EXCEPT ![c] = "waiting"]
  /\ UNCHANGED <<items, head, tail, count, stop, job>>

PopEnd(c) ==
  /\ at[c] = "locking"
  /\ ~MustWait /\ PopRefused
  /\ at' = [at EXCEPT ![c] = "ended"]
  /\ UNCHANGED <<items, head, tail, count, stop, job>>

\* The slot keeps its old bytes; it is outside the ring's live part.
PopTake(c) ==
  /\ at[c] = "locking"
  /\ ~MustWait /\ ~PopRefused
  /\ job' = [job EXCEPT ![c] = items[head]]
  /\ head' = NextSlot(head)
  /\ count' = count - 1
  /\ \E woken \in Signalled(In("waiting", Producers)) : Move(c, "idle", woken)
  /\ UNCHANGED <<items, tail, stop>>

-----------------------------------------------------------------------------
\* queue_stop: both broadcasts, under the mutex.
Stop ==
  /\ ~stop
  /\ stop' = TRUE
  /\ LET woken == Broadcast(Consumers) \cup Broadcast(Producers)
     IN  at' = [t \in Threads |-> IF t \in woken THEN "locking" ELSE at[t]]
  /\ UNCHANGED <<items, head, tail, count, job>>

\* POSIX lets pthread_cond_wait return although nobody signalled.
SpuriousWakeup(t) ==
  /\ at[t] = "waiting"
  /\ at' = [at EXCEPT ![t] = "locking"]
  /\ UNCHANGED <<items, head, tail, count, stop, job>>

\* What a thread does inside queue_push or queue_pop once it has the mutex.
PushStep(p) == PushWait(p) \/ PushRefused(p) \/ PushStore(p)
PopStep(c)  == PopWait(c) \/ PopEnd(c) \/ PopTake(c)

Next ==
  \/ \E p \in Producers, j \in Jobs : CallPush(p, j)
  \/ \E p \in Producers : PushWait(p)
  \/ \E p \in Producers : PushRefused(p)
  \/ \E p \in Producers : PushStore(p)
  \/ \E c \in Consumers : CallPop(c)
  \/ \E c \in Consumers : PopWait(c)
  \/ \E c \in Consumers : PopEnd(c)
  \/ \E c \in Consumers : PopTake(c)
  \/ Stop
  \/ \E t \in Threads : SpuriousWakeup(t)

\* The operating system runs every runnable thread and lets it have the
\* mutex; a worker finishes its job and calls queue_pop again.  Nothing is
\* assumed of spurious wake-ups, of new jobs or of queue_stop.
Fairness ==
  /\ \A p \in Producers : WF_vars(PushStep(p))
  /\ \A c \in Consumers : WF_vars(PopStep(c)) /\ WF_vars(CallPop(c))

SafeSpec == Init /\ [][Next]_vars

Spec == SafeSpec /\ Fairness

-----------------------------------------------------------------------------
TypeOK ==
  /\ items \in [Slots -> Jobs \cup {NoJob}]
  /\ head \in Slots
  /\ tail \in Slots
  /\ count \in 0 .. Depth
  /\ stop \in BOOLEAN
  /\ at \in [Threads -> ThreadStates]
  /\ job \in [Threads -> Jobs \cup {NoJob}]

\* A worker never sleeps next to a queued job: while one is asleep on
\* not_empty, every queued job has a worker of its own that is awake inside
\* queue_pop and will test the queue again.  One pthread_cond_signal per push
\* (queue.c:24) must be enough for that although other workers may come in
\* between and take the job the signal was for.
NoSleepingConsumer ==
  In("waiting", Consumers) # {} => count <= Cardinality(In("locking", Consumers))

\* The same for producers asleep on not_full and free slots (queue.c:41).
NoSleepingProducer ==
  In("waiting", Producers) # {} =>
     Depth - count <= Cardinality(In("locking", Producers))

\* After queue_stop nobody is asleep any more, and nobody falls asleep again:
\* pthread_join in server_run (server.c:182) relies on it.
StopWakesAll == stop => In("waiting", Threads) = {}

\* A worker that left its loop because queue_pop returned -1 left nothing
\* behind: the queue is closed and empty, and stays so (server.c:79-81).
EndedMeansDrained == In("ended", Consumers) # {} => stop /\ count = 0

\* A connection is in one place only: one slot of the live part of the ring,
\* or one thread.  Two owners would close one descriptor twice and answer one
\* client with another one's response.
OneOwner ==
  /\ \A i, k \in 1 .. count : Contents[i] = Contents[k] => i = k
  /\ \A t, u \in Threads : job[t] = job[u] /\ job[t] # NoJob => t = u
  /\ \A i \in 1 .. count, t \in Threads : Contents[i] # job[t]

\* Every accepted job is handed to a worker, also when queue_stop runs.
QueuedIsServed ==
  \A j \in Jobs : (\E i \in 1 .. count : Contents[i] = j) ~>
                     (\E c \in Consumers : job[c] = j)

\* After queue_stop every worker leaves its loop, so the joins return.
StopEndsConsumers == stop ~> (\A c \in Consumers : at[c] = "ended")

\* With workers that keep coming back, the accept loop never stays blocked in
\* queue_push (server.c:170).  It is about a single producer: with more, one
\* may overtake a woken one for ever.
PushReturns == \A p \in Producers : at[p] # "idle" ~> at[p] = "idle"

-----------------------------------------------------------------------------
(***************************************************************************)
(* The ring, the mutex and the two condition variables implement the       *)
(* closable FIFO queue.                                                    *)
(***************************************************************************)
HandOf == [t \in Threads |-> IF at[t] = "ended" THEN EndOfQueue ELSE job[t]]

Fifo == INSTANCE FifoQueue WITH q <- Contents, closed <- stop, hand <- HandOf

\* Jobs leave in the order they came in, none is lost, doubled or refused
\* before queue_stop, and no consumer is dismissed while one is queued.
ImplementsFifo == Fifo!SafeSpec

\* The same with the abstract queue's liveness.
ImplementsFifoLive == Fifo!Spec

=============================================================================
