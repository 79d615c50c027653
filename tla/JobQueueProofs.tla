--------------------------- MODULE JobQueueProofs ---------------------------
(***************************************************************************)
(* Theorems about JobQueue, for every ring size, every number of threads   *)
(* and every set of jobs.                                                  *)
(***************************************************************************)
EXTENDS JobQueue, FiniteSetTheorems, TLAPS

\* The next slot of a slot is a slot.
LEMMA NextSlotType == \A s \in Slots : NextSlot(s) \in Slots
  BY DepthAssumption, SMT DEF Slots, NextSlot

LEMMA InitTypeOK == Init => TypeOK
<1>1. 0 \in Slots /\ 0 \in 0 .. Depth
  BY DepthAssumption DEF Slots
<1> QED BY <1>1 DEF Init, TypeOK, ThreadStates

LEMMA NextTypeOK == TypeOK /\ [Next]_vars => TypeOK'
<1> SUFFICES ASSUME TypeOK, [Next]_vars PROVE TypeOK'
  OBVIOUS
<1> USE DEF TypeOK, ThreadStates
<1> USE NextSlotType, DepthAssumption
<1>1. ASSUME NEW p \in Producers, NEW j \in Jobs, CallPush(p, j) PROVE TypeOK'
  BY <1>1 DEF CallPush
<1>2. ASSUME NEW p \in Producers, PushWait(p) PROVE TypeOK'
  BY <1>2 DEF PushWait
<1>3. ASSUME NEW p \in Producers, PushRefused(p) PROVE TypeOK'
  BY <1>3 DEF PushRefused
<1>4. ASSUME NEW p \in Producers, PushStore(p) PROVE TypeOK'
  <2>1. items' \in [Slots -> Jobs \cup {NoJob}] /\ job' \in [Threads -> Jobs \cup {NoJob}]
    BY <1>4 DEF PushStore, Threads
  <2>2. at' \in [Threads -> ThreadStates]
    BY <1>4 DEF PushStore, Move
  <2>3. count' \in 0 .. Depth /\ tail' \in Slots
    BY <1>4, SMT DEF PushStore, Full
  <2> QED BY <1>4, <2>1, <2>2, <2>3 DEF PushStore
<1>5. ASSUME NEW c \in Consumers, CallPop(c) PROVE TypeOK'
  BY <1>5 DEF CallPop
<1>6. ASSUME NEW c \in Consumers, PopWait(c) PROVE TypeOK'
  BY <1>6 DEF PopWait
<1>7. ASSUME NEW c \in Consumers, PopEnd(c) PROVE TypeOK'
  BY <1>7 DEF PopEnd
<1>8. ASSUME NEW c \in Consumers, PopTake(c) PROVE TypeOK'
  <2>1. job' \in [Threads -> Jobs \cup {NoJob}]
    BY <1>8 DEF PopTake
  <2>2. at' \in [Threads -> ThreadStates]
    BY <1>8 DEF PopTake, Move
  <2>3. count' \in 0 .. Depth /\ head' \in Slots
    BY <1>8, SMT DEF PopTake, MustWait, PopRefused
  <2> QED BY <1>8, <2>1, <2>2, <2>3 DEF PopTake
<1>9. CASE Stop
  BY <1>9 DEF Stop
<1>10. ASSUME NEW t \in Threads, SpuriousWakeup(t) PROVE TypeOK'
  BY <1>10 DEF SpuriousWakeup
<1>11. CASE UNCHANGED vars
  BY <1>11 DEF vars
<1> QED
  BY <1>1, <1>2, <1>3, <1>4, <1>5, <1>6, <1>7, <1>8, <1>9, <1>10, <1>11 DEF Next

\* The variables of a queue always have their types: in particular the
\* indices stay inside the ring and the count between 0 and MAX_QUEUE_DEPTH
\* (queue.c:21-23 and 38-40 have no check of their own).
THEOREM TypeCorrect == SafeSpec => []TypeOK
  BY InitTypeOK, NextTypeOK, PTL DEF SafeSpec

-----------------------------------------------------------------------------
(***************************************************************************)
(* No lost wake-up.  W is the set of sleepers, L the set of threads on     *)
(* their way to the test, x what they are needed for (queued jobs, or free *)
(* slots).  Two ways a step keeps x <= Cardinality(L).                     *)
(***************************************************************************)

\* A step that adds one to the need and signals one of the sleepers.
LEMMA OneSignalled ==
  ASSUME NEW W, NEW L, NEW L2, NEW t, NEW x \in Int,
         IsFiniteSet(L), t \notin L, L2 = L \cup {t},
         x <= Cardinality(L)
  PROVE  x + 1 <= Cardinality(L2)
<1>1. Cardinality(L2) = Cardinality(L) + 1 /\ Cardinality(L) \in Nat
  BY FS_AddElement, FS_CardinalityType
<1> QED BY <1>1

\* A step of a thread in L that satisfies one unit of the need itself.
LEMMA OneServed ==
  ASSUME NEW L, NEW L2, NEW t, NEW x \in Int,
         IsFiniteSet(L), t \in L, L2 = L \ {t},
         x <= Cardinality(L)
  PROVE  x - 1 <= Cardinality(L2)
<1>1. Cardinality(L2) = Cardinality(L) - 1 /\ Cardinality(L) \in Nat
  BY FS_RemoveElement, FS_CardinalityType
<1> QED BY <1>1

\* Everything about sleepers that the queue keeps true, together: the cases
\* of the proof need one another (after queue_stop nobody sleeps, so that
\* PushRefused and PopEnd disturb nothing).
SleepInv ==
  /\ TypeOK
  /\ StopWakesAll
  /\ EndedMeansDrained
  /\ NoSleepingConsumer
  /\ NoSleepingProducer

LEMMA InitSleepInv == Init => SleepInv
<1> SUFFICES ASSUME Init PROVE SleepInv
  OBVIOUS
<1>1. TypeOK
  BY InitTypeOK
<1>2. In("waiting", Threads) = {} /\ In("ended", Consumers) = {}
  BY DEF Init, In, Threads
<1>3. In("waiting", Consumers) = {} /\ In("waiting", Producers) = {}
  BY <1>2 DEF In, Threads
<1> QED
  BY <1>1, <1>2, <1>3 DEF SleepInv, StopWakesAll, EndedMeansDrained,
     NoSleepingConsumer, NoSleepingProducer

LEMMA NextSleepInv == SleepInv /\ [Next]_vars => SleepInv'
<1> SUFFICES ASSUME SleepInv, [Next]_vars PROVE SleepInv'
  OBVIOUS
<1> DEFINE WC == In("waiting", Consumers)
           LC == In("locking", Consumers)
           WP == In("waiting", Producers)
           LP == In("locking", Producers)
<1>a. TypeOK /\ TypeOK'
  BY NextTypeOK DEF SleepInv
<1>b. /\ IsFiniteSet(LC) /\ IsFiniteSet(LP)
      /\ IsFiniteSet(LC') /\ IsFiniteSet(LP')
  <2>1. LC \subseteq Consumers /\ LC' \subseteq Consumers
    BY DEF In
  <2>2. LP \subseteq Producers /\ LP' \subseteq Producers
    BY DEF In
  <2> QED BY <2>1, <2>2, FS_Subset, ThreadAssumption
<1>n. /\ Cardinality(LC) \in Nat /\ Cardinality(LP) \in Nat
      /\ Cardinality(LC') \in Nat /\ Cardinality(LP') \in Nat
  BY <1>b, FS_CardinalityType
<1>c. /\ count \in Nat /\ count' \in Nat /\ Depth \in Nat
      /\ count \in Int /\ count' \in Int
      /\ Depth - count \in Int /\ Depth - count' \in Int
  BY <1>a, DepthAssumption DEF TypeOK
<1>d. /\ WC # {} => count <= Cardinality(LC)
      /\ WP # {} => Depth - count <= Cardinality(LP)
  BY DEF SleepInv, NoSleepingConsumer, NoSleepingProducer
<1>e. \A st : /\ In(st, Threads) = In(st, Consumers) \cup In(st, Producers)
              /\ In(st, Threads)' = In(st, Consumers)' \cup In(st, Producers)'
  BY DEF In, Threads
<1> SUFFICES /\ StopWakesAll' /\ EndedMeansDrained'
             /\ WC' # {} => count' <= Cardinality(LC')
             /\ WP' # {} => Depth - count' <= Cardinality(LP')
  BY <1>a DEF SleepInv, NoSleepingConsumer, NoSleepingProducer
<1> HIDE DEF WC, LC, WP, LP
\* Steps that only let a thread come in, or that change nothing.
<1>m. ASSUME WC' \subseteq WC, LC \subseteq LC', WP' \subseteq WP, LP \subseteq LP',
             UNCHANGED count
      PROVE  /\ WC' # {} => count' <= Cardinality(LC')
             /\ WP' # {} => Depth - count' <= Cardinality(LP')
  <2>1. Cardinality(LC) <= Cardinality(LC') /\ Cardinality(LP) <= Cardinality(LP')
    BY <1>m, <1>b, FS_Subset
  <2>2. (WC' # {} => WC # {}) /\ (WP' # {} => WP # {})
    BY <1>m
  <2> QED BY <2>1, <2>2, <1>m, <1>c, <1>d, <1>n
<1> DEFINE Goal == /\ StopWakesAll' /\ EndedMeansDrained'
                   /\ WC' # {} => count' <= Cardinality(LC')
                   /\ WP' # {} => Depth - count' <= Cardinality(LP')
<1> USE DEF StopWakesAll, EndedMeansDrained
<1>s. StopWakesAll /\ EndedMeansDrained
  BY DEF SleepInv
<1>t. /\ In("waiting", Threads)' = WC' \cup WP'
      /\ In("waiting", Threads) = WC \cup WP
  BY <1>e DEF WC, WP
<1>1. ASSUME NEW p \in Producers, NEW j \in Jobs, CallPush(p, j) PROVE Goal
  <2>1. /\ WC' \subseteq WC /\ LC \subseteq LC' /\ WP' \subseteq WP /\ LP \subseteq LP'
        /\ In("ended", Consumers)' \subseteq In("ended", Consumers)
    BY <1>1, <1>a DEF CallPush, TypeOK, In, WC, LC, WP, LP
  <2>2. UNCHANGED <<count, stop>>
    BY <1>1 DEF CallPush
  <2> QED BY <2>1, <2>2, <1>m, <1>s, <1>t
<1>2. ASSUME NEW p \in Producers, PushWait(p) PROVE Goal
  <2>1. /\ WC' = WC /\ LC' = LC
        /\ In("ended", Consumers)' = In("ended", Consumers)
    BY <1>2, <1>a, ThreadAssumption DEF PushWait, TypeOK, In, WC, LC
  <2>2. UNCHANGED <<count, stop>> /\ ~stop /\ count >= Depth
    BY <1>2 DEF PushWait, Full
  <2>3. Depth - count' <= Cardinality(LP')
    BY <2>2, <1>c, <1>n
  <2> QED BY <2>1, <2>2, <2>3, <1>s, <1>d
<1>3. ASSUME NEW p \in Producers, PushRefused(p) PROVE Goal
  <2>1. /\ WC' \subseteq WC /\ WP' \subseteq WP
        /\ In("ended", Consumers)' \subseteq In("ended", Consumers)
    BY <1>3, <1>a DEF PushRefused, TypeOK, In, WC, WP, Threads
  <2>2. UNCHANGED <<count, stop>> /\ stop
    BY <1>3 DEF PushRefused
  <2>3. WC' = {} /\ WP' = {}
    BY <2>1, <2>2, <1>s, <1>t
  <2> QED BY <2>1, <2>2, <2>3, <1>s, <1>t
<1>4. ASSUME NEW p \in Producers, PushStore(p) PROVE Goal
  <2>1. PICK woken \in Signalled(WC) :
           at' = [u \in Threads |-> IF u \in woken THEN "locking"
                                    ELSE IF u = p THEN "idle" ELSE at[u]]
    BY <1>4 DEF PushStore, Move, WC
  <2>2. ~stop /\ stop' = stop /\ count' = count + 1 /\ at[p] = "locking" /\ p \in Threads
    BY <1>4 DEF PushStore, Threads
  <2>3. In("ended", Consumers)' \subseteq In("ended", Consumers)
    BY <2>1, ThreadAssumption, <1>a DEF In, TypeOK, Threads
  <2>4. WC' # {} => count' <= Cardinality(LC')
    <3>1. CASE WC = {}
      <4>1. woken = {}
        BY <2>1, <3>1 DEF Signalled
      <4>2. WC' = {}
        BY <2>1, <4>1, <3>1, ThreadAssumption DEF WC, In, Threads
      <4> QED BY <4>2
    <3>2. CASE WC # {}
      <4>1. PICK t \in WC : woken = {t}
        BY <2>1, <3>2 DEF Signalled
      <4>2. t \in Consumers /\ at[t] = "waiting" /\ t # p
        BY <4>1, ThreadAssumption DEF WC, In
      <4>3. t \notin LC /\ LC' = LC \cup {t}
        BY <2>1, <4>1, <4>2, ThreadAssumption DEF LC, In, Threads
      <4>4. count + 1 <= Cardinality(LC')
        BY <4>3, <3>2, <1>b, <1>c, <1>d, OneSignalled
      <4> QED BY <4>4, <2>2
    <3> QED BY <3>1, <3>2
  <2>5. WP' # {} => Depth - count' <= Cardinality(LP')
    <3>1. woken \subseteq Consumers
      BY <2>1 DEF Signalled, WC, In
    <3>2. p \in LP /\ LP' = LP \ {p} /\ WP' = WP
      BY <2>1, <2>2, <3>1, <1>4, ThreadAssumption DEF LP, WP, In, Threads
    <3>3. WP # {} => Depth - count - 1 <= Cardinality(LP')
      BY <3>2, <1>b, <1>c, <1>d, OneServed
    <3> QED BY <3>2, <3>3, <2>2, <1>c, <1>n
  <2> QED BY <2>2, <2>3, <2>4, <2>5, <1>s
<1>5. ASSUME NEW c \in Consumers, CallPop(c) PROVE Goal
  <2>1. /\ WC' \subseteq WC /\ LC \subseteq LC' /\ WP' \subseteq WP /\ LP \subseteq LP'
        /\ In("ended", Consumers)' \subseteq In("ended", Consumers)
    BY <1>5, <1>a DEF CallPop, TypeOK, In, WC, LC, WP, LP
  <2>2. UNCHANGED <<count, stop>>
    BY <1>5 DEF CallPop
  <2> QED BY <2>1, <2>2, <1>m, <1>s, <1>t
<1>6. ASSUME NEW c \in Consumers, PopWait(c) PROVE Goal
  <2>1. /\ WP' = WP /\ LP' = LP
        /\ In("ended", Consumers)' \subseteq In("ended", Consumers)
    BY <1>6, <1>a, ThreadAssumption DEF PopWait, TypeOK, In, WP, LP, Threads
  <2>2. UNCHANGED <<count, stop>> /\ ~stop /\ count = 0
    BY <1>6 DEF PopWait, MustWait
  <2>3. count' <= Cardinality(LC')
    BY <2>2, <1>n
  <2> QED BY <2>1, <2>2, <2>3, <1>s, <1>d
<1>7. ASSUME NEW c \in Consumers, PopEnd(c) PROVE Goal
  <2>1. WC' \subseteq WC /\ WP' \subseteq WP
    BY <1>7, <1>a DEF PopEnd, TypeOK, In, WC, WP, Threads
  <2>2. UNCHANGED <<count, stop>> /\ stop /\ count = 0
    BY <1>7 DEF PopEnd, PopRefused
  <2>3. WC' = {} /\ WP' = {}
    BY <2>1, <2>2, <1>s, <1>t
  <2> QED BY <2>2, <2>3, <1>t
<1>8. ASSUME NEW c \in Consumers, PopTake(c) PROVE Goal
  <2>1. PICK woken \in Signalled(WP) :
           at' = [u \in Threads |-> IF u \in woken THEN "locking"
                                    ELSE IF u = c THEN "idle" ELSE at[u]]
    BY <1>8 DEF PopTake, Move, WP
  <2>2. /\ stop' = stop /\ count' = count - 1 /\ at[c] = "locking" /\ c \in Threads
        /\ count # 0
    BY <1>8 DEF PopTake, MustWait, PopRefused, Threads
  <2>3. woken \subseteq Producers /\ woken \subseteq WP
    BY <2>1 DEF Signalled, WP, In
  <2>4. In("ended", Consumers)' \subseteq In("ended", Consumers)
    BY <2>1, <2>3, ThreadAssumption DEF In, Threads
  <2>5. WP' # {} => Depth - count' <= Cardinality(LP')
    <3>1. CASE WP = {}
      <4>1. WP' = {}
        BY <2>1, <2>3, <3>1, ThreadAssumption DEF WP, In, Threads
      <4> QED BY <4>1
    <3>2. CASE WP # {}
      <4>1. PICK t \in WP : woken = {t}
        BY <2>1, <3>2 DEF Signalled
      <4>2. t \in Producers /\ at[t] = "waiting" /\ t # c
        BY <4>1, ThreadAssumption DEF WP, In
      <4>3. t \notin LP /\ LP' = LP \cup {t}
        BY <2>1, <4>1, <4>2, ThreadAssumption DEF LP, In, Threads
      <4>4. Depth - count + 1 <= Cardinality(LP')
        BY <4>3, <3>2, <1>b, <1>c, <1>d, OneSignalled
      <4> QED BY <4>4, <2>2, <1>c, <1>n
    <3> QED BY <3>1, <3>2
  <2>6. WC' # {} => count' <= Cardinality(LC')
    <3>1. c \in LC /\ LC' = LC \ {c} /\ WC' = WC
      BY <2>1, <2>2, <2>3, ThreadAssumption DEF LC, WC, In, Threads
    <3>2. WC # {} => count - 1 <= Cardinality(LC')
      BY <3>1, <1>b, <1>c, <1>d, OneServed
    <3> QED BY <3>1, <3>2, <2>2
  <2>7. StopWakesAll'
    <3>1. stop => WP = {} /\ WC = {}
      BY <1>s, <1>t
    <3>2. WP' \subseteq WP /\ WC' \subseteq WC
      BY <2>1 DEF WP, WC, In, Threads
    <3> QED BY <3>1, <3>2, <2>2, <1>t
  <2> QED BY <2>2, <2>4, <2>5, <2>6, <2>7, <1>s
<1>9. CASE Stop
  <2>1. WC' = {} /\ WP' = {}
    BY <1>9 DEF Stop, Broadcast, In, WC, WP, Threads
  <2>2. In("ended", Consumers)' \subseteq In("ended", Consumers)
    BY <1>9 DEF Stop, In, Threads
  <2>3. stop' /\ UNCHANGED count
    BY <1>9 DEF Stop
  <2> QED BY <2>1, <2>2, <2>3, <1>s, <1>t
<1>10. ASSUME NEW t \in Threads, SpuriousWakeup(t) PROVE Goal
  <2>1. /\ WC' \subseteq WC /\ LC \subseteq LC' /\ WP' \subseteq WP /\ LP \subseteq LP'
        /\ In("ended", Consumers)' \subseteq In("ended", Consumers)
    BY <1>10, <1>a DEF SpuriousWakeup, TypeOK, In, WC, LC, WP, LP, Threads
  <2>2. UNCHANGED <<count, stop>>
    BY <1>10 DEF SpuriousWakeup
  <2> QED BY <2>1, <2>2, <1>m, <1>s, <1>t
<1>11. CASE UNCHANGED vars
  <2>1. /\ WC' = WC /\ LC' = LC /\ WP' = WP /\ LP' = LP
        /\ In("ended", Consumers)' = In("ended", Consumers)
    BY <1>11 DEF vars, In, WC, LC, WP, LP
  <2> QED BY <1>11, <2>1, <1>m, <1>s, <1>t DEF vars
<1> HIDE DEF StopWakesAll, EndedMeansDrained
<1> QED
  BY <1>1, <1>2, <1>3, <1>4, <1>5, <1>6, <1>7, <1>8, <1>9, <1>10, <1>11 DEF Next

\* No lost wake-up: whatever the interleaving, no worker sleeps on not_empty
\* while there are more queued jobs than workers awake inside queue_pop
\* (queue.c:24, 31-33).
THEOREM NoSleepingConsumerCorrect == SafeSpec => []NoSleepingConsumer
<1>1. SleepInv => NoSleepingConsumer
  BY DEF SleepInv
<1> QED BY <1>1, InitSleepInv, NextSleepInv, PTL DEF SafeSpec

\* The same for the accept loop, asleep on not_full, and the free slots
\* (queue.c:14-16, 41).
THEOREM NoSleepingProducerCorrect == SafeSpec => []NoSleepingProducer
<1>1. SleepInv => NoSleepingProducer
  BY DEF SleepInv
<1> QED BY <1>1, InitSleepInv, NextSleepInv, PTL DEF SafeSpec

\* After queue_stop no thread sleeps on either condition variable, ever again
\* (queue.c:46-52 with the stop tests of lines 14 and 31).
THEOREM StopWakesAllCorrect == SafeSpec => []StopWakesAll
<1>1. SleepInv => StopWakesAll
  BY DEF SleepInv
<1> QED BY <1>1, InitSleepInv, NextSleepInv, PTL DEF SafeSpec

\* A worker only ever leaves its loop when the queue is closed and empty
\* (queue.c:34-37): shutdown drains every accepted request.
THEOREM EndedMeansDrainedCorrect == SafeSpec => []EndedMeansDrained
<1>1. SleepInv => EndedMeansDrained
  BY DEF SleepInv
<1> QED BY <1>1, InitSleepInv, NextSleepInv, PTL DEF SafeSpec

-----------------------------------------------------------------------------
(***************************************************************************)
(* The ring.  Slot indices wrap at most once, so the remainder is the      *)
(* number itself or the number less Depth.                                 *)
(***************************************************************************)

LEMMA Wrapped ==
  /\ \A x \in 0 .. Depth - 1 : x % Depth = x
  /\ \A x \in Depth .. Depth + Depth - 1 : x % Depth = x - Depth
<1>1. \A x \in 0 .. Depth - 1 : x % Depth = x
  BY DepthAssumption
<1>2. \A x \in Depth .. Depth + Depth - 1 : x % Depth = x - Depth
  BY DepthAssumption
<1> QED BY <1>1, <1>2

\* Where the jobs are: the live part of the ring ends at tail and holds jobs, a
\* producer holds one exactly while it is inside queue_push, a consumer exactly
\* while it is outside queue_pop.
RingInv ==
  /\ TypeOK
  /\ tail = (head + count) % Depth
  /\ Contents \in Seq(Jobs)
  /\ \A p \in Producers : at[p] # "ended" /\ (at[p] = "idle" <=> job[p] = NoJob)
  /\ \A c \in Consumers : at[c] = "idle" <=> job[c] # NoJob

LEMMA ContentsLength == TypeOK => Len(Contents) = count /\ DOMAIN Contents = 1 .. count
  BY DEF Contents, TypeOK

\* A push appends to the live part of the ring (queue.c:21-23): the slot that it
\* writes is none of those that are read.
LEMMA PushAppends ==
  ASSUME RingInv, NEW p \in Producers, PushStore(p)
  PROVE  /\ job[p] \in Jobs
         /\ tail' = (head' + count') % Depth
         /\ Contents' = Append(Contents, job[p])
<1>1. /\ head \in 0 .. Depth - 1 /\ count \in 0 .. Depth - 1 /\ Depth \in Nat \ {0}
      /\ tail = (head + count) % Depth /\ tail \in Slots
      /\ count' = count + 1 /\ head' = head /\ tail' = (tail + 1) % Depth
      /\ items \in [Slots -> Jobs \cup {NoJob}]
      /\ items' = [items EXCEPT ![tail] = job[p]]
  BY DepthAssumption DEF RingInv, TypeOK, Slots, PushStore, Full, NextSlot
<1>2. job[p] \in Jobs
  BY DEF RingInv, TypeOK, PushStore, Threads
<1>3. tail' = (head' + count') % Depth
  <2>1. CASE head + count < Depth
    BY <1>1, <2>1, Wrapped
  <2>2. CASE head + count >= Depth
    <3>1. tail = head + count - Depth /\ tail + 1 \in 0 .. Depth - 1
      BY <1>1, <2>2, Wrapped
    <3>2. head + count + 1 \in Depth .. Depth + Depth - 1
      BY <1>1, <2>2
    <3> QED BY <1>1, <3>1, <3>2, Wrapped
  <2> QED BY <1>1, <2>1, <2>2
<1>4. ASSUME NEW i \in 1 .. count
      PROVE  (head + i - 1) % Depth \in Slots /\ (head + i - 1) % Depth # tail
  <2>1. (head + i - 1) % Depth = IF head + i - 1 < Depth THEN head + i - 1 ELSE head + i - 1 - Depth
    BY <1>1, Wrapped
  <2>2. tail = IF head + count < Depth THEN head + count ELSE head + count - Depth
    BY <1>1, Wrapped
  <2> QED BY <1>1, <2>1, <2>2 DEF Slots
<1>5. ASSUME NEW i \in 1 .. count
      PROVE  items'[(head + i - 1) % Depth] = items[(head + i - 1) % Depth]
  BY <1>1, <1>4
<1>6. items'[(head + (count + 1) - 1) % Depth] = job[p]
  BY <1>1
<1>7. Contents' = [i \in 1 .. count + 1 |-> IF i = count + 1 THEN job[p] ELSE Contents[i]]
  <2>1. Contents' = [i \in 1 .. count + 1 |-> items'[(head + i - 1) % Depth]]
    BY <1>1 DEF Contents
  <2>2. ASSUME NEW i \in 1 .. count + 1
        PROVE  items'[(head + i - 1) % Depth] = IF i = count + 1 THEN job[p] ELSE Contents[i]
    <3>1. CASE i = count + 1
      BY <1>6, <3>1
    <3>2. CASE i # count + 1
      <4>1. i \in 1 .. count
        BY <1>1, <3>2
      <4>2. Contents[i] = items[(head + i - 1) % Depth]
        BY <4>1 DEF Contents
      <4> QED BY <1>5, <3>2, <4>1, <4>2
    <3> QED BY <3>1, <3>2
  <2> QED BY <2>1, <2>2
<1>8. Contents \in Seq(Jobs) /\ Len(Contents) = count
  BY ContentsLength DEF RingInv
<1>9. Append(Contents, job[p]) = [i \in 1 .. count + 1 |-> IF i = count + 1 THEN job[p] ELSE Contents[i]]
  BY <1>2, <1>8
<1> QED BY <1>2, <1>3, <1>7, <1>9

\* The tail of a sequence, element by element.
LEMMA TailShifts ==
  ASSUME NEW S, NEW s \in Seq(S), s # <<>>
  PROVE  Tail(s) = [i \in 1 .. Len(s) - 1 |-> s[i + 1]]
<1>1. Tail(s) \in Seq(S) /\ Len(Tail(s)) = Len(s) - 1
  OBVIOUS
<1>2. \A i \in 1 .. Len(s) - 1 : Tail(s)[i] = s[i + 1]
  OBVIOUS
<1>3. \A t \in Seq(S) : t = [i \in 1 .. Len(t) |-> t[i]]
  OBVIOUS
<1>4. PICK t \in Seq(S) : t = Tail(s) /\ Len(t) = Len(s) - 1
  BY <1>1
<1>5. t = [i \in 1 .. Len(s) - 1 |-> s[i + 1]]
  BY <1>2, <1>3, <1>4
<1> QED BY <1>4, <1>5

\* A pop takes the first job of the live part and leaves the rest (queue.c:38-40).
LEMMA PopTakesHead ==
  ASSUME RingInv, NEW c \in Consumers, PopTake(c)
  PROVE  /\ Contents # <<>>
         /\ items[head] = Head(Contents)
         /\ tail' = (head' + count') % Depth
         /\ Contents' = Tail(Contents)
<1>1. /\ head \in 0 .. Depth - 1 /\ count \in 1 .. Depth /\ Depth \in Nat \ {0}
      /\ tail = (head + count) % Depth
      /\ count' = count - 1 /\ head' = (head + 1) % Depth /\ tail' = tail /\ items' = items
  BY DepthAssumption DEF RingInv, TypeOK, Slots, PopTake, MustWait, PopRefused, NextSlot
<1>2. /\ Contents \in Seq(Jobs) /\ Len(Contents) = count
      /\ Contents[1] = items[head]
  <2>1. (head + 1 - 1) % Depth = head
    BY <1>1, Wrapped
  <2> QED BY <1>1, <2>1, ContentsLength DEF RingInv, Contents
<1>3. head' = IF head + 1 < Depth THEN head + 1 ELSE 0
  BY <1>1, Wrapped
<1>4. ASSUME NEW i \in 0 .. count - 1
      PROVE  (head' + i) % Depth = (head + 1 + i) % Depth
  <2>1. CASE head + 1 < Depth
    BY <1>1, <1>3, <2>1
  <2>2. CASE head + 1 >= Depth
    <3>1. head + 1 + i \in Depth .. Depth + Depth - 1 /\ head + 1 = Depth
      BY <1>1, <2>2
    <3> QED BY <1>1, <1>3, <2>2, <3>1, Wrapped
  <2> QED BY <1>1, <2>1, <2>2
<1>5. tail' = (head' + count') % Depth
  BY <1>1, <1>4
<1>6. Contents' = [i \in 1 .. count - 1 |-> Contents[i + 1]]
  <2>1. ASSUME NEW i \in 1 .. count - 1
        PROVE  items[(head' + i - 1) % Depth] = Contents[i + 1]
    <3>1. (head' + (i - 1)) % Depth = (head + 1 + (i - 1)) % Depth
      BY <1>1, <1>4
    <3>2. (head' + i - 1) % Depth = (head + (i + 1) - 1) % Depth
      BY <1>1, <1>3, <3>1
    <3>3. i + 1 \in 1 .. count
      BY <1>1
    <3>4. Contents[i + 1] = items[(head + (i + 1) - 1) % Depth]
      BY <3>3 DEF Contents
    <3> QED BY <3>2, <3>4
  <2>2. Contents' = [i \in 1 .. count - 1 |-> items[(head' + i - 1) % Depth]]
    BY <1>1 DEF Contents
  <2> QED BY <2>1, <2>2
<1>7. Contents # <<>> /\ Head(Contents) = Contents[1]
  BY <1>1, <1>2
<1>8. Tail(Contents) = [i \in 1 .. count - 1 |-> Contents[i + 1]]
  BY <1>2, <1>7, TailShifts
<1> QED BY <1>2, <1>5, <1>6, <1>7, <1>8

\* Every other step leaves the ring alone.
LEMMA OthersKeepRing ==
  ASSUME UNCHANGED <<items, head, tail, count>>
  PROVE  UNCHANGED <<tail, head, count, Contents>>
  BY DEF Contents

LEMMA InitRingInv == Init => RingInv
<1> SUFFICES ASSUME Init PROVE RingInv
  OBVIOUS
<1>1. (0 + 0) % Depth = 0
  BY DepthAssumption, Wrapped
<1>2. Contents = <<>>
  BY DEF Init, Contents
<1> QED
  BY <1>1, <1>2, InitTypeOK, ThreadAssumption DEF Init, RingInv, Threads

\* The part of RingInv about the threads.
HandsInv ==
  /\ \A p \in Producers : at[p] # "ended" /\ (at[p] = "idle" <=> job[p] = NoJob)
  /\ \A c \in Consumers : at[c] = "idle" <=> job[c] # NoJob

LEMMA NextHandsInv ==
  ASSUME RingInv, [Next]_vars
  PROVE  HandsInv'
<1> USE DEF RingInv, HandsInv, TypeOK, Threads, ThreadStates
<1> USE ThreadAssumption, JobAssumption
<1>1. ASSUME NEW p \in Producers, NEW j \in Jobs, CallPush(p, j) PROVE HandsInv'
  BY <1>1 DEF CallPush
<1>2. ASSUME NEW p \in Producers, PushWait(p) PROVE HandsInv'
  BY <1>2 DEF PushWait
<1>3. ASSUME NEW p \in Producers, PushRefused(p) PROVE HandsInv'
  BY <1>3 DEF PushRefused
<1>4. ASSUME NEW p \in Producers, PushStore(p) PROVE HandsInv'
  <2>1. PICK woken : /\ \A t \in woken : t \in Consumers /\ at[t] = "waiting"
                     /\ Move(p, "idle", woken)
    BY <1>4 DEF PushStore, Signalled, In
  <2> QED BY <1>4, <2>1 DEF PushStore, Move
<1>5. ASSUME NEW c \in Consumers, CallPop(c) PROVE HandsInv'
  BY <1>5 DEF CallPop
<1>6. ASSUME NEW c \in Consumers, PopWait(c) PROVE HandsInv'
  BY <1>6 DEF PopWait
<1>7. ASSUME NEW c \in Consumers, PopEnd(c) PROVE HandsInv'
  BY <1>7 DEF PopEnd
<1>8. ASSUME NEW c \in Consumers, PopTake(c) PROVE HandsInv'
  <2>1. PICK woken : /\ \A t \in woken : t \in Producers /\ at[t] = "waiting"
                     /\ Move(c, "idle", woken)
    BY <1>8 DEF PopTake, Signalled, In
  <2>2. items[head] \in Jobs
    BY <1>8, PopTakesHead
  <2> QED BY <1>8, <2>1, <2>2 DEF PopTake, Move
<1>9. CASE Stop
  BY <1>9 DEF Stop, Broadcast, In
<1>10. ASSUME NEW t \in Threads, SpuriousWakeup(t) PROVE HandsInv'
  BY <1>10 DEF SpuriousWakeup
<1>11. CASE UNCHANGED vars
  BY <1>11 DEF vars
<1> HIDE DEF RingInv, HandsInv, TypeOK, Threads, ThreadStates
<1> QED
  BY <1>1, <1>2, <1>3, <1>4, <1>5, <1>6, <1>7, <1>8, <1>9, <1>10, <1>11 DEF Next

\* How a step changes the queue as its callers see it.
LEMMA NextContents ==
  ASSUME RingInv, [Next]_vars
  PROVE  \/ UNCHANGED <<tail, head, count, Contents>>
         \/ \E p \in Producers : PushStore(p)
         \/ \E c \in Consumers : PopTake(c)
<1>1. UNCHANGED <<items, head, tail, count>> => UNCHANGED <<tail, head, count, Contents>>
  BY OthersKeepRing
<1> QED
  BY <1>1 DEF Next, vars, CallPush, PushWait, PushRefused, CallPop, PopWait, PopEnd, Stop, SpuriousWakeup

LEMMA NextRingInv == RingInv /\ [Next]_vars => RingInv'
<1> SUFFICES ASSUME RingInv, [Next]_vars PROVE RingInv'
  OBVIOUS
<1>1. TypeOK' /\ HandsInv'
  BY NextTypeOK, NextHandsInv DEF RingInv
<1>2. Contents \in Seq(Jobs) /\ tail = (head + count) % Depth
  BY DEF RingInv
<1> SUFFICES tail' = (head' + count') % Depth /\ Contents' \in Seq(Jobs)
  BY <1>1 DEF RingInv, HandsInv
<1>3. CASE UNCHANGED <<tail, head, count, Contents>>
  BY <1>2, <1>3
<1>4. ASSUME NEW p \in Producers, PushStore(p)
      PROVE  tail' = (head' + count') % Depth /\ Contents' \in Seq(Jobs)
  BY <1>2, <1>4, PushAppends
<1>5. ASSUME NEW c \in Consumers, PopTake(c)
      PROVE  tail' = (head' + count') % Depth /\ Contents' \in Seq(Jobs)
  BY <1>2, <1>5, PopTakesHead
<1> QED
  BY <1>3, <1>4, <1>5, NextContents

-----------------------------------------------------------------------------
(* One owner for each connection *)

\* The owners of a job, with the queue as a sequence.
LEMMA InUseContents == InUse = {Contents[i] : i \in 1 .. count} \cup {job[t] : t \in Threads}
  BY DEF InUse, Contents

LEMMA NextOneOwner ==
  ASSUME RingInv, OneOwner, [Next]_vars
  PROVE  OneOwner'
<1>1. /\ Contents \in Seq(Jobs) /\ Len(Contents) = count
      /\ job \in [Threads -> Jobs \cup {NoJob}]
      /\ NoJob \notin Jobs
  BY ContentsLength, JobAssumption DEF RingInv, TypeOK
<1> USE DEF OneOwner
\* Steps that leave the queue alone and at most make a thread forget its job.
<1>2. ASSUME UNCHANGED <<count, Contents>>,
             job' = job \/ \E t \in Threads : job' = [job EXCEPT ![t] = NoJob]
      PROVE  OneOwner'
  BY <1>1, <1>2
<1>3. ASSUME NEW p \in Producers, NEW j \in Jobs, CallPush(p, j) PROVE OneOwner'
  <2>1. /\ p \in Threads
        /\ UNCHANGED <<count, Contents>>
        /\ job' = [job EXCEPT ![p] = j]
        /\ \A i \in 1 .. count : Contents[i] # j
        /\ \A t \in Threads : job[t] # j
    BY <1>3, InUseContents DEF CallPush, Threads, Contents
  <2> QED BY <1>1, <2>1
<1>4. ASSUME NEW p \in Producers, PushStore(p) PROVE OneOwner'
  <2>1. /\ p \in Threads
        /\ count' = count + 1
        /\ Contents' = Append(Contents, job[p])
        /\ job' = [job EXCEPT ![p] = NoJob]
        /\ job[p] \in Jobs
    BY <1>4, PushAppends DEF PushStore, Threads
  <2>2. \A i \in 1 .. count + 1 :
           Contents'[i] = IF i = count + 1 THEN job[p] ELSE Contents[i]
    BY <1>1, <2>1
  <2>3. \A i \in 1 .. count + 1 : i = count + 1 \/ i \in 1 .. count
    BY <1>1
  <2> QED BY <1>1, <2>1, <2>2, <2>3
<1>5. ASSUME NEW c \in Consumers, PopTake(c) PROVE OneOwner'
  <2>1. /\ c \in Threads
        /\ count' = count - 1 /\ count \in Nat \ {0} /\ Contents # <<>>
        /\ Contents' = Tail(Contents)
        /\ job' = [job EXCEPT ![c] = Contents[1]]
    <3>1. /\ Contents # <<>> /\ items[head] = Contents[1]
          /\ Contents' = Tail(Contents)
      BY <1>1, <1>5, PopTakesHead
    <3>2. count \in Nat \ {0}
      BY <1>1, <3>1
    <3> QED BY <1>5, <3>1, <3>2 DEF PopTake, Threads
  <2>2. \A i \in 1 .. count - 1 :
           Contents'[i] = Contents[i + 1] /\ i + 1 \in 1 .. count /\ i + 1 # 1
    BY <1>1, <2>1, TailShifts
  <2>3. 1 \in 1 .. count /\ Contents[1] \in Jobs
    BY <1>1, <2>1
  <2>4. \A i, k \in 1 .. count - 1 : Contents'[i] = Contents'[k] => i = k
    BY <1>1, <2>1, <2>2
  <2>5. \A i \in 1 .. count - 1, t \in Threads : Contents'[i] # job'[t]
    BY <1>1, <2>1, <2>2, <2>3
  <2>6. \A t, u \in Threads : job'[t] = job'[u] /\ job'[t] # NoJob => t = u
    BY <1>1, <2>1, <2>3
  <2> QED BY <2>1, <2>4, <2>5, <2>6
<1>6. ASSUME NEW t \in Threads, PushRefused(t) \/ CallPop(t) PROVE OneOwner'
  BY <1>2, <1>6, OthersKeepRing DEF PushRefused, CallPop
<1>7. ASSUME NEW t \in Threads, PushWait(t) \/ PopWait(t) \/ PopEnd(t) \/ SpuriousWakeup(t)
      PROVE  OneOwner'
  BY <1>2, <1>7, OthersKeepRing DEF PushWait, PopWait, PopEnd, SpuriousWakeup
<1>8. CASE Stop \/ UNCHANGED vars
  BY <1>2, <1>8, OthersKeepRing DEF Stop, vars
<1> HIDE DEF OneOwner
<1> QED
  BY <1>3, <1>4, <1>5, <1>6, <1>7, <1>8 DEF Next, Threads

\* A connection is in one slot of the ring or with one thread and nowhere else,
\* for every ring size and however often the indices have wrapped: no client is
\* answered twice and no descriptor closed twice (queue.c:21-23, 38-40).
THEOREM OneOwnerCorrect == SafeSpec => []OneOwner
<1>1. Init => OneOwner
  BY DEF Init, OneOwner
<1>2. RingInv /\ OneOwner /\ [Next]_vars => OneOwner'
  BY NextOneOwner
<1> QED BY <1>1, <1>2, InitRingInv, NextRingInv, PTL DEF SafeSpec

-----------------------------------------------------------------------------
(* The ring implements the closable queue *)

LEMMA InitFifo == Init => Fifo!Init
<1> SUFFICES ASSUME Init PROVE Fifo!Init
  OBVIOUS
<1>1. Contents = <<>>
  BY DEF Init, Contents
<1>2. HandOf = [t \in Threads |-> NoJob]
  BY DEF Init, HandOf
<1> QED BY <1>1, <1>2 DEF Init, Fifo!Init, Fifo!Threads, Threads

\* Who holds what, as the abstract queue sees it, when the threads only change
\* state without ending or being given a job.
LEMMA HandKept ==
  ASSUME UNCHANGED job, \A t \in Threads : at[t] = "ended" <=> at'[t] = "ended"
  PROVE  UNCHANGED HandOf
  BY DEF HandOf

\* Thread t alone gets another job.
LEMMA HandMoved ==
  ASSUME NEW t \in Threads, NEW j, job \in [Threads -> Jobs \cup {NoJob}],
         job' = [job EXCEPT ![t] = j], at'[t] # "ended",
         \A u \in Threads : at[u] = "ended" <=> at'[u] = "ended"
  PROVE  HandOf' = [HandOf EXCEPT ![t] = j]
  BY DEF HandOf

\* A step of queue.c is a step of the abstract queue, or none: waiting and
\* waking are invisible, the code between lock and unlock is atomic.
LEMMA NextFifo ==
  ASSUME RingInv, [Next]_vars
  PROVE  [Fifo!Next]_(Fifo!qvars)
<1>1. /\ Contents \in Seq(Jobs) /\ Len(Contents) = count
      /\ job \in [Threads -> Jobs \cup {NoJob}] /\ at \in [Threads -> ThreadStates]
      /\ HandsInv
  BY ContentsLength DEF RingInv, TypeOK, HandsInv
<1>2. /\ Producers \subseteq Threads /\ Consumers \subseteq Threads
      /\ Producers \cap Consumers = {}
      /\ NoJob \notin Jobs /\ EndOfQueue \notin Jobs
  BY ThreadAssumption, JobAssumption DEF Threads
<1> USE DEF ThreadStates
<1>3. ASSUME NEW p \in Producers, NEW j \in Jobs, CallPush(p, j) PROVE Fifo!Submit(p, j)
  <2>1. HandOf' = [HandOf EXCEPT ![p] = j] /\ HandOf[p] = NoJob
    BY <1>1, <1>2, <1>3, HandMoved DEF CallPush, HandOf, HandsInv
  <2>2. UNCHANGED <<Contents, stop>>
    BY <1>3, OthersKeepRing DEF CallPush
  <2>3. j \notin {Contents[i] : i \in 1 .. Len(Contents)} \cup {HandOf[t] : t \in Threads}
    BY <1>1, <1>2, <1>3, InUseContents DEF CallPush, HandOf
  <2> QED BY <2>1, <2>2, <2>3 DEF Fifo!Submit, Fifo!InFlight, Fifo!Threads, Threads
<1>4. ASSUME NEW p \in Producers, PushRefused(p) PROVE Fifo!Refuse(p)
  <2>1. HandOf' = [HandOf EXCEPT ![p] = NoJob] /\ HandOf[p] # NoJob
    BY <1>1, <1>2, <1>4, HandMoved DEF PushRefused, HandOf, HandsInv
  <2>2. UNCHANGED <<Contents, stop>> /\ stop
    BY <1>4, OthersKeepRing DEF PushRefused
  <2> QED BY <2>1, <2>2 DEF Fifo!Refuse
<1>5. ASSUME NEW p \in Producers, PushStore(p) PROVE Fifo!Put(p)
  <2>1. PICK woken : /\ \A t \in woken : t \in Consumers /\ at[t] = "waiting"
                     /\ Move(p, "idle", woken)
    BY <1>5 DEF PushStore, Signalled, In
  <2>2. HandOf' = [HandOf EXCEPT ![p] = NoJob] /\ HandOf[p] = job[p] /\ job[p] # NoJob
    BY <1>1, <1>2, <1>5, <2>1, HandMoved DEF PushStore, Move, HandOf, HandsInv
  <2>3. Contents' = Append(Contents, job[p]) /\ UNCHANGED stop /\ ~stop
    BY <1>5, PushAppends DEF PushStore
  <2>4. Len(Contents) < Depth
    BY <1>1, <1>5, DepthAssumption DEF PushStore, Full, RingInv, TypeOK
  <2> QED BY <2>2, <2>3, <2>4 DEF Fifo!Put
<1>6. ASSUME NEW c \in Consumers, CallPop(c) PROVE Fifo!Finish(c)
  <2>1. HandOf' = [HandOf EXCEPT ![c] = NoJob] /\ HandOf[c] \in Jobs
    BY <1>1, <1>2, <1>6, HandMoved DEF CallPop, HandOf, HandsInv
  <2>2. UNCHANGED <<Contents, stop>>
    BY <1>6, OthersKeepRing DEF CallPop
  <2> QED BY <2>1, <2>2 DEF Fifo!Finish
<1>7. ASSUME NEW c \in Consumers, PopEnd(c) PROVE Fifo!TakeEnd(c)
  <2>1. HandOf' = [HandOf EXCEPT ![c] = EndOfQueue] /\ HandOf[c] = NoJob
    BY <1>1, <1>2, <1>7 DEF PopEnd, HandOf, HandsInv
  <2>2. UNCHANGED <<Contents, stop>> /\ stop /\ count = 0
    BY <1>7, OthersKeepRing DEF PopEnd, PopRefused
  <2>3. Contents = <<>>
    BY <1>1, <2>2
  <2> QED BY <2>1, <2>2, <2>3 DEF Fifo!TakeEnd
<1>8. ASSUME NEW c \in Consumers, PopTake(c) PROVE Fifo!Take(c)
  <2>1. PICK woken : /\ \A t \in woken : t \in Producers /\ at[t] = "waiting"
                     /\ Move(c, "idle", woken)
    BY <1>8 DEF PopTake, Signalled, In
  <2>2. /\ HandOf' = [HandOf EXCEPT ![c] = items[head]]
        /\ HandOf[c] = NoJob
    BY <1>1, <1>2, <1>8, <2>1, HandMoved DEF PopTake, Move, HandOf, HandsInv
  <2>3. /\ Contents' = Tail(Contents) /\ items[head] = Head(Contents) /\ Contents # <<>>
        /\ UNCHANGED stop
    BY <1>8, PopTakesHead DEF PopTake
  <2> QED BY <2>2, <2>3 DEF Fifo!Take
<1>9. CASE Stop
  <2>1. UNCHANGED <<Contents, HandOf>>
    BY <1>1, <1>9, HandKept, OthersKeepRing DEF Stop, Broadcast, In
  <2> QED BY <1>9, <2>1 DEF Stop, Fifo!Close, Fifo!Next
<1>10. ASSUME NEW t \in Threads, PushWait(t) \/ PopWait(t) \/ SpuriousWakeup(t)
       PROVE  UNCHANGED Fifo!qvars
  BY <1>1, <1>10, HandKept, OthersKeepRing DEF PushWait, PopWait, SpuriousWakeup, Fifo!qvars
<1>11. CASE UNCHANGED vars
  BY <1>11, HandKept, OthersKeepRing DEF vars, Fifo!qvars
<1> QED
  BY <1>2, <1>3, <1>4, <1>5, <1>6, <1>7, <1>8, <1>9, <1>10, <1>11 DEF Next, Fifo!Next

\* queue.c implements the closable first-in first-out queue that server.c
\* relies on, for every ring size, every number of threads and every schedule:
\* order is kept, nothing is lost, doubled or refused before queue_stop, and no
\* worker is dismissed while a job is queued (queue.c:11-52).
THEOREM ImplementsFifoCorrect == SafeSpec => ImplementsFifo
<1>1. RingInv /\ [Next]_vars => [Fifo!Next]_(Fifo!qvars)
  BY NextFifo
<1> QED
  BY <1>1, InitFifo, InitRingInv, NextRingInv, PTL DEF SafeSpec, ImplementsFifo, Fifo!SafeSpec

=============================================================================
