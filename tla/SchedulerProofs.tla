-------------------------- MODULE SchedulerProofs --------------------------
(***************************************************************************)
(* Theorems about Scheduler for every registry, also one in which several  *)
(* entries have one id, every finite set of workers and every set of       *)
(* requests.                                                               *)
(***************************************************************************)
EXTENDS Scheduler, Descent, FiniteSetTheorems

-----------------------------------------------------------------------------
(* The registry's operators *)

LEMMA CIntRange == /\ IntMin \in Int /\ IntMax \in Int /\ IntMin <= -IntMax /\ IntMin <= 0
                   /\ \A x \in CInt : x \in Int /\ x >= IntMin /\ x <= IntMax
<1>1. IntMin \in Int /\ IntMax \in Int /\ IntMin <= -IntMax /\ IntMin <= 0
  BY DEF IntMin, IntMax
<1> QED
  BY <1>1 DEF CInt

\* What the configuration loader put into a slot (resource.h:13-25).
LEMMA SlotType == \A s \in Slots : Devices[s].max \in Int /\ Devices[s].id \in Nat
<1> SUFFICES ASSUME NEW s \in Slots PROVE Devices[s].max \in Int /\ Devices[s].id \in Nat
  OBVIOUS
<1>1. Devices[s] \in DeviceRecords
  BY RegistryAssumption DEF Slots
<1>2. Devices[s].max \in CInt /\ Devices[s].id \in Nat
  BY <1>1 DEF DeviceRecords
<1> QED
  BY <1>2, CIntRange

\* registry_acquire_candidate returns a registered device with room for one
\* more request (resource.c:98 and 117).
LEMMA ChoiceHasRoom ==
  ASSUME NEW w, NEW s \in Choice(w)
  PROVE  s \in Slots /\ inflight[s] < Devices[s].max
  BY DEF Choice, Candidate, First, Best, Available

\* registry_release changes the counter of a device whose id is its own when
\* that very device is given back, and not otherwise (resource.c:139).
LEMMA ReleaseFinds ==
  ASSUME NEW s \in Slots, OwnId(s), NEW d \in Slots, inflight \in [Slots -> Nat]
  PROVE  Release(inflight, d)[s] =
           IF d = s /\ inflight[s] > 0 THEN inflight[s] - 1 ELSE inflight[s]
<1>1. CASE d = s
  <2>1. First(Namesakes(s)) = {s}
    BY DEF OwnId, First, Slots
  <2> QED
    BY <1>1, <2>1 DEF Release
<1>2. CASE d # s
  <2>1. d \notin Namesakes(s)
    BY <1>2 DEF OwnId
  <2>2. s \notin First(Namesakes(d))
    BY <2>1 DEF Namesakes, First
  <2> QED
    BY <1>2, <2>2 DEF Release
<1> QED
  BY <1>1, <1>2

\* Release decrements one counter and never below zero (resource.c:140-142).
LEMMA ReleaseType ==
  ASSUME NEW s \in Slots, inflight \in [Slots -> Nat]
  PROVE  Release(inflight, s) \in [Slots -> Nat]
  BY DEF Release

\* The holders of a device are some of the workers.
LEMMA HoldersFinite ==
  ASSUME NEW s
  PROVE  IsFiniteSet(Holders(s)) /\ Cardinality(Holders(s)) \in Nat
<1>1. Holders(s) \subseteq Workers
  BY DEF Holders
<1> QED
  BY <1>1, WorkersAssumption, FS_Subset, FS_CardinalityType

-----------------------------------------------------------------------------
(* Type correctness *)

LEMMA InitTypeOK == Init => TypeOK
  BY DEF Init, TypeOK, Locations, Statuses, OK

\* A step of scheduler_execute keeps the types, and keeps "a worker has a
\* device" the same as "it is between acquire and release".
LEMMA NextTypeOK == TypeOK /\ [Next]_vars => TypeOK'
<1> SUFFICES ASSUME TypeOK, [Next]_vars PROVE TypeOK'
  OBVIOUS
<1> USE DEF TypeOK, Locations, Statuses, OK, BadRequest, Unauthorized, BackendFail, NoResource
<1>1. ASSUME NEW w \in Workers, NEW r \in Requests, Denied(w, r) PROVE TypeOK'
  BY <1>1 DEF Denied, Begin, Answer
<1>2. ASSUME NEW w \in Workers, NEW r \in Requests, PinOk(w, r) PROVE TypeOK'
  BY <1>2 DEF PinOk, Begin, Answer
<1>3. ASSUME NEW w \in Workers, NEW r \in Requests, Malformed(w, r) PROVE TypeOK'
  BY <1>3 DEF Malformed, Begin, Answer
<1>4. ASSUME NEW w \in Workers, NEW r \in Requests, EmptySequence(w, r) PROVE TypeOK'
  BY <1>4 DEF EmptySequence, Begin, Answer
<1>5. ASSUME NEW w \in Workers, NEW r \in Requests, Start(w, r) PROVE TypeOK'
  BY <1>5 DEF Start, Begin
<1>6. ASSUME NEW w \in Workers, Acquire(w) PROVE TypeOK'
  <2>1. PICK s \in Choice(w) : /\ inflight' = [inflight EXCEPT ![s] = @ + 1]
                               /\ dev' = [dev EXCEPT ![w] = s]
    BY <1>6 DEF Acquire
  <2>2. s \in Slots /\ s # 0
    BY <2>1, ChoiceHasRoom DEF Slots
  <2> QED
    BY <1>6, <2>1, <2>2 DEF Acquire
<1>7. ASSUME NEW w \in Workers, NoDevice(w) PROVE TypeOK'
  BY <1>7 DEF NoDevice, AnswerError, Answer, FailStatus
<1>8. ASSUME NEW w \in Workers, Execute(w) PROVE TypeOK'
  <2>1. PICK g \in BOOLEAN : good' = [good EXCEPT ![w] = g]
    BY <1>8 DEF Execute, Outcomes
  <2> QED
    BY <1>8, <2>1 DEF Execute
<1>9. ASSUME NEW w \in Workers, GiveBack(w)
      PROVE  /\ dev[w] \in Slots
             /\ inflight' \in [Slots -> Nat]
             /\ dev' = [dev EXCEPT ![w] = 0]
             /\ good' \in [Workers -> BOOLEAN]
             /\ req' = req
             /\ pc[w] = "release"
  <2>1. dev[w] \in Slots
    BY <1>9 DEF GiveBack
  <2> QED
    BY <1>9, <2>1, ReleaseType DEF GiveBack
<1>10. ASSUME NEW w \in Workers, StepFailed(w) PROVE TypeOK'
  <2>1. GiveBack(w) /\ AnswerError(w, FailStatus(req[w]))
    BY <1>10 DEF StepFailed
  <2>2. FailStatus(req[w]) \in Statuses
    BY DEF FailStatus
  <2>3. /\ inflight' \in [Slots -> Nat]
        /\ dev' = [dev EXCEPT ![w] = 0]
        /\ good' \in [Workers -> BOOLEAN]
        /\ req' = req
    BY <2>1, <1>9
  <2> QED
    BY <2>1, <2>2, <2>3 DEF AnswerError, Answer
<1>11. ASSUME NEW w \in Workers, NextStep(w) PROVE TypeOK'
  <2>1. GiveBack(w) /\ selected' = [selected EXCEPT ![w] = Append(@, dev[w])]
    BY <1>11 DEF NextStep, StepDone
  <2>2. selected' \in [Workers -> Seq(Slots)]
    BY <2>1, <1>9
  <2>3. /\ inflight' \in [Slots -> Nat]
        /\ dev' = [dev EXCEPT ![w] = 0]
        /\ good' \in [Workers -> BOOLEAN]
        /\ req' = req
    BY <2>1, <1>9
  <2> QED
    BY <1>11, <2>2, <2>3 DEF NextStep
<1>12. ASSUME NEW w \in Workers, LastStep(w) PROVE TypeOK'
  <2>1. GiveBack(w) /\ selected' = [selected EXCEPT ![w] = Append(@, dev[w])]
    BY <1>12 DEF LastStep, StepDone
  <2>2. selected' \in [Workers -> Seq(Slots)]
    BY <2>1, <1>9
  <2>3. /\ inflight' \in [Slots -> Nat]
        /\ dev' = [dev EXCEPT ![w] = 0]
        /\ good' \in [Workers -> BOOLEAN]
        /\ req' = req
    BY <2>1, <1>9
  <2> QED
    BY <1>12, <2>2, <2>3 DEF LastStep, Answer
<1>13. ASSUME NEW w \in Workers, Reset(w) PROVE TypeOK'
  BY <1>13 DEF Reset
<1>14. CASE UNCHANGED vars
  BY <1>14 DEF vars
<1> QED
  BY <1>1, <1>2, <1>3, <1>4, <1>5, <1>6, <1>7, <1>8, <1>10, <1>11, <1>12, <1>13, <1>14 DEF Next

\* Every state of the scheduler is well typed; no worker keeps a device
\* outside of execute_single_step, on whatever path it left it.
THEOREM TypeCorrect == SafeSpec => []TypeOK
  BY InitTypeOK, NextTypeOK, PTL DEF SafeSpec

-----------------------------------------------------------------------------
(* The in-flight counters *)

\* Worker w acquires device s.
Takes(w, s) ==
  /\ dev[w] = 0
  /\ s \in Slots /\ inflight[s] < Devices[s].max
  /\ inflight' = [inflight EXCEPT ![s] = @ + 1]
  /\ dev' = [dev EXCEPT ![w] = s]

\* Worker w gives device s back.
GivesBack(w, s) ==
  /\ dev[w] = s
  /\ s \in Slots
  /\ inflight' = Release(inflight, s)
  /\ dev' = [dev EXCEPT ![w] = 0]

\* Counters and devices change together, in Acquire and in GiveBack alone: the
\* three calls of registry_release in execute_single_step cover every way out.
LEMMA DeviceMoves ==
  ASSUME TypeOK, [Next]_vars
  PROVE  \/ UNCHANGED <<inflight, dev>>
         \/ \E w \in Workers, s \in Slots : Takes(w, s)
         \/ \E w \in Workers, s \in Slots : GivesBack(w, s)
<1>1. ASSUME NEW w \in Workers, Acquire(w)
      PROVE  \E s \in Slots : Takes(w, s)
  <2>1. PICK s \in Choice(w) : /\ inflight' = [inflight EXCEPT ![s] = @ + 1]
                               /\ dev' = [dev EXCEPT ![w] = s]
    BY <1>1 DEF Acquire
  <2>2. dev[w] = 0
    BY <1>1 DEF Acquire, TypeOK
  <2> QED
    BY <2>1, <2>2, ChoiceHasRoom DEF Takes
<1>2. ASSUME NEW w \in Workers, GiveBack(w)
      PROVE  \E s \in Slots : GivesBack(w, s)
  <2>1. dev[w] \in Slots
    BY <1>2 DEF GiveBack, TypeOK
  <2> QED
    BY <1>2, <2>1 DEF GiveBack, GivesBack
<1>3. ASSUME NEW w \in Workers, StepFailed(w) \/ NextStep(w) \/ LastStep(w)
      PROVE  GiveBack(w)
  BY <1>3 DEF StepFailed, NextStep, LastStep, StepDone
<1>4. ASSUME NEW w \in Workers, NEW r \in Requests,
             Denied(w, r) \/ PinOk(w, r) \/ Malformed(w, r) \/ EmptySequence(w, r) \/ Start(w, r)
      PROVE  UNCHANGED <<inflight, dev>>
  BY <1>4 DEF Denied, PinOk, Malformed, EmptySequence, Start, Begin
<1>5. ASSUME NEW w \in Workers, NoDevice(w) \/ Execute(w) \/ Reset(w)
      PROVE  UNCHANGED <<inflight, dev>>
  BY <1>5 DEF NoDevice, Execute, Reset
<1>6. CASE UNCHANGED vars
  BY <1>6 DEF vars
<1> QED
  BY <1>1, <1>2, <1>3, <1>4, <1>5, <1>6 DEF Next

\* What the registry's limit rests on: exact counters, and no device with more
\* holders than its limit.
CountInv == InflightExact /\ NeverOverbooked

LEMMA InitCountInv == Init => CountInv
<1> SUFFICES ASSUME Init PROVE CountInv
  OBVIOUS
<1>1. ASSUME NEW s \in Slots PROVE Holders(s) = {}
  BY DEF Init, Holders, Slots
<1> QED
  BY <1>1, FS_EmptySet DEF Init, CountInv, InflightExact, NeverOverbooked

LEMMA NextCountInv ==
  ASSUME TypeOK, CountInv, [Next]_vars
  PROVE  CountInv'
<1> DEFINE Sound(s) == /\ inflight[s] = Cardinality(Holders(s))
                       /\ Holders(s) # {} => Cardinality(Holders(s)) <= Devices[s].max
<1>1. SUFFICES ASSUME NEW s \in Slots, OwnId(s) PROVE Sound(s)'
  BY DEF OwnId, Namesakes, CountInv, InflightExact, NeverOverbooked
<1>2. Sound(s)
  BY <1>1 DEF CountInv, InflightExact, NeverOverbooked
<1>3. IsFiniteSet(Holders(s)) /\ Cardinality(Holders(s)) \in Nat
  BY HoldersFinite
<1>4. inflight[s] \in Nat /\ Devices[s].max \in Int
  BY SlotType DEF TypeOK
<1>5. CASE UNCHANGED <<inflight, dev>>
  BY <1>2, <1>5 DEF Holders
<1>6. ASSUME NEW w \in Workers, NEW d \in Slots, Takes(w, d)
      PROVE  Sound(s)'
  <2>1. CASE s = d
    <3>1. Holders(s)' = Holders(s) \cup {w} /\ w \notin Holders(s)
      BY <1>6, <2>1 DEF Takes, Holders, TypeOK, Slots
    <3>2. Cardinality(Holders(s)') = Cardinality(Holders(s)) + 1
      BY <3>1, <1>3, FS_AddElement
    <3>3. inflight'[s] = inflight[s] + 1 /\ inflight[s] < Devices[s].max
      BY <1>6, <2>1 DEF Takes, TypeOK
    <3>4. Cardinality(Holders(s)') <= Devices[s].max
      BY <1>2, <1>3, <1>4, <3>2, <3>3
    <3> QED
      BY <1>2, <3>2, <3>3, <3>4
  <2>2. CASE s # d
    <3>1. Holders(s)' = Holders(s)
      BY <1>6, <2>2 DEF Takes, Holders, TypeOK, Slots
    <3>2. inflight'[s] = inflight[s]
      BY <1>6, <2>2 DEF Takes, TypeOK
    <3> QED
      BY <1>2, <3>1, <3>2
  <2> QED
    BY <2>1, <2>2
<1>7. ASSUME NEW w \in Workers, NEW d \in Slots, GivesBack(w, d)
      PROVE  Sound(s)'
  <2>1. CASE s = d
    <3>1. Holders(s)' = Holders(s) \ {w} /\ w \in Holders(s)
      BY <1>7, <2>1 DEF GivesBack, Holders, TypeOK, Slots
    <3>2. Cardinality(Holders(s)') = Cardinality(Holders(s)) - 1
      BY <3>1, <1>3, FS_RemoveElement
    <3>3. Cardinality(Holders(s)) # 0
      BY <3>1, <1>3, FS_EmptySet
    <3>4. inflight'[s] = IF inflight[s] > 0 THEN inflight[s] - 1 ELSE inflight[s]
      BY <1>1, <1>7, <2>1, ReleaseFinds DEF GivesBack, TypeOK
    <3>5. inflight'[s] = Cardinality(Holders(s)')
      BY <1>2, <1>3, <1>4, <3>2, <3>3, <3>4
    <3>6. Cardinality(Holders(s)') <= Devices[s].max
      <4>1. Cardinality(Holders(s)) <= Devices[s].max
        BY <1>2, <3>1
      <4> QED
        BY <4>1, <1>3, <1>4, <3>2
    <3> QED
      BY <3>5, <3>6
  <2>2. CASE s # d
    <3>1. Holders(s)' = Holders(s)
      BY <1>7, <2>2 DEF GivesBack, Holders, TypeOK, Slots
    <3>2. inflight'[s] = inflight[s]
      BY <1>1, <1>7, <2>2, ReleaseFinds DEF GivesBack, TypeOK
    <3> QED
      BY <1>2, <3>1, <3>2
  <2> QED
    BY <2>1, <2>2
<1> QED
  BY <1>5, <1>6, <1>7, DeviceMoves

\* The counters never drift: whatever fails, inflight is the number of workers
\* that hold the device.
THEOREM InflightExactCorrect == SafeSpec => []InflightExact
<1>1. Init => TypeOK /\ CountInv
  BY InitTypeOK, InitCountInv
<1>2. TypeOK /\ CountInv /\ [Next]_vars => (TypeOK /\ CountInv)'
  BY NextTypeOK, NextCountInv
<1>3. TypeOK /\ CountInv => InflightExact
  BY DEF CountInv
<1> QED
  BY <1>1, <1>2, <1>3, PTL DEF SafeSpec

\* No device executes more requests at a time than its max_inflight.
THEOREM NeverOverbookedCorrect == SafeSpec => []NeverOverbooked
<1>1. Init => TypeOK /\ CountInv
  BY InitTypeOK, InitCountInv
<1>2. TypeOK /\ CountInv /\ [Next]_vars => (TypeOK /\ CountInv)'
  BY NextTypeOK, NextCountInv
<1>3. TypeOK /\ CountInv => NeverOverbooked
  BY DEF CountInv
<1> QED
  BY <1>1, <1>2, <1>3, PTL DEF SafeSpec

-----------------------------------------------------------------------------
(* Sums over a set of devices *)

Pick(T) == CHOOSE x \in T : TRUE

\* What the definition of MapThenFoldSet asks of its table.
IsSumOn(table, f, D) ==
  table = [T \in D |-> IF T = {} THEN 0 ELSE f[Pick(T)] + table[T \ {Pick(T)}]]

LEMMA PickLess ==
  ASSUME NEW S, IsFiniteSet(S), NEW T \in SUBSET S, T # {}
  PROVE  /\ Pick(T) \in T /\ T \ {Pick(T)} \in SUBSET S
         /\ Cardinality(T) \in Nat \ {0}
         /\ Cardinality(T \ {Pick(T)}) = Cardinality(T) - 1
<1>1. IsFiniteSet(T)
  BY FS_Subset
<1>2. Pick(T) \in T
  BY DEF Pick
<1>3. Cardinality(T) \in Nat /\ Cardinality(T) # 0
  BY <1>1, FS_CardinalityType, FS_EmptySet
<1>4. Cardinality(T \ {Pick(T)}) = Cardinality(T) - 1
  BY <1>1, <1>2, FS_RemoveElement
<1> QED
  BY <1>2, <1>3, <1>4

\* Induction over the subsets, one element after the other.
LEMMA Grow ==
  ASSUME NEW S, IsFiniteSet(S), NEW U, {} \in U,
         \A T \in SUBSET S : T # {} /\ T \ {Pick(T)} \in U => T \in U
  PROVE  SUBSET S \subseteq U
<1> DEFINE K == {n \in Nat : \A T \in SUBSET S : Cardinality(T) = n => T \in U}
<1>0. \A T \in SUBSET S : IsFiniteSet(T) /\ Cardinality(T) \in Nat
  BY FS_Subset, FS_CardinalityType
<1>1. 0 \in K
  BY <1>0, FS_EmptySet
<1>2. ASSUME NEW n \in Nat \ {0}, n - 1 \in K PROVE n \in K
  <2>1. SUFFICES ASSUME NEW T \in SUBSET S, Cardinality(T) = n PROVE T \in U
    OBVIOUS
  <2>2. T # {}
    BY <2>1, FS_EmptySet
  <2>3. T \ {Pick(T)} \in SUBSET S /\ Cardinality(T \ {Pick(T)}) = n - 1
    BY <2>1, <2>2, PickLess
  <2>4. T \ {Pick(T)} \in U
    BY <1>2, <2>3
  <2> QED
    BY <2>2, <2>4
<1> HIDE DEF K
<1>3. Nat \subseteq K
  BY <1>1, <1>2, Climb
<1> QED
  BY <1>0, <1>3 DEF K

LEMMA SumExists ==
  ASSUME NEW S, IsFiniteSet(S), NEW f
  PROVE  \E table : IsSumOn(table, f, SUBSET S)
<1> DEFINE Below(n) == {T \in SUBSET S : Cardinality(T) <= n}
           K == {n \in Nat : \E table : IsSumOn(table, f, Below(n))}
<1>0. \A T \in SUBSET S : IsFiniteSet(T) /\ Cardinality(T) \in Nat /\ Cardinality(T) <= Cardinality(S)
  BY FS_Subset, FS_CardinalityType
<1>0a. Cardinality(S) \in Nat
  BY FS_CardinalityType
<1>1. 0 \in K
  <2>1. \A T \in Below(0) : T = {}
    BY <1>0, FS_EmptySet
  <2>2. [T \in Below(0) |-> 0] =
          [T \in Below(0) |-> IF T = {} THEN 0
                              ELSE f[Pick(T)] + [R \in Below(0) |-> 0][T \ {Pick(T)}]]
    BY <2>1
  <2>3. IsSumOn([T \in Below(0) |-> 0], f, Below(0))
    BY <2>2 DEF IsSumOn
  <2> QED
    BY <2>3
<1>2. ASSUME NEW n \in Nat \ {0}, n - 1 \in K PROVE n \in K
  <2>1. PICK g : IsSumOn(g, f, Below(n - 1))
    BY <1>2
  <2> DEFINE h == [T \in Below(n) |-> IF T = {} THEN 0 ELSE f[Pick(T)] + g[T \ {Pick(T)}]]
  <2>2. ASSUME NEW T \in Below(n - 1) PROVE T \in Below(n) /\ h[T] = g[T]
    <3>1. T \in Below(n)
      BY <1>0
    <3> HIDE DEF Below
    <3> QED
      BY <2>1, <3>1 DEF IsSumOn
  <2>3. ASSUME NEW T \in Below(n)
        PROVE  h[T] = IF T = {} THEN 0 ELSE f[Pick(T)] + h[T \ {Pick(T)}]
    <3>1. ASSUME T # {} PROVE T \ {Pick(T)} \in Below(n - 1)
      BY <1>0, <3>1, PickLess
    <3> HIDE DEF Below
    <3> QED
      BY <3>1, <2>2
  <2>4. h = [T \in Below(n) |-> h[T]]
    OBVIOUS
  <2> HIDE DEF h, Below
  <2>5. IsSumOn(h, f, Below(n))
    BY <2>3, <2>4 DEF IsSumOn
  <2> QED
    BY <2>5
<1>3. Below(Cardinality(S)) = SUBSET S
  BY <1>0
<1> HIDE DEF K
<1>4. Nat \subseteq K
  BY <1>1, <1>2, Climb
<1>5. Cardinality(S) \in K
  BY <1>4, <1>0a
<1> HIDE DEF Below
<1> QED
  BY <1>3, <1>5 DEF K

\* A table of partial sums for Total, and the two equations it satisfies.
PartialSums(sum, f, S) ==
  /\ sum[{}] = 0
  /\ \A T \in SUBSET S : T # {} => sum[T] = f[Pick(T)] + sum[T \ {Pick(T)}]

LEMMA TotalTable ==
  ASSUME NEW S, IsFiniteSet(S), NEW f
  PROVE  \E sum : Total(f, S) = sum[S] /\ PartialSums(sum, f, S)
<1> DEFINE sum == CHOOSE table : IsSumOn(table, f, SUBSET S)
<1>1. IsSumOn(sum, f, SUBSET S)
  BY SumExists
<1>2. Total(f, S) = sum[S]
  BY DEF Total, MapThenSumSet, MapThenFoldSet, IsSumOn, Pick
<1> HIDE DEF sum
<1>3. \A T \in SUBSET S : sum[T] = IF T = {} THEN 0 ELSE f[Pick(T)] + sum[T \ {Pick(T)}]
  BY <1>1, Zenon DEF IsSumOn
<1>4. PartialSums(sum, f, S)
  BY <1>3 DEF PartialSums
<1> QED
  BY <1>2, <1>4

\* Sums of counters are counters, and of greater counters greater.
LEMMA TotalMonotone ==
  ASSUME NEW S, IsFiniteSet(S), NEW f, NEW h,
         \A x \in S : f[x] \in Nat /\ h[x] \in Nat /\ f[x] <= h[x]
  PROVE  Total(f, S) \in Nat /\ Total(h, S) \in Nat /\ Total(f, S) <= Total(h, S)
<1>1. PICK F : Total(f, S) = F[S] /\ PartialSums(F, f, S)
  BY TotalTable
<1>2. PICK H : Total(h, S) = H[S] /\ PartialSums(H, h, S)
  BY TotalTable
<1> DEFINE U == {T \in SUBSET S : F[T] \in Nat /\ H[T] \in Nat /\ F[T] <= H[T]}
<1>3. {} \in U
  BY <1>1, <1>2 DEF PartialSums
<1>4. ASSUME NEW T \in SUBSET S, T # {}, T \ {Pick(T)} \in U PROVE T \in U
  <2>1. Pick(T) \in S
    BY <1>4, PickLess
  <2>2. /\ F[T \ {Pick(T)}] \in Nat /\ H[T \ {Pick(T)}] \in Nat
        /\ F[T \ {Pick(T)}] <= H[T \ {Pick(T)}]
    BY <1>4
  <2>3. F[T] = f[Pick(T)] + F[T \ {Pick(T)}] /\ H[T] = h[Pick(T)] + H[T \ {Pick(T)}]
    BY <1>1, <1>2, <1>4 DEF PartialSums
  <2>4. F[T] \in Nat /\ H[T] \in Nat /\ F[T] <= H[T]
    BY <2>1, <2>2, <2>3
  <2> QED
    BY <2>4
<1> HIDE DEF U
<1>5. SUBSET S \subseteq U
  BY <1>3, <1>4, Grow
<1>6. S \in U
  BY <1>5
<1> QED
  BY <1>1, <1>2, <1>6 DEF U

\* A sum changes by what one of its terms changes.
LEMMA TotalChange ==
  ASSUME NEW S, IsFiniteSet(S), NEW f, NEW h, NEW p, NEW d \in Int,
         \A x \in S : f[x] \in Int /\ h[x] = IF x = p THEN f[x] + d ELSE f[x]
  PROVE  Total(f, S) \in Int /\ Total(h, S) = IF p \in S THEN Total(f, S) + d ELSE Total(f, S)
<1>1. PICK F : Total(f, S) = F[S] /\ PartialSums(F, f, S)
  BY TotalTable
<1>2. PICK H : Total(h, S) = H[S] /\ PartialSums(H, h, S)
  BY TotalTable
<1> DEFINE U == {T \in SUBSET S : F[T] \in Int /\ H[T] = IF p \in T THEN F[T] + d ELSE F[T]}
<1>3. {} \in U
  BY <1>1, <1>2 DEF PartialSums
<1>4. ASSUME NEW T \in SUBSET S, T # {}, T \ {Pick(T)} \in U PROVE T \in U
  <2>1. Pick(T) \in S /\ Pick(T) \in T
    BY <1>4, PickLess
  <2>2. /\ F[T \ {Pick(T)}] \in Int
        /\ H[T \ {Pick(T)}] = IF p \in T \ {Pick(T)} THEN F[T \ {Pick(T)}] + d ELSE F[T \ {Pick(T)}]
    BY <1>4
  <2>3. F[T] = f[Pick(T)] + F[T \ {Pick(T)}] /\ H[T] = h[Pick(T)] + H[T \ {Pick(T)}]
    BY <1>1, <1>2, <1>4 DEF PartialSums
  <2>4. CASE Pick(T) = p
    BY <2>1, <2>2, <2>3, <2>4
  <2>5. CASE Pick(T) # p
    BY <2>1, <2>2, <2>3, <2>5
  <2> QED
    BY <2>4, <2>5
<1> HIDE DEF U
<1>5. SUBSET S \subseteq U
  BY <1>3, <1>4, Grow
<1>6. S \in U
  BY <1>5
<1> QED
  BY <1>1, <1>2, <1>6 DEF U

-----------------------------------------------------------------------------
(***************************************************************************)
(* Devices of one id.  Their counters may be mixed up, but together they   *)
(* count at least the workers that hold one of them, and each of them is   *)
(* within its own limit.                                                   *)
(***************************************************************************)
HoldersOfId(s) == {w \in Workers : dev[w] \in Namesakes(s)}

NamesakeInv ==
  /\ \A t \in Slots : inflight[t] <= Room[t]
  /\ \A s \in Slots : Cardinality(HoldersOfId(s)) <= Total(inflight, Namesakes(s))

LEMMA SlotsFacts ==
  /\ 0 \notin Slots /\ IsFiniteSet(Slots)
  /\ \A s \in Slots : /\ Room[s] \in Nat /\ IsFiniteSet(Namesakes(s))
                       /\ Namesakes(s) \subseteq Slots /\ s \in Namesakes(s)
<1>1. Len(Devices) \in Nat
  BY RegistryAssumption
<1>2. 0 \notin Slots /\ IsFiniteSet(Slots)
  BY <1>1, FS_Interval DEF Slots
<1>3. \A s \in Slots : Namesakes(s) \subseteq Slots /\ s \in Namesakes(s)
  BY DEF Namesakes
<1>4. \A s \in Slots : Room[s] \in Nat
  BY SlotType DEF Room
<1> QED
  BY <1>2, <1>3, <1>4, FS_Subset

\* registry_release decrements one counter of the id it is given, or none.
LEMMA ReleaseOne ==
  ASSUME inflight \in [Slots -> Nat], NEW d \in Slots
  PROVE  \/ Release(inflight, d) = inflight
         \/ \E p \in Namesakes(d) :
              inflight[p] > 0 /\ Release(inflight, d) = [inflight EXCEPT ![p] = @ - 1]
<1>1. CASE \E p \in First(Namesakes(d)) : inflight[p] > 0
  <2>1. PICK p \in First(Namesakes(d)) : inflight[p] > 0
    BY <1>1
  <2>2. p \in Namesakes(d) /\ p \in Slots
    BY <2>1, SlotsFacts DEF First
  <2>3. \A t \in First(Namesakes(d)) : t = p
    BY <2>1, SlotsFacts DEF First, Slots
  <2>4. Release(inflight, d) = [inflight EXCEPT ![p] = @ - 1]
    BY <2>1, <2>2, <2>3 DEF Release
  <2> QED
    BY <2>1, <2>2, <2>4
<1>2. CASE \A p \in First(Namesakes(d)) : ~(inflight[p] > 0)
  BY <1>2 DEF Release
<1> QED
  BY <1>1, <1>2

LEMMA InitNamesakeInv == Init => NamesakeInv
<1> SUFFICES ASSUME Init PROVE NamesakeInv
  OBVIOUS
<1>1. \A t \in Slots : inflight[t] = 0 /\ inflight[t] <= Room[t]
  BY SlotsFacts DEF Init
<1>2. ASSUME NEW s \in Slots PROVE Cardinality(HoldersOfId(s)) <= Total(inflight, Namesakes(s))
  <2>1. HoldersOfId(s) = {}
    BY SlotsFacts DEF Init, HoldersOfId
  <2>2. \A x \in Namesakes(s) : inflight[x] \in Nat /\ inflight[x] <= inflight[x]
    BY <1>1, SlotsFacts
  <2>3. Total(inflight, Namesakes(s)) \in Nat
    BY <2>2, SlotsFacts, TotalMonotone
  <2> QED
    BY <2>1, <2>3, FS_EmptySet
<1> QED
  BY <1>1, <1>2 DEF NamesakeInv

LEMMA NextNamesakeInv ==
  ASSUME TypeOK, NamesakeInv, [Next]_vars
  PROVE  NamesakeInv'
<1>0. inflight \in [Slots -> Nat] /\ dev \in [Workers -> Slots \cup {0}]
  BY DEF TypeOK
<1>1. CASE UNCHANGED <<inflight, dev>>
  BY <1>1 DEF NamesakeInv, HoldersOfId
<1>2. ASSUME NEW s \in Slots
      PROVE  /\ IsFiniteSet(HoldersOfId(s)) /\ Cardinality(HoldersOfId(s)) \in Nat
             /\ Cardinality(HoldersOfId(s)) <= Total(inflight, Namesakes(s))
             /\ IsFiniteSet(Namesakes(s)) /\ Namesakes(s) \subseteq Slots
             /\ \A x \in Namesakes(s) : inflight[x] \in Nat
  <2>1. HoldersOfId(s) \subseteq Workers
    BY DEF HoldersOfId
  <2>2. IsFiniteSet(HoldersOfId(s))
    BY <2>1, WorkersAssumption, FS_Subset
  <2> QED
    BY <2>2, <1>0, SlotsFacts, FS_CardinalityType DEF NamesakeInv
<1>3. ASSUME NEW w \in Workers, NEW d \in Slots, Takes(w, d)
      PROVE  NamesakeInv'
  <2>1. /\ dev[w] = 0 /\ inflight[d] < Devices[d].max
        /\ inflight' = [inflight EXCEPT ![d] = inflight[d] + 1] /\ dev' = [dev EXCEPT ![w] = d]
    BY <1>3 DEF Takes
  <2>2. ASSUME NEW t \in Slots PROVE inflight'[t] <= Room[t]
    <3>1. inflight[t] <= Room[t] /\ inflight[t] \in Nat /\ Room[t] \in Nat
      BY <1>0, SlotsFacts DEF NamesakeInv
    <3>2. CASE t = d
      <4>1. Room[d] = Devices[d].max
        BY <2>1, <3>1, <3>2, SlotType DEF Room
      <4> QED
        BY <4>1, <3>1, <3>2, <2>1, <1>0, SlotType
    <3>3. CASE t # d
      BY <3>1, <3>3, <2>1, <1>0
    <3> QED
      BY <3>2, <3>3
  <2>3. ASSUME NEW s \in Slots
        PROVE  Cardinality(HoldersOfId(s)') <= Total(inflight', Namesakes(s))
    <3>1. \A x \in Namesakes(s) : inflight[x] \in Int
                 /\ inflight'[x] = IF x = d THEN inflight[x] + 1 ELSE inflight[x]
      BY <2>1, <1>0, <1>2
    <3>2. /\ Total(inflight, Namesakes(s)) \in Int
          /\ Total(inflight', Namesakes(s)) =
                IF d \in Namesakes(s) THEN Total(inflight, Namesakes(s)) + 1
                ELSE Total(inflight, Namesakes(s))
      BY <3>1, <1>2, TotalChange
    <3>3. CASE d \in Namesakes(s)
      <4>1. HoldersOfId(s)' = HoldersOfId(s) \cup {w} /\ w \notin HoldersOfId(s)
        BY <3>3, <2>1, <1>0, SlotsFacts DEF HoldersOfId
      <4>2. Cardinality(HoldersOfId(s)') = Cardinality(HoldersOfId(s)) + 1
        BY <4>1, <1>2, FS_AddElement
      <4> QED
        BY <4>2, <3>2, <3>3, <1>2
    <3>4. CASE d \notin Namesakes(s)
      <4>1. HoldersOfId(s)' = HoldersOfId(s)
        BY <3>4, <2>1, <1>0, SlotsFacts DEF HoldersOfId
      <4> QED
        BY <4>1, <3>2, <3>4, <1>2
    <3> QED
      BY <3>3, <3>4
  <2> QED
    BY <2>2, <2>3 DEF NamesakeInv, Room, Namesakes
<1>4. ASSUME NEW w \in Workers, NEW d \in Slots, GivesBack(w, d)
      PROVE  NamesakeInv'
  <2>1. dev[w] = d /\ inflight' = Release(inflight, d) /\ dev' = [dev EXCEPT ![w] = 0]
    BY <1>4 DEF GivesBack
  <2>2. PICK p \in Namesakes(d), k \in {0, 1} :
           inflight' = [inflight EXCEPT ![p] = inflight[p] - k] /\ inflight[p] - k >= 0
    <3>1. CASE Release(inflight, d) = inflight
      <4>1. d \in Namesakes(d) /\ inflight[d] \in Nat
        BY <1>0, SlotsFacts
      <4>2. inflight' = [inflight EXCEPT ![d] = inflight[d] - 0] /\ inflight[d] - 0 >= 0
        BY <4>1, <3>1, <2>1, <1>0
      <4> QED
        BY <4>1, <4>2
    <3>2. ASSUME NEW p \in Namesakes(d), inflight[p] > 0,
                 Release(inflight, d) = [inflight EXCEPT ![p] = @ - 1]
          PROVE  inflight' = [inflight EXCEPT ![p] = inflight[p] - 1] /\ inflight[p] - 1 >= 0
      <4>1. p \in Slots /\ inflight[p] \in Nat
        BY <1>0, SlotsFacts
      <4> QED
        BY <4>1, <3>2, <2>1
    <3> QED
      BY <3>1, <3>2, <1>0, ReleaseOne
  <2>3. p \in Slots /\ Devices[p].id = Devices[d].id
    BY DEF Namesakes
  <2>4. ASSUME NEW t \in Slots PROVE inflight'[t] <= Room[t]
    <3>1. inflight[t] <= Room[t] /\ inflight[t] \in Nat /\ Room[t] \in Nat
      BY <1>0, SlotsFacts DEF NamesakeInv
    <3> QED
      BY <3>1, <2>2, <2>3, <1>0
  <2>5. ASSUME NEW s \in Slots
        PROVE  Cardinality(HoldersOfId(s)') <= Total(inflight', Namesakes(s))
    <3>0. p \in Namesakes(s) <=> d \in Namesakes(s)
      BY <2>3 DEF Namesakes
    <3>1. -k \in Int /\ k \in Int /\ k <= 1
      OBVIOUS
    <3>2. \A x \in Namesakes(s) : inflight[x] \in Int
                 /\ inflight'[x] = IF x = p THEN inflight[x] + (-k) ELSE inflight[x]
      BY <2>2, <2>3, <1>0, <1>2
    <3>3. /\ Total(inflight, Namesakes(s)) \in Int
          /\ Total(inflight', Namesakes(s)) =
                IF p \in Namesakes(s) THEN Total(inflight, Namesakes(s)) + (-k)
                ELSE Total(inflight, Namesakes(s))
      BY <3>1, <3>2, <1>2, TotalChange
    <3>4. CASE d \in Namesakes(s)
      <4>1. HoldersOfId(s)' = HoldersOfId(s) \ {w} /\ w \in HoldersOfId(s)
        BY <3>4, <2>1, <1>0, SlotsFacts DEF HoldersOfId
      <4>2. Cardinality(HoldersOfId(s)') = Cardinality(HoldersOfId(s)) - 1
        BY <4>1, <1>2, FS_RemoveElement
      <4> QED
        BY <4>2, <3>0, <3>1, <3>3, <3>4, <1>2
    <3>5. CASE d \notin Namesakes(s)
      <4>1. HoldersOfId(s)' = HoldersOfId(s)
        BY <3>5, <2>1, <1>0, SlotsFacts DEF HoldersOfId
      <4> QED
        BY <4>1, <3>0, <3>3, <3>5, <1>2
    <3> QED
      BY <3>4, <3>5
  <2> QED
    BY <2>4, <2>5 DEF NamesakeInv, Room, Namesakes
<1> QED
  BY <1>1, <1>3, <1>4, DeviceMoves

\* Devices of one id together never execute more requests than their limits
\* allow, although registry_release may decrement the wrong one's counter
\* (resource.c:138-144).
THEOREM NamesakesNeverOverbookedCorrect == SafeSpec => []NamesakesNeverOverbooked
<1>1. TypeOK /\ NamesakeInv => NamesakesNeverOverbooked
  <2> SUFFICES ASSUME TypeOK, NamesakeInv, NEW s \in Slots
               PROVE  Cardinality(HoldersOfId(s)) <= Total(Room, Namesakes(s))
    BY DEF NamesakesNeverOverbooked, HoldersOfId
  <2>1. \A x \in Namesakes(s) : inflight[x] \in Nat /\ Room[x] \in Nat /\ inflight[x] <= Room[x]
    BY SlotsFacts DEF TypeOK, NamesakeInv
  <2>2. /\ Total(inflight, Namesakes(s)) \in Nat /\ Total(Room, Namesakes(s)) \in Nat
        /\ Total(inflight, Namesakes(s)) <= Total(Room, Namesakes(s))
    BY <2>1, SlotsFacts, TotalMonotone
  <2>3. Cardinality(HoldersOfId(s)) <= Total(inflight, Namesakes(s))
    BY DEF NamesakeInv
  <2>4. Cardinality(HoldersOfId(s)) \in Nat
    <3>1. HoldersOfId(s) \subseteq Workers
      BY DEF HoldersOfId
    <3> QED
      BY <3>1, WorkersAssumption, FS_Subset, FS_CardinalityType
  <2> QED
    BY <2>2, <2>3, <2>4
<1>2. Init => TypeOK /\ NamesakeInv
  BY InitTypeOK, InitNamesakeInv
<1>3. TypeOK /\ NamesakeInv /\ [Next]_vars => (TypeOK /\ NamesakeInv)'
  BY NextTypeOK, NextNamesakeInv
<1> QED
  BY <1>1, <1>2, <1>3, PTL DEF SafeSpec

-----------------------------------------------------------------------------
(* The gateway's PIN *)

\* A worker that has begun a request with a wrong PIN has answered it, and has
\* no device.
PinSafe(v) ==
  req[v] # NoRequest /\ PinRejected(req[v]) =>
    dev[v] = 0 /\ pc[v] = "reply" /\ status[v] = Unauthorized

LEMMA NextPinSafe ==
  ASSUME TypeOK, PinGuardsDevices, [Next]_vars
  PROVE  PinGuardsDevices'
<1> SUFFICES ASSUME NEW v \in Workers PROVE PinSafe(v)'
  BY DEF PinSafe, PinGuardsDevices
<1>1. PinSafe(v)
  BY DEF PinSafe, PinGuardsDevices
<1> USE DEF TypeOK, PinSafe
<1>2. ASSUME NEW w \in Workers, NEW r \in Requests, Denied(w, r) PROVE PinSafe(v)'
  BY <1>1, <1>2 DEF Denied, Begin, Answer
<1>3. ASSUME NEW w \in Workers, NEW r \in Requests,
             PinOk(w, r) \/ Malformed(w, r) \/ EmptySequence(w, r)
      PROVE  PinSafe(v)'
  <2>1. ~PinRejected(r) /\ Begin(w, r) /\ \E code : Answer(w, code)
    BY <1>3 DEF PinOk, Malformed, EmptySequence
  <2> QED
    BY <1>1, <2>1 DEF Begin, Answer
<1>4. ASSUME NEW w \in Workers, NEW r \in Requests, Start(w, r) PROVE PinSafe(v)'
  BY <1>1, <1>4 DEF Start, Begin
<1>5. ASSUME NEW w \in Workers, Acquire(w) PROVE PinSafe(v)'
  BY <1>1, <1>5 DEF Acquire
<1>6. ASSUME NEW w \in Workers, NoDevice(w) PROVE PinSafe(v)'
  BY <1>1, <1>6 DEF NoDevice, AnswerError, Answer
<1>7. ASSUME NEW w \in Workers, Execute(w) PROVE PinSafe(v)'
  BY <1>1, <1>7 DEF Execute
<1>8. ASSUME NEW w \in Workers, StepFailed(w) PROVE PinSafe(v)'
  BY <1>1, <1>8 DEF StepFailed, GiveBack, AnswerError, Answer
<1>9. ASSUME NEW w \in Workers, NextStep(w) PROVE PinSafe(v)'
  BY <1>1, <1>9 DEF NextStep, StepDone, GiveBack
<1>10. ASSUME NEW w \in Workers, LastStep(w) PROVE PinSafe(v)'
  BY <1>1, <1>10 DEF LastStep, StepDone, GiveBack, Answer
<1>11. ASSUME NEW w \in Workers, Reset(w) PROVE PinSafe(v)'
  BY <1>1, <1>11 DEF Reset
<1>12. CASE UNCHANGED vars
  BY <1>1, <1>12 DEF vars
<1> QED
  BY <1>2, <1>3, <1>4, <1>5, <1>6, <1>7, <1>8, <1>9, <1>10, <1>11, <1>12 DEF Next

\* Without the gateway's PIN no device is ever acquired for a request, and its
\* only answer is 401, whatever else the request says.
THEOREM PinGuardsDevicesCorrect == SafeSpec => []PinGuardsDevices
<1>1. Init => PinGuardsDevices
  BY DEF Init, PinGuardsDevices
<1> QED
  BY <1>1, InitTypeOK, NextTypeOK, NextPinSafe, PTL DEF SafeSpec

-----------------------------------------------------------------------------
(* Internal keys *)

\* Slot s is no device, or the one an internal key of request r is bound to.
AtHome(r, s) ==
  r.source = 1 /\ s # 0 =>
    ~Unbound(r) /\ Devices[s].id = IF r.hint # NoId THEN r.hint ELSE r.keyDevice

\* The devices worker v uses and has used for its request are at home; what it
\* used for the last one is forgotten when it takes the next.
KeySafe(v) ==
  /\ pc[v] = "idle" => selected[v] = <<>>
  /\ req[v] # NoRequest => /\ AtHome(req[v], dev[v])
                           /\ \A i \in DOMAIN selected[v] : AtHome(req[v], selected[v][i])

KeyInv == \A v \in Workers : KeySafe(v)

\* The hint that an internal key yields is its device's id.
LEMMA ChoiceAtHome ==
  ASSUME NEW w, NEW s \in Choice(w)
  PROVE  AtHome(req[w], s)
  BY DEF Choice, Candidate, First, Available, Unbound, EffectiveHint, AtHome

LEMMA AppendAtHome ==
  ASSUME NEW r, NEW past \in Seq(Slots), NEW s \in Slots, AtHome(r, s),
         \A i \in DOMAIN past : AtHome(r, past[i])
  PROVE  \A i \in DOMAIN Append(past, s) : AtHome(r, Append(past, s)[i])
<1>1. \A i \in DOMAIN Append(past, s) :
        \/ i \in DOMAIN past /\ Append(past, s)[i] = past[i]
        \/ Append(past, s)[i] = s
  OBVIOUS
<1> QED
  BY <1>1

LEMMA NextKeyInv ==
  ASSUME TypeOK, KeyInv, [Next]_vars
  PROVE  KeyInv'
<1> SUFFICES ASSUME NEW v \in Workers PROVE KeySafe(v)'
  BY DEF KeyInv
<1>1. KeySafe(v)
  BY DEF KeyInv
<1> USE DEF TypeOK, KeySafe
<1>2. ASSUME NEW w \in Workers, NEW r \in Requests,
             Denied(w, r) \/ PinOk(w, r) \/ Malformed(w, r) \/ EmptySequence(w, r) \/ Start(w, r)
      PROVE  KeySafe(v)'
  <2>1. /\ pc[w] = "idle"
        /\ req' = [req EXCEPT ![w] = r]
        /\ UNCHANGED <<dev, selected>>
    BY <1>2 DEF Denied, PinOk, Malformed, EmptySequence, Start, Begin
  <2>2. pc'[w] # "idle" /\ (v # w => pc'[v] = pc[v])
    BY <1>2 DEF Denied, PinOk, Malformed, EmptySequence, Start, Answer
  <2>3. CASE v = w
    <3>1. dev[v] = 0 /\ selected[v] = <<>>
      BY <1>1, <2>1, <2>3
    <3> QED
      BY <2>1, <2>2, <2>3, <3>1 DEF AtHome
  <2>4. CASE v # w
    BY <1>1, <2>1, <2>2, <2>4
  <2> QED
    BY <2>3, <2>4
<1>3. ASSUME NEW w \in Workers, Acquire(w) PROVE KeySafe(v)'
  <2>1. PICK s \in Choice(w) : dev' = [dev EXCEPT ![w] = s]
    BY <1>3 DEF Acquire
  <2>2. AtHome(req[w], s)
    BY <2>1, ChoiceAtHome
  <2> QED
    BY <1>1, <1>3, <2>1, <2>2 DEF Acquire
<1>4. ASSUME NEW w \in Workers, NoDevice(w) PROVE KeySafe(v)'
  BY <1>1, <1>4 DEF NoDevice, AnswerError, Answer
<1>5. ASSUME NEW w \in Workers, Execute(w) PROVE KeySafe(v)'
  BY <1>1, <1>5 DEF Execute
<1>6. ASSUME NEW w \in Workers, StepFailed(w) PROVE KeySafe(v)'
  BY <1>1, <1>6 DEF StepFailed, GiveBack, AnswerError, Answer, AtHome
<1>7. ASSUME NEW w \in Workers, NextStep(w) \/ LastStep(w) PROVE KeySafe(v)'
  <2>1. /\ pc[w] = "release"
        /\ dev' = [dev EXCEPT ![w] = 0]
        /\ selected' = [selected EXCEPT ![w] = Append(@, dev[w])]
        /\ req' = req
    BY <1>7 DEF NextStep, LastStep, StepDone, GiveBack
  <2>2. pc'[w] # "idle" /\ (v # w => pc'[v] = pc[v])
    BY <1>7 DEF NextStep, LastStep, Answer
  <2>3. CASE v = w
    <3>1. dev[v] \in Slots /\ selected[v] \in Seq(Slots)
      BY <2>1, <2>3
    <3>2. req[v] # NoRequest =>
            \A i \in DOMAIN Append(selected[v], dev[v]) : AtHome(req[v], Append(selected[v], dev[v])[i])
      BY <1>1, <3>1, AppendAtHome
    <3>3. AtHome(req[v], 0)
      BY DEF AtHome
    <3>4. selected'[v] = Append(selected[v], dev[v]) /\ dev'[v] = 0 /\ req'[v] = req[v]
      BY <2>1, <2>3
    <3> QED
      BY <2>2, <2>3, <3>2, <3>3, <3>4
  <2>4. CASE v # w
    BY <1>1, <2>1, <2>2, <2>4
  <2> QED
    BY <2>3, <2>4
<1>8. ASSUME NEW w \in Workers, Reset(w) PROVE KeySafe(v)'
  BY <1>1, <1>8 DEF Reset
<1>9. CASE UNCHANGED vars
  BY <1>1, <1>9 DEF vars
<1> QED
  BY <1>2, <1>3, <1>4, <1>5, <1>6, <1>7, <1>8, <1>9 DEF Next

\* An internal key is never used on another device than its own, in any step
\* of any sequence, for every registry.
THEOREM InternalKeyStaysHomeCorrect == SafeSpec => []InternalKeyStaysHome
<1>1. Init => KeyInv
  BY DEF Init, KeyInv, KeySafe
<1>2. KeyInv => InternalKeyStaysHome
  BY DEF KeyInv, KeySafe, AtHome, InternalKeyStaysHome
<1> QED
  BY <1>1, <1>2, InitTypeOK, NextTypeOK, NextKeyInv, PTL DEF SafeSpec

-----------------------------------------------------------------------------
(* Answers *)

\* The operations of the first n steps.
Done(steps, n) == [i \in 1 .. n |-> steps[i].op]

\* What worker v has to show for its request: nothing while it is idle, one
\* device and one operation for each step before the current one, all of them
\* with a success and none with a failure.
WorkSafe(v) ==
  /\ pc[v] = "idle" => selected[v] = <<>> /\ payload[v] = <<>>
  /\ pc[v] \in {"acquire", "holding", "release"} =>
       /\ req[v] \in Requests
       /\ step[v] \in 1 .. Len(Steps(req[v]))
       /\ Len(selected[v]) = step[v] - 1
       /\ payload[v] = Done(Steps(req[v]), step[v] - 1)
  /\ pc[v] = "reply" =>
       /\ req[v] \in Requests
       /\ status[v] = OK /\ ~IsCheckPin(req[v]) =>
            /\ Len(selected[v]) = Len(Steps(req[v]))
            /\ payload[v] = Done(Steps(req[v]), Len(Steps(req[v])))
       /\ status[v] # OK => selected[v] = <<>> /\ payload[v] = <<>>

\* payload holds one entry for each worker, whatever the entries are.
PayloadPerWorker == payload = [v \in Workers |-> payload[v]]

WorkInv == PayloadPerWorker /\ \A v \in Workers : WorkSafe(v)

\* current_payload after one more step.
LEMMA AppendDone ==
  ASSUME NEW S, NEW steps \in Seq(S), NEW n \in 1 .. Len(steps)
  PROVE  Append(Done(steps, n - 1), steps[n].op) = Done(steps, n)
<1> DEFINE Op == {steps[i].op : i \in 1 .. Len(steps)}
<1>1. \A i \in 1 .. Len(steps) : steps[i].op \in Op
  OBVIOUS
<1> HIDE DEF Op
<1>2. Done(steps, n - 1) \in Seq(Op) /\ Len(Done(steps, n - 1)) = n - 1
  BY <1>1 DEF Done
<1>3. Append(Done(steps, n - 1), steps[n].op)
        = [i \in 1 .. n |-> IF i = n THEN steps[n].op ELSE Done(steps, n - 1)[i]]
  BY <1>1, <1>2
<1> QED
  BY <1>3 DEF Done

LEMMA EmptyDone == \A steps : Done(steps, 0) = <<>>
  BY DEF Done

\* The payload of a worker is changed by that worker alone.
LEMMA PayloadMoves ==
  ASSUME PayloadPerWorker, [Next]_vars
  PROVE  PayloadPerWorker'
<1> USE DEF PayloadPerWorker
<1>1. ASSUME NEW w \in Workers, NEW x, payload' = [payload EXCEPT ![w] = x]
      PROVE  PayloadPerWorker'
  BY <1>1
<1>2. ASSUME UNCHANGED payload PROVE PayloadPerWorker'
  BY <1>2
<1>3. ASSUME NEW w \in Workers, NEW r \in Requests,
             Denied(w, r) \/ PinOk(w, r) \/ Malformed(w, r) \/ EmptySequence(w, r) \/ Start(w, r)
      PROVE  UNCHANGED payload
  BY <1>3 DEF Denied, PinOk, Malformed, EmptySequence, Start, Begin
<1>4. ASSUME NEW w \in Workers, Acquire(w) \/ Execute(w) PROVE UNCHANGED payload
  BY <1>4 DEF Acquire, Execute
<1>5. ASSUME NEW w \in Workers, NoDevice(w) \/ StepFailed(w) \/ Reset(w)
      PROVE  payload' = [payload EXCEPT ![w] = <<>>]
  BY <1>5 DEF NoDevice, StepFailed, Reset, AnswerError
<1>6. ASSUME NEW w \in Workers, NextStep(w) \/ LastStep(w)
      PROVE  payload' = [payload EXCEPT ![w] = Append(@, Current(w).op)]
  BY <1>6 DEF NextStep, LastStep, StepDone
<1>7. CASE UNCHANGED vars
  BY <1>2, <1>7 DEF vars
<1> QED
  BY <1>1, <1>2, <1>3, <1>4, <1>5, <1>6, <1>7 DEF Next

LEMMA NextWorkInv ==
  ASSUME TypeOK, WorkInv, [Next]_vars
  PROVE  WorkInv'
<1>0. PayloadPerWorker /\ PayloadPerWorker'
  BY PayloadMoves DEF WorkInv
<1> SUFFICES ASSUME NEW v \in Workers PROVE WorkSafe(v)'
  BY <1>0 DEF WorkInv
<1>1. WorkSafe(v) /\ payload = [u \in Workers |-> payload[u]]
  BY <1>0 DEF WorkInv, PayloadPerWorker
<1>2. ASSUME NEW r \in Requests PROVE Len(Steps(r)) \in Nat
  BY RequestsAssumption
<1> USE DEF TypeOK, WorkSafe
\* A step of another worker leaves everything that WorkSafe(v) mentions alone.
<1>3. ASSUME UNCHANGED <<pc[v], req[v], step[v], selected[v], payload[v], status[v]>>
      PROVE  WorkSafe(v)'
  BY <1>1, <1>3
<1>4. ASSUME NEW r \in Requests, Denied(v, r) \/ Malformed(v, r) PROVE WorkSafe(v)'
  BY <1>1, <1>4 DEF Denied, Malformed, Begin, Answer, Unauthorized, BadRequest, OK
<1>5. ASSUME NEW r \in Requests, PinOk(v, r) PROVE WorkSafe(v)'
  BY <1>1, <1>5 DEF PinOk, Begin, Answer, OK
<1>6. ASSUME NEW r \in Requests, EmptySequence(v, r) PROVE WorkSafe(v)'
  <2>1. /\ selected'[v] = <<>> /\ payload'[v] = <<>>
        /\ pc'[v] = "reply" /\ status'[v] = OK
        /\ req'[v] = r /\ Steps(r) = <<>>
    BY <1>1, <1>6 DEF EmptySequence, Begin, Answer
  <2>2. Len(Steps(r)) = 0 /\ Done(Steps(r), 0) = <<>>
    BY <2>1, EmptyDone
  <2> QED
    BY <2>1, <2>2
<1>7. ASSUME NEW r \in Requests, Start(v, r) PROVE WorkSafe(v)'
  <2>1. /\ selected'[v] = <<>> /\ payload'[v] = <<>>
        /\ pc'[v] = "acquire" /\ step'[v] = 1
        /\ req'[v] = r /\ Steps(r) # <<>>
    BY <1>1, <1>7 DEF Start, Begin
  <2>2. 1 \in 1 .. Len(Steps(r))
    BY <2>1, RequestsAssumption
  <2>3. Done(Steps(r), 1 - 1) = <<>>
    BY EmptyDone
  <2> QED
    BY <2>1, <2>2, <2>3
<1>8. ASSUME Acquire(v) PROVE WorkSafe(v)'
  BY <1>1, <1>8 DEF Acquire
<1>9. ASSUME NoDevice(v) PROVE WorkSafe(v)'
  BY <1>1, <1>9 DEF NoDevice, AnswerError, Answer, FailStatus, NoResource, BackendFail, OK
<1>10. ASSUME Execute(v) PROVE WorkSafe(v)'
  BY <1>1, <1>10 DEF Execute
<1>11. ASSUME StepFailed(v) PROVE WorkSafe(v)'
  BY <1>1, <1>11 DEF StepFailed, GiveBack, AnswerError, Answer, FailStatus, NoResource, BackendFail, OK
<1>12. ASSUME StepDone(v)
       PROVE  /\ req'[v] = req[v] /\ req[v] \in Requests
              /\ step[v] \in 1 .. Len(Steps(req[v]))
              /\ Len(selected'[v]) = step[v]
              /\ payload'[v] = Done(Steps(req[v]), step[v])
  <2>1. /\ pc[v] = "release" /\ req' = req
        /\ selected'[v] = Append(selected[v], dev[v])
        /\ payload' = [payload EXCEPT ![v] = Append(@, Current(v).op)]
    BY <1>12 DEF StepDone, GiveBack
  <2>2. /\ req[v] \in Requests
        /\ step[v] \in 1 .. Len(Steps(req[v]))
        /\ Len(selected[v]) = step[v] - 1
        /\ payload[v] = Done(Steps(req[v]), step[v] - 1)
    BY <1>1, <2>1
  <2>3. Append(Done(Steps(req[v]), step[v] - 1), Steps(req[v])[step[v]].op)
          = Done(Steps(req[v]), step[v])
    BY <2>2, RequestsAssumption, AppendDone
  <2> QED
    BY <1>1, <1>2, <2>1, <2>2, <2>3 DEF Current
<1>13. ASSUME NextStep(v) PROVE WorkSafe(v)'
  BY <1>2, <1>12, <1>13 DEF NextStep
<1>14. ASSUME LastStep(v) PROVE WorkSafe(v)'
  BY <1>2, <1>12, <1>14 DEF LastStep, Answer
<1>15. ASSUME Reset(v) PROVE WorkSafe(v)'
  BY <1>1, <1>15 DEF Reset
<1>16. ASSUME NEW w \in Workers, w # v, NEW r \in Requests,
              Denied(w, r) \/ PinOk(w, r) \/ Malformed(w, r) \/ EmptySequence(w, r) \/ Start(w, r)
       PROVE  WorkSafe(v)'
  BY <1>3, <1>16 DEF Denied, PinOk, Malformed, EmptySequence, Start, Begin, Answer
<1>17. ASSUME NEW w \in Workers, w # v, Acquire(w) \/ Execute(w) PROVE WorkSafe(v)'
  BY <1>3, <1>17 DEF Acquire, Execute
<1>18. ASSUME NEW w \in Workers, w # v, NoDevice(w) \/ StepFailed(w) PROVE WorkSafe(v)'
  BY <1>1, <1>3, <1>18 DEF NoDevice, StepFailed, GiveBack, AnswerError, Answer
<1>19. ASSUME NEW w \in Workers, w # v, NextStep(w) \/ LastStep(w) PROVE WorkSafe(v)'
  BY <1>1, <1>3, <1>19 DEF NextStep, LastStep, StepDone, GiveBack, Answer
<1>20. ASSUME NEW w \in Workers, w # v, Reset(w) PROVE WorkSafe(v)'
  BY <1>1, <1>3, <1>20 DEF Reset
<1>21. CASE UNCHANGED vars
  BY <1>3, <1>21 DEF vars
<1> HIDE DEF TypeOK, WorkSafe
<1>22. ASSUME NEW w \in Workers, NEW r \in Requests,
              Denied(w, r) \/ PinOk(w, r) \/ Malformed(w, r) \/ EmptySequence(w, r) \/ Start(w, r)
       PROVE  WorkSafe(v)'
  BY <1>4, <1>5, <1>6, <1>7, <1>16, <1>22
<1>23. ASSUME NEW w \in Workers,
              \/ Acquire(w) \/ NoDevice(w) \/ Execute(w) \/ StepFailed(w)
              \/ NextStep(w) \/ LastStep(w) \/ Reset(w)
       PROVE  WorkSafe(v)'
  BY <1>8, <1>9, <1>10, <1>11, <1>13, <1>14, <1>15, <1>17, <1>18, <1>19, <1>20, <1>23
<1> QED
  BY <1>21, <1>22, <1>23 DEF Next

\* A response tells the truth about what was executed, for every sequence: a
\* success means that all steps ran, in order, and a failure reports neither
\* a device nor a partial result (scheduler.c:295-322).
THEOREM ReplyMatchesWorkCorrect == SafeSpec => []ReplyMatchesWork
<1>1. Init => WorkInv
  BY DEF Init, WorkInv, WorkSafe, PayloadPerWorker
<1>2. ASSUME WorkInv PROVE ReplyMatchesWork
  <2>1. ASSUME NEW r \in Requests PROVE DOMAIN Steps(r) = 1 .. Len(Steps(r))
    BY RequestsAssumption
  <2> QED
    BY <1>2, <2>1 DEF WorkInv, WorkSafe, ReplyMatchesWork, Done
<1> QED
  BY <1>1, <1>2, InitTypeOK, NextTypeOK, NextWorkInv, PTL DEF SafeSpec

-----------------------------------------------------------------------------
(***************************************************************************)
(* Refusals.  The registry finds a device whenever there is one: the       *)
(* criteria of better_candidate, compared one after the other, always      *)
(* leave a best device, because scores are ints and so bounded below.      *)
(***************************************************************************)

\* One criterion, over the devices that are still in question.
LEMMA LeastBy ==
  ASSUME NEW S, S # {}, NEW B \in Int, NEW f, \A s \in S : f[s] \in Int /\ f[s] >= B
  PROVE  \E s \in S : \A t \in S : f[s] <= f[t]
<1> DEFINE T == {f[s] - B : s \in S}
<1>0. T \subseteq Nat /\ T # {}
  OBVIOUS
<1>1. PICK x \in T : \A y \in T : x <= y
  <2> HIDE DEF T
  <2> QED BY <1>0, LeastNumber
<1>2. PICK s \in S : x = f[s] - B
  OBVIOUS
<1>3. \A t \in S : f[s] - B <= f[t] - B
  BY <1>1, <1>2
<1> QED
  BY <1>3

LEMMA FirstExists ==
  ASSUME NEW S, S \subseteq Nat, S # {}
  PROVE  First(S) # {}
  BY LeastNumber DEF First

LEMMA RankType ==
  ASSUME NEW load \in [Slots -> Nat], NEW s \in Slots, NEW preference
  PROVE  \A k \in 1 .. 4 : /\ Rank(s, preference, load)[k] \in Int
                           /\ Rank(s, preference, load)[k] >= IntMin
<1>1. Devices[s] \in DeviceRecords
  BY RegistryAssumption DEF Slots
<1>2. /\ Devices[s].security \in CInt /\ Devices[s].efficiency \in CInt
      /\ Devices[s].priority \in CInt /\ Devices[s].id \in Nat /\ load[s] \in Nat
  BY <1>1 DEF DeviceRecords
<1>3. /\ Devices[s].security \in Int /\ Devices[s].security <= IntMax
      /\ Devices[s].efficiency \in Int /\ Devices[s].efficiency <= IntMax
      /\ Devices[s].priority \in Int /\ Devices[s].priority >= IntMin
  BY <1>2, CIntRange
<1> DEFINE score == IF preference = "secure" THEN -Devices[s].security
                    ELSE IF preference = "efficient" THEN -Devices[s].efficiency ELSE 0
<1>4. score \in Int /\ score >= IntMin
  BY <1>3, CIntRange
<1>5. Rank(s, preference, load) = <<score, Devices[s].priority, load[s], Devices[s].id>>
  BY DEF Rank
<1> HIDE DEF score
<1> QED
  BY <1>2, <1>3, <1>4, <1>5, CIntRange

\* The loop over the registry ends with a device unless it had none to choose
\* from (resource.c:110-127).
LEMMA BestExists ==
  ASSUME NEW load \in [Slots -> Nat], NEW S, S \subseteq Slots, S # {}, NEW preference
  PROVE  Best(S, preference, load) # {}
<1> DEFINE R(s) == Rank(s, preference, load)
           B    == IntMin
           F(k) == [s \in S |-> R(s)[k]]
<1>1. \A s \in S, k \in 1 .. 4 : R(s)[k] \in Int /\ R(s)[k] >= B
  BY RankType
<1>2. \A s \in S : R(s) = <<R(s)[1], R(s)[2], R(s)[3], R(s)[4]>>
  BY DEF Rank
<1> HIDE DEF R
<1>3. ASSUME NEW k \in 1 .. 4, NEW T, T \subseteq S, T # {}
      PROVE  \E s \in T : \A t \in T : R(s)[k] <= R(t)[k]
  <2>1. \A s \in T : F(k)[s] \in Int /\ F(k)[s] >= B
    BY <1>1, <1>3
  <2>2. B \in Int
    BY CIntRange
  <2>3. \E s \in T : \A t \in T : F(k)[s] <= F(k)[t]
    <3> HIDE DEF F, B
    <3> QED BY <1>3, <2>1, <2>2, LeastBy
  <2> QED
    BY <1>3, <2>3
<1> HIDE DEF F, B
<1>4. PICK a \in S : \A t \in S : R(a)[1] <= R(t)[1]
  BY <1>3
<1> DEFINE S1 == {s \in S : R(s)[1] = R(a)[1]}
<1>5. PICK b \in S1 : \A t \in S1 : R(b)[2] <= R(t)[2]
  <2>1. S1 \subseteq S /\ S1 # {}
    OBVIOUS
  <2> HIDE DEF S1
  <2> QED
    BY <2>1, <1>3
<1> DEFINE S2 == {s \in S1 : R(s)[2] = R(b)[2]}
<1>6. PICK c \in S2 : \A t \in S2 : R(c)[3] <= R(t)[3]
  <2>1. S2 \subseteq S /\ S2 # {}
    OBVIOUS
  <2> HIDE DEF S2
  <2> QED
    BY <2>1, <1>3
<1> DEFINE S3 == {s \in S2 : R(s)[3] = R(c)[3]}
<1>7. PICK d \in S3 : \A t \in S3 : R(d)[4] <= R(t)[4]
  <2>1. S3 \subseteq S /\ S3 # {}
    OBVIOUS
  <2> HIDE DEF S3
  <2> QED
    BY <2>1, <1>3
<1> DEFINE S4 == {s \in S3 : R(s)[4] = R(d)[4]}
<1>8. PICK e \in S4 : \A t \in S4 : e <= t
  <2>1. S4 \subseteq S /\ S4 # {}
    OBVIOUS
  <2>2. Slots \subseteq Nat
    BY DEF Slots
  <2> HIDE DEF S4
  <2> QED
    BY <2>1, <2>2, LeastNumber
<1>9. ASSUME NEW t \in S PROVE ~Precedes(R(t), R(e)) /\ (R(t) = R(e) => e <= t)
  <2>1. /\ R(e)[1] = R(a)[1] /\ R(e)[2] = R(b)[2] /\ R(e)[3] = R(c)[3] /\ R(e)[4] = R(d)[4]
    BY <1>8
  <2>2. /\ R(e)[1] <= R(t)[1]
        /\ R(t)[1] = R(e)[1] => R(e)[2] <= R(t)[2]
        /\ R(t)[1] = R(e)[1] /\ R(t)[2] = R(e)[2] => R(e)[3] <= R(t)[3]
        /\ R(t)[1] = R(e)[1] /\ R(t)[2] = R(e)[2] /\ R(t)[3] = R(e)[3] => R(e)[4] <= R(t)[4]
        /\ R(t) = R(e) => e <= t
    BY <2>1, <1>4, <1>5, <1>6, <1>7, <1>8
  <2>3. /\ R(e)[1] \in Int /\ R(e)[2] \in Int /\ R(e)[3] \in Int /\ R(e)[4] \in Int
        /\ R(t)[1] \in Int /\ R(t)[2] \in Int /\ R(t)[3] \in Int /\ R(t)[4] \in Int
    BY <1>1
  <2>4. ASSUME NEW k \in 1 .. 4, R(t)[k] < R(e)[k], \A i \in 1 .. k - 1 : R(t)[i] = R(e)[i]
        PROVE  FALSE
    <3>1. k = 1 \/ k = 2 \/ k = 3 \/ k = 4
      OBVIOUS
    <3> QED
      BY <2>2, <2>3, <2>4, <3>1
  <2> QED
    BY <2>2, <2>4 DEF Precedes
<1> QED
  BY <1>8, <1>9 DEF Best, R

\* registry_acquire_candidate comes back empty-handed only when no device that
\* could serve the step has room (resource.c:89-132).
LEMMA EmptyHanded ==
  ASSUME TypeOK, NEW w \in Workers, req[w] \in Requests, step[w] \in 1 .. Len(Steps(req[w])),
         Choice(w) = {}, NEW s \in Slots, CouldServe(s, w)
  PROVE  ~(inflight[s] < Devices[s].max)
<1> SUFFICES ASSUME inflight[s] < Devices[s].max PROVE FALSE
  OBVIOUS
<1> DEFINE op        == Current(w).op
           source    == req[w].source
           hint      == EffectiveHint(req[w])
           types     == Order(req[w].preference, Current(w).type)
           available == Available(inflight, op, source)
           OfType(i) == {t \in available : Devices[t].type = types[i]}
           tried     == First({i \in DOMAIN types : OfType(i) # {}})
           choices   == {t \in available : \E i \in tried : t \in OfType(i)}
<1>1. /\ Candidate(inflight, op, hint, source, req[w].preference, types) = {}
      /\ s \in available
    BY DEF Choice, CouldServe, Available
<1>2. available \subseteq Slots /\ Slots \subseteq Nat
  BY DEF Available, Slots
<1>3. CASE hint # NoId
  <2>1. s \in {t \in available : Devices[t].id = hint}
    BY <1>1, <1>3 DEF CouldServe
  <2>2. First({t \in available : Devices[t].id = hint}) # {}
    BY <1>2, <2>1, FirstExists
  <2> QED
    BY <1>1, <1>3, <2>2 DEF Candidate
<1>4. CASE hint = NoId
  <2>1. Devices[s].type \in {"classic", "pqc"}
    <3>1. Devices[s] \in DeviceRecords
      BY RegistryAssumption DEF Slots
    <3> QED
      BY <1>4, <3>1 DEF DeviceRecords, CouldServe
  <2>2. Current(w).type \in {"unknown", Devices[s].type}
    BY <1>4 DEF CouldServe
  <2>3. \E i \in DOMAIN types : types[i] = Devices[s].type
    BY <2>1, <2>2 DEF Order
  <2>4. \E i \in DOMAIN types : s \in OfType(i)
    BY <1>1, <2>3
  <2>5. DOMAIN types \subseteq Nat
    BY DEF Order
  <2> HIDE DEF OfType, types
  <2>6. tried # {} /\ tried \subseteq {i \in DOMAIN types : OfType(i) # {}}
    <3>1. {i \in DOMAIN types : OfType(i) # {}} # {}
      BY <2>4
    <3>2. tried # {}
      BY <2>5, <3>1, FirstExists
    <3> QED
      BY <3>2 DEF First
  <2>7. choices # {} /\ choices \subseteq Slots
    BY <1>2, <2>6 DEF OfType
  <2>8. Best(choices, req[w].preference, inflight) # {}
    <3> HIDE DEF choices
    <3> QED
      BY <2>7, BestExists DEF TypeOK
  <2> QED
    BY <1>1, <1>4, <2>8 DEF Candidate, OfType, types
<1> QED
  BY <1>3, <1>4

\* A worker goes from looking for a device straight to its answer only when the
\* registry had none.
LEMMA Refusals ==
  ASSUME TypeOK, [Next]_vars, NEW w \in Workers, pc[w] = "acquire", pc'[w] = "reply"
  PROVE  Choice(w) = {}
<1> USE DEF TypeOK
<1>1. ASSUME NEW v \in Workers, NEW r \in Requests,
             Denied(v, r) \/ PinOk(v, r) \/ Malformed(v, r) \/ EmptySequence(v, r) \/ Start(v, r)
      PROVE  FALSE
  BY <1>1 DEF Denied, PinOk, Malformed, EmptySequence, Start, Begin, Answer
<1>2. ASSUME NEW v \in Workers, Acquire(v) \/ Execute(v) \/ Reset(v) PROVE FALSE
  BY <1>2 DEF Acquire, Execute, Reset
<1>3. ASSUME NEW v \in Workers, StepFailed(v) \/ NextStep(v) \/ LastStep(v) PROVE FALSE
  BY <1>3 DEF StepFailed, NextStep, LastStep, StepDone, GiveBack, AnswerError, Answer
<1>4. ASSUME NEW v \in Workers, NoDevice(v) PROVE Choice(w) = {}
  BY <1>4 DEF NoDevice, AnswerError, Answer
<1>5. CASE UNCHANGED vars
  BY <1>5 DEF vars
<1> HIDE DEF TypeOK
<1> QED
  BY <1>1, <1>2, <1>3, <1>4, <1>5 DEF Next

\* A request is refused for want of a device only when every device that could
\* serve it is held by as many workers as it takes, for every registry and
\* every combination of scores, hints and preferences (resource.c:89-132).
THEOREM RefusedOnlyWhenBusyCorrect == SafeSpec => RefusedOnlyWhenBusy
<1> DEFINE Refused(w) == pc[w] = "acquire" /\ pc'[w] = "reply"
           Busy(w) == \A s \in Slots : OwnId(s) /\ CouldServe(s, w) =>
                        Cardinality(Holders(s)) >= Devices[s].max
<1>1. ASSUME TypeOK, CountInv, WorkInv, [Next]_vars, NEW w \in Workers, Refused(w) PROVE Busy(w)
  <2> SUFFICES ASSUME NEW s \in Slots, OwnId(s), CouldServe(s, w)
               PROVE  Cardinality(Holders(s)) >= Devices[s].max
    OBVIOUS
  <2>1. Choice(w) = {}
    BY <1>1, Refusals
  <2>2. req[w] \in Requests /\ step[w] \in 1 .. Len(Steps(req[w]))
    BY <1>1 DEF WorkInv, WorkSafe
  <2>3. ~(inflight[s] < Devices[s].max)
    BY <1>1, <2>1, <2>2, EmptyHanded
  <2>4. inflight[s] = Cardinality(Holders(s)) /\ inflight[s] \in Nat /\ Devices[s].max \in Int
    BY <1>1, SlotType DEF CountInv, InflightExact, TypeOK
  <2> QED
    BY <2>3, <2>4
<1>2. TypeOK /\ CountInv /\ WorkInv /\ [Next]_vars =>
        [\A w \in Workers : Refused(w) => Busy(w)]_vars
  BY <1>1
<1>3. Init => CountInv /\ WorkInv
  BY InitCountInv DEF Init, WorkInv, WorkSafe, PayloadPerWorker
<1>4. TypeOK /\ CountInv /\ WorkInv /\ [Next]_vars => (CountInv /\ WorkInv)'
  BY NextCountInv, NextWorkInv
<1> QED
  BY <1>2, <1>3, <1>4, InitTypeOK, NextTypeOK, PTL DEF SafeSpec, RefusedOnlyWhenBusy

-----------------------------------------------------------------------------
(***************************************************************************)
(* The loop over the registry, as it is written, ends with the device that *)
(* Candidate takes: Best says which one that is, BestSoFar how the code    *)
(* finds it.                                                               *)
(***************************************************************************)

\* What the definition of BestSoFar asks of its table.
IsScan(best, S, preference, load, N) ==
  best = [n \in 0 .. N |->
            IF n = 0 THEN 0
            ELSE IF n \in S /\ BetterCandidate(best[n - 1], n, preference, load) THEN n
            ELSE best[n - 1]]

LEMMA ScanExists ==
  ASSUME NEW S, NEW preference, NEW load
  PROVE  \A N \in Nat : \E best : IsScan(best, S, preference, load, N)
<1> DEFINE T == {N \in Nat : \E best : IsScan(best, S, preference, load, N)}
<1>1. 0 \in T
  <2> DEFINE h == [n \in 0 .. 0 |-> 0]
  <2>1. h = [n \in 0 .. 0 |->
              IF n = 0 THEN 0
              ELSE IF n \in S /\ BetterCandidate(h[n - 1], n, preference, load) THEN n
              ELSE h[n - 1]]
    OBVIOUS
  <2>2. IsScan(h, S, preference, load, 0)
    BY <2>1 DEF IsScan
  <2> QED
    BY <2>2
<1>2. ASSUME NEW N \in Nat \ {0}, N - 1 \in T PROVE N \in T
  <2>1. PICK g : IsScan(g, S, preference, load, N - 1)
    BY <1>2
  <2> DEFINE Turn(f, n) == IF n = 0 THEN 0
                           ELSE IF n \in S /\ BetterCandidate(f[n - 1], n, preference, load) THEN n
                           ELSE f[n - 1]
             h == [n \in 0 .. N |-> Turn(g, n)]
  <2>2. ASSUME NEW n \in 0 .. N - 1 PROVE h[n] = g[n]
    <3>1. n \in 0 .. N
      OBVIOUS
    <3>2. g[n] = Turn(g, n)
      BY <2>1, Zenon DEF IsScan
    <3>3. h[n] = Turn(g, n)
      BY <3>1, Zenon
    <3> QED
      BY <3>2, <3>3
  <2>3. ASSUME NEW n \in 0 .. N PROVE h[n] = Turn(h, n)
    <3>1. n # 0 => n - 1 \in 0 .. N - 1
      OBVIOUS
    <3>2. n # 0 => h[n - 1] = g[n - 1]
      BY <3>1, <2>2
    <3> QED
      BY <3>2
  <2>4. h = [n \in 0 .. N |-> h[n]]
    OBVIOUS
  <2> HIDE DEF h
  <2>5. IsScan(h, S, preference, load, N)
    BY <2>3, <2>4 DEF IsScan
  <2> QED
    BY <2>5
<1> HIDE DEF T
<1>3. Nat \subseteq T
  BY <1>1, <1>2, Climb
<1> QED
  BY <1>3 DEF T

LEMMA ScanStep ==
  ASSUME NEW S, NEW preference, NEW load
  PROVE  /\ BestSoFar(S, preference, load)[0] = 0
         /\ \A n \in 1 .. Len(Devices) :
              BestSoFar(S, preference, load)[n]
                = IF n \in S /\ BetterCandidate(BestSoFar(S, preference, load)[n - 1], n, preference, load)
                  THEN n ELSE BestSoFar(S, preference, load)[n - 1]
<1> DEFINE best == CHOOSE table : IsScan(table, S, preference, load, Len(Devices))
<1>1. Len(Devices) \in Nat
  BY RegistryAssumption
<1>2. IsScan(best, S, preference, load, Len(Devices))
  BY <1>1, ScanExists
<1>3. BestSoFar(S, preference, load) = best
  BY DEF BestSoFar, IsScan
<1> HIDE DEF best
<1>4. best[0] = 0
  BY <1>1, <1>2 DEF IsScan
<1>5. ASSUME NEW n \in 1 .. Len(Devices)
      PROVE  best[n] = IF n \in S /\ BetterCandidate(best[n - 1], n, preference, load)
                       THEN n ELSE best[n - 1]
  <2>1. n \in 0 .. Len(Devices) /\ n # 0
    BY <1>1
  <2> QED
    BY <1>2, <2>1, Zenon DEF IsScan
<1> QED
  BY <1>3, <1>4, <1>5

\* The comparison of two ranks, one criterion after the other.
Ints4(a) == a[1] \in Int /\ a[2] \in Int /\ a[3] \in Int /\ a[4] \in Int

Less4(a, b) ==
  \/ a[1] < b[1]
  \/ a[1] = b[1] /\ a[2] < b[2]
  \/ a[1] = b[1] /\ a[2] = b[2] /\ a[3] < b[3]
  \/ a[1] = b[1] /\ a[2] = b[2] /\ a[3] = b[3] /\ a[4] < b[4]

LEMMA PrecedesIsLess4 == ASSUME NEW a, NEW b PROVE Precedes(a, b) <=> Less4(a, b)
<1>1. ASSUME NEW k \in 1 .. 4, a[k] < b[k], \A i \in 1 .. k - 1 : a[i] = b[i] PROVE Less4(a, b)
  <2>1. k = 1 \/ k = 2 \/ k = 3 \/ k = 4
    OBVIOUS
  <2> QED
    BY <1>1, <2>1 DEF Less4
<1>2. ASSUME a[1] < b[1] PROVE Precedes(a, b)
  <2>1. \A i \in 1 .. 1 - 1 : a[i] = b[i]
    OBVIOUS
  <2> QED
    BY <1>2, <2>1 DEF Precedes
<1>3. ASSUME a[1] = b[1], a[2] < b[2] PROVE Precedes(a, b)
  <2>1. \A i \in 1 .. 2 - 1 : a[i] = b[i]
    BY <1>3
  <2> QED
    BY <1>3, <2>1 DEF Precedes
<1>4. ASSUME a[1] = b[1], a[2] = b[2], a[3] < b[3] PROVE Precedes(a, b)
  <2>1. \A i \in 1 .. 3 - 1 : a[i] = b[i]
    BY <1>4
  <2> QED
    BY <1>4, <2>1 DEF Precedes
<1>5. ASSUME a[1] = b[1], a[2] = b[2], a[3] = b[3], a[4] < b[4] PROVE Precedes(a, b)
  <2>1. \A i \in 1 .. 4 - 1 : a[i] = b[i]
    BY <1>5
  <2> QED
    BY <1>5, <2>1 DEF Precedes
<1> QED
  BY <1>1, <1>2, <1>3, <1>4, <1>5 DEF Precedes, Less4

LEMMA RankOrder ==
  ASSUME NEW a, NEW b, NEW c, Ints4(a), Ints4(b), Ints4(c)
  PROVE  /\ ~Precedes(a, a)
         /\ Precedes(a, b) /\ Precedes(b, c) => Precedes(a, c)
         /\ ~Precedes(a, b) /\ ~Precedes(b, a) =>
              a[1] = b[1] /\ a[2] = b[2] /\ a[3] = b[3] /\ a[4] = b[4]
  BY PrecedesIsLess4 DEF Less4, Ints4

\* better_candidate compares ranks.
LEMMA BetterPrecedes ==
  ASSUME NEW load \in [Slots -> Nat], NEW b \in Slots, NEW c \in Slots, NEW preference
  PROVE  BetterCandidate(b, c, preference, load)
           <=> Precedes(Rank(c, preference, load), Rank(b, preference, load))
<1>1. Devices[b] \in DeviceRecords /\ Devices[c] \in DeviceRecords /\ b # 0
  BY RegistryAssumption DEF Slots
<1>2. /\ Devices[b].security \in Int /\ Devices[c].security \in Int
      /\ Devices[b].efficiency \in Int /\ Devices[c].efficiency \in Int
      /\ Devices[b].priority \in Int /\ Devices[c].priority \in Int
      /\ Devices[b].id \in Nat /\ Devices[c].id \in Nat
      /\ load[b] \in Nat /\ load[c] \in Nat
  BY <1>1, CIntRange DEF DeviceRecords
<1>3. Precedes(Rank(c, preference, load), Rank(b, preference, load))
        <=> Less4(Rank(c, preference, load), Rank(b, preference, load))
  BY PrecedesIsLess4
<1>4. CASE preference = "secure"
  BY <1>1, <1>2, <1>3, <1>4 DEF BetterCandidate, Less4, Rank
<1>5. CASE preference = "efficient"
  BY <1>1, <1>2, <1>3, <1>5 DEF BetterCandidate, Less4, Rank
<1>6. CASE preference # "secure" /\ preference # "efficient"
  BY <1>1, <1>2, <1>3, <1>6 DEF BetterCandidate, Less4, Rank
<1> QED
  BY <1>4, <1>5, <1>6

\* b is what the loop has after n slots: the best of those among them that are
\* in S and of equals the first, or nothing if there are none.
Leads(b, n, S, preference, load) ==
  LET R(s) == Rank(s, preference, load)
  IN  \/ b = 0 /\ \A t \in S : t > n
      \/ /\ b \in S /\ b <= n
         /\ \A t \in S : t <= n => ~Precedes(R(t), R(b)) /\ (R(t) = R(b) => b <= t)

\* One turn of the loop.
LEMMA LeadsOn ==
  ASSUME NEW load \in [Slots -> Nat], NEW S, S \subseteq Slots, NEW preference,
         NEW n \in 1 .. Len(Devices), NEW b, Leads(b, n - 1, S, preference, load)
  PROVE  Leads(IF n \in S /\ BetterCandidate(b, n, preference, load) THEN n ELSE b,
               n, S, preference, load)
<1> DEFINE R(s) == Rank(s, preference, load)
<1>0. Slots \subseteq Nat /\ 0 \notin Slots /\ n \in Nat
  BY RegistryAssumption DEF Slots
<1>1. \A s \in S : Ints4(R(s))
  BY RankType DEF Ints4
<1>2. \A s \in S : b \in S => (BetterCandidate(b, s, preference, load) <=> Precedes(R(s), R(b)))
  BY BetterPrecedes
<1> HIDE DEF R
<1>3. \A b1, n1 : Leads(b1, n1, S, preference, load) <=>
        \/ b1 = 0 /\ \A t \in S : t > n1
        \/ /\ b1 \in S /\ b1 <= n1
           /\ \A t \in S : t <= n1 => ~Precedes(R(t), R(b1)) /\ (R(t) = R(b1) => b1 <= t)
  BY DEF Leads, R
<1>4. \A t \in S : (t <= n <=> t <= n - 1 \/ t = n) /\ (t > n <=> t > n - 1 /\ t # n) /\ t \in Nat
  BY <1>0
<1>5. CASE n \notin S
  BY <1>0, <1>3, <1>4, <1>5
<1>6. CASE n \in S /\ b = 0
  <2>1. BetterCandidate(b, n, preference, load)
    BY <1>6 DEF BetterCandidate
  <2>2. \A t \in S : t > n - 1
    BY <1>0, <1>3, <1>6
  <2>3. \A t \in S : t <= n => t = n
    BY <1>4, <2>2, <1>0
  <2>4. ~Precedes(R(n), R(n))
    BY <1>1, <1>6, RankOrder
  <2>5. Leads(n, n, S, preference, load)
    BY <1>0, <1>3, <1>6, <2>3, <2>4
  <2> QED
    BY <1>6, <2>1, <2>5
<1>7. CASE n \in S /\ b # 0
  <2>1. /\ b \in S /\ b <= n - 1
        /\ \A t \in S : t <= n - 1 => ~Precedes(R(t), R(b)) /\ (R(t) = R(b) => b <= t)
    BY <1>3, <1>7
  <2>2. CASE BetterCandidate(b, n, preference, load)
    <3>1. Precedes(R(n), R(b))
      BY <1>2, <1>7, <2>1, <2>2
    <3>2. ASSUME NEW t \in S, t <= n - 1 PROVE ~Precedes(R(t), R(n)) /\ R(t) # R(n)
      BY <1>1, <1>7, <2>1, <3>1, <3>2, RankOrder
    <3>3. ~Precedes(R(n), R(n))
      BY <1>1, <1>7, RankOrder
    <3>4. Leads(n, n, S, preference, load)
      BY <1>0, <1>3, <1>4, <1>7, <3>2, <3>3
    <3> QED
      BY <1>7, <2>2, <3>4
  <2>3. CASE ~BetterCandidate(b, n, preference, load)
    <3>1. ~Precedes(R(n), R(b))
      BY <1>2, <1>7, <2>1, <2>3
    <3>2. b \in Nat /\ b <= n
      BY <1>0, <2>1
    <3>3. Leads(b, n, S, preference, load)
      BY <1>3, <1>4, <2>1, <3>1, <3>2
    <3> QED
      BY <2>3, <3>3
  <2> QED
    BY <2>2, <2>3
<1> QED
  BY <1>5, <1>6, <1>7

\* The loop of registry_acquire_candidate, which keeps the best device so far and
\* replaces it by a better one (resource.c:110-122), ends with the device that
\* Best describes, for every registry, load and preference: the first of the
\* devices that no other beats, and with none only if there is none.
THEOREM LoopFindsBest ==
  ASSUME NEW load \in [Slots -> Nat], NEW S, S \subseteq Slots, NEW preference
  PROVE  Best(S, preference, load) = {BestSoFar(S, preference, load)[Len(Devices)]} \ {0}
<1> DEFINE best == BestSoFar(S, preference, load)
           N    == Len(Devices)
           T    == {n \in Nat : n <= N => Leads(best[n], n, S, preference, load)}
           R(s) == Rank(s, preference, load)
<1>0. N \in Nat /\ Slots = 1 .. N
  BY RegistryAssumption DEF Slots
<1>1. /\ best[0] = 0
      /\ \A n \in 1 .. N :
           best[n] = IF n \in S /\ BetterCandidate(best[n - 1], n, preference, load)
                     THEN n ELSE best[n - 1]
  BY ScanStep
<1> HIDE DEF best
<1>2. 0 \in T
  BY <1>0, <1>1 DEF Leads
<1>3. ASSUME NEW n \in Nat \ {0}, n - 1 \in T PROVE n \in T
  <2> SUFFICES ASSUME n <= N PROVE Leads(best[n], n, S, preference, load)
    OBVIOUS
  <2>1. n \in 1 .. N
    BY <1>0
  <2>2. Leads(best[n - 1], n - 1, S, preference, load)
    BY <1>0, <1>3, <2>1
  <2> QED
    BY <1>1, <2>1, <2>2, LeadsOn
<1> HIDE DEF T
<1>4. Nat \subseteq T
  BY <1>2, <1>3, Climb
<1>5. Leads(best[N], N, S, preference, load)
  BY <1>0, <1>4 DEF T
<1>6. PICK b : b = best[N]
  OBVIOUS
<1>7. \A s \in S : s \in Nat /\ s <= N /\ s # 0 /\ ~(s > N)
  BY <1>0
<1>8. CASE S = {}
  <2>1. b = 0
    BY <1>5, <1>6, <1>8 DEF Leads
  <2> QED
    BY <1>6, <1>8, <2>1 DEF Best, best
<1>9. CASE S # {}
  <2>1. /\ b \in S
        /\ \A t \in S : ~Precedes(R(t), R(b)) /\ (R(t) = R(b) => b <= t)
    BY <1>5, <1>6, <1>7, <1>9 DEF Leads
  <2>2. Best(S, preference, load)
          = {s \in S : \A t \in S : ~Precedes(R(t), R(s)) /\ (R(t) = R(s) => s <= t)}
    BY DEF Best
  <2>3. \A s \in S : Ints4(R(s)) /\ R(s) = <<R(s)[1], R(s)[2], R(s)[3], R(s)[4]>>
    <3>1. \A s \in S : Ints4(R(s))
      BY RankType DEF Ints4
    <3>2. \A s \in S : R(s) = <<R(s)[1], R(s)[2], R(s)[3], R(s)[4]>>
      BY DEF Rank
    <3> QED
      BY <3>1, <3>2
  <2> HIDE DEF R
  <2>4. ASSUME NEW s \in S, \A t \in S : ~Precedes(R(t), R(s)) /\ (R(t) = R(s) => s <= t)
        PROVE  s = b
    <3>1. ~Precedes(R(b), R(s)) /\ ~Precedes(R(s), R(b))
      BY <2>1, <2>4
    <3>2. R(s) = R(b)
      BY <2>1, <2>3, <3>1, RankOrder
    <3> QED
      BY <1>7, <2>1, <2>4, <3>2
  <2>5. Best(S, preference, load) = {b}
    BY <2>1, <2>2, <2>4
  <2> QED
    BY <1>6, <1>7, <2>1, <2>5 DEF best
<1> QED
  BY <1>8, <1>9

-----------------------------------------------------------------------------
(***************************************************************************)
(* The two loops around it return at their first result.                   *)
(***************************************************************************)

\* What the definition of FirstResult asks of its table.
IsRun(found, results, N) ==
  found = [n \in 0 .. N |->
             IF n = 0 THEN 0 ELSE IF found[n - 1] # 0 THEN found[n - 1] ELSE results[n]]

LEMMA RunExists ==
  ASSUME NEW results
  PROVE  \A N \in Nat : \E found : IsRun(found, results, N)
<1> DEFINE T == {N \in Nat : \E found : IsRun(found, results, N)}
           Turn(f, n) == IF n = 0 THEN 0 ELSE IF f[n - 1] # 0 THEN f[n - 1] ELSE results[n]
<1>1. 0 \in T
  <2> DEFINE h == [n \in 0 .. 0 |-> 0]
  <2>1. h = [n \in 0 .. 0 |-> Turn(h, n)]
    OBVIOUS
  <2>2. IsRun(h, results, 0)
    BY <2>1 DEF IsRun
  <2> QED
    BY <2>2
<1>2. ASSUME NEW N \in Nat \ {0}, N - 1 \in T PROVE N \in T
  <2>1. PICK g : IsRun(g, results, N - 1)
    BY <1>2
  <2> DEFINE h == [n \in 0 .. N |-> Turn(g, n)]
  <2>2. ASSUME NEW n \in 0 .. N - 1 PROVE h[n] = g[n]
    <3>1. n \in 0 .. N
      OBVIOUS
    <3>2. g[n] = Turn(g, n)
      BY <2>1, Zenon DEF IsRun
    <3>3. h[n] = Turn(g, n)
      BY <3>1, Zenon
    <3> QED
      BY <3>2, <3>3
  <2>3. ASSUME NEW n \in 0 .. N PROVE h[n] = Turn(h, n)
    <3>1. n # 0 => n - 1 \in 0 .. N - 1
      OBVIOUS
    <3>2. n # 0 => h[n - 1] = g[n - 1]
      BY <3>1, <2>2
    <3> QED
      BY <3>2
  <2>4. h = [n \in 0 .. N |-> h[n]]
    OBVIOUS
  <2> HIDE DEF h
  <2>5. IsRun(h, results, N)
    BY <2>3, <2>4 DEF IsRun
  <2> QED
    BY <2>5
<1> HIDE DEF T
<1>3. Nat \subseteq T
  BY <1>1, <1>2, Climb
<1> QED
  BY <1>3 DEF T

\* The loop ends with the result of the first turn that has one, if any has.
LEMMA RunIsFirst ==
  ASSUME NEW N \in Nat, NEW results
  PROVE  \/ /\ FirstResult(results, N) = 0
            /\ \A n \in 1 .. N : results[n] = 0
         \/ \E k \in 1 .. N : /\ FirstResult(results, N) = results[k]
                              /\ results[k] # 0
                              /\ \A n \in 1 .. k - 1 : results[n] = 0
<1> DEFINE found == CHOOSE table : IsRun(table, results, N)
           Ends(n) == \/ found[n] = 0 /\ \A i \in 1 .. n : results[i] = 0
                      \/ \E k \in 1 .. n : /\ found[n] = results[k]
                                           /\ results[k] # 0
                                           /\ \A i \in 1 .. k - 1 : results[i] = 0
           T == {n \in Nat : n <= N => Ends(n)}
<1>1. IsRun(found, results, N)
  BY RunExists
<1>2. FirstResult(results, N) = found[N]
  BY DEF FirstResult, IsRun
<1> HIDE DEF found
<1>3. found[0] = 0
  BY <1>1 DEF IsRun
<1>4. ASSUME NEW n \in 1 .. N
      PROVE  found[n] = IF found[n - 1] # 0 THEN found[n - 1] ELSE results[n]
  <2>1. n \in 0 .. N /\ n # 0
    OBVIOUS
  <2> QED
    BY <1>1, <2>1, Zenon DEF IsRun
<1>5. 0 \in T
  BY <1>3
<1>6. ASSUME NEW n \in Nat \ {0}, n - 1 \in T PROVE n \in T
  <2> SUFFICES ASSUME n <= N PROVE Ends(n)
    OBVIOUS
  <2>1. n \in 1 .. N /\ Ends(n - 1)
    BY <1>6
  <2>2. found[n] = IF found[n - 1] # 0 THEN found[n - 1] ELSE results[n]
    BY <1>4, <2>1
  <2>3. \A i \in 1 .. n : i = n \/ i \in 1 .. n - 1
    BY <2>1
  <2>4. 1 .. n - 1 \subseteq 1 .. n /\ n \in 1 .. n
    BY <2>1
  <2>5. CASE found[n - 1] = 0 /\ \A i \in 1 .. n - 1 : results[i] = 0
    BY <2>2, <2>3, <2>4, <2>5
  <2>6. CASE \E k \in 1 .. n - 1 : /\ found[n - 1] = results[k]
                                    /\ results[k] # 0
                                    /\ \A i \in 1 .. k - 1 : results[i] = 0
    BY <2>2, <2>4, <2>6
  <2> QED
    BY <2>1, <2>5, <2>6
<1> HIDE DEF T, Ends
<1>7. Nat \subseteq T
  BY <1>5, <1>6, Climb
<1>8. Ends(N)
  BY <1>7 DEF T
<1> QED
  BY <1>2, <1>8 DEF Ends

\* The loop over the devices with the hint's id: what it is after, and what its
\* turns find.
Hinted(S, hint) == {s \in S : Devices[s].id = hint}
HintTurns(S, hint) == [s \in Slots |-> IF s \in S /\ Devices[s].id = hint THEN s ELSE 0]

LEMMA HintLoop ==
  ASSUME NEW S, S \subseteq Slots, NEW hint
  PROVE  First(Hinted(S, hint)) = {FirstResult(HintTurns(S, hint), Len(Devices))} \ {0}
<1> DEFINE M == Hinted(S, hint)
           results == HintTurns(S, hint)
           got == FirstResult(results, Len(Devices))
<1>1. PICK N \in Nat : N = Len(Devices) /\ Slots = 1 .. N
  BY RegistryAssumption DEF Slots
<1>2. \A s \in 1 .. N : results[s] = IF s \in M THEN s ELSE 0
  BY <1>1 DEF Hinted, HintTurns
<1>3. M \subseteq 1 .. N
  BY <1>1 DEF Hinted
<1> HIDE DEF M, results
<1>4. \/ got = 0 /\ \A n \in 1 .. N : results[n] = 0
      \/ \E k \in 1 .. N : got = results[k] /\ results[k] # 0 /\ \A n \in 1 .. k - 1 : results[n] = 0
  BY <1>1, RunIsFirst
<1> HIDE DEF got
<1>5. CASE got = 0 /\ \A n \in 1 .. N : results[n] = 0
  <2>1. M = {}
    BY <1>2, <1>3, <1>5
  <2>2. First(M) = {got} \ {0}
    BY <1>5, <2>1 DEF First
  <2> QED
    BY <2>2 DEF M, got, results
<1>6. CASE \E k \in 1 .. N : got = results[k] /\ results[k] # 0 /\ \A n \in 1 .. k - 1 : results[n] = 0
  <2>1. PICK k \in 1 .. N : got = results[k] /\ results[k] # 0 /\ \A n \in 1 .. k - 1 : results[n] = 0
    BY <1>6
  <2>2. k \in M /\ got = k
    BY <1>2, <2>1
  <2>3. \A s \in M : k <= s
    <3> SUFFICES ASSUME NEW s \in M, s < k PROVE FALSE
      BY <1>3
    <3>1. s \in 1 .. N /\ s \in 1 .. k - 1
      BY <1>3
    <3> QED
      BY <1>2, <2>1, <3>1
  <2>4. \A s \in M : s <= k => s = k
    BY <1>3, <2>3
  <2>5. First(M) = {k}
    BY <2>2, <2>3, <2>4 DEF First
  <2>6. First(M) = {got} \ {0}
    BY <2>2, <2>5
  <2> QED
    BY <2>6 DEF M, got, results
<1> QED
  BY <1>4, <1>5, <1>6

\* registry_acquire_candidate as it is written (resource.c:94-131), with the loop
\* over the devices with the hint's id, the loop over the types of the order and
\* the loop over the devices in it, each left at its first result, takes the
\* device that the specification takes and fails exactly when that takes none:
\* for every registry, load, request and order of device types.
THEOREM LoopsFindCandidate ==
  ASSUME NEW load \in [Slots -> Nat], NEW op, NEW hint, NEW source, NEW preference,
         NEW types \in Seq({"classic", "pqc"})
  PROVE  Candidate(load, op, hint, source, preference, types)
           = {AcquireCandidate(load, op, hint, source, preference, types)} \ {0}
<1> DEFINE available == Available(load, op, source)
           OfType(i) == {s \in available : Devices[s].type = types[i]}
           Taken(i)  == BestSoFar(OfType(i), preference, load)[Len(Devices)]
           results   == [i \in DOMAIN types |-> Taken(i)]
           got       == FirstResult(results, Len(types))
           tried     == First({i \in DOMAIN types : OfType(i) # {}})
           S         == {s \in available : \E i \in tried : s \in OfType(i)}
<1>1. available \subseteq Slots
  BY DEF Available
<1>2. CASE hint # NoId
  <2> HIDE DEF available
  <2>1. First(Hinted(available, hint))
          = {FirstResult(HintTurns(available, hint), Len(Devices))} \ {0}
    BY <1>1, HintLoop
  <2> QED
    BY <1>2, <2>1 DEF Candidate, AcquireCandidate, Hinted, HintTurns, available
<1>3. CASE hint = NoId
  <2>1. Candidate(load, op, hint, source, preference, types) = Best(S, preference, load)
    BY <1>3 DEF Candidate
  <2>2. ASSUME NEW i \in DOMAIN types
        PROVE  {s \in available : types[i] \in {"unknown", Devices[s].type}} = OfType(i)
    <3>1. types[i] \in {"classic", "pqc"}
      OBVIOUS
    <3>2. types[i] # "unknown"
      BY <3>1
    <3> QED
      BY <3>2
  <2>3. AcquireCandidate(load, op, hint, source, preference, types) = got
    <3>1. [i \in DOMAIN types |->
             BestSoFar({s \in available : types[i] \in {"unknown", Devices[s].type}},
                       preference, load)[Len(Devices)]] = results
      BY <2>2
    <3> QED
      BY <1>3, <3>1, Zenon DEF AcquireCandidate
  <2>4. PICK N \in Nat : N = Len(types) /\ DOMAIN types = 1 .. N
    OBVIOUS
  <2>5. ASSUME NEW i \in 1 .. N
        PROVE  Best(OfType(i), preference, load) = {results[i]} \ {0}
    <3>1. OfType(i) \subseteq Slots
      BY <1>1
    <3>2. results[i] = Taken(i)
      BY <2>4
    <3> HIDE DEF OfType
    <3>3. Best(OfType(i), preference, load) = {Taken(i)} \ {0}
      BY <3>1, LoopFindsBest
    <3> QED
      BY <3>2, <3>3
  <2>6. ASSUME NEW i \in 1 .. N PROVE OfType(i) = {} <=> results[i] = 0
    <3>1. OfType(i) \subseteq Slots
      BY <1>1
    <3> HIDE DEF OfType, results
    <3>2. OfType(i) # {} => Best(OfType(i), preference, load) # {}
      BY <3>1, BestExists
    <3>3. OfType(i) = {} => Best(OfType(i), preference, load) = {}
      BY DEF Best
    <3> QED
      BY <2>5, <3>2, <3>3
  <2> HIDE DEF results
  <2>7. \/ got = 0 /\ \A n \in 1 .. N : results[n] = 0
        \/ \E k \in 1 .. N : got = results[k] /\ results[k] # 0 /\ \A n \in 1 .. k - 1 : results[n] = 0
    BY <2>4, RunIsFirst
  <2> HIDE DEF got
  <2>8. tried = {i \in 1 .. N : OfType(i) # {} /\ \A j \in 1 .. N : OfType(j) # {} => i <= j}
    BY <2>4 DEF First
  <2>9. CASE got = 0 /\ \A n \in 1 .. N : results[n] = 0
    <3>1. S = {}
      BY <2>6, <2>8, <2>9
    <3>2. Best(S, preference, load) = {}
      BY <3>1 DEF Best
    <3> QED
      BY <2>1, <2>3, <2>9, <3>2
  <2>10. CASE \E k \in 1 .. N : got = results[k] /\ results[k] # 0 /\ \A n \in 1 .. k - 1 : results[n] = 0
    <3>1. PICK k \in 1 .. N : got = results[k] /\ results[k] # 0 /\ \A n \in 1 .. k - 1 : results[n] = 0
      BY <2>10
    <3>2. \A j \in 1 .. N : OfType(j) # {} => k <= j
      <4> SUFFICES ASSUME NEW j \in 1 .. N, j < k PROVE OfType(j) = {}
        OBVIOUS
      <4>1. j \in 1 .. k - 1
        OBVIOUS
      <4> QED
        BY <2>6, <3>1, <4>1
    <3>3. OfType(k) # {}
      BY <2>6, <3>1
    <3> HIDE DEF OfType
    <3>4. tried = {k}
      <4>1. k \in tried
        BY <2>8, <3>2, <3>3
      <4>2. \A i \in tried : i \in 1 .. N /\ i <= k /\ k <= i
        BY <2>8, <3>2, <3>3
      <4> HIDE DEF tried
      <4>3. \A i \in tried : i = k
        BY <4>2
      <4> QED
        BY <4>1, <4>3
    <3>5. OfType(k) \subseteq available
      BY DEF OfType
    <3> HIDE DEF tried, available
    <3>6. S = OfType(k)
      BY <3>4, <3>5
    <3> HIDE DEF S
    <3>7. Best(S, preference, load) = {got} \ {0}
      BY <2>5, <3>1, <3>6
    <3> QED
      BY <2>1, <2>3, <3>7
  <2> QED
    BY <2>7, <2>9, <2>10
<1> QED
  BY <1>2, <1>3

\* build_order names known types only.
LEMMA OrderType ==
  ASSUME NEW preference, NEW type \in {"classic", "pqc", "unknown"}
  PROVE  Order(preference, type) \in Seq({"classic", "pqc"})
<1>1. PICK c, q : c = "classic" /\ q = "pqc" /\ c # "unknown" /\ q # "unknown"
  OBVIOUS
<1>2. <<c>> \in Seq({c, q}) /\ <<q>> \in Seq({c, q}) /\ <<c, q>> \in Seq({c, q}) /\ <<q, c>> \in Seq({c, q})
  OBVIOUS
<1>3. Order(preference, type) \in {<<c>>, <<q>>, <<c, q>>, <<q, c>>}
  <2>1. CASE type = "unknown"
    BY <1>1, <2>1 DEF Order
  <2>2. CASE type = c \/ type = q
    BY <1>1, <2>2 DEF Order
  <2> QED
    BY <1>1, <2>1, <2>2
<1> QED
  BY <1>1, <1>2, <1>3

\* In every state in which a worker asks the registry for a device, the device its
\* next step takes is the one the loops as they are written come to.
TakesAsWritten ==
  \A w \in Workers : pc[w] = "acquire" /\ ~Unbound(req[w]) =>
    Choice(w) = {AcquireCandidate(inflight, Current(w).op, EffectiveHint(req[w]), req[w].source,
                                  req[w].preference,
                                  Order(req[w].preference, Current(w).type))} \ {0}

\* execute_single_step only ever calls registry_acquire_candidate with an order of
\* known device types, whatever the sequence and the preference of its request
\* (scheduler.c:176-195), so that in every behaviour the step takes the device
\* the loops of resource.c:94-131 come to, or fails when they return -1.
THEOREM TakesAsWrittenCorrect == SafeSpec => []TakesAsWritten
<1>1. ASSUME TypeOK, WorkInv PROVE TakesAsWritten
  <2> SUFFICES ASSUME NEW w \in Workers, pc[w] = "acquire", ~Unbound(req[w])
               PROVE  Choice(w) = {AcquireCandidate(inflight, Current(w).op,
                                     EffectiveHint(req[w]), req[w].source, req[w].preference,
                                     Order(req[w].preference, Current(w).type))} \ {0}
    BY DEF TakesAsWritten
  <2>1. req[w] \in Requests /\ step[w] \in 1 .. Len(Steps(req[w]))
    BY <1>1 DEF WorkInv, WorkSafe
  <2>2. Current(w) \in StepRecords
    BY <2>1, RequestsAssumption DEF Current
  <2>3. Current(w).type \in {"classic", "pqc", "unknown"}
    BY <2>2 DEF StepRecords
  <2>4. Order(req[w].preference, Current(w).type) \in Seq({"classic", "pqc"})
    BY <2>3, OrderType
  <2>5. inflight \in [Slots -> Nat]
    BY <1>1 DEF TypeOK
  <2> QED
    BY <2>4, <2>5, LoopsFindCandidate DEF Choice
<1>2. Init => WorkInv
  BY DEF Init, WorkInv, WorkSafe, PayloadPerWorker
<1> QED
  BY <1>1, <1>2, NextWorkInv, InitTypeOK, NextTypeOK, PTL DEF SafeSpec

=============================================================================
