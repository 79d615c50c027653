------------------------------ MODULE Registry ------------------------------
(***************************************************************************)
(* resource.c: which device a request is given.  The registry is an array  *)
(* of devices that never changes once the gateway runs, apart from the     *)
(* number of requests in flight on each, which is a parameter here and a   *)
(* variable of Scheduler.                                                  *)
(***************************************************************************)
EXTENDS Naturals, Integers, Sequences

CONSTANTS Devices,   \* resource_registry_t, in the order of devices.conf
          NoId       \* the empty device id

(***************************************************************************)
(* A device's id is a positive number and NoId is 0; the order of ids is   *)
(* that of strcmp.  A capability is <<domain, action, algorithm, sources>> *)
(* with the set of key sources its mask allows.                            *)
(***************************************************************************)
KeySources == 1 .. 4   \* internal_index, session_handle, external_key, managed_key

Slots == 1 .. Len(Devices)

\* device_supports: source 0 means that the key reference names no source.
Supports(s, op, source) ==
  \E cap \in Devices[s].caps :
     /\ cap[1] = op[1]
     /\ cap[2] = op[2]
     /\ cap[3] \in {op[3], "auto"}
     /\ source = 0 \/ source \in cap[4]

Fits(s, op, source) == Devices[s].enabled /\ Supports(s, op, source)

-----------------------------------------------------------------------------
\* A plausible error in the code, a variant of the definition below: the test
\* of the limit is off by one.  No specification uses it.
AvailableOverfull(inflight, op, source) ==
  {s \in Slots : inflight[s] <= Devices[s].max /\ Fits(s, op, source)}
-----------------------------------------------------------------------------

\* The slots that can take one more request of this kind.
Available(inflight, op, source) ==
  {s \in Slots : inflight[s] < Devices[s].max /\ Fits(s, op, source)}

\* The first of some positions, as a set of at most one.
First(S) == {s \in S : \A t \in S : s <= t}

\* better_candidate compares one criterion after the other: the score the
\* preference asks for, the configured priority, the load, the id.
Rank(s, preference, inflight) ==
  << IF preference = "secure" THEN -Devices[s].security
     ELSE IF preference = "efficient" THEN -Devices[s].efficiency ELSE 0,
     Devices[s].priority, inflight[s], Devices[s].id >>

Precedes(a, b) ==
  \E k \in 1 .. 4 : a[k] < b[k] /\ \A i \in 1 .. k - 1 : a[i] = b[i]

\* better_candidate as it is written; 0 is the NULL of the loop's first turn.
BetterCandidate(best, cand, preference, inflight) ==
  LET b == Devices[best]
      c == Devices[cand]
  IN  CASE best = 0 -> TRUE
        [] best # 0 /\ preference = "secure" /\ c.security # b.security
             -> c.security > b.security
        [] best # 0 /\ preference = "efficient" /\ c.efficiency # b.efficiency
             -> c.efficiency > b.efficiency
        [] OTHER -> \/ c.priority < b.priority
                    \/ /\ c.priority = b.priority
                       /\ \/ inflight[cand] < inflight[best]
                          \/ inflight[cand] = inflight[best] /\ c.id < b.id

\* The inner loop of registry_acquire_candidate: the best of those among the
\* first n slots that are in S, or 0.
BestSoFar(S, preference, inflight) ==
  LET best[n \in 0 .. Len(Devices)] ==
        IF n = 0 THEN 0
        ELSE IF n \in S /\ BetterCandidate(best[n - 1], n, preference, inflight) THEN n
        ELSE best[n - 1]
  IN  best

\* The device that loop ends with, as a set of at most one: it replaces the best
\* so far only by a strictly better one, so that of equals the first stays.
Best(S, preference, inflight) ==
  LET Ranked(s) == Rank(s, preference, inflight)
  IN  {s \in S : \A t \in S : /\ ~Precedes(Ranked(t), Ranked(s))
                              /\ Ranked(t) = Ranked(s) => s <= t}

\* registry_acquire_candidate: the chosen slot, as a set of at most one.  A
\* hint names the device whatever its type and rank; without one the types
\* are tried in order and only the best device of the first type that has an
\* available one is taken.
Candidate(inflight, op, hint, source, preference, types) ==
  LET available == Available(inflight, op, source)
      OfType(i) == {s \in available : Devices[s].type = types[i]}
      tried     == First({i \in DOMAIN types : OfType(i) # {}})
  IN  IF hint # NoId
      THEN First({s \in available : Devices[s].id = hint})
      ELSE Best({s \in available : \E i \in tried : s \in OfType(i)}, preference, inflight)

\* A loop that returns at its first result, after the given number of turns:
\* results[n] is what turn n finds, 0 when it finds nothing and goes on.
FirstResult(results, turns) ==
  LET found[n \in 0 .. turns] ==
        IF n = 0 THEN 0 ELSE IF found[n - 1] # 0 THEN found[n - 1] ELSE results[n]
  IN  found[turns]

\* registry_acquire_candidate as it is written: the loop over the devices with
\* the hint's id, or else the loop over the types around the loop for the best
\* device.  DEV_UNKNOWN in the order accepts every type.  0 is its return of -1.
AcquireCandidate(inflight, op, hint, source, preference, types) ==
  LET available == Available(inflight, op, source)
      OfType(i) == {s \in available : types[i] \in {"unknown", Devices[s].type}}
  IN  IF hint # NoId
      THEN FirstResult([s \in Slots |-> IF s \in available /\ Devices[s].id = hint THEN s ELSE 0],
                       Len(Devices))
      ELSE FirstResult([i \in DOMAIN types |->
                          BestSoFar(OfType(i), preference, inflight)[Len(Devices)]],
                       Len(types))

\* registry_release gives the device back by its id, not by its slot: the
\* first slot with that id is decremented, unless it is at zero already.
Namesakes(s) == {t \in Slots : Devices[t].id = Devices[s].id}

\* A plausible error in the code: the loop goes on after the first match.
ReleaseEvery(inflight, s) ==
  [t \in Slots |-> IF t \in Namesakes(s) /\ inflight[t] > 0
                   THEN inflight[t] - 1 ELSE inflight[t]]

Release(inflight, s) ==
  [t \in Slots |-> IF t \in First(Namesakes(s)) /\ inflight[t] > 0
                   THEN inflight[t] - 1 ELSE inflight[t]]

=============================================================================
