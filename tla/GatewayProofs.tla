--------------------------- MODULE GatewayProofs ---------------------------
(***************************************************************************)
(* Theorems about Gateway, for every number of workers and clients, every  *)
(* queue depth and backlog, and every choice of signals.                   *)
(***************************************************************************)
EXTENDS Gateway, FiniteSetTheorems, TLAPS

Threads == Workers \cup {Main}

-----------------------------------------------------------------------------
(* Sequences without repetition: what the backlog and the queue are *)

Elems(s) == {s[i] : i \in 1 .. Len(s)}

Distinct(s) == \A i, k \in 1 .. Len(s) : s[i] = s[k] => i = k

LEMMA EmptyElems == Elems(<<>>) = {} /\ Distinct(<<>>)
  BY DEF Elems, Distinct

LEMMA AppendElems ==
  ASSUME NEW S, NEW s \in Seq(S), NEW e \in S
  PROVE  /\ Append(s, e) \in Seq(S) /\ Len(Append(s, e)) = Len(s) + 1
         /\ Elems(Append(s, e)) = Elems(s) \cup {e}
         /\ Distinct(s) /\ e \notin Elems(s) => Distinct(Append(s, e))
<1>1. Append(s, e) \in Seq(S) /\ Len(Append(s, e)) = Len(s) + 1
  OBVIOUS
<1>2. \A i \in 1 .. Len(s) + 1 : Append(s, e)[i] = IF i = Len(s) + 1 THEN e ELSE s[i]
  OBVIOUS
<1>3. \A i \in 1 .. Len(s) + 1 : i = Len(s) + 1 \/ i \in 1 .. Len(s)
  OBVIOUS
<1>4. Len(s) + 1 \in 1 .. Len(s) + 1 /\ \A i \in 1 .. Len(s) : i \in 1 .. Len(s) + 1 /\ i # Len(s) + 1
  OBVIOUS
<1>5. Elems(Append(s, e)) = Elems(s) \cup {e}
  BY <1>1, <1>2, <1>3, <1>4 DEF Elems
<1>6. ASSUME Distinct(s), e \notin Elems(s) PROVE Distinct(Append(s, e))
  BY <1>1, <1>2, <1>3, <1>6 DEF Distinct, Elems
<1> QED BY <1>1, <1>5, <1>6

LEMMA TailElems ==
  ASSUME NEW S, NEW s \in Seq(S), s # <<>>, Distinct(s)
  PROVE  /\ Tail(s) \in Seq(S) /\ Len(Tail(s)) = Len(s) - 1
         /\ Head(s) \in S /\ Head(s) \in Elems(s)
         /\ Elems(Tail(s)) = Elems(s) \ {Head(s)}
         /\ Distinct(Tail(s))
<1>1. Tail(s) \in Seq(S) /\ Len(Tail(s)) = Len(s) - 1 /\ Head(s) \in S
  OBVIOUS
<1>2. 1 \in 1 .. Len(s) /\ Head(s) = s[1] /\ Len(s) \in Nat
  OBVIOUS
<1>3. \A i \in 1 .. Len(s) - 1 : Tail(s)[i] = s[i + 1] /\ i + 1 \in 1 .. Len(s) /\ i + 1 # 1
  OBVIOUS
<1>4. \A k \in 1 .. Len(s) : k = 1 \/ (k - 1 \in 1 .. Len(s) - 1 /\ (k - 1) + 1 = k)
  BY <1>2
<1>5. Elems(Tail(s)) \subseteq Elems(s) \ {Head(s)}
  BY <1>1, <1>2, <1>3 DEF Elems, Distinct
<1>6. Elems(s) \ {Head(s)} \subseteq Elems(Tail(s))
  <2> SUFFICES ASSUME NEW k \in 1 .. Len(s), s[k] # s[1] PROVE s[k] \in Elems(Tail(s))
    BY <1>2 DEF Elems
  <2>1. k - 1 \in 1 .. Len(s) - 1 /\ (k - 1) + 1 = k
    BY <1>4
  <2>2. Tail(s)[k - 1] = s[k]
    BY <1>3, <2>1
  <2> QED BY <1>1, <2>1, <2>2 DEF Elems
<1>7. Distinct(Tail(s))
  <2> SUFFICES ASSUME NEW i \in 1 .. Len(s) - 1, NEW k \in 1 .. Len(s) - 1, s[i + 1] = s[k + 1]
               PROVE  i = k
    BY <1>1, <1>3 DEF Distinct
  <2>1. i + 1 = k + 1
    BY <1>3 DEF Distinct
  <2> QED BY <2>1
<1> QED BY <1>1, <1>2, <1>5, <1>6, <1>7 DEF Elems

-----------------------------------------------------------------------------
(* Types, and what the main thread holds where *)

LEMMA InitTypeOK == Init => TypeOK
<1> SUFFICES ASSUME Init PROVE TypeOK
  OBVIOUS
<1>1. q = <<>> /\ closed = FALSE /\ hand = [t \in Workers \cup {Main} |-> NoConn]
  <2>1. {Main} \cup Workers = Workers \cup {Main}
    OBVIOUS
  <2> QED BY <2>1 DEF Init, Queue!Init, Queue!Threads
<1>2. <<>> \in Seq(Conns) /\ Len(<<>>) <= Backlog /\ Len(<<>>) <= Depth
  BY BoundsAssumption
<1> QED
  BY <1>1, <1>2, ConnAssumption DEF Init, TypeOK, Locations

LEMMA NextTypeOK == TypeOK /\ [Next]_vars => TypeOK'
<1> SUFFICES ASSUME TypeOK, [Next]_vars PROVE TypeOK'
  OBVIOUS
<1> USE DEF TypeOK, Locations, clientVars, queueVars, signalVars
<1> USE ThreadAssumption, ConnAssumption, BoundsAssumption
<1>1. ASSUME NEW c \in Conns, Connect(c) PROVE TypeOK'
  <2>1. backlog' \in Seq(Conns) /\ Len(backlog') <= Backlog
    BY <1>1 DEF Connect
  <2> QED BY <1>1, <2>1 DEF Connect
<1>2. ASSUME NEW c \in Conns, Send(c) PROVE TypeOK'
  BY <1>2 DEF Send
<1>3. ASSUME NEW c \in Conns, Leave(c) PROVE TypeOK'
  BY <1>3 DEF Leave
<1>4. ASSUME NEW c \in Conns, Recycle(c) PROVE TypeOK'
  BY <1>4 DEF Recycle
<1>5. CASE TestStop
  BY <1>5 DEF TestStop
<1>6. CASE Accept
  <2>1. backlog' \in Seq(Conns) /\ Len(backlog') <= Backlog /\ conn' \in Conns
    BY <1>6 DEF Accept
  <2> QED BY <1>6, <2>1 DEF Accept
<1>7. CASE AcceptFails
  BY <1>7 DEF AcceptFails
<1>8. CASE ReadRequest
  BY <1>8 DEF ReadRequest, Queue!Submit
<1>9. CASE ReadGarbage
  BY <1>9 DEF ReadGarbage, WriteAndClose
<1>10. CASE Push
  <2>1. hand[Main] \in Conns
    BY <1>10 DEF Push
  <2>2. q' \in Seq(Conns) /\ Len(q') <= Depth
    BY <1>10, <2>1 DEF Push, Queue!Put
  <2> QED BY <1>10, <2>2 DEF Push, Queue!Put
<1>11. CASE StopQueue
  BY <1>11 DEF StopQueue, Queue!Close
<1>12. CASE Exit
  BY <1>12 DEF Exit
<1>13. ASSUME NEW w \in Workers, Pop(w) PROVE TypeOK'
  <2>1. CASE Queue!Take(w)
    <3>1. q' \in Seq(Conns) /\ Len(q') <= Depth /\ Head(q) \in Conns
      BY <2>1 DEF Queue!Take
    <3> QED BY <1>13, <2>1, <3>1 DEF Pop, Queue!Take
  <2>2. CASE Queue!TakeEnd(w)
    BY <1>13, <2>2 DEF Pop, Queue!TakeEnd
  <2> QED BY <1>13, <2>1, <2>2 DEF Pop
<1>14. ASSUME NEW w \in Workers, Respond(w) PROVE TypeOK'
  BY <1>14 DEF Respond, Queue!Finish, WriteAndClose
<1>15. ASSUME NEW s \in Signals, Signal(s) PROVE TypeOK'
  BY <1>15 DEF Signal
<1>16. ASSUME NEW s \in Signals, SecondSignal(s) PROVE TypeOK'
  BY <1>16 DEF SecondSignal
<1>17. CASE UNCHANGED vars
  BY <1>17 DEF vars
<1> HIDE DEF TypeOK, Locations, clientVars, queueVars, signalVars
<1> QED
  BY <1>1, <1>2, <1>3, <1>4, <1>5, <1>6, <1>7, <1>8, <1>9, <1>10, <1>11, <1>12, <1>13, <1>14,
     <1>15, <1>16, <1>17 DEF Next, Ended

\* The gateway's variables always have their types, and the main thread has a
\* connection in its local variable exactly while it reads from it, a job
\* exactly while it is inside queue_push (server.c:143-176).
THEOREM TypeCorrect == SafeSpec => []TypeOK
  BY InitTypeOK, NextTypeOK, PTL DEF SafeSpec

-----------------------------------------------------------------------------
(* Shutting down *)

\* The queue is closed when the main thread has left its loop and not before;
\* a worker that was told so leaves an empty queue behind, and the main thread
\* returns after all of them.
ShutInv ==
  /\ closed <=> pc \in {"join", "exit"}
  /\ (\E w \in Workers : hand[w] = EndOfQueue) => closed /\ q = <<>>
  /\ pc = "exit" => \A w \in Workers : hand[w] = EndOfQueue

LEMMA InitShutInv == Init => ShutInv
<1> SUFFICES ASSUME Init PROVE ShutInv
  OBVIOUS
<1>1. closed = FALSE /\ pc = "test" /\ \A w \in Workers : hand[w] = NoConn
  BY DEF Init, Queue!Init, Queue!Threads
<1> QED BY <1>1, ConnAssumption DEF ShutInv

LEMMA NextShutInv ==
  ASSUME TypeOK, ShutInv, [Next]_vars
  PROVE  ShutInv'
<1> USE DEF TypeOK, ShutInv, clientVars, queueVars, signalVars
<1> USE ThreadAssumption, ConnAssumption
<1>1. ASSUME UNCHANGED <<pc, q, closed, hand>> PROVE ShutInv'
  BY <1>1
<1>2. ASSUME NEW c \in Conns, Connect(c) \/ Send(c) \/ Leave(c) \/ Recycle(c) PROVE ShutInv'
  BY <1>1, <1>2 DEF Connect, Send, Leave, Recycle
<1>3. CASE TestStop \/ Accept \/ AcceptFails \/ ReadGarbage
  <2>1. /\ UNCHANGED <<q, closed, hand>>
        /\ pc \notin {"join", "exit"} /\ pc' \notin {"join", "exit"}
    BY <1>3 DEF TestStop, Accept, AcceptFails, ReadGarbage
  <2> QED BY <2>1
<1>4. CASE ReadRequest
  BY <1>4 DEF ReadRequest, Queue!Submit
<1>5. CASE Push
  BY <1>5 DEF Push, Queue!Put
<1>6. CASE StopQueue
  BY <1>6 DEF StopQueue, Queue!Close
<1>7. CASE Exit
  BY <1>7 DEF Exit
<1>8. ASSUME NEW w \in Workers, Pop(w) PROVE ShutInv'
  <2>1. CASE Queue!Take(w)
    <3>1. Head(q) \in Conns /\ q # <<>>
      BY <2>1 DEF Queue!Take
    <3> QED BY <1>8, <2>1, <3>1 DEF Pop, Queue!Take
  <2>2. CASE Queue!TakeEnd(w)
    BY <1>8, <2>2 DEF Pop, Queue!TakeEnd
  <2> QED BY <1>8, <2>1, <2>2 DEF Pop
<1>9. ASSUME NEW w \in Workers, Respond(w) PROVE ShutInv'
  BY <1>9 DEF Respond, Queue!Finish
<1>10. ASSUME NEW s \in Signals, Signal(s) PROVE ShutInv'
  BY <1>10 DEF Signal
<1>11. ASSUME NEW s \in Signals, SecondSignal(s) PROVE ShutInv'
  BY <1>1, <1>11 DEF SecondSignal
<1>12. CASE UNCHANGED vars
  BY <1>1, <1>12 DEF vars
<1> HIDE DEF TypeOK, ShutInv, clientVars, queueVars, signalVars
<1> QED
  BY <1>2, <1>3, <1>4, <1>5, <1>6, <1>7, <1>8, <1>9, <1>10, <1>11, <1>12 DEF Next, Ended

\* queue_push never finds the queue stopped: the branch that answers "queue
\* stopped" (server.c:170-176) is dead, whenever the signal comes.
THEOREM PushNeverRefusedCorrect == SafeSpec => []PushNeverRefused
<1>1. TypeOK /\ ShutInv => PushNeverRefused
  BY DEF TypeOK, ShutInv, PushNeverRefused
<1>2. TypeOK /\ ShutInv /\ [Next]_vars => ShutInv'
  BY NextShutInv
<1> QED
  BY <1>1, <1>2, InitTypeOK, NextTypeOK, InitShutInv, PTL DEF SafeSpec

-----------------------------------------------------------------------------
(* Who has which connection *)

\* The gateway has connection c somewhere.
Held(c) == c = conn \/ c \in Elems(q) \/ \E t \in Threads : hand[t] = c

\* Each connection that was accepted and is not closed is held, by one thread
\* or one slot; the others wait in the backlog, once, or are not there.
OwnInv ==
  /\ Distinct(backlog) /\ Distinct(q)
  /\ \A c \in Conns : link[c] = "none" => answer[c] = "none" /\ c \notin Elems(backlog)
  /\ \A c \in Elems(backlog) : answer[c] = "none"
  /\ \A c \in Conns : Taken(c) <=> Held(c)
  /\ conn \in Conns => conn \notin Elems(q) /\ \A t \in Threads : hand[t] # conn
  /\ \A t \in Threads : hand[t] \in Conns => hand[t] \notin Elems(q)
  /\ \A t, u \in Threads : hand[t] \in Conns /\ hand[t] = hand[u] => t = u

LEMMA TakenElems ==
  TypeOK => \A c : Taken(c) <=> link[c] # "none" /\ answer[c] = "none" /\ c \notin Elems(backlog)
<1>1. TypeOK => DOMAIN backlog = 1 .. Len(backlog)
  BY DEF TypeOK
<1> QED BY <1>1 DEF Taken, Elems

LEMMA InitOwnInv == Init => OwnInv
<1> SUFFICES ASSUME Init PROVE OwnInv
  OBVIOUS
<1>1. q = <<>> /\ \A t \in Threads : hand[t] = NoConn
  BY DEF Init, Queue!Init, Queue!Threads, Threads
<1> QED
  BY <1>1, InitTypeOK, TakenElems, EmptyElems, ConnAssumption DEF Init, OwnInv, Held

LEMMA NextOwnInv ==
  ASSUME TypeOK, OwnInv, [Next]_vars
  PROVE  OwnInv'
<1>1. TypeOK /\ TypeOK'
  BY NextTypeOK
<1>2. /\ \A c : Taken(c) <=> link[c] # "none" /\ answer[c] = "none" /\ c \notin Elems(backlog)
      /\ \A c : Taken(c)' <=> link'[c] # "none" /\ answer'[c] = "none" /\ c \notin Elems(backlog')
  <2>1. DOMAIN backlog' = 1 .. Len(backlog')
    BY <1>1 DEF TypeOK
  <2> QED BY <1>1, <2>1, TakenElems DEF Taken, Elems
<1>3. /\ backlog \in Seq(Conns) /\ q \in Seq(Conns)
      /\ Elems(backlog) \subseteq Conns /\ Elems(q) \subseteq Conns
      /\ link \in [Conns -> {"none", "open", "left"}]
      /\ answer \in [Conns -> {"none", "answered", "dropped"}]
      /\ hand \in [Threads -> Conns \cup {NoConn, EndOfQueue}]
      /\ conn \in Conns \cup {NoConn}
  BY DEF TypeOK, Elems, Threads
<1>4. /\ Main \in Threads /\ Workers \subseteq Threads /\ Main \notin Workers
      /\ NoConn \notin Conns /\ EndOfQueue \notin Conns
  BY ThreadAssumption, ConnAssumption DEF Threads
<1> USE DEF OwnInv, Held, clientVars, queueVars, signalVars
<1>5. ASSUME UNCHANGED <<backlog, q, hand, conn, link, answer>> PROVE OwnInv'
  BY <1>5, <1>2
<1>6. ASSUME NEW c \in Conns, Connect(c) PROVE OwnInv'
  <2>1. /\ link[c] = "none" /\ link' = [link EXCEPT ![c] = "open"]
        /\ backlog' = Append(backlog, c) /\ c \notin Elems(backlog) /\ answer[c] = "none"
        /\ UNCHANGED <<answer, conn, q, hand>>
    BY <1>6 DEF Connect
  <2>2. Distinct(backlog') /\ Elems(backlog') = Elems(backlog) \cup {c}
    BY <1>3, <2>1, AppendElems
  <2> QED BY <1>2, <1>3, <2>1, <2>2
<1>7. ASSUME NEW c \in Conns, Send(c) PROVE OwnInv'
  BY <1>5, <1>7 DEF Send
<1>8. ASSUME NEW c \in Conns, Leave(c) PROVE OwnInv'
  <2>1. /\ link[c] = "open" /\ link' = [link EXCEPT ![c] = "left"]
        /\ UNCHANGED <<answer, backlog, conn, q, hand>>
    BY <1>8 DEF Leave
  <2> QED BY <1>2, <1>3, <2>1
<1>9. ASSUME NEW c \in Conns, Recycle(c) PROVE OwnInv'
  <2>1. /\ link' = [link EXCEPT ![c] = "none"] /\ answer' = [answer EXCEPT ![c] = "none"]
        /\ answer[c] # "none" /\ c \notin Elems(backlog)
        /\ UNCHANGED <<backlog, conn, q, hand>>
    BY <1>9 DEF Recycle
  <2> QED BY <1>2, <1>3, <2>1
<1>10. CASE TestStop \/ AcceptFails \/ StopQueue \/ Exit
  BY <1>5, <1>10 DEF TestStop, AcceptFails, StopQueue, Exit, Queue!Close
<1>11. CASE Accept
  <2>1. /\ backlog # <<>> /\ conn = NoConn
        /\ conn' = Head(backlog) /\ backlog' = Tail(backlog)
        /\ UNCHANGED <<link, answer, q, hand>>
    BY <1>1, <1>11 DEF Accept, TypeOK
  <2>2. /\ Distinct(backlog') /\ Elems(backlog') = Elems(backlog) \ {conn'}
        /\ conn' \in Elems(backlog) /\ conn' \in Conns
    BY <1>3, <2>1, TailElems
  <2>3. link[conn'] # "none" /\ answer[conn'] = "none" /\ ~Taken(conn')
    BY <1>2, <2>2
  <2> QED BY <1>2, <1>3, <1>4, <2>1, <2>2, <2>3
<1>12. CASE ReadRequest
  <2>1. /\ conn \in Conns /\ hand[Main] = NoConn
        /\ conn' = NoConn /\ hand' = [hand EXCEPT ![Main] = conn]
        /\ UNCHANGED <<link, answer, backlog, q>>
    BY <1>1, <1>12 DEF ReadRequest, Queue!Submit, TypeOK
  <2> QED BY <1>2, <1>3, <1>4, <2>1
<1>13. CASE ReadGarbage
  <2>1. /\ conn \in Conns /\ conn' = NoConn
        /\ answer' = [answer EXCEPT ![conn] = "answered"]
        /\ UNCHANGED <<link, backlog, q, hand>>
    BY <1>1, <1>13 DEF ReadGarbage, WriteAndClose, TypeOK
  <2> QED BY <1>2, <1>3, <1>4, <2>1
<1>14. CASE Push
  <2>1. /\ hand[Main] \in Conns
        /\ q' = Append(q, hand[Main]) /\ hand' = [hand EXCEPT ![Main] = NoConn]
        /\ UNCHANGED <<link, answer, backlog, conn>>
    BY <1>1, <1>14 DEF Push, Queue!Put, TypeOK
  <2>2. Distinct(q') /\ Elems(q') = Elems(q) \cup {hand[Main]}
    BY <1>3, <1>4, <2>1, AppendElems
  <2> QED BY <1>2, <1>3, <1>4, <2>1, <2>2
<1>15. ASSUME NEW w \in Workers, Pop(w) PROVE OwnInv'
  <2>1. CASE Queue!Take(w)
    <3>1. /\ hand[w] = NoConn /\ q # <<>>
          /\ q' = Tail(q) /\ hand' = [hand EXCEPT ![w] = Head(q)]
          /\ UNCHANGED <<link, answer, backlog, conn>>
      BY <1>15, <2>1 DEF Pop, Queue!Take
    <3>2. Distinct(q') /\ Elems(q') = Elems(q) \ {Head(q)} /\ Head(q) \in Elems(q)
      BY <1>3, <3>1, TailElems
    <3> QED BY <1>2, <1>3, <1>4, <3>1, <3>2
  <2>2. CASE Queue!TakeEnd(w)
    <3>1. /\ hand[w] = NoConn /\ hand' = [hand EXCEPT ![w] = EndOfQueue]
          /\ UNCHANGED <<link, answer, backlog, conn, q>>
      BY <1>15, <2>2 DEF Pop, Queue!TakeEnd
    <3> QED BY <1>2, <1>3, <1>4, <3>1
  <2> QED BY <1>15, <2>1, <2>2 DEF Pop
<1>16. ASSUME NEW w \in Workers, Respond(w) PROVE OwnInv'
  <2>1. PICK a \in {"answered", "dropped"} : answer' = [answer EXCEPT ![hand[w]] = a]
    BY <1>16 DEF Respond, WriteAndClose
  <2>2. /\ hand[w] \in Conns /\ hand' = [hand EXCEPT ![w] = NoConn]
        /\ UNCHANGED <<link, backlog, conn, q>>
    BY <1>16 DEF Respond, Queue!Finish
  <2> QED BY <1>2, <1>3, <1>4, <2>1, <2>2
<1>17. ASSUME NEW s \in Signals, Signal(s) \/ SecondSignal(s) PROVE OwnInv'
  BY <1>5, <1>17 DEF Signal, SecondSignal
<1>18. CASE UNCHANGED vars
  BY <1>5, <1>18 DEF vars
<1> HIDE DEF OwnInv, Held, clientVars, queueVars, signalVars
<1> QED
  BY <1>6, <1>7, <1>8, <1>9, <1>10, <1>11, <1>12, <1>13, <1>14, <1>15, <1>16, <1>17, <1>18
     DEF Next, Ended

LEMMA OwnInvariant == SafeSpec => [](TypeOK /\ OwnInv)
<1>1. TypeOK /\ OwnInv /\ [Next]_vars => OwnInv'
  BY NextOwnInv
<1> QED BY <1>1, InitTypeOK, NextTypeOK, InitOwnInv, PTL DEF SafeSpec

\* Every accepted connection that is still open is with exactly one thread or in
\* exactly one slot of the queue, whatever clients, signals and failures of
\* accept() come: no descriptor leaks and none is used by two threads
\* (server.c:73-89, 136-177).
THEOREM OneOwnerCorrect == SafeSpec => []OneOwner
<1>1. ASSUME TypeOK, OwnInv PROVE OneOwner
  <2> SUFFICES ASSUME NEW c \in Conns
               PROVE  Cardinality(Places(c)) = IF Taken(c) THEN 1 ELSE 0
    BY DEF OneOwner
  <2>1. Taken(c) <=> Held(c)
    BY <1>1 DEF OwnInv
  <2>2. DOMAIN q = 1 .. Len(q)
    BY <1>1 DEF TypeOK
  <2>3. CASE ~Taken(c)
    <3>1. Places(c) = {}
      BY <2>1, <2>2, <2>3 DEF Places, Held, Elems, Threads
    <3> QED BY <2>3, <3>1, FS_EmptySet
  <2>4. CASE Taken(c)
    <3>1. CASE c = conn
      <4>1. Places(c) = {<<"main", 0>>}
        BY <1>1, <2>2, <3>1 DEF OwnInv, Places, Elems, Threads
      <4> QED BY <2>4, <4>1, FS_Singleton
    <3>2. ASSUME NEW t \in Threads, hand[t] = c PROVE Cardinality(Places(c)) = 1
      <4>1. Places(c) = {<<"hand", t>>}
        BY <1>1, <2>2, <3>2 DEF OwnInv, Places, Elems, Threads
      <4> QED BY <4>1, FS_Singleton
    <3>3. ASSUME NEW i \in 1 .. Len(q), q[i] = c PROVE Cardinality(Places(c)) = 1
      <4>1. Places(c) = {<<"queue", i>>}
        BY <1>1, <2>2, <3>3 DEF OwnInv, Places, Elems, Threads, Distinct
      <4> QED BY <4>1, FS_Singleton
    <3> QED BY <2>1, <2>4, <3>1, <3>2, <3>3 DEF Held, Elems
  <2> QED BY <2>3, <2>4
<1> QED BY <1>1, OwnInvariant, PTL

\* When server_run returns, the queue is empty and every connection that it ever
\* accepted is closed (server.c:179-186).
THEOREM ExitDrainsCorrect == SafeSpec => []ExitDrains
<1>1. ASSUME TypeOK, ShutInv, OwnInv PROVE ExitDrains
  <2> SUFFICES ASSUME pc = "exit" PROVE q = <<>> /\ \A c \in Conns : ~Taken(c)
    BY DEF ExitDrains
  <2>1. q = <<>> /\ \A w \in Workers : hand[w] = EndOfQueue
    BY <1>1, ThreadAssumption DEF ShutInv
  <2>2. conn = NoConn /\ hand[Main] = NoConn
    BY <1>1 DEF TypeOK
  <2>3. \A c \in Conns : ~Held(c)
    BY <2>1, <2>2, EmptyElems, ConnAssumption DEF Held, Threads
  <2> QED BY <1>1, <2>1, <2>3 DEF OwnInv
<1>2. TypeOK /\ ShutInv /\ [Next]_vars => ShutInv'
  BY NextShutInv
<1> QED
  BY <1>1, <1>2, OwnInvariant, InitShutInv, PTL DEF SafeSpec

\* The gateway closes its end of a connection once: nothing is ever written to a
\* descriptor whose number may already be another client's (server.c:70).
THEOREM ClosedOnceCorrect == SafeSpec => ClosedOnce
<1>1. ASSUME TypeOK, OwnInv, [Next]_vars, NEW c \in Conns, answer[c] # "none", answer'[c] # answer[c]
      PROVE  link'[c] = "none"
  <2>1. ~Held(c)
    BY <1>1 DEF OwnInv, Taken
  <2>2. ASSUME NEW d \in Conns, NEW fits, WriteAndClose(d, fits), Held(d) PROVE FALSE
    BY <1>1, <2>1, <2>2 DEF WriteAndClose, TypeOK
  <2>3. ~ReadGarbage
    BY <1>1, <2>2 DEF ReadGarbage, Held, TypeOK
  <2>4. ASSUME NEW w \in Workers, Respond(w) PROVE FALSE
    BY <2>2, <2>4 DEF Respond, Queue!Finish, Held, Threads
  <2>5. ASSUME NEW d \in Conns, Recycle(d) PROVE link'[c] = "none"
    BY <1>1, <2>5 DEF Recycle, TypeOK
  <2>6. UNCHANGED answer => FALSE
    BY <1>1
  <2> QED
    BY <1>1, <2>3, <2>4, <2>5, <2>6
       DEF Next, Connect, Send, Leave, TestStop, Accept, AcceptFails, ReadRequest, Push, StopQueue,
           Exit, Pop, Signal, SecondSignal, Ended, vars
<1>2. TypeOK /\ OwnInv /\ [Next]_vars =>
        [\A c \in Conns : answer[c] # "none" /\ answer'[c] # answer[c] => link'[c] = "none"]_vars
  BY <1>1
<1> QED BY <1>2, OwnInvariant, PTL DEF SafeSpec, ClosedOnce

=============================================================================
