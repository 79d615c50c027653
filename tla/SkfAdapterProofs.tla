-------------------------- MODULE SkfAdapterProofs --------------------------
(***************************************************************************)
(* Theorems about SkfAdapter for every vendor library, every set of        *)
(* operations and every environment.                                       *)
(***************************************************************************)
EXTENDS SkfAdapter, TLAPS

-----------------------------------------------------------------------------
(* The inductive invariant: what is open at each place of the call *)

\* The session disagrees with the vendor only about what he refused to close,
\* which can be but what has had its turn.
SessionIsHeld ==
  /\ sess = held \ ({"lib"} \cup refused)
  /\ pc \notin {"close_container", "close_app", "disconnect", "unload", "returned"} => refused = {}
  /\ pc = "close_container" => refused \subseteq {"key"}
  /\ pc = "close_app" => refused \subseteq {"key", "container"}
  /\ pc = "disconnect" => refused \subseteq {"key", "container", "app"}

\* From dlopen to dlclose the library stays, and open_device has only then
\* begun when all required symbols were found.
LibraryHeld ==
  pc \notin {"idle", "load", "returned"} => "lib" \in held /\ Required \subseteq exports

\* open_base has succeeded.
DeviceHeld ==
  pc \notin {"idle", "load", "connect", "unload", "returned"} => ready /\ "dev" \in held

\* Each handle is opened under its application or container.
Nested ==
  /\ pc \in {"pin", "container"} => "app" \in held
  /\ pc \in {"key", "work"} => /\ NeedsApp(op) => "app" \in held
                               /\ NeedsContainer(op) => "container" \in held
  /\ pc = "work" /\ NeedsKey(op) => "key" \in held
  /\ pc \in {"app", "pin", "container", "key", "work", "close_key", "close_container"} =>
       ("container" \in held => "app" \in held)

\* What is closed stays closed: past its closing place a handle is open only
\* if there is no function to close it or the vendor has refused.
Unclosable(h) == h \in held => h \in refused \/ CloseFunction[h] \notin exports

Closed ==
  /\ pc \in {"app", "pin", "container"} => "key" \notin held
  /\ pc \in {"close_container", "close_app", "disconnect", "unload", "returned"} => Unclosable("key")
  /\ pc \in {"close_app", "disconnect", "unload", "returned"} => Unclosable("container")
  /\ pc \in {"disconnect", "unload", "returned"} => Unclosable("app")
  /\ pc \in {"unload", "returned"} => Unclosable("dev")
  /\ pc = "returned" => ("lib" \in held => ~(Required \subseteq exports))
  /\ pc \in {"idle", "load"} => held = {}
  /\ pc = "connect" => held = {"lib"}

IInv ==
  /\ TypeOK
  /\ NoMisuse
  /\ SessionIsHeld
  /\ LibraryHeld
  /\ DeviceHeld
  /\ Nested
  /\ Closed

\* Opening a container implies opening its application.
LEMMA ContainerNeedsApp == \A o : NeedsContainer(o) => NeedsApp(o)
  BY DEF NeedsApp

LEMMA CloseFunctions ==
  /\ Handles = {"key", "container", "app", "dev"}
  /\ CloseFunction["dev"] = "SKF_DisConnectDev"
  BY DEF Handles, CloseFunction

-----------------------------------------------------------------------------
LEMMA InitIInv == Init => IInv
  BY DEF Init, IInv, TypeOK, NoMisuse, SessionIsHeld, LibraryHeld, DeviceHeld, Nested, Closed,
         Locations, Handles

USE DEF IInv, NoMisuse, SessionIsHeld, LibraryHeld, DeviceHeld, Nested, Closed, Unclosable

LEMMA CallIInv == ASSUME IInv, NEW o \in Ops, Call(o) PROVE IInv'
  BY DEF Call, TypeOK, Locations

LEMMA OpenLibIInv ==
  ASSUME IInv, RejectInput \/ LoadFails \/ Load \/ Connect \/ ConnectFails
  PROVE  IInv'
<1>1. CASE RejectInput \/ LoadFails
  <2>1. /\ pc' = "returned" /\ held = {} /\ refused = {} /\ sess = {}
        /\ UNCHANGED <<op, exports, env, refused, ready, sess, held, verified, effect, rc, misused>>
    BY <1>1 DEF RejectInput, LoadFails
  <2>2. TypeOK'
    BY <2>1 DEF TypeOK, Locations
  <2> QED
    BY <2>1, <2>2
<1>2. CASE Load
  BY <1>2, CloseFunctions DEF Load, TypeOK, Locations
<1>3. CASE Connect
  <2> USE <1>3 DEF Connect
  <2>1. pc' \in {"app", "key", "work"}
    BY DEF AfterDevice, AfterContainer
  <2>2. pc' = "key" \/ pc' = "work" => ~NeedsApp(op) /\ ~NeedsContainer(op)
    BY ContainerNeedsApp DEF AfterDevice
  <2>3. pc' = "work" => ~NeedsKey(op)
    BY DEF AfterDevice, AfterContainer
  <2>4. TypeOK'
    BY <2>1, CloseFunctions DEF TypeOK, Locations
  <2>5. held' = {"lib", "dev"} /\ sess' = {"dev"} /\ op' = op
    OBVIOUS
  <2>6. Nested'
    BY <2>1, <2>2, <2>3, <2>5 DEF NeedsApp, NeedsContainer, NeedsKey
  <2> QED
    BY <2>1, <2>4, <2>5, <2>6
<1>4. CASE ConnectFails
  BY <1>4 DEF ConnectFails, TypeOK, Locations
<1> QED
  BY <1>1, <1>2, <1>3, <1>4

LEMMA OpenSessionIInv ==
  ASSUME IInv, OpenApp \/ SkipPin \/ VerifyPin \/ OpenContainer \/ OpenFails \/ OpenKey
  PROVE  IInv'
<1>1. CASE OpenApp
  <2> USE <1>1 DEF OpenApp
  <2>1. pc' \in {"pin", "key", "work"}
    BY DEF AfterApp, AfterContainer
  <2>2. pc' \in {"key", "work"} => ~NeedsContainer(op)
    BY DEF AfterApp
  <2>3. pc' = "work" => ~NeedsKey(op)
    BY DEF AfterApp, AfterContainer
  <2>4. sess' = sess \cup {"app"} /\ held' = held \cup {"app"} /\ op' = op /\ misused' = FALSE
    BY DEF Opens, Use, Above
  <2>5. TypeOK'
    BY <2>1, <2>4, CloseFunctions DEF TypeOK, Locations
  <2>6. Nested'
    BY <2>1, <2>2, <2>3, <2>4 DEF NeedsApp, NeedsContainer, NeedsKey
  <2> QED
    BY <2>1, <2>4, <2>5, <2>6
<1>2. CASE SkipPin \/ VerifyPin
  <2>1. sess' = sess /\ held' = held /\ op' = op /\ misused' = FALSE /\ pc = "pin"
          /\ pc' = "container" /\ exports' = exports /\ ready' = ready /\ refused' = refused
    BY <1>2 DEF SkipPin, VerifyPin, Use, Above, TypeOK
  <2>2. TypeOK'
    BY <1>2, <2>1 DEF SkipPin, VerifyPin, TypeOK, Locations
  <2> QED
    BY <2>1, <2>2
<1>3. CASE OpenContainer
  <2> USE <1>3 DEF OpenContainer
  <2>1. pc' \in {"key", "work"} /\ (pc' = "work" => ~NeedsKey(op))
    BY DEF AfterContainer
  <2>2. sess' = sess \cup {"container"} /\ held' = held \cup {"container"} /\ op' = op
          /\ misused' = FALSE
    BY DEF Opens, Use, Above
  <2>3. TypeOK'
    BY <2>1, <2>2, CloseFunctions DEF TypeOK, Locations
  <2>4. Nested'
    BY <2>1, <2>2 DEF NeedsKey
  <2> QED
    BY <2>1, <2>2, <2>3, <2>4
<1>4. CASE OpenFails
  BY <1>4 DEF OpenFails, TypeOK, Locations
<1>5. CASE OpenKey
  <2> USE <1>5 DEF OpenKey
  <2>1. sess' = sess \cup {"key"} /\ held' = held \cup {"key"} /\ misused' = FALSE
    BY DEF Opens, Use, Above
  <2>2. TypeOK'
    BY <2>1, CloseFunctions DEF TypeOK, Locations
  <2>3. Nested'
    BY <2>1 DEF NeedsApp, NeedsContainer, NeedsKey
  <2> QED
    BY <2>1, <2>2, <2>3
<1> QED
  BY <1>1, <1>2, <1>3, <1>4, <1>5

\* The handle the vendor's operation is called with is open, and everything
\* above it is.
LEMMA HandleOpen ==
  ASSUME IInv, pc = "work"
  PROVE  Handle \in sess /\ Above[Handle] \cup {Handle} \subseteq held
<1>1. {"lib", "dev"} \subseteq held /\ sess = held \ {"lib"}
  OBVIOUS
<1>2. CASE NeedsKey(op)
  BY <1>1, <1>2 DEF Handle, Above
<1>3. CASE ~NeedsKey(op) /\ NeedsContainer(op)
  <2>1. {"app", "container"} \subseteq held
    BY <1>3, ContainerNeedsApp
  <2> QED
    BY <1>1, <1>3, <2>1 DEF Handle, Above
<1>4. CASE ~NeedsKey(op) /\ ~NeedsContainer(op)
  BY <1>1, <1>4 DEF Handle, Above
<1> QED
  BY <1>2, <1>3, <1>4

LEMMA WorkIInv == ASSUME IInv, Work \/ WorkFails PROVE IInv'
<1>1. CASE Work
  <2> USE <1>1 DEF Work
  <2>1. misused' = FALSE /\ sess' \in {sess, sess \cup {"key"}} /\ held' \in {held, held \cup {"key"}}
          /\ SessionIsHeld'
    BY HandleOpen DEF Opens, Use, Above
  <2>2. TypeOK'
    BY <2>1, CloseFunctions DEF TypeOK, Locations
  <2> QED
    BY <2>1, <2>2
<1>2. CASE WorkFails
  BY <1>2 DEF WorkFails, TypeOK, Locations
<1> QED
  BY <1>1, <1>2

\* close_session on one handle: afterwards it is open only if it cannot be
\* closed or the vendor refused, and nothing else has changed.
LEMMA CloseOne ==
  ASSUME IInv, ready, NEW h \in Handles, Close(h), h \in held => Above[h] \subseteq held,
         h \notin refused
  PROVE  /\ misused' = FALSE
         /\ held' \in {held, held \ {h}} /\ refused' \in {refused, refused \cup {h}}
         /\ sess' = held' \ ({"lib"} \cup refused')
         /\ h \in held' => h \in refused' \/ CloseFunction[h] \notin exports
  BY CloseFunctions DEF Close, Use

LEMMA CloseIInv ==
  ASSUME IInv, CloseKey \/ CloseContainer \/ CloseApp \/ Disconnect \/ Unload
  PROVE  IInv'
<1>1. CASE CloseKey
  <2> USE <1>1 DEF CloseKey
  <2>1. /\ misused' = FALSE
        /\ held' \in {held, held \ {"key"}} /\ refused' \in {refused, refused \cup {"key"}}
        /\ sess' = held' \ ({"lib"} \cup refused')
        /\ "key" \in held' => "key" \in refused' \/ CloseFunction["key"] \notin exports
    BY CloseOne, CloseFunctions DEF Above
  <2>2. TypeOK'
    BY <2>1, CloseFunctions DEF TypeOK, Locations
  <2> QED
    BY <2>1, <2>2
<1>2. CASE CloseContainer
  <2> USE <1>2 DEF CloseContainer
  <2>1. /\ misused' = FALSE
        /\ held' \in {held, held \ {"container"}} /\ refused' \in {refused, refused \cup {"container"}}
        /\ sess' = held' \ ({"lib"} \cup refused')
        /\ "container" \in held' => "container" \in refused' \/ CloseFunction["container"] \notin exports
    BY CloseOne, CloseFunctions DEF Above
  <2>2. TypeOK'
    BY <2>1, CloseFunctions DEF TypeOK, Locations
  <2> QED
    BY <2>1, <2>2
<1>3. CASE CloseApp
  <2> USE <1>3 DEF CloseApp
  <2>1. /\ misused' = FALSE
        /\ held' \in {held, held \ {"app"}} /\ refused' \in {refused, refused \cup {"app"}}
        /\ sess' = held' \ ({"lib"} \cup refused')
        /\ "app" \in held' => "app" \in refused' \/ CloseFunction["app"] \notin exports
    BY CloseOne, CloseFunctions DEF Above
  <2>2. TypeOK'
    BY <2>1, CloseFunctions DEF TypeOK, Locations
  <2> QED
    BY <2>1, <2>2
<1>4. CASE Disconnect
  <2> USE <1>4 DEF Disconnect
  <2>1. /\ misused' = FALSE
        /\ held' \in {held, held \ {"dev"}} /\ refused' \in {refused, refused \cup {"dev"}}
        /\ sess' = held' \ ({"lib"} \cup refused')
        /\ "dev" \in held' => "dev" \in refused' \/ CloseFunction["dev"] \notin exports
    BY CloseOne, CloseFunctions DEF Above
  <2>2. TypeOK'
    BY <2>1, CloseFunctions DEF TypeOK, Locations
  <2> QED
    BY <2>1, <2>2
<1>5. CASE Unload
  <2> USE <1>5 DEF Unload
  <2>1. TypeOK'
    BY DEF TypeOK, Locations
  <2> QED
    BY <2>1
<1> QED
  BY <1>1, <1>2, <1>3, <1>4, <1>5

LEMMA NextIInv == IInv /\ [Next]_vars => IInv'
<1> SUFFICES ASSUME IInv, [Next]_vars PROVE IInv'
  OBVIOUS
<1>1. ASSUME NEW o \in Ops, Call(o) PROVE IInv'
  BY <1>1, CallIInv
<1>2. CASE Step
  BY <1>2, OpenLibIInv, OpenSessionIInv, WorkIInv, CloseIInv DEF Step
<1>3. CASE UNCHANGED vars
  BY <1>3 DEF vars, TypeOK
<1> QED
  BY <1>1, <1>2, <1>3 DEF Next

HIDE DEF IInv, NoMisuse, SessionIsHeld, LibraryHeld, DeviceHeld, Nested, Closed, Unclosable

-----------------------------------------------------------------------------
(* The theorems *)

\* The handles, the places of a call and its result keep their types.
THEOREM SkfTypeCorrect == SafeSpec => []TypeOK
<1>1. IInv => TypeOK
  BY DEF IInv
<1> QED
  BY <1>1, InitIInv, NextIInv, PTL DEF SafeSpec

\* No vendor function is ever given a handle that is not open, wherever the
\* opening failed (skf_adapter.c:418-459).
THEOREM SkfNoMisuse == SafeSpec => []NoMisuse
<1>1. IInv => NoMisuse
  BY DEF IInv
<1> QED
  BY <1>1, InitIInv, NextIInv, PTL DEF SafeSpec

\* A call that has returned has closed, or tried to close, all that the library
\* can close, and keeps the library only if it could not use it
\* (skf_adapter.c:418-453).
THEOREM SkfLeaksOnlyUnclosable == SafeSpec => []LeaksOnlyUnclosable
<1>1. IInv => LeaksOnlyUnclosable
  <2> SUFFICES ASSUME IInv, pc = "returned", NEW h \in held, h # "lib"
               PROVE  h \in refused \/ CloseFunction[h] \notin exports
    BY DEF LeaksOnlyUnclosable, IInv, Closed
  <2>1. h \in {"key", "container", "app", "dev"}
    BY CloseFunctions DEF IInv, TypeOK
  <2> QED
    BY <2>1 DEF IInv, Closed, Unclosable
<1> QED
  BY <1>1, InitIInv, NextIInv, PTL DEF SafeSpec

-----------------------------------------------------------------------------
(* The PIN and the private keys *)

PinInv ==
  /\ PinBeforeKey
  /\ pc = "container" /\ "pin" \in env => verified

LEMMA NextPinInv == PinInv /\ [Next]_vars => PinInv'
<1> SUFFICES ASSUME PinInv, [Next]_vars PROVE PinInv'
  OBVIOUS
<1> USE DEF PinInv, PinBeforeKey
<1>1. ASSUME NEW o \in Ops, Call(o) PROVE PinInv'
  BY <1>1 DEF Call
<1>2. CASE RejectInput \/ LoadFails \/ Load \/ Connect \/ ConnectFails
  BY <1>2 DEF RejectInput, LoadFails, Load, Connect, ConnectFails, AfterDevice, AfterContainer
<1>3. CASE OpenApp \/ SkipPin \/ VerifyPin \/ OpenContainer \/ OpenFails
  BY <1>3 DEF OpenApp, SkipPin, VerifyPin, OpenContainer, OpenFails, Opens, AfterApp, AfterContainer
<1>4. CASE OpenKey \/ Work \/ WorkFails
  BY <1>4 DEF OpenKey, Work, WorkFails, Opens
<1>5. CASE CloseKey \/ CloseContainer \/ CloseApp \/ Disconnect \/ Unload
  BY <1>5 DEF CloseKey, CloseContainer, CloseApp, Disconnect, Unload, Close
<1>6. CASE UNCHANGED vars
  BY <1>6 DEF vars
<1> QED
  BY <1>1, <1>2, <1>3, <1>4, <1>5, <1>6 DEF Next, Step

\* Where a PIN is configured no private key is within reach before it has
\* been verified (skf_adapter.c:443-448).
THEOREM SkfPinBeforeKey == SafeSpec => []PinBeforeKey
<1>1. Init => PinInv
  BY DEF Init, PinInv, PinBeforeKey
<1>2. PinInv => PinBeforeKey
  BY DEF PinInv
<1> QED
  BY <1>1, <1>2, NextPinInv, PTL DEF SafeSpec

-----------------------------------------------------------------------------
(* The adapter implements DriverCall *)

\* rc and the effect go together, and before the work there is neither.
ResultInv ==
  /\ rc = 0 <=> effect
  /\ pc \in {"load", "connect", "app", "pin", "container", "key", "work"} => ~effect

LEMMA NextResultInv == TypeOK /\ ResultInv /\ [Next]_vars => ResultInv'
<1> SUFFICES ASSUME TypeOK, ResultInv, [Next]_vars PROVE ResultInv'
  OBVIOUS
<1> USE DEF ResultInv
<1>1. ASSUME NEW o \in Ops, Call(o) PROVE ResultInv'
  BY <1>1 DEF Call
<1>2. CASE RejectInput \/ LoadFails \/ Load \/ Connect \/ ConnectFails
  BY <1>2 DEF RejectInput, LoadFails, Load, Connect, ConnectFails
<1>3. CASE OpenApp \/ SkipPin \/ VerifyPin \/ OpenContainer \/ OpenFails
  BY <1>3 DEF OpenApp, SkipPin, VerifyPin, OpenContainer, OpenFails
<1>4. CASE OpenKey \/ Work \/ WorkFails
  BY <1>4 DEF OpenKey, Work, WorkFails
<1>5. CASE CloseKey \/ CloseContainer \/ CloseApp \/ Disconnect \/ Unload
  BY <1>5 DEF CloseKey, CloseContainer, CloseApp, Disconnect, Unload
<1>6. CASE UNCHANGED vars
  BY <1>6 DEF vars
<1> QED
  BY <1>1, <1>2, <1>3, <1>4, <1>5, <1>6 DEF Next, Step

LEMMA WorkAllowed == ASSUME op \in Ops, Work PROVE TRUE \in Outcomes(Device, op)
  BY OpsAssumption DEF Work, Outcomes

LEMMA StepRefines ==
  ASSUME TypeOK, ResultInv, [Next]_vars
  PROVE  [Driver!Next]_(Driver!dvars)
<1> USE DEF ResultInv, Driver!Next, Driver!dvars
<1>1. ASSUME NEW o \in Ops, Call(o) PROVE Driver!Start(o)
  BY <1>1 DEF Call, Driver!Start
<1>2. CASE Work
  BY <1>2, WorkAllowed DEF Work, Driver!Perform, TypeOK
<1>3. CASE RejectInput \/ LoadFails \/ (Load /\ pc' = "returned") \/ Unload
  BY <1>3 DEF RejectInput, LoadFails, Load, Unload, Driver!Return, TypeOK
<1>4. CASE (Load /\ pc' # "returned") \/ Connect \/ ConnectFails
  BY <1>4 DEF Load, Connect, ConnectFails, AfterDevice, AfterContainer
<1>5. CASE OpenApp \/ SkipPin \/ VerifyPin \/ OpenContainer \/ OpenFails
  BY <1>5 DEF OpenApp, SkipPin, VerifyPin, OpenContainer, OpenFails, AfterApp, AfterContainer
<1>6. CASE OpenKey \/ WorkFails
  BY <1>6 DEF OpenKey, WorkFails
<1>7. CASE CloseKey \/ CloseContainer \/ CloseApp \/ Disconnect
  BY <1>7 DEF CloseKey, CloseContainer, CloseApp, Disconnect
<1>8. CASE UNCHANGED vars
  BY <1>8 DEF vars
<1> QED
  BY <1>1, <1>2, <1>3, <1>4, <1>5, <1>6, <1>7, <1>8 DEF Next, Step

\* The adapter's return value says whether the operation was carried out, at
\* most once, and only where Scheduler's Outcomes allow it
\* (skf_adapter.c:461-877).
THEOREM SkfImplementsDriver == SafeSpec => ImplementsDriver
<1>1. Init => ResultInv /\ Driver!Init
  BY DEF Init, ResultInv, Driver!Init
<1> QED
  BY <1>1, SkfTypeCorrect, NextResultInv, StepRefines, PTL DEF SafeSpec, ImplementsDriver, Driver!SafeSpec
=============================================================================
