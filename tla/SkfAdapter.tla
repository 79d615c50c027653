----------------------------- MODULE SkfAdapter -----------------------------
(***************************************************************************)
(* skf_adapter.c: how one call of the gm3000-skf adapter loads the vendor  *)
(* library, opens device, application, container and key or digest handle  *)
(* one after the other, works, and closes them again, while the library    *)
(* may lack optional symbols and any vendor call may fail, a close too.    *)
(*                                                                         *)
(* Each call has a runtime and a session of its own on the stack, so       *)
(* workers share nothing here and one call at a time is modelled.  Data    *)
(* decoding is abstracted to "accepted" or "rejected".  The vendor library *)
(* is external: it answers SAR_OK or not, and writes an out handle only    *)
(* when it answers SAR_OK.                                                 *)
(***************************************************************************)
EXTENDS Backends, Integers

CONSTANTS Device,      \* the gm3000-skf device
          Ops,         \* the operations translate_backend_call lets through
          Libraries    \* the sets of symbols a vendor library may export

\* LOAD_REQ and LOAD_OPT of open_runtime, as far as a handler calls them.
Required ==
  {"SKF_EnumDev", "SKF_ConnectDev", "SKF_DisConnectDev", "SKF_GetDevInfo", "SKF_GenRandom"}

Optional ==
  {"SKF_OpenApplication", "SKF_CloseApplication", "SKF_VerifyPIN", "SKF_OpenContainer",
   "SKF_CloseContainer", "SKF_DeleteContainer", "SKF_GenECCKeyPair", "SKF_GenRSAKeyPair",
   "SKF_ExportPublicKey", "SKF_ECCSignData", "SKF_ECCVerify", "SKF_RSASignData",
   "SKF_RSAVerify", "SKF_ExtECCEncrypt", "SKF_ECCDecrypt", "SKF_ExtRSAPubKeyOperation",
   "SKF_RSADecrypt", "SKF_SetSymmKey", "SKF_EncryptInit", "SKF_Encrypt", "SKF_DecryptInit",
   "SKF_Decrypt", "SKF_Mac", "SKF_DigestInit", "SKF_Digest", "SKF_CloseHandle",
   "SKF_CreateFile", "SKF_DeleteFile", "SKF_ReadFile", "SKF_WriteFile", "SKF_Encap_Kyber",
   "SKF_Decap_Kyber", "SKF_Sign_Dilithium", "SKF_Verify_Dilithium"}

ASSUME LibrariesAssumption == Libraries \subseteq SUBSET (Required \cup Optional)
ASSUME OpsAssumption == \A op \in Ops : HasRule(Device, op)

\* The symbols a handler calls once everything is open.
Asymmetric(action, alg) ==
  CASE action = "sign"    -> IF alg = "sm2" THEN {"SKF_ECCSignData"} ELSE {"SKF_RSASignData"}
    [] action = "verify"  -> IF alg = "sm2" THEN {"SKF_ECCVerify"} ELSE {"SKF_RSAVerify"}
    [] action = "encrypt" -> IF alg = "sm2" THEN {"SKF_ExtECCEncrypt"}
                             ELSE {"SKF_ExtRSAPubKeyOperation"}
    [] OTHER              -> IF alg = "sm2" THEN {"SKF_ECCDecrypt"} ELSE {"SKF_RSADecrypt"}

KeyManagement(action, alg) ==
  CASE action = "get_private_key_access" -> {"SKF_VerifyPIN"}
    [] action = "generate_key_pair"      -> IF alg = "sm2" THEN {"SKF_GenECCKeyPair"}
                                            ELSE {"SKF_GenRSAKeyPair"}
    [] action = "export_public_key"      -> {"SKF_ExportPublicKey"}
    [] action = "import_key"             -> {"SKF_SetSymmKey"}
    [] action = "destroy_key"            -> {"SKF_DeleteContainer"}
    [] OTHER                             -> {}

Symmetric(action) ==
  CASE action = "encrypt" -> {"SKF_EncryptInit", "SKF_Encrypt"}
    [] action = "decrypt" -> {"SKF_DecryptInit", "SKF_Decrypt"}
    [] OTHER              -> {"SKF_Mac"}

File(action) ==
  CASE action = "create_file" -> {"SKF_CreateFile"}
    [] action = "read_file"   -> {"SKF_ReadFile"}
    [] action = "write_file"  -> {"SKF_WriteFile"}
    [] OTHER                  -> {"SKF_DeleteFile"}

Pqc(action) ==
  CASE action = "kem_encap" -> {"SKF_Encap_Kyber"}
    [] action = "kem_decap" -> {"SKF_Decap_Kyber"}
    [] action = "sign"      -> {"SKF_Sign_Dilithium"}
    [] OTHER                -> {"SKF_Verify_Dilithium"}

Symbols(op) ==
  CASE op[1] = "key"  -> KeyManagement(op[2], op[3])
    [] op[1] = "asym" -> Asymmetric(op[2], op[3])
    [] op[1] = "sym"  -> Symmetric(op[2])
    [] op[1] = "hash" -> {"SKF_DigestInit", "SKF_Digest"}
    [] op[1] = "file" -> File(op[2])
    [] op[1] = "pqc"  -> Pqc(op[2])
    [] OTHER          -> {}

\* How far each handler opens: application, container, key or digest handle.
AppOnly == {"get_private_key_access", "release_private_key_access", "destroy_key"} \cup FileActions

NeedsContainer(op) ==
  \/ op[1] = "key" /\ op[2] \notin AppOnly
  \/ op[1] = "asym" /\ op[2] \notin {"verify", "encrypt"}

NeedsApp(op) == op[2] \in AppOnly \/ NeedsContainer(op)

NeedsKey(op) == op[1] \in {"sym", "hash"}

VARIABLES pc,        \* what the handler does next
          op,        \* call->call: <<domain, action, algorithm>>
          exports,   \* the symbols of the vendor library
          env,       \* GM3000_SKF_APP and GM3000_SKF_PIN, those that are set
          ready,     \* open_device has cleared the session
          sess,      \* the session's handles that are not NULL, and hkey/hhash
          held,      \* what the call really has open at the vendor's
          refused,   \* what of it the vendor was asked to close, and did not
          verified,  \* the PIN has been verified
          effect,    \* the operation has been carried out
          rc,        \* the handler's return value
          misused    \* a closed, foreign or uninitialized handle was passed

vars == <<pc, op, exports, env, ready, sess, held, refused, verified, effect, rc, misused>>

Locations ==
  {"idle", "load", "connect", "app", "pin", "container", "key", "work", "close_key",
   "close_container", "close_app", "disconnect", "unload", "returned"}

\* The vendor function that closes each handle.
CloseFunction ==
  [key |-> "SKF_CloseHandle", container |-> "SKF_CloseContainer",
   app |-> "SKF_CloseApplication", dev |-> "SKF_DisConnectDev"]

Handles == DOMAIN CloseFunction

Init ==
  /\ pc = "idle"
  /\ op \in Ops
  /\ exports \in Libraries
  /\ env \in SUBSET {"app", "pin"}
  /\ ready = FALSE /\ sess = {} /\ held = {} /\ refused = {}
  /\ verified = FALSE /\ effect = FALSE
  /\ rc = -1
  /\ misused = FALSE

\* driver_dispatch calls a handler; rt, sess and rc are fresh locals.
Call(o) ==
  /\ pc \in {"idle", "returned"}
  /\ pc' = "load"
  /\ op' = o
  /\ ready' = FALSE /\ sess' = {} /\ held' = {} /\ refused' = {}
  /\ verified' = FALSE /\ effect' = FALSE
  /\ rc' = -1
  /\ UNCHANGED <<exports, env, misused>>

-----------------------------------------------------------------------------
(* Calls of the vendor library *)

\* What must be open for a handle to mean anything to the vendor.
Above ==
  [container |-> {"lib", "dev", "app"}, app |-> {"lib", "dev"},
   key |-> {"lib", "dev"}, dev |-> {"lib"}]

\* A vendor function is called with session handle h.
Use(h) == misused' = (misused \/ h \notin sess \/ ~ready \/ ~(Above[h] \cup {h} \subseteq held))

\* A vendor function called with handle h opens the handle new.
Opens(h, new) ==
  /\ Use(h)
  /\ sess' = sess \cup {new}
  /\ held' = held \cup {new}

-----------------------------------------------------------------------------
(* open_runtime and open_device *)

\* The payload or the key bytes do not decode; nothing is open yet.
RejectInput ==
  /\ pc = "load"
  /\ op[1] \in {"asym", "sym", "hash", "file", "pqc"}
  /\ pc' = "returned"
  /\ UNCHANGED <<op, exports, env, refused, ready, sess, held, verified, effect, rc, misused>>

\* dlopen finds no library.
LoadFails ==
  /\ pc = "load"
  /\ pc' = "returned"
  /\ UNCHANGED <<op, exports, env, refused, ready, sess, held, verified, effect, rc, misused>>

\* Where a plausible error stands before a definition it is a variant of that
\* definition, named after the error; no specification uses it.

\* open_app_container goes to fail, whose session is not cleared yet.
LoadFailsIntoClose ==
  /\ pc = "load"
  /\ held' = {"lib"}
  /\ pc' = IF Required \subseteq exports THEN "connect" ELSE "close_container"
  /\ UNCHANGED <<op, exports, env, refused, ready, sess, verified, effect, rc, misused>>

\* LOAD_REQ returns from open_runtime with the library loaded.
Load ==
  /\ pc = "load"
  /\ held' = {"lib"}
  /\ pc' = IF Required \subseteq exports THEN "connect" ELSE "returned"
  /\ UNCHANGED <<op, exports, env, refused, ready, sess, verified, effect, rc, misused>>

\* Where the handlers go on from an open device, application, container.
AfterContainer == IF NeedsKey(op) THEN "key" ELSE "work"
AfterApp == IF NeedsContainer(op) THEN "pin" ELSE AfterContainer
AfterDevice == IF NeedsApp(op) THEN "app" ELSE AfterContainer

\* SKF_EnumDev, if no name is configured, and SKF_ConnectDev.
Connect ==
  /\ pc = "connect"
  /\ ready' = TRUE
  /\ sess' = {"dev"}
  /\ held' = held \cup {"dev"}
  /\ pc' = AfterDevice
  /\ UNCHANGED <<op, exports, env, refused, verified, effect, rc, misused>>

\* open_base unloads the library itself.
ConnectFails ==
  /\ pc = "connect"
  /\ ready' = TRUE
  /\ sess' = {}
  /\ pc' = "unload"
  /\ UNCHANGED <<op, exports, env, refused, held, verified, effect, rc, misused>>

-----------------------------------------------------------------------------
(* open_app, verify_pin_if_set and open_container *)

OpenApp ==
  /\ pc = "app"
  /\ "SKF_OpenApplication" \in exports /\ "app" \in env
  /\ Opens("dev", "app")
  /\ pc' = AfterApp
  /\ UNCHANGED <<op, exports, env, refused, ready, verified, effect, rc>>

\* A library without SKF_VerifyPIN is taken for one that needs no PIN.
SkipPinWithoutSymbol ==
  /\ pc = "pin"
  /\ ~({"pin"} \subseteq env /\ {"SKF_VerifyPIN"} \subseteq exports)
  /\ pc' = "container"
  /\ UNCHANGED <<op, exports, env, refused, ready, sess, held, verified, effect, rc, misused>>

\* GM3000_SKF_PIN is not set: containers are opened without it.
SkipPin ==
  /\ pc = "pin"
  /\ "pin" \notin env
  /\ pc' = "container"
  /\ UNCHANGED <<op, exports, env, refused, ready, sess, held, verified, effect, rc, misused>>

VerifyPin ==
  /\ pc = "pin"
  /\ "pin" \in env /\ "SKF_VerifyPIN" \in exports
  /\ Use("app")
  /\ verified' = TRUE
  /\ pc' = "container"
  /\ UNCHANGED <<op, exports, env, refused, ready, sess, held, effect, rc>>

OpenContainer ==
  /\ pc = "container"
  /\ "SKF_OpenContainer" \in exports
  /\ Opens("app", "container")
  /\ pc' = AfterContainer
  /\ UNCHANGED <<op, exports, env, refused, ready, verified, effect, rc>>

\* The application is left open.
OpenFailsWithoutClose ==
  /\ pc \in {"app", "pin", "container"}
  /\ pc = "pin" => "pin" \in env
  /\ pc' = "disconnect"
  /\ UNCHANGED <<op, exports, env, refused, ready, sess, held, verified, effect, rc, misused>>

\* A refused PIN or application is tried again without end.
OpenRetried ==
  /\ pc \in {"app", "pin", "container"}
  /\ pc = "pin" => "pin" \in env
  /\ pc' = "connect"
  /\ UNCHANGED <<op, exports, env, refused, ready, sess, held, verified, effect, rc, misused>>

\* A symbol or the application's name is missing, or the vendor refuses:
\* every one of these three closes what is open, innermost first.
OpenFails ==
  /\ pc \in {"app", "pin", "container"}
  /\ pc = "pin" => "pin" \in env
  /\ pc' = "close_container"
  /\ UNCHANGED <<op, exports, env, refused, ready, sess, held, verified, effect, rc, misused>>

-----------------------------------------------------------------------------
(* The operation *)

\* SKF_SetSymmKey, or SKF_DigestInit once both digest symbols are there.
OpenKey ==
  /\ pc = "key"
  /\ IF op[1] = "hash" THEN Symbols(op) \subseteq exports ELSE "SKF_SetSymmKey" \in exports
  /\ Opens("dev", "key")
  /\ pc' = "work"
  /\ UNCHANGED <<op, exports, env, refused, ready, verified, effect, rc>>

\* The handle the vendor's operation is called with.
Handle ==
  IF NeedsKey(op) THEN "key"
  ELSE IF NeedsContainer(op) THEN "container"
  ELSE IF NeedsApp(op) THEN "app" ELSE "dev"

\* The vendor carries the operation out.
Work ==
  /\ pc = "work"
  /\ Dispatches(Device, op)
  /\ Symbols(op) \subseteq exports
  /\ op[2] = "get_private_key_access" => "pin" \in env
  /\ IF op[2] = "import_key" THEN Opens("dev", "key")
     ELSE Use(Handle) /\ UNCHANGED <<sess, held>>
  /\ effect' = TRUE
  /\ rc' = 0
  /\ pc' = "close_key"
  /\ UNCHANGED <<op, exports, env, refused, ready, verified>>

\* rc starts as 0.
WorkFailsSilently ==
  /\ pc \in {"key", "work"}
  /\ op[2] # "release_private_key_access"
  /\ rc' = 0
  /\ pc' = "close_key"
  /\ UNCHANGED <<op, exports, env, refused, ready, sess, held, verified, effect, misused>>

\* A symbol, an argument or the PIN is missing, or the vendor refuses;
\* releasing the access to a private key calls nobody.
WorkFails ==
  /\ pc \in {"key", "work"}
  /\ op[2] # "release_private_key_access"
  /\ pc' = "close_key"
  /\ UNCHANGED <<op, exports, env, refused, ready, sess, held, verified, effect, rc, misused>>

-----------------------------------------------------------------------------
(* close_session and close_runtime *)

\* A handle that is NULL is skipped, and so is one whose function is missing.
\* What the vendor answers is ignored: it may have kept the handle open, and the
\* session forgets it all the same.
Close(h) ==
  IF h \in sess /\ CloseFunction[h] \in exports
  THEN /\ Use(h)
       /\ sess' = sess \ {h}
       /\ \/ held' = held \ {h} /\ UNCHANGED refused
          \/ refused' = refused \cup {h} /\ UNCHANGED held
  ELSE misused' = (misused \/ ~ready) /\ UNCHANGED <<sess, held, refused>>

CloseKey ==
  /\ pc = "close_key"
  /\ Close("key")
  /\ pc' = "close_container"
  /\ UNCHANGED <<op, exports, env, ready, verified, effect, rc>>

CloseContainer ==
  /\ pc = "close_container"
  /\ Close("container")
  /\ pc' = "close_app"
  /\ UNCHANGED <<op, exports, env, ready, verified, effect, rc>>

CloseApp ==
  /\ pc = "close_app"
  /\ Close("app")
  /\ pc' = "disconnect"
  /\ UNCHANGED <<op, exports, env, ready, verified, effect, rc>>

Disconnect ==
  /\ pc = "disconnect"
  /\ Close("dev")
  /\ pc' = "unload"
  /\ UNCHANGED <<op, exports, env, ready, verified, effect, rc>>

Unload ==
  /\ pc = "unload"
  /\ held' = held \ {"lib"}
  /\ pc' = "returned"
  /\ UNCHANGED <<op, exports, env, refused, ready, sess, verified, effect, rc, misused>>

Step ==
  \/ RejectInput \/ LoadFails \/ Load \/ Connect \/ ConnectFails
  \/ OpenApp \/ SkipPin \/ VerifyPin \/ OpenContainer \/ OpenFails
  \/ OpenKey \/ Work \/ WorkFails
  \/ CloseKey \/ CloseContainer \/ CloseApp \/ Disconnect \/ Unload

Next ==
  \/ \E o \in Ops : Call(o)
  \/ Step

SafeSpec == Init /\ [][Next]_vars

\* A vendor call returns; that it fails is nobody's duty.
Spec == SafeSpec /\ WF_vars(Step)

-----------------------------------------------------------------------------
TypeOK ==
  /\ pc \in Locations
  /\ op \in Ops
  /\ exports \in Libraries
  /\ env \subseteq {"app", "pin"}
  /\ ready \in BOOLEAN
  /\ sess \subseteq Handles
  /\ held \subseteq Handles \cup {"lib"}
  /\ refused \subseteq Handles
  /\ verified \in BOOLEAN
  /\ effect \in BOOLEAN
  /\ rc \in {-1, 0}
  /\ misused \in BOOLEAN

\* However the opening of lib, device, application, container and key ends,
\* no vendor function is ever called with a handle that is NULL, closed,
\* opened under something that is closed, or read from a session that
\* open_device has not cleared, nor after dlclose (skf_adapter.c:418-459).
NoMisuse == ~misused

\* A call that has returned has closed everything it opened, or has asked the
\* vendor to, but what the library has no function to close, and the library
\* itself if a required symbol is missing from it (skf_adapter.c:418-453,
\* 763-765, 789-791).
LeaksOnlyUnclosable ==
  pc = "returned" =>
    \A h \in held : IF h = "lib" THEN ~(Required \subseteq exports)
                    ELSE h \in refused \/ CloseFunction[h] \notin exports

\* No container is opened, and so no private key used, before the configured
\* PIN has been verified (skf_adapter.c:404-416 and 446-447).  Deleting a
\* container (destroy_key) opens none, and asks for no PIN.
PinBeforeKey == "container" \in held /\ "pin" \in env => verified

\* The adapter does what driver_dispatch relies on: its return value tells
\* whether the operation was carried out, which happens at most once and only
\* where the scheduler's model allows it (skf_adapter.c:461-877).
Driver ==
  INSTANCE DriverCall WITH
    Feasible <- {o \in Ops : TRUE \in Outcomes(Device, o)},
    phase <- IF pc \in {"idle", "returned"} THEN pc ELSE "running",
    ok <- pc = "returned" /\ rc = 0

ImplementsDriver == Driver!SafeSpec

\* A call that was made returns: no failure leads back to an earlier stage
\* (skf_adapter.c:449-459).
CallReturns == (pc = "load") ~> (pc = "returned")

=============================================================================
