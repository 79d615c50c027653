------------------------------ MODULE Backends ------------------------------
(***************************************************************************)
(* What the translator (translator.c) and the adapters (driver_*.c,        *)
(* skf_adapter.c) do with an operation on a device, as the scheduler sees  *)
(* it: whether a translation rule exists, whether the adapter chosen for   *)
(* the device has a handler, and how the handler may end.                  *)
(*                                                                         *)
(* An operation is a triple <<domain, action, algorithm>>.                 *)
(***************************************************************************)
EXTENDS Naturals

\* The rules shared by the two swsds profiles, gm3000-skf and nobody else.
CommonRules ==
  ({"device"} \X {"get_device_info", "generate_random"} \X {"auto"})
    \cup ({"key"} \X {"get_private_key_access", "release_private_key_access"} \X {"auto"})
    \cup ({"hash"} \X {"hash"} \X {"sm3"})
    \cup ({"file"} \X {"create_file", "read_file", "write_file", "delete_file"} \X {"auto"})

\* Key, asymmetric and symmetric rules of both classic profiles.
ClassicRules ==
  ({"key"} \X {"generate_key_pair", "export_public_key"} \X {"rsa", "sm2"})
    \cup ({"key"} \X {"import_key", "destroy_key"} \X {"auto"})
    \cup ({"asym"} \X {"sign", "verify"} \X {"sm2", "rsa"})
    \cup ({"asym"} \X {"encrypt", "decrypt"} \X {"sm2"})
    \cup ({"sym"} \X {"encrypt", "decrypt"} \X {"sm4-cbc"})
    \cup ({"sym"} \X {"mac"} \X {"sm4-mac"})

PqcRules ==
  ({"key"} \X {"generate_key_pair"} \X {"dilithium3", "kyber768", "mlkem768"})
    \cup ({"pqc"} \X {"sign", "verify"} \X {"dilithium3"})
    \cup ({"pqc"} \X {"kem_encap", "kem_decap"} \X {"kyber768", "mlkem768"})

\* g_rules: every rule belongs to one profile and one device type.
Rules(profile, type) ==
  CASE profile = "swsds-classic" /\ type = "classic" -> CommonRules \cup ClassicRules
    [] profile = "swsds-pqc" /\ type = "pqc"         -> CommonRules \cup PqcRules
    [] profile = "softlib" /\ type = "classic"       -> {<<"asym", "sign", "sm2">>}
    [] profile = "gm3000-skf" /\ type = "classic"    ->
         CommonRules \cup ClassicRules \cup PqcRules
           \cup ({"asym"} \X {"encrypt", "decrypt"} \X {"rsa"})
           \cup ({"sym"} \X {"encrypt", "decrypt"} \X {"sm4-ecb"})
           \cup ({"hash"} \X {"hash"} \X {"sha256"})
    [] OTHER -> {}

\* find_rule: some rule of the device's profile and type has the domain and
\* the action, and the algorithm or "auto".
HasRule(d, op) ==
  \E rule \in Rules(d.profile, d.type) :
     rule[1] = op[1] /\ rule[2] = op[2] /\ rule[3] \in {op[3], "auto"}

\* The adapter execute_single_step picks: by profile, then by device type.
Adapter(d) ==
  IF d.profile = "gm3000-skf" THEN "skf"
  ELSE IF d.type = "classic" THEN "classic" ELSE "pqc"

\* The <<domain, action>> pairs an adapter's handlers do not answer with
\* not_supported: those every adapter implements ...
FileActions == {"create_file", "read_file", "write_file", "delete_file"}

SharedHandlers ==
  ({"device"} \X {"get_device_info", "generate_random"})
    \cup ({"key"} \X {"get_private_key_access", "release_private_key_access", "generate_key_pair"})
    \cup ({"hash"} \X {"hash"})
    \cup ({"file"} \X FileActions)

\* ... and those of driver_classic.c, driver_pqc.c and skf_adapter.c.
ClassicHandlers ==
  SharedHandlers
    \cup ({"key"} \X {"export_public_key", "import_key", "destroy_key"})
    \cup ({"asym"} \X {"sign", "verify", "encrypt", "decrypt"})
    \cup ({"sym"} \X {"encrypt", "decrypt", "mac"})

PqcHandlers ==
  SharedHandlers \cup ({"pqc"} \X {"sign", "verify", "kem_encap", "kem_decap"})

SkfHandlers == ClassicHandlers \cup PqcHandlers

Handled(adapter) ==
  CASE adapter = "classic" -> ClassicHandlers
    [] adapter = "pqc"     -> PqcHandlers
    [] adapter = "skf"     -> SkfHandlers

\* driver_dispatch reaches a handler that implements the operation.  The SKF
\* adapter answers every key pair but sm2 and rsa with a missing symbol.
Dispatches(d, op) ==
  /\ <<op[1], op[2]>> \in Handled(Adapter(d))
  /\ ~ (/\ Adapter(d) = "skf"
        /\ op[2] = "generate_key_pair"
        /\ op[3] \notin {"sm2", "rsa"})

\* How translate_backend_call followed by driver_dispatch may end.  The
\* classic and pqc adapters are simulated in the repository and cannot fail
\* once they have a handler; the SKF adapter calls a vendor library on real
\* hardware, which may fail any time.
Outcomes(d, op) ==
  IF ~ (HasRule(d, op) /\ Dispatches(d, op)) THEN {FALSE}
  ELSE IF Adapter(d) = "skf" THEN BOOLEAN ELSE {TRUE}

=============================================================================
