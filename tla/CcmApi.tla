------------------------------- MODULE CcmApi -------------------------------
(***************************************************************************)
(* ccm_api.c: the line of JSON that a CCM function builds, for the         *)
(* twenty-eight functions that build one, and the code it returns.          *)
(*                                                                         *)
(* A call is a record of the function, the algorithm id alg, the key       *)
(* references keys it is to use and out it is to fill in, the key index    *)
(* (for the two functions that take a bare one), and two texts: number for *)
(* every other integer argument and pointer for every pointer.  A key that *)
(* is NULL is left out of its sequence; absent has the names of the other  *)
(* structures, the algorithm's parameters and the buffers, that are NULL.  *)
(*                                                                         *)
(* A text is the sequence of its tokens name=value, which the gateway gets *)
(* by splitting it at the semicolons: that needs ids without semicolons    *)
(* (CallPath, IdsAssumption), which append_key_ref does not look for.      *)
(* CCM_ERR_BUFFER_TOO_SMALL is left out; arguments of the lengths that     *)
(* CallPath assumes fit the buffers of ccm_api.c.                          *)
(***************************************************************************)
EXTENDS Protocol, TLC

\* Unif_KeyRef
Keys == [alg : Nat, usage : Nat, source : 0 .. 4, index : STRING, handle : STRING,
         external : STRING, keyId : STRING, deviceId : STRING]

-----------------------------------------------------------------------------
(* Algorithms *)

\* CCM_AlgorithmName: the names of the ids from 1; id 0 is "auto".
AlgorithmNames ==
  << "sm2", "sm2", "sm2", "rsa", "rsa", "rsa", "sm3", "sha256", "sm4-cbc", "sm4-ecb",
     "sm4-mac", "aes-cbc", "aes-ecb", "kyber512", "kyber768", "kyber1024", "mlkem768",
     "dilithium2", "dilithium3", "dilithium5", "sm9" >>

AlgorithmName(alg) == IF alg = 0 THEN "auto" ELSE AlgorithmNames[alg]

\* The functions that take no algorithm, and those that take the key's.
Unparameterised == {"HashUpdate", "HashFinal", "GetCapability", "GenerateRandom"}
OfKey == {"ExportPublicKey", "DestroyKey", "GetKeyInfo"}

\* The structures that are NULL.  The parameters are never for the functions that
\* make their own, and length and random are no structures.
Absent(call) ==
  call.absent \ IF call.function \in Unparameterised \cup OfKey
                THEN {"length", "random", "params"} ELSE {"length", "random"}

Algorithm(call) ==
  CASE call.function \in Unparameterised -> 0
    [] call.function \in OfKey -> IF call.keys = <<>> THEN 0 ELSE call.keys[1].alg
    [] OTHER -> IF "params" \in Absent(call) THEN 0 ELSE call.alg

-----------------------------------------------------------------------------
(* Texts made of tokens name=value *)

\* The sum of a sequence of numbers.
SumOf(numbers) ==
  LET sum[n \in 0 .. Len(numbers)] == IF n = 0 THEN 0 ELSE sum[n - 1] + numbers[n]
  IN  sum[Len(numbers)]

StrLen(text) == Len(text)

Letters(token) == StrLen(token[1]) + 1 + StrLen(token[2])

Text(tokens) ==
  [says  |-> tokens,
   width |-> SumOf([i \in 1 .. Len(tokens) |-> Letters(tokens[i])])
               + IF tokens = <<>> THEN 0 ELSE Len(tokens) - 1]

Optional(name, text) == IF text = "" THEN <<>> ELSE << <<name, text>> >>

\* A plausible error in the code: the source of the key is not written.
KeyRefWithoutSource(key) ==
  << <<"alg", ToString(key.alg)>>, <<"usage", ToString(key.usage)>>,
     <<"key_index", key.index>>, <<"key_handle", key.handle>>,
     <<"external_key", key.external>> >>
    \o Optional("key_id", key.keyId) \o Optional("device_id", key.deviceId)

\* append_key_ref
KeyRef(key) ==
  << <<"alg", ToString(key.alg)>>, <<"usage", ToString(key.usage)>>,
     <<"source", ToString(key.source)>>, <<"key_index", key.index>>,
     <<"key_handle", key.handle>>, <<"external_key", key.external>> >>
    \o Optional("key_id", key.keyId) \o Optional("device_id", key.deviceId)

\* No function has more than two keys to use, or to fill in.
KeyRefs(keys) ==
  LET Ref(i) == IF i \in DOMAIN keys THEN KeyRef(keys[i]) ELSE <<>> IN Ref(1) \o Ref(2)

\* append_alg_params, append_buffer and the two tokens of CCM_GenerateRandom.
Argument(call, name) ==
  IF name \in Absent(call) THEN <<>>
  ELSE CASE name = "params" ->
              << <<"mode", call.number>>, <<"padding", call.number>>, <<"hash_alg", call.number>>,
                 <<"security_level", call.number>>, <<"ex_params", call.pointer>> >>
         [] name = "length" -> << <<name, call.number>> >>
         [] name = "random" -> << <<name, call.pointer>> >>
         [] OTHER -> << <<name, call.pointer>>, <<"len", call.number>> >>

\* No function puts more than two of them into one text.
Arguments(call, names) ==
  LET Arg(i) == IF i \in DOMAIN names THEN Argument(call, names[i]) ELSE <<>>
  IN  Arg(1) \o Arg(2)

-----------------------------------------------------------------------------
(* The functions *)

F(domain, action, payload, aux) ==
  [domain |-> domain, action |-> action, payload |-> payload, aux |-> aux]

Functions ==
  [GetCapability  |-> F("device", "get_device_info", <<>>, <<"capability">>),
   GenerateRandom |-> F("device", "generate_random", <<"length">>, <<"random">>),
   Hash           |-> F("hash", "hash", <<"params", "data">>, <<"out">>),
   HashInit       |-> F("hash", "hash", <<"params">>, <<>>),
   HashUpdate     |-> F("hash", "hash", <<"params", "data">>, <<>>),
   HashFinal      |-> F("hash", "hash", <<"params">>, <<"out">>),
   Mac            |-> F("sym", "mac", <<"params", "data">>, <<"aux", "out">>),
   SymEncrypt     |-> F("sym", "encrypt", <<"params", "data">>, <<"aux", "out">>),
   SymDecrypt     |-> F("sym", "decrypt", <<"params", "data">>, <<"aux", "out">>),
   AsymEncrypt    |-> F("asym", "encrypt", <<"params", "data">>, <<"out">>),
   AsymDecrypt    |-> F("asym", "decrypt", <<"params", "data">>, <<"out">>),
   GenerateKeyPair |-> F("key", "generate_key_pair", <<"params">>, <<>>),
   GenerateSymKey  |-> F("key", "import_key", <<"params">>, <<>>),
   ImportKey       |-> F("key", "import_key", <<"params", "data">>, <<>>),
   ExportPublicKey |-> F("key", "export_public_key", <<"params">>, <<"out">>),
   DestroyKey      |-> F("key", "destroy_key", <<"params">>, <<>>),
   GetKeyInfo      |-> F("key", "export_public_key", <<"params">>, <<"out">>),
   KemEncapsulate  |-> F("pqc", "kem_encap", <<"params">>, <<"aux", "out">>),
   KemDecapsulate  |-> F("pqc", "kem_decap", <<"params", "data">>, <<"out">>),
   KeyAgreementInit     |-> F("key", "generate_key_pair", <<"params", "self_id">>, <<"agreement_data">>),
   KeyAgreementComplete |-> F("key", "import_key", <<"params", "peer_data">>, <<"self_data">>),
   HybridKeyAgreement   |-> F("pqc", "kem_encap", <<"params", "peer">>, <<"transcript">>),
   Sign         |-> F("asym", "sign", <<"params", "data">>, <<"out">>),
   Verify       |-> F("asym", "verify", <<"params", "data">>, <<"aux">>),
   SignDigest   |-> F("asym", "sign", <<"params", "data">>, <<"out">>),
   VerifyDigest |-> F("asym", "verify", <<"params", "data">>, <<"aux">>),
   HybridSign   |-> F("asym", "sign", <<"params", "data">>, <<"signature">>),
   HybridVerify |-> F("asym", "verify", <<"params", "data">>, <<"signature">>)]

BareIndex == {"GenerateKeyPair", "GenerateSymKey"}

\* The functions that return CCM_ERR_INVALID_ARGUMENT for a key that is NULL,
\* with the number of keys they use and fill in; the others leave it out.
Required ==
  [GenerateKeyPair |-> <<0, 2>>, GenerateSymKey |-> <<0, 1>>,
   KeyAgreementInit |-> <<1, 1>>, KeyAgreementComplete |-> <<1, 1>>,
   HybridKeyAgreement |-> <<2, 1>>, HybridSign |-> <<2, 0>>, HybridVerify |-> <<2, 0>>]

\* The same of the other structures.
NotNull ==
  [GetCapability |-> {"capability"}, GenerateKeyPair |-> {"params"}, GenerateSymKey |-> {"params"},
   KeyAgreementInit |-> {"params", "self_id", "agreement_data"},
   KeyAgreementComplete |-> {"params", "peer_data", "self_data"},
   HybridKeyAgreement |-> {"params"}, HybridSign |-> {"params", "data", "signature"},
   HybridVerify |-> {"params", "data", "signature"}]

\* CCM_Sign and its three sisters call a Dilithium signature a pqc operation.
Domain(call) ==
  IF /\ call.function \in {"Sign", "Verify", "SignDigest", "VerifyDigest"}
     /\ Algorithm(call) \in 18 .. 20
  THEN "pqc" ELSE Functions[call.function].domain

KeyTokens(call) ==
  IF call.function \in BareIndex THEN << <<"key_index", call.index>> >> ELSE KeyRefs(call.keys)

\* The steps that HybridSign and HybridVerify write, and their width.
HybridSteps(action) ==
  [says  |-> << [op |-> <<"asym", action, "sm2">>, type |-> "classic"],
                [op |-> <<"pqc", action, "dilithium3">>, type |-> "pqc"] >>,
   width |-> 2 * StrLen(action) + StrLen("asym::classic:sm2>pqc::pqc:dilithium3")]

\* An argument that the function needs is NULL; CCM_GenerateRandom needs no
\* memory for no bytes.
Incomplete(call) ==
  \/ /\ call.function \in DOMAIN Required
     /\ <<Len(call.keys), Len(call.out)>> # Required[call.function]
  \/ /\ call.function \in DOMAIN NotNull
     /\ NotNull[call.function] \cap Absent(call) # {}
  \/ call.function = "GenerateRandom" /\ call.pointer = "(nil)" /\ call.number # "0"

Returns(call) ==
  IF Incomplete(call) THEN "CCM_ERR_INVALID_ARGUMENT"
  ELSE IF Algorithm(call) > Len(AlgorithmNames) THEN "CCM_ERR_UNSUPPORTED_ALGORITHM"
  ELSE "CCM_OK"

Word(text) == [says |-> text, width |-> StrLen(text)]

\* build_json: a field that is empty is left out.
Line(call) ==
  LET f == Functions[call.function]
      given == [request_id  |-> Word(call.function),
                domain      |-> Word(Domain(call)),
                action      |-> Word(f.action),
                algorithm   |-> Word(AlgorithmName(Algorithm(call))),
                key_ref     |-> Text(KeyTokens(call)),
                payload     |-> Text(Arguments(call, f.payload)),
                aux_payload |-> Text(Arguments(call, f.aux) \o KeyRefs(call.out)),
                sequence    |-> IF call.function \in {"HybridSign", "HybridVerify"}
                                THEN HybridSteps(f.action) ELSE Word("")]
  IN  [field \in {g \in DOMAIN given : given[g].width > 0} |-> given[field]]

\* The fields in the order in which build_json writes them, and the sender's.
FieldOrder ==
  <<"request_id", "domain", "action", "algorithm", "key_ref", "payload", "aux_payload",
    "device_hint", "preference", "sequence", "user_pin">>

\* The length of the line that the gateway reads: braces, and for each field
\* four quotes, a colon and, but for the last, a comma.
LineWidth(line) ==
  1 + SumOf([i \in 1 .. Len(FieldOrder) |->
               IF FieldOrder[i] \in DOMAIN line
               THEN StrLen(FieldOrder[i]) + line[FieldOrder[i]].width + 6 ELSE 0])

=============================================================================
