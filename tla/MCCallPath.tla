----------------------------- MODULE MCCallPath -----------------------------
(***************************************************************************)
(* CallPath over devices like those of src/configs, with the capabilities  *)
(* that some call below uses.  The gateway loads one of the two files      *)
(* there; here are the devices of both, the software library preferred to  *)
(* the hardware wherever it may be used, and gm3000-1 with classic and pqc *)
(* capabilities, as its line declares: a line short enough for the loader, *)
(* which drops the pqc ones from the shipped line (Config_real).  Every    *)
(* function is called, with keys of every source, with and without a       *)
(* device, with and without its parameters and buffers, and with ids,      *)
(* numbers and pointers of the greatest length; only the functions that    *)
(* use two keys have keys of short ids: two long ones do not fit the       *)
(* gateway's buffer.                                                       *)
(***************************************************************************)
EXTENDS CallPath

All == KeySources

Device(id, type, profile, priority, security, efficiency, caps) ==
  [id |-> id, type |-> type, profile |-> profile, priority |-> priority, enabled |-> TRUE,
   max |-> 1, security |-> security, efficiency |-> efficiency, caps |-> caps]

Shared ==
  {<<"device", "get_device_info", "auto", All>>, <<"device", "generate_random", "auto", All>>}
Sm2 ==
  {<<"asym", a, "sm2", All>> : a \in {"sign", "verify", "encrypt", "decrypt"}}
    \cup {<<"key", "generate_key_pair", "sm2", All>>, <<"key", "export_public_key", "sm2", All>>,
          <<"key", "import_key", "auto", All>>, <<"key", "destroy_key", "auto", All>>,
          <<"sym", "encrypt", "sm4-cbc", All>>, <<"sym", "decrypt", "sm4-cbc", All>>,
          <<"sym", "mac", "sm4-mac", All>>}
Pqc ==
  {<<"key", "generate_key_pair", "dilithium3", All>>, <<"pqc", "sign", "dilithium3", All>>,
   <<"pqc", "verify", "dilithium3", All>>, <<"pqc", "kem_encap", "mlkem768", All>>,
   <<"pqc", "kem_decap", "mlkem768", All>>}
Hash3 == {<<"hash", "hash", "sm3", All>>}

\* The GM3000 before classic-1, as strcmp orders their ids for the last
\* criterion of the ranking: 1 < 2 < 3 < 4.
MCDevices == <<
  Device(1, "classic", "swsds-classic", 100, 70, 95, Shared \cup Sm2 \cup Hash3),
  Device(3, "pqc", "swsds-pqc", 200, 98, 70, Shared \cup Pqc \cup Hash3),
  Device(4, "classic", "softlib", 50, 60, 100, {<<"asym", "sign", "sm2", {3}>>} \cup Hash3),
  Device(2, "classic", "gm3000-skf", 300, 90, 60, Shared \cup Sm2 \cup Pqc \cup Hash3) >>

\* An id of the greatest length, 63 characters.
LongId == "a123456789b123456789c123456789d123456789e123456789f123456789g12"

MCNumberOf ==
  [text \in {"", "classic-1", "gm3000-1", "pqc-1", "softlib-1", LongId} |->
     CASE text = "" -> 0 [] text = "classic-1" -> 1 [] text = "gm3000-1" -> 2
       [] text = "pqc-1" -> 3 [] text = "softlib-1" -> 4 [] OTHER -> 5]

SM2 == 1
SM3 == 7
SM4CBC == 9
SM4MAC == 11
MLKEM768 == 17
DILITHIUM3 == 19

Key(source, device) ==
  [alg |-> SM2, usage |-> 1, source |-> source, index |-> "1", handle |-> "(nil)",
   external |-> "(nil)", keyId |-> "", deviceId |-> device]

Wide(key) ==
  [key EXCEPT !.alg = 21, !.usage = 8, !.index = "4294967295", !.handle = "0x7fffffffffff",
              !.external = "0x7fffffffffff", !.keyId = LongId]

SomeKeys == {Key(s, d) : s \in 1 .. 4, d \in {"", "gm3000-1", "softlib-1"}}
            \cup {Wide(Key(s, d)) : s \in {1, 3}, d \in {"classic-1", LongId}}

Call(function, alg, keys) ==
  [function |-> function, alg |-> alg, keys |-> keys, out |-> <<>>, index |-> "7",
   number |-> "4294967295", pointer |-> "0x7fffffffffff", absent |-> {}]

Filling(call, n) == [call EXCEPT !.out = [i \in 1 .. n |-> Wide(Key(1, LongId))]]

Keyless ==
  {Call("GetCapability", 0, <<>>), Call("GenerateRandom", 0, <<>>), Call("Hash", SM3, <<>>),
   Call("HashInit", SM3, <<>>), Call("HashUpdate", 0, <<>>), Call("HashFinal", 0, <<>>),
   Call("Sign", SM2, <<>>), Call("DestroyKey", 0, <<>>), Call("Sign", 22, <<>>)}

Generating ==
  {Filling(Call("GenerateKeyPair", SM2, <<>>), 2), Filling(Call("GenerateSymKey", SM4CBC, <<>>), 1),
   Call("GenerateKeyPair", SM2, <<>>)}

SingleKey ==
  {Call(f, SM2, <<k>>) :
     f \in {"Sign", "Verify", "SignDigest", "VerifyDigest", "AsymEncrypt", "AsymDecrypt",
            "ImportKey", "ExportPublicKey", "DestroyKey", "GetKeyInfo"}, k \in SomeKeys}
    \cup {Call("Sign", DILITHIUM3, <<k>>) : k \in SomeKeys}
    \cup {Call("Mac", SM4MAC, <<k>>) : k \in SomeKeys}
    \cup {Call(f, SM4CBC, <<k>>) : f \in {"SymEncrypt", "SymDecrypt"}, k \in SomeKeys}
    \cup {Call(f, MLKEM768, <<k>>) : f \in {"KemEncapsulate", "KemDecapsulate"}, k \in SomeKeys}
    \cup {Filling(Call(f, SM2, <<k>>), 1) :
            f \in {"KeyAgreementInit", "KeyAgreementComplete"}, k \in SomeKeys}

\* Two keys that are not bound to different devices.
HybridAlike ==
  LET alike == {Key(1, "gm3000-1"), Key(1, ""), Key(3, "")}
  IN  {Call(f, SM2, <<k, k>>) : f \in {"HybridSign", "HybridVerify"}, k \in alike}
        \cup {Filling(Call("HybridKeyAgreement", MLKEM768, <<k, k>>), 1) : k \in alike}

\* Calls with structures that are NULL: some are refused, of the others the line
\* has less, and without the parameters the algorithm "auto".
Without(call, names) == [call EXCEPT !.absent = names]

WithNull ==
  LET key    == Key(1, "gm3000-1")
      single == Call("Sign", DILITHIUM3, <<key>>)
      agreed == Filling(Call("KeyAgreementInit", SM2, <<key>>), 1)
      hybrid == Call("HybridSign", SM2, <<key, key>>)
      shared == Filling(Call("HybridKeyAgreement", MLKEM768, <<key, key>>), 1)
      random == [Call("GenerateRandom", 0, <<>>) EXCEPT !.pointer = "(nil)"]
  IN  {Without(Call("GetCapability", 0, <<>>), {"capability"}), random, [random EXCEPT !.number = "0"],
       Without(Call("HashInit", SM3, <<>>), {"params"}), Without(Call("Hash", SM3, <<>>), {"data", "out"}),
       Without(Call("DestroyKey", 0, <<key>>), {"params"}),
       Without(single, {"params"}), Without(single, {"data", "out"}),
       Without(agreed, {"self_id"}), Without(hybrid, {"signature"}),
       Without(shared, {"params"}), Without(shared, {"peer", "transcript"})}

MCCalls == Keyless \cup Generating \cup SingleKey \cup HybridAlike \cup WithNull

TwoKeys ==
  {Call("HybridSign", SM2, <<Key(1, "gm3000-1"), [Key(1, "pqc-1") EXCEPT !.alg = DILITHIUM3]>>)}

=============================================================================
