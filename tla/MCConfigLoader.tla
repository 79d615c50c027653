--------------------------- MODULE MCConfigLoader ---------------------------
(***************************************************************************)
(* ConfigLoader over two kinds of files.                                   *)
(*                                                                         *)
(* Small ones, with a buffer of 56 characters, three capabilities and two  *)
(* devices as the limits: every list of up to four of six capabilities, of *)
(* three lengths and two of them malformed, so that the end of the buffer  *)
(* falls between two capabilities and into each part of one; files of one, *)
(* two and three devices with comments and incomplete lines between them.  *)
(*                                                                         *)
(* And the two files of src/configs with the limits of the code.           *)
(***************************************************************************)
EXTENDS ConfigLoader

Comment == [comment |-> TRUE, columns |-> 0]
Incomplete == [comment |-> FALSE, columns |-> 8]

Line(id, type, profile, priority, max, security, efficiency, enabled, list) ==
  [comment |-> FALSE, columns |-> 9, id |-> id, type |-> type, profile |-> profile,
   priority |-> priority, enabled |-> enabled, max |-> max, security |-> security,
   efficiency |-> efficiency, caps |-> list]

D(list) == Line("d", "classic", "p", 100, 1, 50, 50, "1", list)
E(list) == Line("e", "pqc", "q", 200, 2, 60, 40, "0", list)

Sign == <<"asym", "sign", "sm2">>
Hash == <<"hash", "hash", "sm3">>
Read == <<"file", "read_file", "auto">>
Soft == <<"asym", "sign", "sm2", "external_key">>
Mistyped == <<"asym", "sing", "sm2">>
Short == <<"asym", "sign">>

Lists == UNION {[1 .. n -> {Sign, Hash, Read, Soft, Mistyped, Short}] : n \in 1 .. 4}
GoodLists == UNION {[1 .. n -> {Sign, Soft}] : n \in 1 .. 3}

SmallFiles ==
  {NoFile, <<>>} \cup {<<Comment, D(list), Incomplete>> : list \in Lists}
    \cup {<<D(a), Comment, E(b)>> : a, b \in GoodLists}
    \cup {<<D(a), E(<<Hash>>), D(a)>> : a \in GoodLists}

PinLine(p) == <<"gateway_pin", p>>

SmallSettings ==
  {NoFile, <<>>, <<PinLine("123456")>>, << <<"other", "1">> >>,
   <<PinLine("123456"), PinLine("")>>, <<PinLine(""), <<"other", "1">>, PinLine("654321")>>}

DevicesConf == <<
  Comment,
  Line("classic-1", "classic", "swsds-classic", 100, 8, 70, 95, "1", <<
    <<"device", "get_device_info", "auto">>, <<"device", "generate_random", "auto">>,
    <<"key", "get_private_key_access", "auto">>,
    <<"key", "release_private_key_access", "auto">>, <<"key", "generate_key_pair", "sm2">>,
    <<"key", "generate_key_pair", "rsa">>, <<"key", "export_public_key", "sm2">>,
    <<"key", "import_key", "auto">>, <<"key", "destroy_key", "auto">>,
    <<"asym", "sign", "sm2">>, <<"asym", "verify", "sm2">>, <<"asym", "encrypt", "sm2">>,
    <<"asym", "decrypt", "sm2">>, <<"sym", "encrypt", "sm4-cbc">>,
    <<"sym", "decrypt", "sm4-cbc">>, <<"sym", "mac", "sm4-mac">>, <<"hash", "hash", "sm3">>,
    <<"file", "create_file", "auto">>, <<"file", "read_file", "auto">>,
    <<"file", "write_file", "auto">>, <<"file", "delete_file", "auto">> >>),
  Line("pqc-1", "pqc", "swsds-pqc", 200, 8, 98, 70, "1", <<
    <<"device", "get_device_info", "auto">>, <<"device", "generate_random", "auto">>,
    <<"key", "get_private_key_access", "auto">>,
    <<"key", "release_private_key_access", "auto">>,
    <<"key", "generate_key_pair", "dilithium3">>,
    <<"key", "generate_key_pair", "kyber768">>, <<"key", "generate_key_pair", "mlkem768">>,
    <<"pqc", "sign", "dilithium3">>, <<"pqc", "verify", "dilithium3">>,
    <<"pqc", "kem_encap", "kyber768">>, <<"pqc", "kem_decap", "kyber768">>,
    <<"pqc", "kem_encap", "mlkem768">>, <<"pqc", "kem_decap", "mlkem768">>,
    <<"hash", "hash", "sm3">>, <<"file", "create_file", "auto">>,
    <<"file", "read_file", "auto">>, <<"file", "write_file", "auto">>,
    <<"file", "delete_file", "auto">> >>),
  Line("softlib-1", "classic", "softlib", 300, 8, 60, 100, "1", <<
    <<"asym", "sign", "sm2", "external_key">>, <<"hash", "hash", "sm3">> >>) >>

Gm3000Conf == <<
  Comment,
  Line("gm3000-1", "classic", "gm3000-skf", 300, 1, 90, 60, "1", <<
    <<"device", "get_device_info", "auto">>, <<"device", "generate_random", "auto">>,
    <<"key", "get_private_key_access", "auto">>,
    <<"key", "release_private_key_access", "auto">>, <<"key", "generate_key_pair", "sm2">>,
    <<"key", "generate_key_pair", "rsa">>, <<"key", "generate_key_pair", "kyber768">>,
    <<"key", "generate_key_pair", "mlkem768">>,
    <<"key", "generate_key_pair", "dilithium3">>, <<"key", "export_public_key", "sm2">>,
    <<"key", "export_public_key", "rsa">>, <<"key", "import_key", "auto">>,
    <<"key", "destroy_key", "auto">>, <<"asym", "sign", "sm2">>,
    <<"asym", "verify", "sm2">>, <<"asym", "encrypt", "sm2">>, <<"asym", "decrypt", "sm2">>,
    <<"asym", "sign", "rsa">>, <<"asym", "verify", "rsa">>, <<"asym", "encrypt", "rsa">>,
    <<"asym", "decrypt", "rsa">>, <<"sym", "encrypt", "sm4-cbc">>,
    <<"sym", "decrypt", "sm4-cbc">>, <<"sym", "encrypt", "sm4-ecb">>,
    <<"sym", "decrypt", "sm4-ecb">>, <<"sym", "mac", "sm4-mac">>, <<"hash", "hash", "sm3">>,
    <<"hash", "hash", "sha256">>, <<"file", "create_file", "auto">>,
    <<"file", "read_file", "auto">>, <<"file", "write_file", "auto">>,
    <<"file", "delete_file", "auto">>, <<"pqc", "sign", "dilithium3">>,
    <<"pqc", "verify", "dilithium3">>, <<"pqc", "kem_encap", "kyber768">>,
    <<"pqc", "kem_decap", "kyber768">>, <<"pqc", "kem_encap", "mlkem768">>,
    <<"pqc", "kem_decap", "mlkem768">> >>) >>

RealFiles == {DevicesConf, Gm3000Conf}
RealSettings == {<<PinLine("123456")>>}
=============================================================================
