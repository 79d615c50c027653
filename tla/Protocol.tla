------------------------------ MODULE Protocol ------------------------------
(***************************************************************************)
(* protocol.c and the key references of scheduler.c: what the gateway      *)
(* makes of one line of JSON.                                              *)
(*                                                                         *)
(* A line is a function from the names of the fields it has to texts.  A   *)
(* text is a record of what it says and of its width in characters: the    *)
(* parser treats a text that does not fit its buffer as if the field were  *)
(* absent.  Letter case and blanks, which the parser takes away, are left  *)
(* out.                                                                    *)
(***************************************************************************)
EXTENDS Naturals, Sequences

Domains == {"auth", "device", "key", "asym", "sym", "hash", "file", "pqc"}

Actions == {"check_pin", "get_device_info", "generate_random", "get_private_key_access",
            "release_private_key_access", "generate_key_pair", "export_public_key",
            "import_key", "destroy_key", "sign", "verify", "encrypt", "decrypt", "mac",
            "hash", "create_file", "read_file", "write_file", "delete_file",
            "kem_encap", "kem_decap"}

\* parse_device_type
DeviceType(text) == IF text \in {"classic", "pqc"} THEN text ELSE "unknown"

\* What names[n] lists are the ways to write n.
Named(names, text, otherwise) ==
  IF \E n \in DOMAIN names : text \in names[n]
  THEN CHOOSE n \in DOMAIN names : text \in names[n] ELSE otherwise

\* parse_preference
Preference(text) ==
  Named([secure        |-> {"secure", "safest"},
         efficient     |-> {"efficient", "fast", "highest_efficiency"},
         classic_first |-> {"classic_first"},
         pqc_first     |-> {"pqc_first"}], text, "balanced")

\* normalize_algorithm_name
NormalAlgorithm(text) ==
  Named([auto       |-> {"", "auto", "none"},
         kyber768   |-> {"kyber", "kyber-768"},
         mlkem768   |-> {"ml-kem-768", "mlkem"},
         dilithium3 |-> {"dilithium", "dilithium-3"}], text, text)

\* default_algorithm_for: of a request without the field.
DefaultAlgorithm(action) == IF action = "hash" THEN "sm3" ELSE "auto"

-----------------------------------------------------------------------------
\* A plausible error in the code: key_ref has the size of an identifier.
SizeShortKeyRef(field) ==
  CASE field \in {"request_id", "key_ref"} -> 64
    [] field \in {"payload", "aux_payload", "sequence"} -> 1024
    [] OTHER -> 256

\* The buffers of request_t, with the terminating zero.
Size(field) ==
  CASE field = "request_id" -> 64
    [] field \in {"payload", "aux_payload", "sequence"} -> 1024
    [] OTHER -> 256

\* extract_json_string succeeds.
Has(line, field) == field \in DOMAIN line /\ line[field].width < Size(field)

Field(line, field, otherwise) ==
  IF Has(line, field) THEN line[field].says ELSE otherwise

\* parse_request_json fails: the client is told that the request is bad.
Rejected(line) ==
  \/ \E field \in {"request_id", "domain", "action"} : ~Has(line, field)
  \/ line.domain.says \notin Domains
  \/ line.action.says \notin Actions

-----------------------------------------------------------------------------
(***************************************************************************)
(* What a key_ref says is a sequence of tokens <<name, value>>, written    *)
(* "name=value;name=value".                                                *)
(***************************************************************************)
\* key_ref_get_token: the first token of that name counts, even if empty.
Token(tokens, name) ==
  LET named == {i \in DOMAIN tokens : tokens[i][1] = name}
  IN  IF named = {} THEN ""
      ELSE tokens[CHOOSE i \in named : \A j \in named : i <= j][2]

\* A plausible error in the code: only the names of the sources are known,
\* not their numbers, which is how CCM writes them.
SourceByName(tokens) ==
  Named([i \in 1 .. 4 |-> {<<"internal_index", "session_handle", "external_key", "managed_key">>[i]}],
        Token(tokens, "source"), 0)

\* key_ref_source_value; 0 is a source that is absent or unknown.
Source(tokens) ==
  Named([i \in 1 .. 4 |->
           {<<"internal_index", "session_handle", "external_key", "managed_key">>[i],
            <<"1", "2", "3", "4">>[i]}],
        Token(tokens, "source"), 0)

=============================================================================
